------------------------- MODULE StoreRecovery_proofs -------------------------
(***************************************************************************)
(* Proofs about StoreRecovery: an inductive invariant; from it that exports *)
(* leave whole files, that completed chunks have theirs, and that the       *)
(* store with its sidecars implements Recoverable; and that every run and   *)
(* every replay comes to its end.                                           *)
(***************************************************************************)
EXTENDS StoreRecovery, FiniteSetTheorems, TLAPS

USE DEF storeVars, exportVars

\* The file of c is whole, or a second loss may have revived its sidecar.
Backed(c) == Holds(file[c], Rows[c]) \/ (losses > 1 /\ c \in reopened)

\* The connection and the database agree but for what a run or a replay has
\* not committed, which never hides a completed row nor takes one away.
StoreInv ==
    /\ autocommit <=> pc \notin {"next", "fetch", "returned"}
    /\ autocommit => deferred = {}
    /\ pc \in {"idle", "import", "failing", "sidecars"} => tx = db
    /\ pc # "sidecars" => flush = {}
    /\ \A c \in Chunk : tx[c] = db[c] \/ (~IsCompleted(db[c]) /\ tx[c] # NoRow)
    /\ \A e \in deferred : IsCompleted(e.row) /\ tx[e.chunk] = e.row
    /\ \A e \in flush : IsCompleted(e.row) /\ db[e.chunk] = e.row

\* A chunk in work has a row, which is not completed.
WorkInv ==
    /\ pc \in {"idle", "sidecars", "replay"} => pend = {}
    /\ \A c \in pend : db[c] # NoRow /\ ~IsCompleted(db[c]) /\ ~IsCompleted(tx[c])

\* The file of the current chunk is what the export has written of it.
ExportInv ==
    /\ pc \in {"fetch", "returned"} => cur \in pend /\ read <= Rows[cur]
    /\ pc = "fetch" =>
          /\ opened <=> read > 0
          /\ opened => file[cur] = [headers |-> 1, rows |-> read,
                                    complete |-> ClosedByBatch(format)]
    /\ pc = "returned" => read = Rows[cur] /\ Holds(file[cur], Rows[cur])

\* What the rows, the sidecars and the files say of each other.
FileInv ==
    \A c \in Chunk :
        /\ IsCompleted(tx[c]) => tx[c] = Completed(Rows[c]) /\ Backed(c)
        /\ IsCompleted(db[c]) => tx[c] = db[c]
        /\ sidecar[c] # NoRow => /\ sidecar[c] = Completed(Rows[c])
                                 /\ Holds(file[c], Rows[c]) \/ c \in reopened
                                 /\ losses = 0 => IsCompleted(db[c])

\* A file is opened anew over its sidecar only after a loss, and then the
\* chunk has a row until the next one.
ReopenInv ==
    \A c \in reopened : losses > 0 /\ (losses = 1 => db[c] # NoRow)

RInv ==
    /\ TypeOK
    /\ StoreInv
    /\ WorkInv
    /\ ExportInv
    /\ FileInv
    /\ ReopenInv

-----------------------------------------------------------------------------
\* The rows the program writes are rows, and which of them are completed.
LEMMA RowFacts ==
    /\ NoRow \in Row /\ Running \in Row /\ Failed \in Row
    /\ \A n \in Nat : Completed(n) \in Row /\ IsCompleted(Completed(n)) /\ Completed(n) # NoRow
    /\ ~IsCompleted(Running) /\ ~IsCompleted(Failed) /\ ~IsCompleted(NoRow)
    /\ Running # NoRow /\ Failed # NoRow
  BY DEF NoRow, Running, Failed, Completed, Row, Status, IsCompleted

\* What the calls of a writer make of a file is a file.
LEMMA WriterTypes ==
    ASSUME NEW f \in File, NEW x \in Format, NEW o \in BOOLEAN, NEW n \in Nat
    PROVE  /\ WriteBatch(x, f, o, n) \in File
           /\ WriteEmpty(x) \in File
           /\ Close(x, f, o) \in File
           /\ Torn(x, f, o) \in File
<1>1. ClosedByBatch(x) \in BOOLEAN
  BY DEF ClosedByBatch
<1>. QED BY <1>1 DEF WriteBatch, WriteEmpty, Close, Torn, File, NoFile

-----------------------------------------------------------------------------
\* A file that fits its chunk may take the place of the current one.
LEMMA PutFileTypes ==
    ASSUME TypeOK, cur \in Chunk,
           NEW f \in File, f.headers <= 1, f.rows <= Rows[cur], PutFile(f)
    PROVE  /\ file' \in [Chunk -> File]
           /\ \A c \in Chunk : file'[c].headers <= 1 /\ file'[c].rows <= Rows[c]
           /\ reopened' \subseteq Chunk
  BY DEF TypeOK, PutFile

\* The initial state is well-typed.
LEMMA TypeInit == Init => TypeOK
<1>1. NoFile \in File /\ NoFile.headers = 0 /\ NoFile.rows = 0
  BY DEF NoFile, File
<1>2. MaxLosses \in Nat /\ \A c \in Chunk : Rows[c] \in Nat
  BY RecoveryAssumption
<1>3. NoRow \in Row
  BY RowFacts
<1>. SUFFICES ASSUME Init PROVE TypeOK
  OBVIOUS
<1>4. StoreTypeOK
  BY <1>3 DEF Init, StoreInit, StoreTypeOK
<1>5. /\ file \in [Chunk -> File]
      /\ \A c \in Chunk : file[c].headers <= 1 /\ file[c].rows <= Rows[c]
  BY <1>1, <1>2 DEF Init
<1>6. losses \in 0 .. MaxLosses /\ read \in Nat
  BY <1>2 DEF Init
<1>7. opened \in BOOLEAN
  BY DEF Init
<1>8. /\ pc \in {"idle", "import", "failing", "next", "fetch", "returned", "sidecars", "replay"}
      /\ format \in Format
      /\ pend \subseteq Chunk
      /\ cur \in Chunk \cup {NoChunk}
      /\ todo \subseteq Chunk
      /\ reopened \subseteq Chunk
  BY DEF Init
<1>. QED BY <1>4, <1>5, <1>6, <1>7, <1>8 DEF TypeOK

\* One step keeps the types.
LEMMA TypeStep == TypeOK /\ WorkInv /\ ExportInv /\ [Next]_vars => TypeOK'
<1>. SUFFICES ASSUME TypeOK, WorkInv, ExportInv, [Next]_vars PROVE TypeOK'
  OBVIOUS
<1>. USE RecoveryAssumption, RowFacts DEF TypeOK, StoreTypeOK
<1>1. ASSUME StartRun PROVE TypeOK'
  BY <1>1 DEF StartRun, UpsertBlock
<1>2. ASSUME OpenExports PROVE TypeOK'
  BY <1>2 DEF OpenExports, OpenBlock
<1>3. ASSUME ImportFails PROVE TypeOK'
  BY <1>3 DEF ImportFails
<1>4. ASSUME NEW c \in Chunk, MarkFailed(c) PROVE TypeOK'
  BY <1>4 DEF MarkFailed, UpsertNow, Failed, Entry
<1>5. ASSUME NEW c \in Chunk, BeginExport(c) PROVE TypeOK'
  BY <1>5 DEF BeginExport
<1>6. ASSUME FetchBatch PROVE TypeOK'
  <2>1. cur \in Chunk /\ Rows[cur] \in Nat /\ file[cur] \in File /\ BatchSize \in Nat
    BY <1>6 DEF FetchBatch, ExportInv, WorkInv
  <2>. DEFINE n == IF Rows[cur] - read < BatchSize THEN Rows[cur] - read ELSE BatchSize
              f == WriteBatch(format, file[cur], opened, n)
  <2>2. n \in Nat /\ n <= Rows[cur] - read
    BY <1>6, <2>1 DEF FetchBatch
  <2>3. f \in File
    BY <2>1, <2>2, WriterTypes
  <2>4. f.headers <= 1 /\ f.rows <= Rows[cur]
    BY <1>6, <2>1, <2>2 DEF WriteBatch, FetchBatch, ExportInv, File
  <2>5. PutFile(f) /\ read' = read + n
    BY <1>6 DEF FetchBatch
  <2>. HIDE DEF n, f
  <2>6. read' \in Nat
    BY <2>2, <2>5
  <2>7. /\ file' \in [Chunk -> File]
        /\ \A c \in Chunk : file'[c].headers <= 1 /\ file'[c].rows <= Rows[c]
        /\ reopened' \subseteq Chunk
    BY <2>1, <2>3, <2>4, <2>5, PutFileTypes
  <2>. QED BY <1>6, <2>6, <2>7 DEF FetchBatch
<1>7. ASSUME EndOfRows PROVE TypeOK'
  <2>1. cur \in Chunk /\ Rows[cur] \in Nat /\ file[cur] \in File
    BY <1>7 DEF EndOfRows, ExportInv, WorkInv
  <2>. DEFINE f == IF read = 0 THEN WriteEmpty(format) ELSE Close(format, file[cur], opened)
  <2>2. f \in File /\ f.headers <= 1 /\ f.rows <= Rows[cur]
    BY <2>1, WriterTypes DEF WriteEmpty, Close
  <2>3. PutFile(f)
    BY <1>7 DEF EndOfRows
  <2>. HIDE DEF f
  <2>4. /\ file' \in [Chunk -> File]
        /\ \A c \in Chunk : file'[c].headers <= 1 /\ file'[c].rows <= Rows[c]
        /\ reopened' \subseteq Chunk
    BY <2>1, <2>2, <2>3, PutFileTypes
  <2>. QED BY <1>7, <2>4 DEF EndOfRows
<1>8. ASSUME ExportFails PROVE TypeOK'
  <2>. DEFINE Puts == /\ file' \in [Chunk -> File]
                      /\ \A c \in Chunk : file'[c].headers <= 1 /\ file'[c].rows <= Rows[c]
                      /\ reopened' \subseteq Chunk
  <2>1. cur \in Chunk /\ Rows[cur] \in Nat /\ file[cur] \in File
    BY <1>8 DEF ExportFails, ExportInv, WorkInv
  <2>2. ASSUME PutFile(WriteEmpty(format)) PROVE Puts
    <3>1. /\ WriteEmpty(format) \in File
          /\ WriteEmpty(format).headers <= 1 /\ WriteEmpty(format).rows <= Rows[cur]
      BY <2>1 DEF WriteEmpty, File
    <3>. QED BY <2>1, <2>2, <3>1, PutFileTypes
  <2>3. ASSUME PutFile(Close(format, file[cur], opened)) PROVE Puts
    <3>1. /\ Close(format, file[cur], opened) \in File
          /\ Close(format, file[cur], opened).headers <= 1
          /\ Close(format, file[cur], opened).rows <= Rows[cur]
      BY <2>1, WriterTypes DEF Close
    <3>. QED BY <2>1, <2>3, <3>1, PutFileTypes
  <2>4. Puts
    BY <1>8, <2>2, <2>3 DEF ExportFails
  <2>. QED BY <1>8, <2>1, <2>4 DEF ExportFails, UpsertDeferred, EndExport, Failed, Entry
<1>9. ASSUME RecordCompleted PROVE TypeOK'
  <2>1. cur \in Chunk /\ Completed(read) \in Row
    BY <1>9 DEF RecordCompleted, ExportInv, WorkInv
  <2>2. [chunk |-> cur, row |-> Completed(read)] \in Entry
    BY <2>1 DEF Entry
  <2>3. tx' \in [Chunk -> Row] /\ deferred' \subseteq Entry
    BY <1>9, <2>1, <2>2 DEF RecordCompleted, UpsertDeferred
  <2>. QED BY <1>9, <2>3 DEF RecordCompleted, UpsertDeferred, EndExport
<1>10. ASSUME CommitExports PROVE TypeOK'
  BY <1>10 DEF CommitExports, CommitBlock
<1>11. ASSUME CommitFails PROVE TypeOK'
  BY <1>11 DEF CommitFails, CloseStore
<1>12. ASSUME NEW e \in flush, Sidecar(e) PROVE TypeOK'
  BY <1>12 DEF Sidecar, PutSidecar, SidecarError, Entry
<1>13. ASSUME EndRun PROVE TypeOK'
  BY <1>13 DEF EndRun
<1>14. ASSUME LoseDatabase PROVE TypeOK'
  BY <1>14 DEF LoseDatabase
<1>15. ASSUME StartReplay PROVE TypeOK'
  BY <1>15 DEF StartReplay
<1>16. ASSUME NEW c \in Chunk, ReplaySidecar(c) PROVE TypeOK'
  BY <1>16 DEF ReplaySidecar
<1>17. ASSUME NEW c \in Chunk, SkipSidecar(c) PROVE TypeOK'
  BY <1>17 DEF SkipSidecar
<1>18. ASSUME CommitReplay PROVE TypeOK'
  BY <1>18 DEF CommitReplay
<1>19. ASSUME Crash PROVE TypeOK'
  <2>1. ASSUME pc = "fetch", PutFile(Torn(format, file[cur], opened))
        PROVE  /\ file' \in [Chunk -> File]
               /\ \A c \in Chunk : file'[c].headers <= 1 /\ file'[c].rows <= Rows[c]
               /\ reopened' \subseteq Chunk
    <3>1. cur \in Chunk /\ Rows[cur] \in Nat /\ file[cur] \in File
      BY <2>1 DEF ExportInv, WorkInv
    <3>2. /\ Torn(format, file[cur], opened) \in File
          /\ Torn(format, file[cur], opened).headers <= 1
          /\ Torn(format, file[cur], opened).rows <= Rows[cur]
      BY <3>1, WriterTypes DEF Torn, NoFile
    <3>. QED BY <2>1, <3>1, <3>2, PutFileTypes
  <2>. QED BY <1>19, <2>1 DEF Crash, CloseStore
<1>20. CASE UNCHANGED vars
  BY <1>20 DEF vars
<1>. QED
  BY <1>1, <1>2, <1>3, <1>4, <1>5, <1>6, <1>7, <1>8, <1>9, <1>10, <1>11, <1>12, <1>13,
     <1>14, <1>15, <1>16, <1>17, <1>18, <1>19, <1>20 DEF Next, ProcessStep

-----------------------------------------------------------------------------
\* Connection, database and what is deferred.
LEMMA StoreStep == RInv /\ [Next]_vars => StoreInv'
<1>. SUFFICES ASSUME RInv, [Next]_vars PROVE StoreInv'
  OBVIOUS
<1>. USE RecoveryAssumption, RowFacts DEF RInv, TypeOK, StoreTypeOK
<1>1. ASSUME StartRun PROVE StoreInv'
  BY <1>1 DEF StartRun, UpsertBlock, StoreInv, WorkInv, ExportInv
<1>2. ASSUME OpenExports PROVE StoreInv'
  BY <1>2 DEF OpenExports, OpenBlock, StoreInv, WorkInv, ExportInv
<1>3. ASSUME ImportFails PROVE StoreInv'
  BY <1>3 DEF ImportFails, StoreInv, WorkInv, ExportInv
<1>4. ASSUME NEW c \in Chunk, MarkFailed(c) PROVE StoreInv'
  BY <1>4 DEF MarkFailed, UpsertNow, Failed, IsCompleted, StoreInv, WorkInv
<1>5. ASSUME NEW c \in Chunk, BeginExport(c) PROVE StoreInv'
  BY <1>5 DEF BeginExport, StoreInv, WorkInv, ExportInv
<1>6. ASSUME FetchBatch PROVE StoreInv'
  BY <1>6 DEF FetchBatch, PutFile, StoreInv, WorkInv, ExportInv
<1>7. ASSUME EndOfRows PROVE StoreInv'
  BY <1>7 DEF EndOfRows, PutFile, StoreInv, WorkInv, ExportInv
<1>8. ASSUME ExportFails PROVE StoreInv'
  BY <1>8
     DEF ExportFails, UpsertDeferred, EndExport, Failed, IsCompleted, StoreInv, WorkInv,
              ExportInv
<1>9. ASSUME RecordCompleted PROVE StoreInv'
  BY <1>9 DEF RecordCompleted, UpsertDeferred, EndExport, StoreInv, WorkInv, ExportInv
<1>10. ASSUME CommitExports PROVE StoreInv'
  BY <1>10 DEF CommitExports, CommitBlock, StoreInv, WorkInv, ExportInv
<1>11. ASSUME CommitFails PROVE StoreInv'
  BY <1>11 DEF CommitFails, CloseStore, StoreInv, WorkInv, ExportInv
<1>12. ASSUME NEW e \in flush, Sidecar(e) PROVE StoreInv'
  BY <1>12 DEF Sidecar, PutSidecar, SidecarError, StoreInv, WorkInv, ExportInv
<1>13. ASSUME EndRun PROVE StoreInv'
  BY <1>13 DEF EndRun, StoreInv, WorkInv, ExportInv
<1>14. ASSUME LoseDatabase PROVE StoreInv'
  BY <1>14 DEF LoseDatabase, StoreInv, WorkInv, ExportInv
<1>15. ASSUME StartReplay PROVE StoreInv'
  BY <1>15 DEF StartReplay, StoreInv, WorkInv, ExportInv
<1>16. ASSUME NEW c \in Chunk, ReplaySidecar(c) PROVE StoreInv'
  BY <1>16 DEF ReplaySidecar, StoreInv, WorkInv, ExportInv
<1>17. ASSUME NEW c \in Chunk, SkipSidecar(c) PROVE StoreInv'
  BY <1>17 DEF SkipSidecar, StoreInv, WorkInv, ExportInv
<1>18. ASSUME CommitReplay PROVE StoreInv'
  BY <1>18 DEF CommitReplay, StoreInv, WorkInv, ExportInv
<1>19. ASSUME Crash PROVE StoreInv'
  BY <1>19 DEF Crash, CloseStore, PutFile, StoreInv, WorkInv, ExportInv
<1>20. CASE UNCHANGED vars
  BY <1>20 DEF vars, StoreInv, WorkInv, ExportInv
<1>. QED
  BY <1>1, <1>2, <1>3, <1>4, <1>5, <1>6, <1>7, <1>8, <1>9, <1>10, <1>11, <1>12, <1>13,
     <1>14, <1>15, <1>16, <1>17, <1>18, <1>19, <1>20 DEF Next, ProcessStep

\* The chunks in work.
LEMMA WorkStep == RInv /\ [Next]_vars => WorkInv'
<1>. SUFFICES ASSUME RInv, [Next]_vars PROVE WorkInv'
  OBVIOUS
<1>. USE RecoveryAssumption, RowFacts DEF RInv, TypeOK, StoreTypeOK
<1>1. ASSUME StartRun PROVE WorkInv'
  BY <1>1 DEF StartRun, UpsertBlock, StoreInv, WorkInv, ExportInv
<1>2. ASSUME OpenExports PROVE WorkInv'
  BY <1>2 DEF OpenExports, OpenBlock, StoreInv, WorkInv, ExportInv
<1>3. ASSUME ImportFails PROVE WorkInv'
  BY <1>3 DEF ImportFails, StoreInv, WorkInv, ExportInv
<1>4. ASSUME NEW c \in Chunk, MarkFailed(c) PROVE WorkInv'
  BY <1>4 DEF MarkFailed, UpsertNow, StoreInv, WorkInv, ExportInv
<1>5. ASSUME NEW c \in Chunk, BeginExport(c) PROVE WorkInv'
  BY <1>5 DEF BeginExport, StoreInv, WorkInv, ExportInv
<1>6. ASSUME FetchBatch PROVE WorkInv'
  BY <1>6 DEF FetchBatch, PutFile, StoreInv, WorkInv, ExportInv
<1>7. ASSUME EndOfRows PROVE WorkInv'
  BY <1>7 DEF EndOfRows, PutFile, StoreInv, WorkInv, ExportInv
<1>8. ASSUME ExportFails PROVE WorkInv'
  BY <1>8 DEF ExportFails, PutFile, UpsertDeferred, EndExport, StoreInv, WorkInv, ExportInv
<1>9. ASSUME RecordCompleted PROVE WorkInv'
  BY <1>9 DEF RecordCompleted, UpsertDeferred, EndExport, StoreInv, WorkInv, ExportInv
<1>10. ASSUME CommitExports PROVE WorkInv'
  BY <1>10 DEF CommitExports, CommitBlock, StoreInv, WorkInv, ExportInv
<1>11. ASSUME CommitFails PROVE WorkInv'
  BY <1>11 DEF CommitFails, CloseStore, StoreInv, WorkInv, ExportInv
<1>12. ASSUME NEW e \in flush, Sidecar(e) PROVE WorkInv'
  BY <1>12 DEF Sidecar, PutSidecar, SidecarError, StoreInv, WorkInv, ExportInv
<1>13. ASSUME EndRun PROVE WorkInv'
  BY <1>13 DEF EndRun, StoreInv, WorkInv, ExportInv
<1>14. ASSUME LoseDatabase PROVE WorkInv'
  BY <1>14 DEF LoseDatabase, StoreInv, WorkInv, ExportInv
<1>15. ASSUME StartReplay PROVE WorkInv'
  BY <1>15 DEF StartReplay, StoreInv, WorkInv, ExportInv
<1>16. ASSUME NEW c \in Chunk, ReplaySidecar(c) PROVE WorkInv'
  BY <1>16 DEF ReplaySidecar, StoreInv, WorkInv, ExportInv
<1>17. ASSUME NEW c \in Chunk, SkipSidecar(c) PROVE WorkInv'
  BY <1>17 DEF SkipSidecar, StoreInv, WorkInv, ExportInv
<1>18. ASSUME CommitReplay PROVE WorkInv'
  BY <1>18 DEF CommitReplay, StoreInv, WorkInv, ExportInv
<1>19. ASSUME Crash PROVE WorkInv'
  BY <1>19 DEF Crash, CloseStore, PutFile, StoreInv, WorkInv, ExportInv
<1>20. CASE UNCHANGED vars
  BY <1>20 DEF vars, StoreInv, WorkInv, ExportInv
<1>. QED
  BY <1>1, <1>2, <1>3, <1>4, <1>5, <1>6, <1>7, <1>8, <1>9, <1>10, <1>11, <1>12, <1>13,
     <1>14, <1>15, <1>16, <1>17, <1>18, <1>19, <1>20 DEF Next, ProcessStep

\* The file being written.
LEMMA ExportStep == RInv /\ [Next]_vars => ExportInv'
<1>. SUFFICES ASSUME RInv, [Next]_vars PROVE ExportInv'
  OBVIOUS
<1>. USE RecoveryAssumption, RowFacts DEF RInv, TypeOK, StoreTypeOK
<1>1. ASSUME StartRun PROVE ExportInv'
  BY <1>1 DEF StartRun, UpsertBlock, StoreInv, WorkInv, ExportInv
<1>2. ASSUME OpenExports PROVE ExportInv'
  BY <1>2 DEF OpenExports, OpenBlock, StoreInv, WorkInv, ExportInv
<1>3. ASSUME ImportFails PROVE ExportInv'
  BY <1>3 DEF ImportFails, StoreInv, WorkInv, ExportInv
<1>4. ASSUME NEW c \in Chunk, MarkFailed(c) PROVE ExportInv'
  BY <1>4 DEF MarkFailed, UpsertNow, StoreInv, WorkInv, ExportInv
<1>5. ASSUME NEW c \in Chunk, BeginExport(c) PROVE ExportInv'
  BY <1>5 DEF BeginExport, StoreInv, WorkInv, ExportInv
<1>6. ASSUME FetchBatch PROVE ExportInv'
  <2>. DEFINE n == IF Rows[cur] - read < BatchSize THEN Rows[cur] - read ELSE BatchSize
  <2>1. cur \in Chunk /\ cur \in pend /\ Rows[cur] \in Nat /\ BatchSize \in Nat \ {0}
    BY <1>6 DEF FetchBatch, ExportInv, WorkInv
  <2>2. n \in Nat \ {0} /\ n <= Rows[cur] - read
    BY <1>6, <2>1 DEF FetchBatch
  <2>3. /\ read' = read + n /\ opened' = TRUE
        /\ file'[cur] = WriteBatch(format, file[cur], opened, n)
    BY <1>6, <2>1 DEF FetchBatch, PutFile
  <2>. HIDE DEF n
  <2>4. file'[cur] = [headers |-> 1, rows |-> read', complete |-> ClosedByBatch(format)]
    BY <1>6, <2>2, <2>3 DEF FetchBatch, ExportInv, WriteBatch
  <2>. QED BY <1>6, <2>1, <2>2, <2>3, <2>4 DEF FetchBatch, ExportInv
<1>7. ASSUME EndOfRows PROVE ExportInv'
  <2>1. cur \in Chunk /\ cur \in pend /\ read = Rows[cur]
    BY <1>7 DEF EndOfRows, ExportInv, WorkInv
  <2>2. file'[cur] = IF read = 0 THEN WriteEmpty(format) ELSE Close(format, file[cur], opened)
    BY <1>7, <2>1 DEF EndOfRows, PutFile
  <2>3. Holds(file'[cur], Rows[cur])
    <3>1. CASE read = 0
      BY <2>1, <2>2, <3>1 DEF Holds, WriteEmpty
    <3>2. CASE read # 0
      <4>1. opened /\ file[cur].headers = 1 /\ file[cur].rows = Rows[cur]
        BY <1>7, <2>1, <3>2 DEF EndOfRows, ExportInv
      <4>. QED BY <2>2, <3>2, <4>1 DEF Holds, Close
    <3>. QED BY <3>1, <3>2
  <2>. QED BY <1>7, <2>1, <2>3 DEF EndOfRows, ExportInv
<1>8. ASSUME ExportFails PROVE ExportInv'
  BY <1>8 DEF ExportFails, PutFile, UpsertDeferred, EndExport, StoreInv, WorkInv, ExportInv
<1>9. ASSUME RecordCompleted PROVE ExportInv'
  BY <1>9 DEF RecordCompleted, UpsertDeferred, EndExport, StoreInv, WorkInv, ExportInv
<1>10. ASSUME CommitExports PROVE ExportInv'
  BY <1>10 DEF CommitExports, CommitBlock, StoreInv, WorkInv, ExportInv
<1>11. ASSUME CommitFails PROVE ExportInv'
  BY <1>11 DEF CommitFails, CloseStore, StoreInv, WorkInv, ExportInv
<1>12. ASSUME NEW e \in flush, Sidecar(e) PROVE ExportInv'
  BY <1>12 DEF Sidecar, PutSidecar, SidecarError, StoreInv, WorkInv, ExportInv
<1>13. ASSUME EndRun PROVE ExportInv'
  BY <1>13 DEF EndRun, StoreInv, WorkInv, ExportInv
<1>14. ASSUME LoseDatabase PROVE ExportInv'
  BY <1>14 DEF LoseDatabase, StoreInv, WorkInv, ExportInv
<1>15. ASSUME StartReplay PROVE ExportInv'
  BY <1>15 DEF StartReplay, StoreInv, WorkInv, ExportInv
<1>16. ASSUME NEW c \in Chunk, ReplaySidecar(c) PROVE ExportInv'
  BY <1>16 DEF ReplaySidecar, StoreInv, WorkInv, ExportInv
<1>17. ASSUME NEW c \in Chunk, SkipSidecar(c) PROVE ExportInv'
  BY <1>17 DEF SkipSidecar, StoreInv, WorkInv, ExportInv
<1>18. ASSUME CommitReplay PROVE ExportInv'
  BY <1>18 DEF CommitReplay, StoreInv, WorkInv, ExportInv
<1>19. ASSUME Crash PROVE ExportInv'
  BY <1>19 DEF Crash, CloseStore, PutFile, StoreInv, WorkInv, ExportInv
<1>20. CASE UNCHANGED vars
  BY <1>20 DEF vars, StoreInv, WorkInv, ExportInv
<1>. QED
  BY <1>1, <1>2, <1>3, <1>4, <1>5, <1>6, <1>7, <1>8, <1>9, <1>10, <1>11, <1>12, <1>13,
     <1>14, <1>15, <1>16, <1>17, <1>18, <1>19, <1>20 DEF Next, ProcessStep

\* What was opened over a sidecar.
LEMMA ReopenStep == RInv /\ [Next]_vars => ReopenInv'
<1>. SUFFICES ASSUME RInv, [Next]_vars PROVE ReopenInv'
  OBVIOUS
<1>. USE RecoveryAssumption, RowFacts DEF RInv, TypeOK, StoreTypeOK
<1>1. ASSUME StartRun PROVE ReopenInv'
  BY <1>1 DEF StartRun, UpsertBlock, StoreInv, WorkInv, ExportInv, FileInv, ReopenInv
<1>2. ASSUME OpenExports PROVE ReopenInv'
  BY <1>2 DEF OpenExports, OpenBlock, StoreInv, WorkInv, ExportInv, FileInv, ReopenInv
<1>3. ASSUME ImportFails PROVE ReopenInv'
  BY <1>3 DEF ImportFails, StoreInv, WorkInv, ExportInv, FileInv, ReopenInv
<1>4. ASSUME NEW c \in Chunk, MarkFailed(c) PROVE ReopenInv'
  BY <1>4 DEF MarkFailed, UpsertNow, StoreInv, WorkInv, ExportInv, FileInv, ReopenInv
<1>5. ASSUME NEW c \in Chunk, BeginExport(c) PROVE ReopenInv'
  BY <1>5 DEF BeginExport, StoreInv, WorkInv, ExportInv, FileInv, ReopenInv
<1>6. ASSUME FetchBatch PROVE ReopenInv'
  BY <1>6 DEF FetchBatch, PutFile, StoreInv, WorkInv, ExportInv, FileInv, ReopenInv
<1>7. ASSUME EndOfRows PROVE ReopenInv'
  BY <1>7 DEF EndOfRows, PutFile, StoreInv, WorkInv, ExportInv, FileInv, ReopenInv
<1>8. ASSUME ExportFails PROVE ReopenInv'
  BY <1>8
     DEF ExportFails, PutFile, UpsertDeferred, EndExport, StoreInv, WorkInv, ExportInv,
         FileInv, ReopenInv
<1>9. ASSUME RecordCompleted PROVE ReopenInv'
  BY <1>9
     DEF RecordCompleted, UpsertDeferred, EndExport, StoreInv, WorkInv, ExportInv,
         FileInv, ReopenInv
<1>10. ASSUME CommitExports PROVE ReopenInv'
  BY <1>10 DEF CommitExports, CommitBlock, StoreInv, WorkInv, ExportInv, FileInv, ReopenInv
<1>11. ASSUME CommitFails PROVE ReopenInv'
  BY <1>11 DEF CommitFails, CloseStore, StoreInv, WorkInv, ExportInv, FileInv, ReopenInv
<1>12. ASSUME NEW e \in flush, Sidecar(e) PROVE ReopenInv'
  BY <1>12
     DEF Sidecar, PutSidecar, SidecarError, StoreInv, WorkInv, ExportInv, FileInv,
         ReopenInv
<1>13. ASSUME EndRun PROVE ReopenInv'
  BY <1>13 DEF EndRun, StoreInv, WorkInv, ExportInv, FileInv, ReopenInv
<1>14. ASSUME LoseDatabase PROVE ReopenInv'
  BY <1>14 DEF LoseDatabase, StoreInv, WorkInv, ExportInv, FileInv, ReopenInv
<1>15. ASSUME StartReplay PROVE ReopenInv'
  BY <1>15 DEF StartReplay, StoreInv, WorkInv, ExportInv, FileInv, ReopenInv
<1>16. ASSUME NEW c \in Chunk, ReplaySidecar(c) PROVE ReopenInv'
  BY <1>16 DEF ReplaySidecar, StoreInv, WorkInv, ExportInv, FileInv, ReopenInv
<1>17. ASSUME NEW c \in Chunk, SkipSidecar(c) PROVE ReopenInv'
  BY <1>17 DEF SkipSidecar, StoreInv, WorkInv, ExportInv, FileInv, ReopenInv
<1>18. ASSUME CommitReplay PROVE ReopenInv'
  BY <1>18 DEF CommitReplay, StoreInv, WorkInv, ExportInv, FileInv, ReopenInv
<1>19. ASSUME Crash PROVE ReopenInv'
  BY <1>19 DEF Crash, CloseStore, PutFile, StoreInv, WorkInv, ExportInv, FileInv, ReopenInv
<1>20. CASE UNCHANGED vars
  BY <1>20 DEF vars, StoreInv, WorkInv, ExportInv, FileInv, ReopenInv
<1>. QED
  BY <1>1, <1>2, <1>3, <1>4, <1>5, <1>6, <1>7, <1>8, <1>9, <1>10, <1>11, <1>12, <1>13,
     <1>14, <1>15, <1>16, <1>17, <1>18, <1>19, <1>20 DEF Next, ProcessStep

\* Rows, sidecars and files.
LEMMA FileStep == RInv /\ [Next]_vars => FileInv'
<1>. SUFFICES ASSUME RInv, [Next]_vars PROVE FileInv'
  OBVIOUS
<1>. USE RecoveryAssumption, RowFacts DEF RInv, TypeOK, StoreTypeOK
<1>1. ASSUME StartRun PROVE FileInv'
  BY <1>1
     DEF StartRun, UpsertBlock, StoreInv, WorkInv, ExportInv, FileInv, ReopenInv, Backed
<1>2. ASSUME OpenExports PROVE FileInv'
  BY <1>2
     DEF OpenExports, OpenBlock, StoreInv, WorkInv, ExportInv, FileInv, ReopenInv,
         Backed
<1>3. ASSUME ImportFails PROVE FileInv'
  BY <1>3 DEF ImportFails, StoreInv, WorkInv, ExportInv, FileInv, ReopenInv, Backed
<1>4. ASSUME NEW c \in Chunk, MarkFailed(c) PROVE FileInv'
  BY <1>4
     DEF MarkFailed, UpsertNow, StoreInv, WorkInv, ExportInv, FileInv, ReopenInv, Backed
<1>5. ASSUME NEW c \in Chunk, BeginExport(c) PROVE FileInv'
  BY <1>5 DEF BeginExport, StoreInv, WorkInv, ExportInv, FileInv, ReopenInv, Backed
<1>6. ASSUME FetchBatch PROVE FileInv'
  BY <1>6 DEF FetchBatch, PutFile, StoreInv, WorkInv, ExportInv, FileInv, ReopenInv, Backed
<1>7. ASSUME EndOfRows PROVE FileInv'
  BY <1>7 DEF EndOfRows, PutFile, StoreInv, WorkInv, ExportInv, FileInv, ReopenInv, Backed
<1>8. ASSUME ExportFails PROVE FileInv'
  BY <1>8
     DEF ExportFails, PutFile, UpsertDeferred, EndExport, StoreInv, WorkInv, ExportInv,
         FileInv, ReopenInv, Backed
<1>9. ASSUME RecordCompleted PROVE FileInv'
  BY <1>9
     DEF RecordCompleted, UpsertDeferred, EndExport, StoreInv, WorkInv, ExportInv,
         FileInv, ReopenInv, Backed
<1>10. ASSUME CommitExports PROVE FileInv'
  BY <1>10
     DEF CommitExports, CommitBlock, StoreInv, WorkInv, ExportInv, FileInv, ReopenInv,
         Backed
<1>11. ASSUME CommitFails PROVE FileInv'
  BY <1>11
     DEF CommitFails, CloseStore, StoreInv, WorkInv, ExportInv, FileInv, ReopenInv,
         Backed
<1>12. ASSUME NEW e \in flush, Sidecar(e) PROVE FileInv'
  <2>1. e.chunk \in Chunk /\ IsCompleted(e.row) /\ db[e.chunk] = e.row
    BY <1>12 DEF Sidecar, StoreInv, Entry
  <2>2. e.row = Completed(Rows[e.chunk]) /\ Backed(e.chunk)
    BY <2>1 DEF FileInv
  <2>3. UNCHANGED <<tx, db, file, losses, reopened>>
    BY <1>12 DEF Sidecar, PutSidecar, SidecarError
  <2>4. CASE UNCHANGED sidecar
    BY <2>3, <2>4 DEF FileInv, Backed
  <2>5. CASE PutSidecar(e)
    BY <2>1, <2>2, <2>3, <2>5 DEF PutSidecar, FileInv, Backed
  <2>. QED BY <1>12, <2>4, <2>5 DEF Sidecar, SidecarError
<1>13. ASSUME EndRun PROVE FileInv'
  BY <1>13 DEF EndRun, StoreInv, WorkInv, ExportInv, FileInv, ReopenInv, Backed
<1>14. ASSUME LoseDatabase PROVE FileInv'
  BY <1>14 DEF LoseDatabase, StoreInv, WorkInv, ExportInv, FileInv, ReopenInv, Backed
<1>15. ASSUME StartReplay PROVE FileInv'
  BY <1>15 DEF StartReplay, StoreInv, WorkInv, ExportInv, FileInv, ReopenInv, Backed
<1>16. ASSUME NEW c \in Chunk, ReplaySidecar(c) PROVE FileInv'
  BY <1>16 DEF ReplaySidecar, StoreInv, WorkInv, ExportInv, FileInv, ReopenInv, Backed
<1>17. ASSUME NEW c \in Chunk, SkipSidecar(c) PROVE FileInv'
  BY <1>17 DEF SkipSidecar, StoreInv, WorkInv, ExportInv, FileInv, ReopenInv, Backed
<1>18. ASSUME CommitReplay PROVE FileInv'
  BY <1>18 DEF CommitReplay, StoreInv, WorkInv, ExportInv, FileInv, ReopenInv, Backed
<1>19. ASSUME Crash PROVE FileInv'
  BY <1>19
     DEF Crash, CloseStore, PutFile, StoreInv, WorkInv, ExportInv, FileInv, ReopenInv,
         Backed
<1>20. CASE UNCHANGED vars
  BY <1>20 DEF vars, StoreInv, WorkInv, ExportInv, FileInv, ReopenInv, Backed
<1>. QED
  BY <1>1, <1>2, <1>3, <1>4, <1>5, <1>6, <1>7, <1>8, <1>9, <1>10, <1>11, <1>12, <1>13,
     <1>14, <1>15, <1>16, <1>17, <1>18, <1>19, <1>20 DEF Next, ProcessStep

-----------------------------------------------------------------------------
\* The parts of RInv put together: it holds at first ...
LEMMA RInvInit == Init => RInv
<1>. SUFFICES ASSUME Init PROVE RInv
  OBVIOUS
<1>1. StoreInv /\ FileInv
  BY RowFacts DEF Init, StoreInit, StoreInv, FileInv
<1>2. WorkInv /\ ExportInv /\ ReopenInv
  BY DEF Init, WorkInv, ExportInv, ReopenInv
<1>. QED BY <1>1, <1>2, TypeInit DEF RInv

\* ... and one step keeps it.
LEMMA RInvStep == RInv /\ [Next]_vars => RInv'
  BY TypeStep, StoreStep, WorkStep, ExportStep, ReopenStep, FileStep DEF RInv

\* The invariant holds in every execution.
THEOREM Invariance == Spec => []RInv
  BY RInvInit, RInvStep, PTL DEF Spec

\* Type correctness; no file ever has a second header or a row too many.
THEOREM TypeCorrect == Spec => []TypeOK
<1>1. RInv => TypeOK
  BY DEF RInv
<1>. QED BY <1>1, Invariance, PTL

\* An export that returns has left one whole file, in every format and for
\* every number of rows and batch size.
THEOREM ExportsAreWhole == Spec => []ReturnedExportIsWhole
<1>1. RInv => ReturnedExportIsWhole
  BY DEF RInv, ExportInv, ReturnedExportIsWhole
<1>. QED BY <1>1, Invariance, PTL

\* A completed chunk has its whole file unless the database was lost twice,
\* whatever was killed, skipped or overwritten on the way.
THEOREM CompletedBacked == Spec => []CompletedIsBacked
<1>1. RInv => CompletedIsBacked
  BY DEF RInv, FileInv, Backed, CompletedIsBacked
<1>. QED BY <1>1, Invariance, PTL

-----------------------------------------------------------------------------
(***************************************************************************)
(* StoreRecovery implements Recoverable.                                   *)
(***************************************************************************)

\* Where completions that are not committed come from: in the block of the
\* exports from an export that returned, in a replay from a sidecar.
OriginInv ==
    /\ pc \in {"next", "fetch", "returned"} =>
          \A c \in Chunk :
              IsCompleted(tx[c]) /\ ~IsCompleted(db[c]) => Holds(file[c], Rows[c])
    /\ pc = "replay" =>
          /\ \A c \in todo : sidecar[c] # NoRow
          /\ \A c \in Chunk :
                IsCompleted(tx[c]) /\ ~IsCompleted(db[c]) => sidecar[c] # NoRow

\* It holds at first.
LEMMA OriginInit == Init => OriginInv
  BY DEF Init, OriginInv

\* One step keeps it.
LEMMA OriginStep == RInv /\ OriginInv /\ [Next]_vars => OriginInv'
<1>. SUFFICES ASSUME RInv, OriginInv, [Next]_vars PROVE OriginInv'
  OBVIOUS
<1>. USE RowFacts DEF RInv, TypeOK, StoreTypeOK
<1>1. ASSUME OpenExports PROVE OriginInv'
  BY <1>1 DEF OpenExports, OpenBlock, StoreInv, OriginInv
<1>2. ASSUME NEW c \in Chunk, BeginExport(c) PROVE OriginInv'
  BY <1>2 DEF BeginExport, OriginInv
<1>3. ASSUME FetchBatch \/ EndOfRows PROVE OriginInv'
  <2>1. cur \in pend /\ ~IsCompleted(tx[cur])
    BY <1>3 DEF FetchBatch, EndOfRows, ExportInv, WorkInv
  <2>2. /\ pc = "fetch" /\ pc' \in {"fetch", "returned"}
        /\ UNCHANGED <<db, tx>>
        /\ \A c \in Chunk \ {cur} : file'[c] = file[c]
    BY <1>3 DEF FetchBatch, EndOfRows, PutFile
  <2>. QED BY <2>1, <2>2 DEF OriginInv
<1>4. ASSUME ExportFails PROVE OriginInv'
  <2>1. cur \in Chunk
    BY <1>4 DEF ExportFails, ExportInv, WorkInv
  <2>2. /\ pc = "fetch" /\ pc' = "next" /\ db' = db
        /\ tx' = [tx EXCEPT ![cur] = Failed]
        /\ \A c \in Chunk \ {cur} : file'[c] = file[c]
    BY <1>4 DEF ExportFails, PutFile, UpsertDeferred, EndExport
  <2>. QED BY <2>1, <2>2 DEF OriginInv
<1>5. ASSUME RecordCompleted PROVE OriginInv'
  <2>1. cur \in Chunk /\ Holds(file[cur], Rows[cur])
    BY <1>5 DEF RecordCompleted, ExportInv, WorkInv
  <2>2. /\ pc = "returned" /\ pc' = "next" /\ UNCHANGED <<db, file>>
        /\ \A c \in Chunk \ {cur} : tx'[c] = tx[c]
    BY <1>5 DEF RecordCompleted, UpsertDeferred, EndExport
  <2>. QED BY <2>1, <2>2 DEF OriginInv
<1>6. ASSUME StartReplay PROVE OriginInv'
  BY <1>6 DEF StartReplay, StoreInv, OriginInv
<1>7. ASSUME NEW c \in Chunk, ReplaySidecar(c) PROVE OriginInv'
  BY <1>7 DEF ReplaySidecar, OriginInv
<1>8. ASSUME NEW c \in Chunk, SkipSidecar(c) PROVE OriginInv'
  BY <1>8 DEF SkipSidecar, OriginInv
<1>9. ASSUME NEW c \in Chunk, MarkFailed(c) PROVE pc' \in {"idle", "failing"}
  BY <1>9 DEF MarkFailed
<1>10. ASSUME NEW e \in flush, Sidecar(e) PROVE pc' = "sidecars"
  BY <1>10 DEF Sidecar
<1>11. ASSUME \/ StartRun \/ ImportFails \/ CommitExports \/ CommitFails \/ EndRun
              \/ CommitReplay \/ LoseDatabase \/ Crash
       PROVE  pc' \in {"idle", "import", "failing", "sidecars"}
  BY <1>11 DEF StartRun, ImportFails, CommitExports, CommitFails, EndRun, CommitReplay,
               LoseDatabase, Crash
<1>12. CASE UNCHANGED vars
  BY <1>12 DEF vars, OriginInv
<1>13. pc' \in {"idle", "import", "failing", "sidecars"} => OriginInv'
  BY DEF OriginInv
<1>. QED
  BY <1>1, <1>2, <1>3, <1>4, <1>5, <1>6, <1>7, <1>8, <1>9, <1>10, <1>11, <1>12, <1>13
     DEF Next, ProcessStep

\* The initial state is one of Recoverable.
LEMMA MapsInit == Init => Abstract!Init
<1>. SUFFICES ASSUME Init PROVE Abstract!Init
  OBVIOUS
<1>1. \A c \in Chunk : ~IsCompleted(db[c]) /\ sidecar[c] = NoRow
  BY RowFacts DEF Init, StoreInit
<1>2. \A c \in Chunk : ~Holds(file[c], Rows[c])
  BY DEF Init, NoFile, Holds
<1>. QED BY <1>1, <1>2 DEF Init, Abstract!Init

\* A step that leaves rows, sidecars and files alone is a stutter.
LEMMA Stutter ==
    ASSUME UNCHANGED <<db, sidecar, file, losses>>
    PROVE  UNCHANGED Abstract!vars
  BY DEF Abstract!vars

\* So is one that completes no chunk and takes no completion back.
LEMMA DoneKept ==
    ASSUME UNCHANGED <<sidecar, file, losses>>,
           \A c \in Chunk : IsCompleted(db'[c]) <=> IsCompleted(db[c])
    PROVE  UNCHANGED Abstract!vars
  BY DEF Abstract!vars

\* Any file may be put in the place of one whose chunk is not completed.
LEMMA MapsPut ==
    ASSUME TypeOK, cur \in Chunk, ~IsCompleted(db[cur]),
           NEW f, PutFile(f), UNCHANGED <<db, sidecar, losses>>
    PROVE  Abstract!Next
<1>1. \A c \in Chunk \ {cur} : file'[c] = file[c]
  BY DEF PutFile, TypeOK
<1>2. Abstract!Write(cur)
  <2>. DEFINE whole == {c \in Chunk : Holds(file[c], Rows[c])}
              after == {c \in Chunk : Holds(file'[c], Rows[c])}
  <2>1. after \in {whole \cup {cur}, whole \ {cur}}
    <3>1. CASE Holds(file'[cur], Rows[cur])
      <4>1. after = whole \cup {cur}
        BY <1>1, <3>1
      <4>. QED BY <4>1
    <3>2. CASE ~Holds(file'[cur], Rows[cur])
      <4>1. after = whole \ {cur}
        BY <1>1, <3>2
      <4>. QED BY <4>1
    <3>. QED BY <3>1, <3>2
  <2>. QED BY <2>1 DEF Abstract!Write
<1>. QED BY <1>2 DEF Abstract!Next

\* The chunk of an export is not completed in the database.
LEMMA CurrentNotDone ==
    ASSUME RInv, pc = "fetch"
    PROVE  cur \in Chunk /\ ~IsCompleted(db[cur])
  BY DEF RInv, TypeOK, ExportInv, WorkInv

\* The commit of the exports finishes what they completed.
LEMMA MapsCommit ==
    ASSUME RInv, OriginInv, CommitExports
    PROVE  Abstract!Next
<1>. DEFINE new == {c \in Chunk : IsCompleted(tx[c]) /\ ~IsCompleted(db[c])}
<1>1. pc = "next" /\ db' = tx /\ UNCHANGED <<sidecar, file, losses>>
  BY DEF CommitExports, CommitBlock
<1>2. \A c \in Chunk : IsCompleted(db[c]) => IsCompleted(tx[c])
  BY DEF RInv, FileInv
<1>3. {c \in Chunk : IsCompleted(db'[c])} = {c \in Chunk : IsCompleted(db[c])} \cup new
  BY <1>1, <1>2
<1>4. new \subseteq {c \in Chunk : Holds(file[c], Rows[c])}
  BY <1>1 DEF OriginInv
<1>5. Abstract!Finish(new)
  BY <1>1, <1>3, <1>4 DEF Abstract!Finish
<1>. QED BY <1>5 DEF Abstract!Next

\* The commit of a replay recovers what it found sidecars of.
LEMMA MapsReplay ==
    ASSUME RInv, OriginInv, CommitReplay
    PROVE  [Abstract!Next]_Abstract!vars
<1>. DEFINE new == {c \in Chunk : IsCompleted(tx[c]) /\ ~IsCompleted(db[c])}
            noted == {c \in Chunk : sidecar[c] # NoRow}
            whole == {c \in Chunk : Holds(file[c], Rows[c])}
<1>1. pc = "replay" /\ db' = tx /\ UNCHANGED <<sidecar, file, losses>>
  BY DEF CommitReplay
<1>2. \A c \in Chunk : IsCompleted(db[c]) => IsCompleted(tx[c])
  BY DEF RInv, FileInv
<1>3. {c \in Chunk : IsCompleted(db'[c])} = {c \in Chunk : IsCompleted(db[c])} \cup new
  BY <1>1, <1>2
<1>4. CASE new = {}
  BY <1>1, <1>3, <1>4 DEF Abstract!vars
<1>5. CASE new # {}
  <2>1. new \subseteq noted
    BY <1>1 DEF OriginInv
  <2>2. losses \in Nat /\ losses # 0
    BY <1>5, <2>1, RecoveryAssumption DEF RInv, TypeOK, FileInv
  <2>3. losses = 1 => new \subseteq whole
    BY DEF RInv, FileInv, Backed
  <2>4. Abstract!Recover(new)
    BY <1>1, <1>3, <2>1, <2>2, <2>3 DEF Abstract!Recover
  <2>. QED BY <2>4 DEF Abstract!Next
<1>. QED BY <1>4, <1>5

\* A sidecar is a note of a completed chunk.
LEMMA MapsSidecar ==
    ASSUME RInv, NEW e \in flush, Sidecar(e)
    PROVE  [Abstract!Next]_Abstract!vars
<1>1. UNCHANGED <<db, file, losses>>
  BY DEF Sidecar, PutSidecar, SidecarError
<1>2. CASE SidecarError(e)
  BY <1>1, <1>2, Stutter DEF SidecarError
<1>3. CASE PutSidecar(e)
  <2>. DEFINE noted == {c \in Chunk : sidecar[c] # NoRow}
              after == {c \in Chunk : sidecar'[c] # NoRow}
  <2>1. e.chunk \in Chunk /\ IsCompleted(e.row) /\ db[e.chunk] = e.row
    BY DEF RInv, TypeOK, StoreTypeOK, StoreInv, Entry
  <2>2. e.row # NoRow
    BY <2>1, RowFacts
  <2>3. e.chunk \in after /\ after \subseteq noted \cup {e.chunk}
    BY <1>3, <2>1, <2>2 DEF PutSidecar
  <2>4. Abstract!Note(e.chunk)
    BY <1>1, <2>1, <2>3 DEF Abstract!Note
  <2>. QED BY <2>1, <2>4 DEF Abstract!Next
<1>. QED BY <1>2, <1>3 DEF Sidecar

\* Every step is one of Recoverable, or a stutter.
LEMMA MapsStep == RInv /\ OriginInv /\ [Next]_vars => [Abstract!Next]_Abstract!vars
<1>. SUFFICES ASSUME RInv, OriginInv, [Next]_vars
              PROVE  [Abstract!Next]_Abstract!vars
  OBVIOUS
<1>1. ASSUME StartRun PROVE UNCHANGED Abstract!vars
  <2>1. tx = db
    BY <1>1 DEF StartRun, RInv, StoreInv
  <2>2. \A c \in Chunk : db'[c] = IF c \in pend' THEN Running ELSE tx[c]
    BY <1>1 DEF StartRun, UpsertBlock
  <2>3. \A c \in pend' : ~IsCompleted(tx[c])
    BY <1>1 DEF StartRun
  <2>4. \A c \in Chunk : IsCompleted(db'[c]) <=> IsCompleted(db[c])
    BY <2>1, <2>2, <2>3, RowFacts
  <2>. QED BY <1>1, <2>4, DoneKept DEF StartRun, UpsertBlock
<1>2. ASSUME NEW c \in Chunk, MarkFailed(c) PROVE UNCHANGED Abstract!vars
  <2>1. tx = db /\ ~IsCompleted(db[c]) /\ db \in [Chunk -> Row]
    BY <1>2 DEF MarkFailed, RInv, StoreInv, WorkInv, TypeOK, StoreTypeOK
  <2>2. db' = [db EXCEPT ![c] = Failed]
    BY <1>2, <2>1 DEF MarkFailed, UpsertNow
  <2>3. \A x \in Chunk : IsCompleted(db'[x]) <=> IsCompleted(db[x])
    BY <2>1, <2>2, RowFacts
  <2>. QED BY <1>2, <2>3, DoneKept DEF MarkFailed, UpsertNow
<1>3. ASSUME FetchBatch PROVE Abstract!Next
  <2>1. PICK f : PutFile(f)
    BY <1>3 DEF FetchBatch
  <2>. QED BY <1>3, <2>1, MapsPut, CurrentNotDone DEF FetchBatch, RInv
<1>4. ASSUME EndOfRows PROVE Abstract!Next
  <2>1. PICK f : PutFile(f)
    BY <1>4 DEF EndOfRows
  <2>. QED BY <1>4, <2>1, MapsPut, CurrentNotDone DEF EndOfRows, RInv
<1>5. ASSUME ExportFails PROVE [Abstract!Next]_Abstract!vars
  <2>1. pc = "fetch" /\ UNCHANGED <<db, sidecar, losses>>
    BY <1>5 DEF ExportFails, UpsertDeferred
  <2>2. (\E f : PutFile(f)) \/ UNCHANGED file
    BY <1>5 DEF ExportFails
  <2>. QED BY <2>1, <2>2, MapsPut, CurrentNotDone, Stutter DEF RInv
<1>6. ASSUME CommitExports PROVE Abstract!Next
  BY <1>6, MapsCommit
<1>7. ASSUME NEW e \in flush, Sidecar(e) PROVE [Abstract!Next]_Abstract!vars
  BY <1>7, MapsSidecar
<1>8. ASSUME LoseDatabase PROVE Abstract!Next
  <2>1. \A c \in Chunk : ~IsCompleted(db'[c])
    BY <1>8, RowFacts DEF LoseDatabase
  <2>2. Abstract!Lose
    BY <1>8, <2>1 DEF LoseDatabase, Abstract!Lose
  <2>. QED BY <2>2 DEF Abstract!Next
<1>9. ASSUME CommitReplay PROVE [Abstract!Next]_Abstract!vars
  BY <1>9, MapsReplay
<1>10. ASSUME Crash PROVE [Abstract!Next]_Abstract!vars
  <2>1. UNCHANGED <<db, sidecar, losses>>
    BY <1>10 DEF Crash, CloseStore
  <2>2. (pc = "fetch" /\ \E f : PutFile(f)) \/ UNCHANGED file
    BY <1>10 DEF Crash
  <2>. QED BY <2>1, <2>2, MapsPut, CurrentNotDone, Stutter DEF RInv
<1>11. ASSUME NEW c \in Chunk, BeginExport(c) \/ ReplaySidecar(c) \/ SkipSidecar(c)
       PROVE  UNCHANGED <<db, sidecar, file, losses>>
  BY <1>11 DEF BeginExport, ReplaySidecar, SkipSidecar
<1>12. ASSUME \/ OpenExports \/ ImportFails \/ RecordCompleted \/ CommitFails \/ EndRun
              \/ StartReplay \/ UNCHANGED vars
       PROVE  UNCHANGED <<db, sidecar, file, losses>>
  BY <1>12 DEF OpenExports, OpenBlock, ImportFails, RecordCompleted, UpsertDeferred,
               CommitFails, CloseStore, EndRun, StartReplay, vars
<1>13. UNCHANGED <<db, sidecar, file, losses>> => UNCHANGED Abstract!vars
  BY Stutter
<1>. QED
  BY <1>1, <1>2, <1>3, <1>4, <1>5, <1>6, <1>7, <1>8, <1>9, <1>10, <1>11, <1>12, <1>13
     DEF Next, ProcessStep

\* The store, its sidecars and the files are a record that can be recovered,
\* through any kills, losses and replays.
THEOREM Implements == Spec => ImplementsRecoverable
<1>1. Init => RInv /\ OriginInv
  BY RInvInit, OriginInit
<1>2. (RInv /\ OriginInv) /\ [Next]_vars => (RInv /\ OriginInv)'
  BY RInvStep, OriginStep
<1>3. Spec => Abstract!Init /\ [][Abstract!Next]_Abstract!vars
  BY <1>1, <1>2, MapsInit, MapsStep, PTL DEF Spec
<1>. QED BY <1>3 DEF ImplementsRecoverable, Abstract!Spec

-----------------------------------------------------------------------------
(***************************************************************************)
(* Runs and replays come to their end.                                     *)
(***************************************************************************)

\* Sidecars are due for finitely many chunks at a time.
DueInv == IsFiniteSet(deferred) /\ IsFiniteSet(flush)

\* One step keeps it: a block begins empty and grows by one row at a time.
LEMMA DueStep == DueInv /\ [Next]_vars => DueInv'
<1>. SUFFICES ASSUME DueInv, [Next]_vars PROVE DueInv'
  OBVIOUS
<1>. DEFINE Unchanged == UNCHANGED <<flush, deferred>>
            Opened == flush' = flush /\ deferred' = {}
            Closed == flush' = {} /\ deferred' = {}
            Added == flush' = flush /\ \E e : deferred' = deferred \cup {e}
            Committed == flush' = deferred /\ deferred' = {}
            Written == deferred' = deferred /\ \E e : flush' = flush \ {e}
            Due == \/ Unchanged \/ Opened \/ Closed \/ Added \/ Committed \/ Written
<1>1. Due => DueInv'
  <2>1. Added => DueInv'
    BY FS_AddElement DEF DueInv
  <2>2. Written => DueInv'
    BY FS_RemoveElement DEF DueInv
  <2>3. Unchanged \/ Opened \/ Closed \/ Committed => DueInv'
    BY FS_EmptySet DEF DueInv
  <2>. HIDE DEF Unchanged, Opened, Closed, Added, Committed, Written
  <2>. QED BY <2>1, <2>2, <2>3
<1>2. ASSUME NEW c \in Chunk,
             MarkFailed(c) \/ BeginExport(c) \/ ReplaySidecar(c) \/ SkipSidecar(c)
      PROVE  Unchanged
  BY <1>2 DEF MarkFailed, UpsertNow, Failed, BeginExport, ReplaySidecar, SkipSidecar
<1>3. ASSUME \/ StartRun \/ ImportFails \/ FetchBatch \/ EndOfRows \/ EndRun
             \/ StartReplay \/ CommitReplay \/ LoseDatabase \/ UNCHANGED vars
      PROVE  Unchanged
  BY <1>3 DEF StartRun, UpsertBlock, ImportFails, FetchBatch, EndOfRows, EndRun,
              StartReplay, CommitReplay, LoseDatabase, vars
<1>4. ASSUME OpenExports PROVE Opened
  BY <1>4 DEF OpenExports, OpenBlock
<1>5. ASSUME ExportFails \/ RecordCompleted PROVE Unchanged \/ Added
  BY <1>5 DEF ExportFails, RecordCompleted, UpsertDeferred
<1>6. ASSUME CommitExports PROVE Committed
  BY <1>6 DEF CommitExports, CommitBlock
<1>7. ASSUME CommitFails \/ Crash PROVE Closed
  BY <1>7 DEF CommitFails, Crash, CloseStore
<1>8. ASSUME NEW e \in flush, Sidecar(e) PROVE Written
  BY <1>8 DEF Sidecar, PutSidecar, SidecarError
<1>9. Due
  <2>. HIDE DEF Unchanged, Opened, Closed, Added, Committed, Written
  <2>. QED BY <1>2, <1>3, <1>4, <1>5, <1>6, <1>7, <1>8 DEF Next, ProcessStep
<1>. HIDE DEF Due
<1>. QED BY <1>1, <1>9

\* What a process counts with is finite.
LEMMA WorkIsFinite ==
    ASSUME TypeOK, DueInv, IsFiniteSet(Chunk)
    PROVE  /\ IsFiniteSet(pend) /\ IsFiniteSet(todo) /\ IsFiniteSet(flush)
           /\ Cardinality(pend) \in Nat /\ Cardinality(todo) \in Nat
           /\ Cardinality(flush) \in Nat
<1>1. IsFiniteSet(pend) /\ IsFiniteSet(todo)
  BY FS_Subset DEF TypeOK
<1>. QED BY <1>1, FS_CardinalityType DEF DueInv

\* The export in progress has rows to come, or none.
LEMMA RowsToCome ==
    ASSUME RInv, pc = "fetch"
    PROVE  Rows[cur] - read \in Nat
<1>1. cur \in Chunk /\ read \in Nat /\ read <= Rows[cur]
  BY DEF RInv, TypeOK, ExportInv, WorkInv
<1>2. Rows[cur] \in Nat
  BY <1>1, RecoveryAssumption
<1>. QED BY <1>1, <1>2

\* What a run or a replay has left is a length.
LEMMA ProcessLengthType ==
    ASSUME IsFiniteSet(Chunk)
    PROVE  RInv /\ DueInv => ProcessLength \in Length
<1>. SUFFICES ASSUME RInv, DueInv PROVE ProcessLength \in Length
  OBVIOUS
<1>1. /\ Cardinality(pend) \in Nat /\ Cardinality(todo) \in Nat
      /\ Cardinality(flush) \in Nat
  BY WorkIsFinite DEF RInv
<1>2. pc = "fetch" => Rows[cur] - read \in Nat
  BY RowsToCome
<1>3. pc \in {"idle", "import", "failing", "next", "fetch", "returned", "sidecars", "replay"}
  BY DEF RInv, TypeOK
<1>. QED BY <1>1, <1>2, <1>3 DEF ProcessLength, Length, Nothing

\* The steps from one chunk, fetch or sidecar to the next.
LEMMA LoopShorter ==
    ASSUME IsFiniteSet(Chunk), RInv, RInv', DueInv, DueInv',
           \/ \E c \in Chunk : MarkFailed(c) \/ ReplaySidecar(c) \/ SkipSidecar(c)
           \/ \E c \in Chunk : BeginExport(c)
           \/ FetchBatch \/ EndOfRows \/ ExportFails \/ RecordCompleted
           \/ \E e \in flush : Sidecar(e)
    PROVE  Less(ProcessLength', ProcessLength)
<1>1. /\ IsFiniteSet(pend) /\ IsFiniteSet(todo) /\ IsFiniteSet(flush)
      /\ Cardinality(pend) \in Nat /\ Cardinality(todo) \in Nat
      /\ Cardinality(flush) \in Nat
  BY WorkIsFinite DEF RInv
<1>2. /\ \A c \in pend : Cardinality(pend \ {c}) = Cardinality(pend) - 1
      /\ \A c \in todo : Cardinality(todo \ {c}) = Cardinality(todo) - 1
      /\ \A e \in flush : Cardinality(flush \ {e}) = Cardinality(flush) - 1
  BY <1>1, FS_RemoveElement
<1>3. ASSUME NEW c \in Chunk, MarkFailed(c) PROVE Less(ProcessLength', ProcessLength)
  <2>1. pc = "failing" /\ c \in pend /\ pend' = pend \ {c} /\ pc' \in {"idle", "failing"}
    BY <1>3 DEF MarkFailed
  <2>2. ProcessLength = <<3, Cardinality(pend), 0, 0>>
    BY <2>1 DEF ProcessLength
  <2>3. CASE pc' = "idle"
    <3>1. ProcessLength' = <<0, 0, 0, 0>>
      BY <2>3 DEF ProcessLength, Nothing
    <3>. QED BY <2>2, <3>1 DEF Less
  <2>4. CASE pc' = "failing"
    <3>1. ProcessLength' = <<3, Cardinality(pend) - 1, 0, 0>>
      BY <1>2, <2>1, <2>4 DEF ProcessLength
    <3>. QED BY <1>1, <2>2, <3>1 DEF Less
  <2>. QED BY <2>1, <2>3, <2>4
<1>4. ASSUME NEW c \in Chunk, ReplaySidecar(c) \/ SkipSidecar(c)
      PROVE  Less(ProcessLength', ProcessLength)
  <2>1. pc = "replay" /\ pc' = "replay" /\ c \in todo /\ todo' = todo \ {c}
    BY <1>4 DEF ReplaySidecar, SkipSidecar
  <2>2. /\ ProcessLength = <<1, Cardinality(todo), 1, 0>>
        /\ ProcessLength' = <<1, Cardinality(todo) - 1, 1, 0>>
    BY <1>2, <2>1 DEF ProcessLength
  <2>. QED BY <1>1, <2>2 DEF Less
<1>5. ASSUME NEW c \in Chunk, BeginExport(c) PROVE Less(ProcessLength', ProcessLength)
  <2>1. pc = "next" /\ pc' = "fetch" /\ pend' = pend
    BY <1>5 DEF BeginExport
  <2>2. /\ ProcessLength = <<2, Cardinality(pend), 3, 0>>
        /\ ProcessLength' = <<2, Cardinality(pend), 2, Rows[cur'] - read'>>
    BY <2>1 DEF ProcessLength
  <2>. QED BY <1>1, <2>2 DEF Less
<1>6. ASSUME FetchBatch PROVE Less(ProcessLength', ProcessLength)
  <2>. DEFINE n == IF Rows[cur] - read < BatchSize THEN Rows[cur] - read ELSE BatchSize
  <2>1. /\ pc = "fetch" /\ pc' = "fetch" /\ pend' = pend /\ cur' = cur
        /\ read < Rows[cur] /\ read' = read + n
    BY <1>6 DEF FetchBatch
  <2>2. cur \in Chunk /\ read \in Nat
    BY <2>1 DEF RInv, TypeOK, ExportInv, WorkInv
  <2>3. Rows[cur] \in Nat /\ BatchSize \in Nat \ {0}
    BY <2>2, RecoveryAssumption
  <2>4. Rows[cur] - read' < Rows[cur] - read
    BY <2>1, <2>2, <2>3
  <2>. HIDE DEF n
  <2>5. /\ ProcessLength = <<2, Cardinality(pend), 2, Rows[cur] - read>>
        /\ ProcessLength' = <<2, Cardinality(pend), 2, Rows[cur] - read'>>
    BY <2>1 DEF ProcessLength
  <2>. QED BY <1>1, <2>4, <2>5 DEF Less
<1>7. ASSUME EndOfRows PROVE Less(ProcessLength', ProcessLength)
  <2>1. pc = "fetch" /\ pc' = "returned" /\ pend' = pend
    BY <1>7 DEF EndOfRows
  <2>2. /\ ProcessLength = <<2, Cardinality(pend), 2, Rows[cur] - read>>
        /\ ProcessLength' = <<2, Cardinality(pend), 1, 0>>
    BY <2>1 DEF ProcessLength
  <2>. QED BY <1>1, <2>2 DEF Less
<1>8. ASSUME ExportFails \/ RecordCompleted PROVE Less(ProcessLength', ProcessLength)
  <2>1. pc \in {"fetch", "returned"} /\ pc' = "next" /\ pend' = pend \ {cur}
    BY <1>8 DEF ExportFails, RecordCompleted, EndExport
  <2>2. cur \in pend
    BY <2>1 DEF RInv, ExportInv
  <2>3. ProcessLength[1] = 2 /\ ProcessLength[2] = Cardinality(pend)
    BY <2>1 DEF ProcessLength
  <2>4. ProcessLength' = <<2, Cardinality(pend) - 1, 3, 0>>
    BY <1>2, <2>1, <2>2 DEF ProcessLength
  <2>. QED BY <1>1, <2>3, <2>4 DEF Less
<1>9. ASSUME NEW e \in flush, Sidecar(e) PROVE Less(ProcessLength', ProcessLength)
  <2>1. pc = "sidecars" /\ pc' = "sidecars" /\ flush' = flush \ {e}
    BY <1>9 DEF Sidecar, PutSidecar, SidecarError
  <2>2. /\ ProcessLength = <<1, Cardinality(flush), 1, 0>>
        /\ ProcessLength' = <<1, Cardinality(flush) - 1, 1, 0>>
    BY <1>2, <2>1 DEF ProcessLength
  <2>. QED BY <1>1, <2>2 DEF Less
<1>. QED BY <1>3, <1>4, <1>5, <1>6, <1>7, <1>8, <1>9

\* The steps from one phase to the next.
LEMMA PhaseShorter ==
    ASSUME \/ OpenExports \/ ImportFails \/ CommitExports \/ CommitFails
           \/ EndRun \/ CommitReplay
    PROVE  Less(ProcessLength', ProcessLength)
<1>1. CASE OpenExports
  <2>1. pc = "import" /\ pc' = "next"
    BY <1>1 DEF OpenExports
  <2>2. ProcessLength[1] = 4 /\ ProcessLength'[1] = 2
    BY <2>1 DEF ProcessLength
  <2>. QED BY <2>2 DEF Less
<1>2. CASE ImportFails
  <2>1. pc = "import" /\ pc' = "failing"
    BY <1>2 DEF ImportFails
  <2>2. ProcessLength[1] = 4 /\ ProcessLength'[1] = 3
    BY <2>1 DEF ProcessLength
  <2>. QED BY <2>2 DEF Less
<1>3. CASE CommitExports
  <2>1. pc = "next" /\ pc' = "sidecars"
    BY <1>3 DEF CommitExports
  <2>2. ProcessLength[1] = 2 /\ ProcessLength'[1] = 1
    BY <2>1 DEF ProcessLength
  <2>. QED BY <2>2 DEF Less
<1>4. CASE CommitFails \/ EndRun \/ CommitReplay
  <2>1. pc \in {"next", "sidecars", "replay"} /\ pc' = "idle"
    BY <1>4 DEF CommitFails, EndRun, CommitReplay
  <2>2. ProcessLength'[1] = 0
    BY <2>1 DEF ProcessLength, Nothing
  <2>3. ProcessLength[1] = IF pc = "next" THEN 2 ELSE 1
    BY <2>1 DEF ProcessLength
  <2>. QED BY <2>2, <2>3 DEF Less
<1>. QED BY <1>1, <1>2, <1>3, <1>4

\* Every step of a run or a replay leaves less to do, for any finite number of
\* chunks, rows and batch size.
THEOREM ProcessShortens ==
    ASSUME IsFiniteSet(Chunk)
    PROVE  Spec => ProcessGetsShorter
<1>1. /\ Init => RInv /\ DueInv
      /\ (RInv /\ DueInv) /\ [Next]_vars => (RInv /\ DueInv)'
  BY RInvInit, RInvStep, DueStep, FS_EmptySet DEF Init, StoreInit, DueInv
<1>2. RInv /\ DueInv => ProcessLength \in Length
  BY ProcessLengthType
<1>3. (RInv /\ DueInv) /\ (RInv /\ DueInv)' /\ (ProcessLength \in Length)' /\ [Next]_vars
      => [Shorter(ProcessLength', ProcessLength) \/ ~ProcessStep]_vars
  BY LoopShorter, PhaseShorter DEF ProcessStep, Shorter
<1>. QED BY <1>1, <1>2, <1>3, PTL DEF Spec, ProcessGetsShorter
=============================================================================
