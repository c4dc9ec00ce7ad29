---------------------------- MODULE StoreRecovery ----------------------------
(***************************************************************************)
(* Losing state.sqlite and replaying the sidecars (persistence/state.py,   *)
(* reconcile_from_sidecars), between runs that export chunks batch by      *)
(* batch (oracle/exporter.py) through a format writer.                     *)
(*                                                                         *)
(* A run here is what of convert_table_batch concerns the store and the    *)
(* files: the running marks, the exports in one deferred commit, and the   *)
(* sidecars after it.  Convert has the rest; staging is taken to hold the  *)
(* rows of each chunk.  No command calls reconcile_from_sidecars: an       *)
(* operator or a script does, while nothing runs.                          *)
(***************************************************************************)
EXTENDS StateStore, FormatWriter, FiniteSets, Measure

CONSTANTS
    Rows,               \* [Chunk -> Nat]: rows of the dump
    BatchSize,          \* rows one fetchmany returns at most
    Path,               \* [Chunk -> file name]: _sidecar_path
    NoChunk,
    MaxLosses           \* how often the database is lost

ASSUME RecoveryAssumption ==
    /\ Rows \in [Chunk -> Nat]
    /\ BatchSize \in Nat \ {0}
    /\ DOMAIN Path = Chunk
    /\ NoChunk \notin Chunk
    /\ MaxLosses \in Nat

VARIABLES
    pc,
    format,             \* of all files: it is part of their names
    file,               \* [Chunk -> file]
    pend,               \* chunks of this run not yet recorded
    cur, read, opened,  \* the export: its chunk, total_rows, the lazy open
    todo,               \* sidecars a replay has not come to
    losses,             \* databases lost so far
    reopened            \* chunks whose file was created anew over a sidecar

exportVars == <<cur, read, opened>>
vars == <<pc, format, storeVars, file, pend, exportVars, todo, losses, reopened>>

IsCompleted(row) == row.status = "completed"

TypeOK ==
    /\ StoreTypeOK
    /\ pc \in {"idle", "import", "failing", "next", "fetch", "returned", "sidecars", "replay"}
    /\ format \in Format
    /\ file \in [Chunk -> File]
    /\ \A c \in Chunk : file[c].headers <= 1 /\ file[c].rows <= Rows[c]
    /\ pend \subseteq Chunk
    /\ cur \in Chunk \cup {NoChunk}
    /\ read \in Nat
    /\ opened \in BOOLEAN
    /\ todo \subseteq Chunk
    /\ losses \in 0 .. MaxLosses
    /\ reopened \subseteq Chunk

Init ==
    /\ StoreInit
    /\ pc = "idle"
    /\ format \in Format
    /\ file = [c \in Chunk |-> NoFile]
    /\ pend = {}
    /\ cur = NoChunk
    /\ read = 0
    /\ opened = FALSE
    /\ todo = {}
    /\ losses = 0
    /\ reopened = {}

-----------------------------------------------------------------------------
\* The slip of taking up every chunk whatever its row says.
StartRun_All ==
    /\ pc = "idle"
    /\ pend' = Chunk
    /\ UpsertBlock(pend', Running)
    /\ pc' = "import"
    /\ UNCHANGED <<format, file, exportVars, todo, losses, reopened>>

\* A run begins: every chunk that is not completed is pending, and is marked
\* running in one commit of its own.
StartRun ==
    /\ pc = "idle"
    /\ pend' = {c \in Chunk : ~IsCompleted(tx[c])}
    /\ pend' # {}
    /\ UpsertBlock(pend', Running)
    /\ pc' = "import"
    /\ UNCHANGED <<format, file, exportVars, todo, losses, reopened>>

\* The import has returned; the deferred commit of the exports begins.
OpenExports ==
    /\ pc = "import"
    /\ OpenBlock
    /\ pc' = "next"
    /\ UNCHANGED <<format, file, pend, exportVars, todo, losses, reopened>>

\* The import raises, and _mark_pending_failed commits the failed rows one by
\* one before the run ends.
ImportFails ==
    /\ pc = "import"
    /\ pc' = "failing"
    /\ UNCHANGED <<format, storeVars, file, pend, exportVars, todo, losses, reopened>>

MarkFailed(c) ==
    /\ pc = "failing"
    /\ c \in pend
    /\ UpsertNow(c, Failed)
    /\ pend' = pend \ {c}
    /\ pc' = IF pend' = {} THEN "idle" ELSE pc
    /\ UNCHANGED <<format, file, exportVars, todo, losses, reopened>>

\* export_table: the query is executed; no file is opened yet.
BeginExport(c) ==
    /\ pc = "next"
    /\ c \in pend
    /\ cur' = c
    /\ read' = 0
    /\ opened' = FALSE
    /\ pc' = "fetch"
    /\ UNCHANGED <<format, storeVars, file, pend, todo, losses, reopened>>

\* The file of the current chunk becomes f.
PutFile(f) ==
    /\ file' = [file EXCEPT ![cur] = f]
    /\ reopened' = IF sidecar[cur] # NoRow THEN reopened \cup {cur} ELSE reopened

\* The slip of fetching the first rows again and again.
FetchBatch_NoAdvance ==
    /\ pc = "fetch"
    /\ read < Rows[cur]
    /\ LET n == IF Rows[cur] - read < BatchSize THEN Rows[cur] - read ELSE BatchSize
       IN  PutFile(WriteBatch(format, file[cur], opened, n))
    /\ opened' = TRUE
    /\ UNCHANGED <<pc, format, storeVars, pend, cur, read, todo, losses>>

\* fetchmany returns rows and write_batch appends them.
FetchBatch ==
    /\ pc = "fetch"
    /\ read < Rows[cur]
    /\ LET n == IF Rows[cur] - read < BatchSize THEN Rows[cur] - read ELSE BatchSize
       IN  /\ PutFile(WriteBatch(format, file[cur], opened, n))
           /\ read' = read + n
    /\ opened' = TRUE
    /\ UNCHANGED <<pc, format, storeVars, pend, cur, todo, losses>>

\* The slip of leaving a table without rows without a file.
EndOfRows_NoEmpty ==
    /\ pc = "fetch"
    /\ read = Rows[cur]
    /\ PutFile(Close(format, file[cur], opened))
    /\ pc' = "returned"
    /\ UNCHANGED <<format, storeVars, pend, exportVars, todo, losses>>

\* fetchmany returns nothing: an empty file if nothing was written, and close.
EndOfRows ==
    /\ pc = "fetch"
    /\ read = Rows[cur]
    /\ PutFile(IF read = 0 THEN WriteEmpty(format) ELSE Close(format, file[cur], opened))
    /\ pc' = "returned"
    /\ UNCHANGED <<format, storeVars, pend, exportVars, todo, losses>>

EndExport ==
    /\ pend' = pend \ {cur}
    /\ cur' = NoChunk
    /\ read' = 0
    /\ opened' = FALSE
    /\ pc' = "next"

\* Query, conversion or writer raise.  close is in a finally block, so what
\* was written so far becomes a complete file, be it a header; before the first
\* batch the old file stays.
ExportFails ==
    /\ pc = "fetch"
    /\ \/ /\ opened
          /\ PutFile(Close(format, file[cur], opened))
       \/ /\ ~opened
          /\ PutFile(WriteEmpty(format))
       \/ /\ ~opened
          /\ UNCHANGED <<file, reopened>>
    /\ UpsertDeferred(cur, Failed)
    /\ EndExport
    /\ UNCHANGED <<format, todo, losses>>

\* _export_one_batched_chunk records what export_table returned.
RecordCompleted ==
    /\ pc = "returned"
    /\ UpsertDeferred(cur, Completed(read))
    /\ EndExport
    /\ UNCHANGED <<format, file, todo, losses, reopened>>

\* The block ends with its one commit.
CommitExports ==
    /\ pc = "next"
    /\ pend = {}
    /\ CommitBlock
    /\ pc' = "sidecars"
    /\ UNCHANGED <<format, file, pend, exportVars, todo, losses, reopened>>

\* The commit raises and is rolled back: the run ends.
CommitFails ==
    /\ pc = "next"
    /\ pend = {}
    /\ CloseStore
    /\ pc' = "idle"
    /\ UNCHANGED <<format, file, pend, exportVars, todo, losses, reopened>>

\* _write_sidecar under the path of its chunk.  Chunks whose names differ
\* only in what the path replaces have one path: the last sidecar stays.
PutSidecar(e) ==
    /\ e \in flush
    /\ flush' = flush \ {e}
    /\ sidecar' = [c \in Chunk |-> IF c = e.chunk THEN e.row
                                   ELSE IF Path[c] = Path[e.chunk] THEN NoRow
                                   ELSE sidecar[c]]
    /\ UNCHANGED <<db, tx, autocommit, deferred>>

Sidecar(e) ==
    /\ pc = "sidecars"
    /\ PutSidecar(e) \/ SidecarError(e)
    /\ UNCHANGED <<pc, format, file, pend, exportVars, todo, losses, reopened>>

EndRun ==
    /\ pc = "sidecars"
    /\ flush = {}
    /\ pc' = "idle"
    /\ UNCHANGED <<format, storeVars, file, pend, exportVars, todo, losses, reopened>>

-----------------------------------------------------------------------------
\* External: the database is lost or unreadable, and is moved away; the
\* sidecars and the files are still there.
LoseDatabase ==
    /\ pc = "idle"
    /\ losses < MaxLosses
    /\ db' = [c \in Chunk |-> NoRow]
    /\ tx' = db'
    /\ losses' = losses + 1
    /\ UNCHANGED <<autocommit, deferred, flush, sidecar>>
    /\ UNCHANGED <<pc, format, file, pend, exportVars, todo, reopened>>

\* reconcile_from_sidecars: one transaction over all sidecars.
StartReplay ==
    /\ pc = "idle"
    /\ todo' = {c \in Chunk : sidecar[c] # NoRow}
    /\ pc' = "replay"
    /\ UNCHANGED <<format, storeVars, file, pend, exportVars, losses, reopened>>

\* The slip of replaying over every row that is not completed.
ReplaySidecar_OverRunning(c) ==
    /\ pc = "replay"
    /\ c \in todo
    /\ todo' = todo \ {c}
    /\ tx' = IF ~IsCompleted(tx[c]) THEN [tx EXCEPT ![c] = sidecar[c]] ELSE tx
    /\ UNCHANGED <<db, autocommit, deferred, flush, sidecar>>
    /\ UNCHANGED <<pc, format, file, pend, exportVars, losses, reopened>>

\* A sidecar becomes a row only where there is no row at all.
ReplaySidecar(c) ==
    /\ pc = "replay"
    /\ c \in todo
    /\ todo' = todo \ {c}
    /\ tx' = IF tx[c] = NoRow THEN [tx EXCEPT ![c] = sidecar[c]] ELSE tx
    /\ UNCHANGED <<db, autocommit, deferred, flush, sidecar>>
    /\ UNCHANGED <<pc, format, file, pend, exportVars, losses, reopened>>

\* A sidecar that cannot be read is skipped with a warning.
SkipSidecar(c) ==
    /\ pc = "replay"
    /\ c \in todo
    /\ todo' = todo \ {c}
    /\ UNCHANGED <<pc, format, storeVars, file, pend, exportVars, losses, reopened>>

CommitReplay ==
    /\ pc = "replay"
    /\ todo = {}
    /\ db' = tx
    /\ pc' = "idle"
    /\ UNCHANGED <<tx, autocommit, deferred, flush, sidecar>>
    /\ UNCHANGED <<format, file, pend, exportVars, todo, losses, reopened>>

\* The process dies, or a replay raises and is rolled back.  A writer killed
\* in the middle of a call leaves half a file.
Crash ==
    /\ pc # "idle"
    /\ CloseStore
    /\ \/ pc = "fetch" /\ PutFile(Torn(format, file[cur], opened))
       \/ UNCHANGED <<file, reopened>>
    /\ pc' = "idle"
    /\ pend' = {}
    /\ cur' = NoChunk
    /\ read' = 0
    /\ opened' = FALSE
    /\ todo' = {}
    /\ UNCHANGED <<format, losses>>

\* The steps of a run or a replay that has begun: one process, whose next
\* statement follows from where it is.
ProcessStep ==
    \/ OpenExports
    \/ ImportFails
    \/ \E c \in Chunk : MarkFailed(c) \/ BeginExport(c)
    \/ FetchBatch
    \/ EndOfRows
    \/ ExportFails
    \/ RecordCompleted
    \/ CommitExports
    \/ CommitFails
    \/ \E e \in flush : Sidecar(e)
    \/ EndRun
    \/ \E c \in Chunk : ReplaySidecar(c) \/ SkipSidecar(c)
    \/ CommitReplay

Next ==
    \/ StartRun
    \/ StartReplay
    \/ ProcessStep
    \/ LoseDatabase
    \/ Crash

Spec == Init /\ [][Next]_vars

-----------------------------------------------------------------------------
(***************************************************************************)
(* Properties.                                                             *)
(***************************************************************************)

\* An export that returns has left one whole file: one header, every row that
\* was read, and nothing of the file that was there before - with no rows
\* too, in every format and however the rows fall into batches
\* (oracle/exporter.py:284, oracle/format_writer.py).
ReturnedExportIsWhole == pc = "returned" => Holds(file[cur], Rows[cur])

\* A chunk the store calls completed has its whole file, although no sidecar
\* is ever withdrawn: a replay does not touch the row a newer run has left,
\* so one loss of the database is survived whatever was killed before and
\* after it.  Only a second loss can revive a sidecar whose file has been
\* opened anew since (persistence/state.py:254).
CompletedIsBacked ==
    \A c \in Chunk :
        IsCompleted(db[c]) => \/ db[c] = Completed(Rows[c]) /\ Holds(file[c], Rows[c])
                              \/ losses > 1 /\ c \in reopened

\* The database, the sidecars and the files together are a record that can be
\* recovered (Recoverable): the file of a chunk the store calls completed is
\* not touched, a sidecar is only ever written for a row that is committed,
\* and a replay completes nothing that has no sidecar
\* (core/executor.py:849, persistence/state.py:192, persistence/state.py:254).
Abstract == INSTANCE Recoverable WITH
                done <- {c \in Chunk : IsCompleted(db[c])},
                whole <- {c \in Chunk : Holds(file[c], Rows[c])},
                noted <- {c \in Chunk : sidecar[c] # NoRow}

ImplementsRecoverable == Abstract!Spec

\* What a run or a replay still has to do, at most.
ProcessLength ==
    CASE pc = "idle"     -> Nothing
      [] pc = "import"   -> <<4, 0, 0, 0>>
      [] pc = "failing"  -> <<3, Cardinality(pend), 0, 0>>
      [] pc = "next"     -> <<2, Cardinality(pend), 3, 0>>
      [] pc = "fetch"    -> <<2, Cardinality(pend), 2, Rows[cur] - read>>
      [] pc = "returned" -> <<2, Cardinality(pend), 1, 0>>
      [] pc = "sidecars" -> <<1, Cardinality(flush), 1, 0>>
      [] pc = "replay"   -> <<1, Cardinality(todo), 1, 0>>

\* A run and a replay end, whatever fails: every fetch leaves fewer rows,
\* every export and every failed mark fewer chunks, and every sidecar is
\* tried once (oracle/exporter.py:338, persistence/state.py:192).
ProcessGetsShorter == [][Shorter(ProcessLength', ProcessLength) \/ ~ProcessStep]_vars
=============================================================================
