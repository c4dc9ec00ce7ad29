------------------------------- MODULE Convert -------------------------------
(***************************************************************************)
(* The convert phase: StagingExecutor.convert_plan and convert_table_batch *)
(* (core/executor.py) over any number of runs that share one work          *)
(* directory, with the import tools, the staging database, the exporter    *)
(* and the state store (StateStore) they drive.  A run pre-clears staging  *)
(* (Data Pump dumps), then takes the plan in batches: mark the pending     *)
(* chunks "running", truncate (legacy dumps), import, export each chunk    *)
(* inside one deferred commit, and at the end write the report.            *)
(*                                                                         *)
(* A run may be killed at any step (Crash) or end in an exception (the     *)
(* steps that Abort); the state database, the sidecars, the output files   *)
(* and - when the container is kept - the staging rows survive it.         *)
(*                                                                         *)
(* Abstraction: rows are counted, not identified: staged[c] is the number  *)
(* of rows the staging partition of chunk c holds, file[c][d] the number   *)
(* of rows in its output file.  A destination is an output directory       *)
(* together with an output format.  The dump does not change.              *)
(***************************************************************************)
EXTENDS StateStore, FiniteSets

CONSTANTS
    Table,                  \* the tables of the plan
    Position,               \* Position[t]: place of t in plan.tables
    SchemaOf,               \* SchemaOf[t]: source schema
    Parent,                 \* Parent[t]: table t references by a constraint
                            \*   that staging cannot disable, or NoTable
    Unsupported,            \* tables planned with strategy UNSUPPORTED
    TableOf,                \* TableOf[c]: the table chunk c belongs to
    Rows,                   \* Rows[c]: rows of chunk c in the dump
    Dest,                   \* output directory and format of a run
    Legacy,                 \* TRUE: exp/imp dump; FALSE: Data Pump dump
    BatchSize,              \* TABLE_IMPORT_BATCH_SIZE
    StageCap,               \* most rows one staging partition has room for
    Faults,                 \* what the environment may do: see Fault
    NoTable, NoChunk, NoFile, NoDest

\* Bound of the delete loop: range(1, 4).
MaxPass == 3

Fault == {"crash",              \* the process is killed
          "oracle_error",       \* a connection or statement outside any try fails
          "delete_error",       \* a pre-clear DELETE fails, not on a child row
          "import_error",       \* the import tool fails
          "import_warning",     \* it exits 2 or 5 and leaves rows out
          "export_error",       \* the export of a chunk fails or ends early
          "commit_error",       \* the commit of the export block fails
          "sidecar_error",      \* a sidecar cannot be written
          "absent_tables"}      \* inspect did not create every staging table

ASSUME ConvertAssumption ==
    /\ Position \in [Table -> Nat]
    /\ \A t, u \in Table : Position[t] = Position[u] => t = u
    /\ NoTable \notin Table
    /\ Parent \in [Table -> Table \cup {NoTable}]
    /\ Unsupported \subseteq Table
    /\ TableOf \in [Chunk -> Table]
    /\ Rows \in [Chunk -> Nat]
    /\ Legacy \in BOOLEAN
    /\ BatchSize \in Nat \ {0}
    /\ StageCap \in Nat
    /\ Faults \subseteq Fault
    /\ NoChunk \notin Chunk
    /\ NoFile \notin Nat
    /\ NoDest \notin Dest

VARIABLES
    present,                \* staging tables that exist
    staged,                 \* rows in each staging partition
    file,                   \* rows in each output file, or NoFile
    pc,                     \* where the current run is
    dest,                   \* the destination of the current run
    snap,                   \* prefetched: the rows read when the run began
    left,                   \* supported tables of batches not yet begun
    batch,                  \* tables of the current batch
    todo,                   \* tables still to clear in this pass / batch
    remaining,              \* tables deferred to the next delete pass
    pass,                   \* number of the delete pass
    pending,                \* chunks of the batch still to deal with
    toImport,               \* those the import tool has not been given yet
    cur,                    \* the chunk being exported
    written,                \* rows export_table returned for cur
    results,                \* ChunkConversionResults of this run
    converted,              \* tables with a TableConversionResult
    report,                 \* conversion_report.yaml
    warned,                 \* chunks a WARNING of this run's log is about
    suspect                 \* chunks warned about when they were completed

envVars == <<present, staged, file>>
clearVars == <<todo, remaining, pass>>
exportVars == <<cur, written>>
outcomeVars == <<results, converted, report>>
ghostVars == <<warned, suspect>>
vars == <<storeVars, envVars, pc, dest, snap, left, batch, clearVars, pending,
          toImport, exportVars, outcomeVars, ghostVars>>

Result == [chunk : Chunk, rows : Nat]
NoReport == [dest |-> NoDest, successful |-> {}, skipped |-> {}]

IsCompleted(row) == row.status = "completed"
ChunksOf(S) == {c \in Chunk : TableOf[c] \in S}
TablesOf(S) == {TableOf[c] : c \in S}

\* `t` comes first, in plan order, among the tables of S.
IsFirst(t, S) == t \in S /\ \A u \in S : Position[t] <= Position[u]

\* _split_batch_pending, _chunk_state: the prefetched snapshot decides.  A
\* slip that takes a completed chunk with no rows for one without a state.
PendingOf_RedoEmpty(S) ==
    {c \in ChunksOf(S) : ~(IsCompleted(snap[c]) /\ snap[c].rows > 0)}

PendingOf(S) == {c \in ChunksOf(S) : ~IsCompleted(snap[c])}

\* _table_has_pending_chunks: one chunk that is not completed is enough.  The
\* slip of taking a chunk a killed run left "running" for one in work.
TablesToClear_SkipRunning(S, rows) ==
    {t \in S : \E c \in ChunksOf({t}) : rows[c].status \in {"none", "failed"}}

TablesToClear(S, rows) ==
    {t \in S : \E c \in ChunksOf({t}) : ~IsCompleted(rows[c])}

\* supported[batch_start : batch_start + TABLE_IMPORT_BATCH_SIZE].  A slip
\* that cuts the list into full batches only.
IsNextBatch_FullOnly(S) ==
    /\ S \subseteq left
    /\ \A t \in S, u \in left \ S : Position[t] < Position[u]
    /\ Cardinality(S) = BatchSize

IsNextBatch(S) ==
    /\ S \subseteq left
    /\ S # {}
    /\ \A t \in S, u \in left \ S : Position[t] < Position[u]
    /\ \/ Cardinality(S) = BatchSize
       \/ S = left /\ Cardinality(S) <= BatchSize

\* The batch loop is over; a slip that drops a last, shorter batch.
LoopDone_FullBatchesOnly == Cardinality(left) < BatchSize

LoopDone == left = {}

-----------------------------------------------------------------------------
(***************************************************************************)
(* The staging database.                                                   *)
(***************************************************************************)
HasRows(t) == \E c \in ChunksOf({t}) : staged[c] > 0

\* ORA-02292: rows of t are referenced by rows of a child table.
ChildRowFound(t) ==
    HasRows(t) /\ \E u \in Table : Parent[u] = t /\ HasRows(u)

Emptied(t) == [c \in Chunk |-> IF TableOf[c] = t THEN 0 ELSE staged[c]]

\* What the constraints staging keeps allow one call of the import tool to
\* load of chunk c when it is given the chunks of G: rows of a child only
\* where the referenced table has rows (or gets them from the same call),
\* rows of a referenced table only once.
Insertable(c, G) ==
    /\ Parent[TableOf[c]] # NoTable =>
          \E p \in ChunksOf({Parent[TableOf[c]]}) : staged[p] > 0 \/ p \in G
    /\ (\E u \in Table : Parent[u] = TableOf[c]) => staged[c] = 0

\* What a call may leave in staging: l[c] of the rows of each chunk of G.
Loads(G) == {l \in [G -> 0 .. StageCap] :
                \A c \in G : /\ l[c] <= Rows[c]
                             /\ staged[c] + l[c] <= StageCap
                             /\ l[c] > 0 => Insertable(c, G)}

Loaded(G, l) == [c \in Chunk |-> IF c \in G THEN staged[c] + l[c] ELSE staged[c]]

\* All rows of all chunks of G can be loaded.
Loadable(G) ==
    \A c \in G : Rows[c] > 0 => /\ staged[c] + Rows[c] <= StageCap
                                 /\ Insertable(c, G)

\* import_chunks_batch: one impdp call for the whole batch, or one imp call
\* per schema, the schemas in the order the batch names them.
IsNextCall(G) ==
    IF Legacy
    THEN \E t \in Table :
            /\ IsFirst(t, TablesOf(toImport))
            /\ G = {c \in toImport : SchemaOf[TableOf[c]] = SchemaOf[t]}
    ELSE G = toImport /\ G # {}

-----------------------------------------------------------------------------
TypeOK ==
    /\ StoreTypeOK
    /\ present \subseteq Table
    /\ staged \in [Chunk -> Nat]
    /\ file \in [Chunk -> [Dest -> Nat \cup {NoFile}]]
    /\ pc \in {"idle", "preclear", "batch", "truncate", "import",
               "mark_failed", "export", "check"}
    /\ dest \in Dest \cup {NoDest}
    /\ snap \in [Chunk -> Row]
    /\ left \subseteq Table
    /\ batch \subseteq Table
    /\ todo \subseteq Table
    /\ remaining \subseteq Table
    /\ pass \in 1 .. MaxPass
    /\ pending \subseteq Chunk
    /\ toImport \subseteq pending
    /\ cur \in Chunk \cup {NoChunk}
    /\ written \in Nat
    /\ results \subseteq Result
    /\ converted \subseteq Table
    /\ report \in [dest : Dest \cup {NoDest},
                   successful : SUBSET Result,
                   skipped : SUBSET Table]
    /\ warned \subseteq Chunk
    /\ suspect \subseteq Chunk

\* After inspect, before the first convert: staging is empty.
Init ==
    /\ StoreInit
    /\ present \in IF "absent_tables" \in Faults THEN SUBSET Table ELSE {Table}
    /\ staged = [c \in Chunk |-> 0]
    /\ file = [c \in Chunk |-> [d \in Dest |-> NoFile]]
    /\ pc = "idle"
    /\ dest = NoDest
    /\ snap = db
    /\ left = {} /\ batch = {}
    /\ todo = {} /\ remaining = {} /\ pass = 1
    /\ pending = {} /\ toImport = {}
    /\ cur = NoChunk /\ written = 0
    /\ results = {} /\ converted = {} /\ report = NoReport
    /\ warned = {} /\ suspect = {}

\* The run's own memory, gone when the run is over.
ForgetRun ==
    /\ pc' = "idle"
    /\ dest' = NoDest
    /\ snap' = db
    /\ left' = {} /\ batch' = {}
    /\ todo' = {} /\ remaining' = {} /\ pass' = 1
    /\ pending' = {} /\ toImport' = {}
    /\ cur' = NoChunk /\ written' = 0
    /\ results' = {} /\ converted' = {}
    /\ warned' = {}

\* The run ends without reaching its report: an exception leaves convert_plan
\* (whose caller closes the store), or the process dies.
Abort ==
    /\ ForgetRun
    /\ CloseStore
    /\ UNCHANGED <<envVars, report, suspect>>

-----------------------------------------------------------------------------
(***************************************************************************)
(* convert_plan: the snapshot and the pre-clear.                           *)
(***************************************************************************)

\* A run starts: the supported tables whose staging table exists, one
\* snapshot of the chunk states, and for Data Pump dumps the tables to clear.
StartRun(d) ==
    /\ pc = "idle"
    /\ dest' = d
    /\ snap' = tx
    /\ left' = present \ Unsupported
    /\ todo' = IF Legacy THEN {} ELSE TablesToClear(present \ Unsupported, tx)
    /\ pc' = IF todo' = {} THEN "batch" ELSE "preclear"
    /\ UNCHANGED <<storeVars, envVars, batch, remaining, pass, pending, toImport,
                   exportVars, outcomeVars, ghostVars>>

\* DELETE FROM the next table of the pass, committed on its own.  (ORA-00942,
\* which the code also skips, does not arise: the tables of the plan exist.)
DeleteRows(t) ==
    /\ pc = "preclear"
    /\ IsFirst(t, todo)
    /\ ~ChildRowFound(t)
    /\ staged' = Emptied(t)
    /\ todo' = todo \ {t}
    /\ UNCHANGED <<storeVars, present, file, pc, dest, snap, left, batch, remaining,
                   pass, pending, toImport, exportVars, outcomeVars, ghostVars>>

\* ORA-02292: deferred to the next pass.
DeferDelete(t) ==
    /\ pc = "preclear"
    /\ IsFirst(t, todo)
    /\ ChildRowFound(t)
    /\ remaining' = remaining \cup {t}
    /\ todo' = todo \ {t}
    /\ UNCHANGED <<storeVars, envVars, pc, dest, snap, left, batch, pass, pending,
                   toImport, exportVars, outcomeVars, ghostVars>>

\* The slip of swallowing the error at DEBUG level, like ORA-00942.
DeleteError_Unlogged(t) ==
    /\ "delete_error" \in Faults
    /\ pc = "preclear"
    /\ IsFirst(t, todo)
    /\ todo' = todo \ {t}
    /\ UNCHANGED <<storeVars, envVars, pc, dest, snap, left, batch, remaining, pass,
                   pending, toImport, exportVars, outcomeVars, ghostVars>>

\* Any other database error: a warning, and the table is not tried again.  (The
\* two codes that are skipped without one do not arise: tables of the plan
\* exist, and staging has plain tables only.)
DeleteError(t) ==
    /\ "delete_error" \in Faults
    /\ pc = "preclear"
    /\ IsFirst(t, todo)
    /\ warned' = warned \cup ChunksOf({t})
    /\ todo' = todo \ {t}
    /\ UNCHANGED <<storeVars, envVars, pc, dest, snap, left, batch, remaining, pass,
                   pending, toImport, exportVars, outcomeVars, suspect>>

\* A pass that deferred nothing ends the pre-clear.
PreclearDone ==
    /\ pc = "preclear"
    /\ todo = {} /\ remaining = {}
    /\ pass' = 1
    /\ pc' = "batch"
    /\ UNCHANGED <<storeVars, envVars, dest, snap, left, batch, todo, remaining,
                   pending, toImport, exportVars, outcomeVars, ghostVars>>

\* The slip of looping until nothing is deferred.
NextPass_Unbounded ==
    /\ pc = "preclear"
    /\ todo = {} /\ remaining # {}
    /\ todo' = remaining
    /\ remaining' = {}
    /\ UNCHANGED <<storeVars, envVars, pc, dest, snap, left, batch, pass, pending,
                   toImport, exportVars, outcomeVars, ghostVars>>

\* The slip of a range one too long.
NextPass_OneTooMany ==
    /\ pc = "preclear"
    /\ todo = {} /\ remaining # {}
    /\ pass <= MaxPass
    /\ pass' = pass + 1
    /\ todo' = remaining
    /\ remaining' = {}
    /\ UNCHANGED <<storeVars, envVars, pc, dest, snap, left, batch, pending,
                   toImport, exportVars, outcomeVars, ghostVars>>

\* The deferred tables are the targets of the next pass.
NextPass ==
    /\ pc = "preclear"
    /\ todo = {} /\ remaining # {}
    /\ pass < MaxPass
    /\ pass' = pass + 1
    /\ todo' = remaining
    /\ remaining' = {}
    /\ UNCHANGED <<storeVars, envVars, pc, dest, snap, left, batch, pending,
                   toImport, exportVars, outcomeVars, ghostVars>>

\* The passes are used up: the tables still holding rows are named in a
\* warning and the run goes on.
PreclearGivesUp ==
    /\ pc = "preclear"
    /\ todo = {} /\ remaining # {}
    /\ pass = MaxPass
    /\ warned' = warned \cup ChunksOf(remaining)
    /\ remaining' = {}
    /\ pass' = 1
    /\ pc' = "batch"
    /\ UNCHANGED <<storeVars, envVars, dest, snap, left, batch, todo, pending,
                   toImport, exportVars, outcomeVars, suspect>>

-----------------------------------------------------------------------------
(***************************************************************************)
(* convert_table_batch.                                                    *)
(***************************************************************************)

\* Results of chunks an earlier run completed, rebuilt from their rows.
Rehydrated(S) == {[chunk |-> c, rows |-> snap[c].rows] : c \in ChunksOf(S) \ PendingOf(S)}

\* A batch with nothing pending returns its rebuilt results.
SkipBatch(S) ==
    /\ pc = "batch" /\ flush = {}
    /\ IsNextBatch(S)
    /\ PendingOf(S) = {}
    /\ left' = left \ S
    /\ results' = results \cup Rehydrated(S)
    /\ converted' = converted \cup S
    /\ UNCHANGED <<storeVars, envVars, pc, dest, snap, batch, clearVars, pending,
                   toImport, exportVars, report, ghostVars>>

\* A batch with pending chunks: all of them are marked "running" in one
\* commit before anything is imported.
StartBatch(S) ==
    /\ pc = "batch" /\ flush = {}
    /\ IsNextBatch(S)
    /\ PendingOf(S) # {}
    /\ left' = left \ S
    /\ batch' = S
    /\ results' = results \cup Rehydrated(S)
    /\ pending' = PendingOf(S)
    /\ toImport' = PendingOf(S)
    /\ UpsertBlock(PendingOf(S), Running)
    /\ IF Legacy
       THEN todo' = TablesOf(PendingOf(S)) /\ pc' = "truncate"
       ELSE UNCHANGED todo /\ pc' = "import"
    /\ UNCHANGED <<envVars, dest, snap, remaining, pass, exportVars, converted,
                   report, ghostVars>>

\* _truncate_legacy_stage_tables, one table at a time.
TruncateTable(t) ==
    /\ pc = "truncate"
    /\ IsFirst(t, todo)
    /\ staged' = Emptied(t)
    /\ todo' = todo \ {t}
    /\ pc' = IF todo' = {} THEN "import" ELSE "truncate"
    /\ UNCHANGED <<storeVars, present, file, dest, snap, left, batch, remaining, pass,
                   pending, toImport, exportVars, outcomeVars, ghostVars>>

\* After a call of the import tool that did not raise: the next call, or the
\* export inside its deferred commit.
AfterCall(G) ==
    /\ toImport' = toImport \ G
    /\ IF toImport' = {}
       THEN OpenBlock /\ pc' = "export"
       ELSE UNCHANGED <<storeVars, pc>>

\* The call loads every row (TABLE_EXISTS_ACTION=APPEND, or imp).
ImportChunks(G) ==
    /\ pc = "import"
    /\ IsNextCall(G)
    /\ Loadable(G)
    /\ staged' = Loaded(G, Rows)
    /\ AfterCall(G)
    /\ UNCHANGED <<present, file, dest, snap, left, batch, clearVars, pending,
                   exportVars, outcomeVars, ghostVars>>

\* The call exits with a warning code: rows may be missing, the run goes on.
ImportWithWarnings(G) ==
    /\ "import_warning" \in Faults
    /\ pc = "import"
    /\ IsNextCall(G)
    /\ \E l \in Loads(G) : staged' = Loaded(G, l)
    /\ warned' = warned \cup G
    /\ AfterCall(G)
    /\ UNCHANGED <<present, file, dest, snap, left, batch, clearVars, pending,
                   exportVars, outcomeVars, suspect>>

\* The call raises, after loading any part of the rows.
ImportFails(G) ==
    /\ pc = "import"
    /\ IsNextCall(G)
    /\ "import_error" \in Faults \/ ~Loadable(G)
    /\ \E l \in Loads(G) : staged' = Loaded(G, l)
    /\ pc' = "mark_failed"
    /\ UNCHANGED <<storeVars, present, file, dest, snap, left, batch, clearVars,
                   pending, toImport, exportVars, outcomeVars, ghostVars>>

\* _mark_pending_failed: one commit per chunk of the batch.
MarkFailed(c) ==
    /\ pc = "mark_failed"
    /\ c \in pending
    /\ UpsertNow(c, Failed)
    /\ pending' = pending \ {c}
    /\ toImport' = toImport \ {c}
    /\ UNCHANGED <<envVars, pc, dest, snap, left, batch, clearVars, exportVars,
                   outcomeVars, ghostVars>>

\* ... and the import error is raised again: the plan ends here.
RaiseImportError ==
    /\ pc = "mark_failed"
    /\ pending = {}
    /\ Abort

-----------------------------------------------------------------------------
(***************************************************************************)
(* Exports, inside one deferred commit per batch.                          *)
(***************************************************************************)

\* export_table opens the final path and writes some of the rows there.
ExportChunk(c) ==
    /\ pc = "export"
    /\ c \in pending
    /\ \E n \in (IF "export_error" \in Faults THEN 0 .. staged[c] ELSE {staged[c]}) :
          /\ file' = [file EXCEPT ![c][dest] = n]
          /\ written' = n
    /\ cur' = c
    /\ pc' = "check"
    /\ UNCHANGED <<storeVars, present, staged, dest, snap, left, batch, clearVars,
                   pending, toImport, outcomeVars, ghostVars>>

\* The slip of not comparing imported_rows with output_rows.
RecordCompleted_Unchecked ==
    /\ pc = "check"
    /\ UpsertDeferred(cur, Completed(written))
    /\ results' = results \cup {[chunk |-> cur, rows |-> written]}
    /\ suspect' = IF cur \in warned THEN suspect \cup {cur} ELSE suspect \ {cur}
    /\ pending' = pending \ {cur}
    /\ cur' = NoChunk /\ written' = 0
    /\ pc' = "export"
    /\ UNCHANGED <<envVars, dest, snap, left, batch, clearVars, toImport, converted,
                   report, warned>>

\* The export returned as many rows as staging counts: "completed".
RecordCompleted ==
    /\ pc = "check"
    /\ written = staged[cur]
    /\ UpsertDeferred(cur, Completed(written))
    /\ results' = results \cup {[chunk |-> cur, rows |-> written]}
    /\ suspect' = IF cur \in warned THEN suspect \cup {cur} ELSE suspect \ {cur}
    /\ pending' = pending \ {cur}
    /\ cur' = NoChunk /\ written' = 0
    /\ pc' = "export"
    /\ UNCHANGED <<envVars, dest, snap, left, batch, clearVars, toImport, converted,
                   report, warned>>

\* The slip of adding a result whatever became of the chunk.
RecordFailed_KeepsResult ==
    /\ pc = "check"
    /\ \/ written # staged[cur]
       \/ "export_error" \in Faults
    /\ UpsertDeferred(cur, Failed)
    /\ results' = results \cup {[chunk |-> cur, rows |-> written]}
    /\ pending' = pending \ {cur}
    /\ cur' = NoChunk /\ written' = 0
    /\ pc' = "export"
    /\ UNCHANGED <<envVars, dest, snap, left, batch, clearVars, toImport, converted,
                   report, ghostVars>>

\* The counts differ, or export_table raised after it opened the file:
\* "failed", and the batch goes on with its other chunks.
RecordFailed ==
    /\ pc = "check"
    /\ \/ written # staged[cur]
       \/ "export_error" \in Faults
    /\ UpsertDeferred(cur, Failed)
    /\ pending' = pending \ {cur}
    /\ cur' = NoChunk /\ written' = 0
    /\ pc' = "export"
    /\ UNCHANGED <<envVars, dest, snap, left, batch, clearVars, toImport, outcomeVars,
                   ghostVars>>

\* The chunk fails before its file is opened (connection, metadata, count).
ExportRaises(c) ==
    /\ "export_error" \in Faults
    /\ pc = "export"
    /\ c \in pending
    /\ UpsertDeferred(c, Failed)
    /\ pending' = pending \ {c}
    /\ UNCHANGED <<envVars, pc, dest, snap, left, batch, clearVars, toImport,
                   exportVars, outcomeVars, ghostVars>>

\* The block commits and the batch returns one result per table.
EndBatch ==
    /\ pc = "export"
    /\ pending = {}
    /\ CommitBlock
    /\ converted' = converted \cup batch
    /\ batch' = {}
    /\ pc' = "batch"
    /\ UNCHANGED <<envVars, dest, snap, left, clearVars, pending, toImport,
                   exportVars, results, report, ghostVars>>

\* The commit fails: rolled back and raised.
CommitFails ==
    /\ "commit_error" \in Faults
    /\ pc = "export"
    /\ pending = {}
    /\ Abort

\* The sidecars of a committed block, one after the other.
Sidecar(e) ==
    /\ \/ WriteSidecar(e)
       \/ "sidecar_error" \in Faults /\ SidecarError(e)
    /\ UNCHANGED <<envVars, pc, dest, snap, left, batch, clearVars, pending, toImport,
                   exportVars, outcomeVars, ghostVars>>

\* build_conversion_report: a supported table without a result is "skipped"
\* like an unsupported one; the chunks listed are those with a result.
FinishRun ==
    /\ pc = "batch" /\ flush = {}
    /\ LoopDone
    /\ report' = [dest |-> dest, successful |-> results,
                  skipped |-> Table \ converted]
    /\ ForgetRun
    /\ CloseStore
    /\ UNCHANGED <<envVars, suspect>>

-----------------------------------------------------------------------------
(***************************************************************************)
(* The environment.                                                        *)
(***************************************************************************)

\* A connection or statement outside every try block fails: _connect before
\* or during the pre-clear, prepare_stage_schema, TRUNCATE.
OracleError ==
    /\ "oracle_error" \in Faults
    /\ \/ pc \in {"preclear", "truncate"}
       \/ pc = "batch" /\ flush = {} /\ ~LoopDone
    /\ Abort

\* The process is killed at any point.
Crash ==
    /\ "crash" \in Faults
    /\ pc # "idle"
    /\ Abort

\* Between runs: the container is gone and inspect prepared a new one, or
\* inspect ran again and replaced the staging tables.
NewStaging ==
    /\ pc = "idle"
    /\ staged' = [c \in Chunk |-> 0]
    /\ present' \in IF "absent_tables" \in Faults THEN SUBSET Table ELSE {Table}
    /\ UNCHANGED <<storeVars, file, pc, dest, snap, left, batch, clearVars, pending,
                   toImport, exportVars, outcomeVars, ghostVars>>

\* The steps of a run itself.
RunStep ==
    \/ \E t \in Table : DeleteRows(t) \/ DeferDelete(t) \/ DeleteError(t)
                        \/ TruncateTable(t)
    \/ PreclearDone \/ NextPass \/ PreclearGivesUp
    \/ \E S \in SUBSET left : SkipBatch(S) \/ StartBatch(S)
    \/ \E G \in SUBSET toImport :
          ImportChunks(G) \/ ImportWithWarnings(G) \/ ImportFails(G)
    \/ \E c \in pending : MarkFailed(c) \/ ExportChunk(c) \/ ExportRaises(c)
    \/ RecordCompleted \/ RecordFailed
    \/ RaiseImportError \/ EndBatch \/ CommitFails
    \/ \E e \in flush : Sidecar(e)
    \/ FinishRun
    \/ OracleError

Next ==
    \/ \E d \in Dest : StartRun(d)
    \/ RunStep
    \/ Crash
    \/ NewStaging

Spec == Init /\ [][Next]_vars

\* The program keeps executing its next statement; nothing obliges the user
\* to start a run, nor the environment to fail.
FairSpec == Spec /\ WF_vars(RunStep)

-----------------------------------------------------------------------------
(***************************************************************************)
(* Properties.                                                             *)
(***************************************************************************)

\* A chunk recorded as completed has, at the destination it was written to,
\* a file with exactly its rows of the dump - unless a warning of the run
\* that completed it named it.  The check in _export_one_batched_chunk compares
\* staging with the file and never with the dump, so this rests on what the
\* pre-clear, the truncation and the import leave in staging over all
\* interleavings of failed, killed and resumed runs.
NoSilentCorruption ==
    \A c \in Chunk :
        IsCompleted(db[c]) /\ c \notin suspect => \E d \in Dest : file[c][d] = Rows[c]

\* A sidecar never runs ahead of the database: a chunk with a sidecar is
\* completed in the committed rows, with the same count.  Rebuilding a lost
\* database from sidecars relies on it.
SidecarsFollowCommit ==
    \A c \in Chunk : sidecar[c] # NoRow => db[c] = sidecar[c]

\* Every chunk a report lists as converted is durably completed, with the
\* row count the report gives, although the report is built from results
\* collected before the commit.
ReportIsDurable ==
    \A e \in report.successful : db[e.chunk] = Completed(e.rows)

\* A run that reaches its report has dealt with every supported table whose
\* staging table exists: each chunk is durably completed or failed, and the
\* completed ones are those the report lists.
FinishAccountsForAll ==
    [][FinishRun =>
         LET chunks == ChunksOf(present \ Unsupported)
         IN  /\ \A c \in chunks : db'[c].status \in {"completed", "failed"}
             /\ {e.chunk : e \in report'.successful}
                  = {c \in chunks : IsCompleted(db'[c])}]_vars

\* Convert implements the abstract resumable conversion: what is completed
\* stays completed, and no later step of any run touches its files.
Abstract == INSTANCE Resumable
                WITH done <- {c \in Chunk : IsCompleted(db[c])}, out <- file
ImplementsResumable == Abstract!Spec

\* A run ends, with a report or an exception, however the tables are cleared
\* and whatever fails: the delete loop in particular gives up.
RunTerminates == (pc # "idle") ~> (pc = "idle")

-----------------------------------------------------------------------------
(***************************************************************************)
(* What the sources say of the convert phase and the code does not always  *)
(* do: the runs finding_reimport and finding_report_failures end in a      *)
(* counterexample, and Convert_proofs says what it takes to get there.     *)
(***************************************************************************)

\* convert_table_batch: redoing a batch "is safe because re-import is
\* idempotent" - so a completed chunk has its exact rows, whatever happened
\* before it was completed.
ReimportIsIdempotent ==
    \A c \in Chunk : IsCompleted(db[c]) => \E d \in Dest : file[c][d] = Rows[c]

\* convert_table_batch: a chunk failure "is reflected later in the
\* conversion report" - so a table with a failed chunk is not reported like
\* one that converted.
ReportReflectsFailures ==
    [][FinishRun =>
         \A c \in ChunksOf(present \ Unsupported) :
             db'[c].status = "failed" => TableOf[c] \in report'.skipped]_vars
=============================================================================
