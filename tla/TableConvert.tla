---------------------------- MODULE TableConvert ----------------------------
(***************************************************************************)
(* One table at a time: StagingExecutor.convert_table_plan, the path a     *)
(* caller of the library takes.  A call prepares the staging schema, takes *)
(* the chunks of the table in plan order, and imports each with up to      *)
(* three attempts: after a failed one, missing tablespaces are created and *)
(* missing quotas granted (_import_chunk_with_recovery).  The first chunk  *)
(* that fails ends the call.                                               *)
(*                                                                         *)
(* Calls follow each other on one executor, whose caches live as long as   *)
(* it does, over one state store and one staging schema.  Rows are         *)
(* counted as in Convert: staged[c] in the staging (sub)partition of chunk *)
(* c, file[c] in its output file.                                          *)
(***************************************************************************)
EXTENDS StateStore, ExitPolicy, FiniteSets, Sequences, Measure

CONSTANTS
    Table,                  \* supported tables, all of one source schema
    ChunksOf,               \* ChunksOf[t]: table_plan.chunks
    Partitioned,            \* tables planned by partition or subpartition
    Referenced,             \* tables a constraint staging keeps refers to
    Rows,                   \* Rows[c]: rows of chunk c in the dump
    Tablespace,             \* custom tablespaces of the dump
    MixedCase,              \* those whose name is not in upper case
    Needs,                  \* Needs[c]: tablespaces of the segments of c
    Listed,                 \* required_tablespaces(): found in the DDL
    ToolCodes,              \* ORA codes the import tools print
    Faults,                 \* what the environment may do: see Fault
    NoTable, NoFile

\* max_attempts of _import_chunk_with_recovery.
MaxAttempts == 3

Fault == {"crash",              \* the process is killed
          "oracle_error",       \* a statement or connection fails
          "import_error",       \* the tool fails, or warns, for other reasons
          "export_error"}       \* the export raises or ends early

ASSUME TableConvertAssumption ==
    /\ ChunksOf \in [Table -> Seq(Chunk)]
    /\ Partitioned \subseteq Table
    /\ \A t \in Table \ Partitioned : Len(ChunksOf[t]) = 1
    /\ \A t, u \in Table : \A i \in DOMAIN ChunksOf[t], j \in DOMAIN ChunksOf[u] :
          ChunksOf[t][i] = ChunksOf[u][j] => t = u /\ i = j
    /\ Referenced \subseteq Table
    /\ Rows \in [Chunk -> Nat]
    /\ IsFiniteSet(Tablespace)
    /\ MixedCase \subseteq Tablespace
    /\ Needs \in [Chunk -> SUBSET Tablespace]
    /\ Listed \subseteq Tablespace \ MixedCase
    /\ ToolCodes \subseteq Nat
    /\ Faults \subseteq Fault
    /\ NoTable \notin Table
    /\ NoFile \notin Nat

VARIABLES
    legacy,                 \* dump_format: exp/imp, or Data Pump
    exists,                 \* tablespaces of the container
    quota,                  \* those the staging schema may write to
    staged,                 \* rows in each staging (sub)partition
    file,                   \* rows in each output file, or NoFile
    created,                \* StagingExecutor._created_tablespaces
    prepared,               \* the schema is in _prepared_schemas
    pc,                     \* where the current call is
    table,                  \* the table of the call
    todo,                   \* its chunks not dealt with yet, in plan order
    attempt,                \* of the import of the current chunk
    output,                 \* what the tool printed last for that chunk
    written,                \* rows export_table returned
    results,                \* chunk_results of the call
    doubtful,               \* the import of the current chunk ended in a
                            \*   WARNING, or a retry appended to its own rows
    suspect                 \* chunks completed though doubtful

spaceVars == <<exists, quota, created, prepared>>
dataVars == <<staged, file>>
chunkVars == <<attempt, output, written, doubtful>>
vars == <<storeVars, legacy, spaceVars, dataVars, pc, table, todo, chunkVars,
          results, suspect>>

Result == [chunk : Chunk, rows : Nat]
Output == [codes : SUBSET Nat, missing : SUBSET Tablespace, noquota : SUBSET Tablespace]
NoOutput == [codes |-> {}, missing |-> {}, noquota |-> {}]

IsCompleted(row) == row.status = "completed"
ChunkSet(t) == {ChunksOf[t][i] : i \in DOMAIN ChunksOf[t]}
cur == Head(todo)

-----------------------------------------------------------------------------
TypeOK ==
    /\ StoreTypeOK
    /\ legacy \in BOOLEAN /\ prepared \in BOOLEAN /\ doubtful \in BOOLEAN
    /\ exists \subseteq Tablespace /\ quota \subseteq exists
    /\ created \subseteq Tablespace
    /\ staged \in [Chunk -> Nat]
    /\ file \in [Chunk -> Nat \cup {NoFile}]
    /\ pc \in {"idle", "prepare", "truncate", "next", "clear", "import",
               "recover", "export", "check"}
    /\ table \in Table \cup {NoTable}
    /\ todo \in Seq(Chunk)
    /\ attempt \in 1 .. MaxAttempts
    /\ output \in Output
    /\ written \in Nat
    /\ results \subseteq Result
    /\ suspect \subseteq Chunk

\* A container whose staging tables inspect has created: it has the listed
\* tablespaces and others its recovery may have added, with their quotas.
FreshContainer(E) == Listed \subseteq E /\ E \cap MixedCase = {}

Init ==
    /\ StoreInit
    /\ legacy \in BOOLEAN
    /\ exists \in SUBSET Tablespace /\ FreshContainer(exists)
    /\ quota = exists
    /\ staged = [c \in Chunk |-> 0]
    /\ file = [c \in Chunk |-> NoFile]
    /\ created = {} /\ prepared = FALSE
    /\ pc = "idle" /\ table = NoTable /\ todo = <<>>
    /\ attempt = 1 /\ output = NoOutput /\ written = 0 /\ doubtful = FALSE
    /\ results = {} /\ suspect = {}

\* convert_table_plan returns or raises.
EndCall ==
    /\ pc' = "idle" /\ table' = NoTable /\ todo' = <<>>
    /\ attempt' = 1 /\ output' = NoOutput /\ written' = 0 /\ doubtful' = FALSE
    /\ results' = {}

\* The slip of going on with the next chunk instead of raising.
ChunkFails_GoesOn ==
    /\ UpsertNow(cur, Failed)
    /\ pc' = "next"
    /\ todo' = Tail(todo)
    /\ attempt' = 1 /\ output' = NoOutput /\ written' = 0 /\ doubtful' = FALSE
    /\ UNCHANGED <<table, results, suspect>>

\* Any exception of a chunk: it is marked "failed" and the call raises.
ChunkFails ==
    /\ UpsertNow(cur, Failed)
    /\ EndCall
    /\ UNCHANGED suspect

-----------------------------------------------------------------------------
(***************************************************************************)
(* Before the chunks.                                                      *)
(***************************************************************************)
StartTable(t) ==
    /\ pc = "idle"
    /\ pc' = "prepare" /\ table' = t /\ todo' = ChunksOf[t]
    /\ UNCHANGED <<storeVars, legacy, spaceVars, dataVars, chunkVars, results,
                   suspect>>

\* ensure_tablespace for each name of M that is not cached, in upper case.
CreateSpaces(M) ==
    /\ created' = created \cup M
    /\ exists' = exists \cup (M \ (created \cup MixedCase))

\* A slip: no truncation because the chunks are partitions.
PrepareSchema_NoTruncate ==
    /\ pc = "prepare"
    /\ IF prepared
       THEN UNCHANGED spaceVars
       ELSE /\ CreateSpaces(Listed)
            /\ quota' = quota \cup Listed
            /\ prepared' = TRUE
    /\ pc' = "next"
    /\ UNCHANGED <<storeVars, legacy, dataVars, table, todo, chunkVars, results,
                   suspect>>

\* prepare_stage_schema: nothing when cached, else the user, the listed
\* tablespaces and their quotas.
PrepareSchema ==
    /\ pc = "prepare"
    /\ IF prepared
       THEN UNCHANGED spaceVars
       ELSE /\ CreateSpaces(Listed)
            /\ quota' = quota \cup Listed
            /\ prepared' = TRUE
    /\ pc' = IF legacy /\ table \in Partitioned THEN "truncate" ELSE "next"
    /\ UNCHANGED <<storeVars, legacy, dataVars, table, todo, chunkVars, results,
                   suspect>>

\* A statement of it fails after some tablespaces; the last of them may lack
\* its quota.
PrepareFails(M, Q) ==
    /\ "oracle_error" \in Faults
    /\ pc = "prepare" /\ ~prepared
    /\ M \subseteq Listed /\ Q \subseteq M /\ Cardinality(M \ Q) <= 1
    /\ CreateSpaces(M)
    /\ quota' = quota \cup Q
    /\ EndCall
    /\ UNCHANGED <<storeVars, legacy, prepared, dataVars, suspect>>

Emptied(t) == [c \in Chunk |-> IF c \in ChunkSet(t) THEN 0 ELSE staged[c]]

\* A legacy table in several chunks is truncated once: imp appends.
TruncateTable ==
    /\ pc = "truncate"
    /\ staged' = Emptied(table)
    /\ pc' = "next"
    /\ UNCHANGED <<storeVars, legacy, spaceVars, file, table, todo, chunkVars,
                   results, suspect>>

\* The truncation is outside the try block: no chunk is marked.
TruncateFails ==
    /\ "oracle_error" \in Faults
    /\ pc = "truncate"
    /\ EndCall
    /\ UNCHANGED <<storeVars, legacy, spaceVars, dataVars, suspect>>

-----------------------------------------------------------------------------
(***************************************************************************)
(* The loop over the chunks.                                               *)
(***************************************************************************)
AtChunk == pc = "next" /\ flush = {} /\ todo # <<>>

\* A chunk an earlier call completed: its result is rebuilt from the row.
SkipCompleted ==
    /\ AtChunk
    /\ IsCompleted(tx[cur])
    /\ results' = results \cup {[chunk |-> cur, rows |-> tx[cur].rows]}
    /\ todo' = Tail(todo)
    /\ UNCHANGED <<storeVars, legacy, spaceVars, dataVars, pc, table, chunkVars,
                   suspect>>

\* The slip of not asking the store.
BeginChunk_Always ==
    /\ AtChunk
    /\ UpsertNow(cur, Running)
    /\ pc' = IF legacy /\ table \notin Partitioned THEN "clear" ELSE "import"
    /\ UNCHANGED <<legacy, spaceVars, dataVars, table, todo, chunkVars, results,
                   suspect>>

\* Any other chunk is marked "running" and imported; import_table_chunk
\* truncates first for a legacy chunk that is the whole table.
BeginChunk ==
    /\ AtChunk
    /\ ~IsCompleted(tx[cur])
    /\ UpsertNow(cur, Running)
    /\ pc' = IF legacy /\ table \notin Partitioned THEN "clear" ELSE "import"
    /\ UNCHANGED <<legacy, spaceVars, dataVars, table, todo, chunkVars, results,
                   suspect>>

ClearWholeTable ==
    /\ pc = "clear"
    /\ staged' = Emptied(table)
    /\ pc' = "import"
    /\ UNCHANGED <<storeVars, legacy, spaceVars, file, table, todo, chunkVars,
                   results, suspect>>

ClearFails ==
    /\ "oracle_error" \in Faults
    /\ pc = "clear"
    /\ ChunkFails
    /\ UNCHANGED <<legacy, spaceVars, dataVars>>

-----------------------------------------------------------------------------
(***************************************************************************)
(* One call of the import tool.                                            *)
(***************************************************************************)
Policy == IF legacy THEN LegacyImpPolicy ELSE ImpdpPolicy

\* impdp cannot truncate a table another one refers to (ORA-39120) and skips
\* it, with exit code 5.
Refused == ~legacy /\ table \in Referenced

Missing == Needs[cur] \ exists
NoQuota == (Needs[cur] \cap exists) \ quota

\* Staging after a call that loads n rows of the chunk: impdp truncates
\* (TABLE_EXISTS_ACTION=TRUNCATE), imp appends.
AfterLoad(n) ==
    IF Refused THEN staged
    ELSE [(IF legacy THEN staged ELSE Emptied(table)) EXCEPT ![cur] = @ + n]

\* What the tool may print: it names some of what it lacks, by ORA-00959 and
\* ORA-01950; impdp puts the object that failed before it.
Printable(o) ==
    /\ o.missing \subseteq Missing /\ (o.missing = {} <=> 959 \notin o.codes)
    /\ o.noquota \subseteq NoQuota /\ (o.noquota = {} <=> 1950 \notin o.codes)
    /\ Missing \cup NoQuota # {} => o.missing \cup o.noquota # {}
    /\ ~legacy /\ o.missing # {} => 39083 \in o.codes
    /\ ~legacy /\ o.noquota # {} => 31693 \in o.codes

Refusal == [codes |-> {39120}, missing |-> {}, noquota |-> {}]

Prints ==
    IF Refused
    THEN {Refusal}
    ELSE {o \in [codes : SUBSET ToolCodes, missing : SUBSET Missing,
                 noquota : SUBSET NoQuota] : Printable(o)}

\* The tool does not load everything: return code rc, output o.
ToolEndsShort(rc, o) ==
    /\ pc = "import"
    /\ o \in Prints
    /\ IF Refused
       THEN rc = 5
       ELSE Missing \cup NoQuota # {} \/ "import_error" \in Faults
    /\ \E n \in 0 .. Rows[cur] : staged' = AfterLoad(n)
    /\ output' = o

\* All rows are loaded, exit code 0.
ImportLoads ==
    /\ pc = "import"
    /\ ~Refused
    /\ Missing \cup NoQuota = {}
    /\ staged' = AfterLoad(Rows[cur])
    /\ output' = NoOutput
    /\ pc' = "export"
    /\ UNCHANGED <<storeVars, legacy, spaceVars, file, table, todo, attempt, written,
                   doubtful, results, suspect>>

\* _run_tool logs a WARNING and returns: the import counts as done.
ImportWarns(rc, o) ==
    /\ ToolEndsShort(rc, o)
    /\ Classify(Policy, rc, o.codes) = "warning"
    /\ doubtful' = TRUE
    /\ pc' = "export"
    /\ UNCHANGED <<storeVars, legacy, spaceVars, file, table, todo, attempt, written,
                   results, suspect>>

\* _run_tool raises DataPumpError with the output.
ImportFails(rc, o) ==
    /\ ToolEndsShort(rc, o)
    /\ Classify(Policy, rc, o.codes) = "fatal"
    /\ pc' = "recover"
    /\ UNCHANGED <<storeVars, legacy, spaceVars, file, table, todo, attempt, written,
                   doubtful, results, suspect>>

-----------------------------------------------------------------------------
(***************************************************************************)
(* _import_chunk_with_recovery, after a failed attempt.                    *)
(***************************************************************************)

\* A slip: the quota on what the recovery creates is left to the next round.
Recover_CreateOnly ==
    /\ CreateSpaces(output.missing)
    /\ quota' = quota \cup output.noquota
    /\ UNCHANGED prepared

\* _recover_missing_tablespaces, then _recover_missing_quota.
Recover ==
    /\ CreateSpaces(output.missing)
    /\ quota' = quota \cup ((output.missing \cup output.noquota) \ MixedCase)
    /\ UNCHANGED prepared

Recoverable == output.missing \cup output.noquota # {}

\* A slip: one attempt too many.
Retry_OneMore ==
    /\ pc = "recover"
    /\ Recoverable
    /\ attempt <= MaxAttempts
    /\ Recover
    /\ attempt' = attempt + 1
    /\ output' = NoOutput
    /\ doubtful' = (doubtful \/ (legacy /\ staged[cur] > 0))
    /\ pc' = "import"
    /\ UNCHANGED <<storeVars, legacy, dataVars, table, todo, written, results, suspect>>

\* A slip: an attempt after which something was put right is not counted.
Retry_Uncounted ==
    /\ pc = "recover"
    /\ Recoverable
    /\ Recover
    /\ output' = NoOutput
    /\ doubtful' = (doubtful \/ (legacy /\ staged[cur] > 0))
    /\ pc' = "import"
    /\ UNCHANGED <<storeVars, legacy, dataVars, table, todo, attempt, written, results,
                   suspect>>

\* Something was put right: the same call again, nothing truncated.
Retry ==
    /\ pc = "recover"
    /\ Recoverable
    /\ attempt < MaxAttempts
    /\ Recover
    /\ attempt' = attempt + 1
    /\ output' = NoOutput
    /\ doubtful' = (doubtful \/ (legacy /\ staged[cur] > 0))
    /\ pc' = "import"
    /\ UNCHANGED <<storeVars, legacy, dataVars, table, todo, written, results, suspect>>

\* Nothing to put right, or the attempts are used up - after the last
\* recovery, which a later call finds done.
GiveUp ==
    /\ pc = "recover"
    /\ ~Recoverable \/ attempt = MaxAttempts
    /\ Recover
    /\ ChunkFails
    /\ UNCHANGED <<legacy, dataVars>>

\* A statement of the recovery fails, after some tablespaces or quotas.
RecoverFails(M, Q) ==
    /\ "oracle_error" \in Faults
    /\ pc = "recover"
    /\ Recoverable
    /\ M \subseteq output.missing
    /\ Q \subseteq (IF M = output.missing THEN output.missing \cup output.noquota ELSE {})
    /\ CreateSpaces(M)
    /\ quota' = quota \cup (Q \ MixedCase)
    /\ ChunkFails
    /\ UNCHANGED <<legacy, prepared, dataVars>>

-----------------------------------------------------------------------------
(***************************************************************************)
(* The export, and the end of the call.                                    *)
(***************************************************************************)

\* export_stage_table counts the rows of the chunk in staging and writes them.
ExportChunk ==
    /\ pc = "export"
    /\ \E n \in (IF "export_error" \in Faults THEN 0 .. staged[cur] ELSE {staged[cur]}) :
          /\ file' = [file EXCEPT ![cur] = n]
          /\ written' = n
    /\ output' = NoOutput
    /\ pc' = "check"
    /\ UNCHANGED <<storeVars, legacy, spaceVars, staged, table, todo, attempt,
                   doubtful, results, suspect>>

RecordCompleted ==
    /\ pc = "check"
    /\ written = staged[cur]
    /\ UpsertNow(cur, Completed(written))
    /\ results' = results \cup {[chunk |-> cur, rows |-> written]}
    /\ suspect' = IF doubtful THEN suspect \cup {cur} ELSE suspect
    /\ pc' = "next" /\ todo' = Tail(todo)
    /\ attempt' = 1 /\ output' = NoOutput /\ written' = 0 /\ doubtful' = FALSE
    /\ UNCHANGED <<legacy, spaceVars, dataVars, table>>

\* The counts differ, or the export raised before or after opening the file.
ExportFails ==
    /\ \/ pc \in {"export", "check"} /\ "export_error" \in Faults
       \/ pc = "check" /\ written # staged[cur]
    /\ ChunkFails
    /\ UNCHANGED <<legacy, spaceVars, dataVars>>

FinishTable ==
    /\ pc = "next" /\ flush = {} /\ todo = <<>>
    /\ EndCall
    /\ UNCHANGED <<storeVars, legacy, spaceVars, dataVars, suspect>>

\* upsert of a completed row writes its sidecar before it returns.
Sidecar(e) ==
    /\ WriteSidecar(e)
    /\ UNCHANGED <<legacy, spaceVars, dataVars, pc, table, todo, chunkVars, results,
                   suspect>>

-----------------------------------------------------------------------------
(***************************************************************************)
(* The environment.                                                        *)
(***************************************************************************)

\* The process is killed, or the caller makes a new executor.
Crash ==
    /\ "crash" \in Faults
    /\ EndCall
    /\ CloseStore
    /\ created' = {} /\ prepared' = FALSE
    /\ UNCHANGED <<legacy, exists, quota, dataVars, suspect>>

\* A new executor over a new container that inspect has prepared.
NewStaging ==
    /\ pc = "idle"
    /\ staged' = [c \in Chunk |-> 0]
    /\ exists' \in SUBSET Tablespace /\ FreshContainer(exists')
    /\ quota' = exists'
    /\ created' = {} /\ prepared' = FALSE
    /\ UNCHANGED <<storeVars, legacy, file, pc, table, todo, chunkVars, results,
                   suspect>>

ImportStep ==
    \/ ImportLoads
    \/ /\ pc = "import"
       /\ \E rc \in {1, 2, 5}, o \in Prints : ImportWarns(rc, o) \/ ImportFails(rc, o)
    \/ Retry \/ GiveUp
    \/ \E M \in SUBSET output.missing, Q \in SUBSET (output.missing \cup output.noquota) :
          RecoverFails(M, Q)

CallStep ==
    \/ PrepareSchema \/ TruncateTable \/ TruncateFails
    \/ \E M, Q \in SUBSET Listed : PrepareFails(M, Q)
    \/ SkipCompleted \/ BeginChunk \/ ClearWholeTable \/ ClearFails
    \/ ImportStep
    \/ ExportChunk \/ RecordCompleted \/ ExportFails
    \/ \E e \in flush : Sidecar(e)
    \/ FinishTable

Next ==
    \/ \E t \in Table : StartTable(t)
    \/ CallStep
    \/ Crash
    \/ NewStaging

Spec == Init /\ [][Next]_vars

-----------------------------------------------------------------------------
(***************************************************************************)
(* Properties.                                                             *)
(***************************************************************************)

\* A completed chunk has a file with exactly its rows of the dump, unless its
\* import ended in a warning or a retry appended to the rows of a failed
\* attempt: the two ways in which convert_table_plan lets a wrong file pass,
\* whatever failed, was killed or was repeated before.
CompletedExact ==
    \A c \in Chunk : IsCompleted(db[c]) /\ c \notin suspect => file[c] = Rows[c]

\* Each retry of _import_chunk_with_recovery was paid for: the staging schema
\* can now write to one more tablespace the chunk needs, which was not among
\* the listed ones prepare_stage_schema had dealt with.  So a chunk in up to
\* two unlisted tablespaces never uses up its attempts on them.  (Names are
\* read and created in upper case: a mixed-case tablespace is never put
\* right.)
EveryRetryIsPaidFor ==
    pc = "import" /\ Needs[cur] \cap MixedCase = {} =>
        Cardinality(Needs[cur] \cap (quota \ Listed)) >= attempt - 1

\* convert_table_plan returns only when each chunk of the table is durably
\* completed, and with the count the store has for it.
ReturnsWholeTable ==
    [][FinishTable =>
         \A c \in ChunkSet(table) :
             \E e \in results : e.chunk = c /\ db[c] = Completed(e.rows)]_vars

\* What a call still has to do: the schema, the truncation, and then the
\* chunks; for each the import with the attempts that are left, the export and
\* the record; after it the sidecar.
CallLength ==
    CASE pc = "idle"     -> Nothing
      [] pc = "prepare"  -> <<3, 0, 0, 0>>
      [] pc = "truncate" -> <<2, 0, 0, 0>>
      [] pc = "next"     -> <<1, Len(todo), 5, IF flush = {} THEN 0 ELSE 1>>
      [] pc = "clear"    -> <<1, Len(todo), 4, 0>>
      [] pc = "import"   -> <<1, Len(todo), 3, 2 * (MaxAttempts - attempt) + 1>>
      [] pc = "recover"  -> <<1, Len(todo), 3, 2 * (MaxAttempts - attempt)>>
      [] pc = "export"   -> <<1, Len(todo), 2, 0>>
      [] pc = "check"    -> <<1, Len(todo), 1, 0>>

\* Every step of a call brings its end nearer: a chunk is taken once, and a
\* recovery that always finds something to put right uses up its attempts
\* (convert_table_plan, _import_chunk_with_recovery).
CallsGetShorter == [][Shorter(CallLength', CallLength) \/ ~CallStep]_vars

\* A completed chunk stays completed and its file is never written again, in
\* this path as in the batches.
Abstract == INSTANCE Resumable
                WITH done <- {c \in Chunk : IsCompleted(db[c])},
                     Dest <- {NoTable},
                     out <- [c \in Chunk |-> [d \in {NoTable} |-> file[c]]]
ImplementsResumable == Abstract!Spec
=============================================================================
