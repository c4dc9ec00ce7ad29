# TLA+ verification of oracle-dmp-converter

`oracle-dmp-converter` turns Oracle dump files (Data Pump `expdp`, legacy `exp`)
into Parquet, Avro or CSV by loading them into a staging Oracle database and
exporting them chunk by chunk (a chunk is a table, a partition or a
subpartition). A conversion is meant to be resumable: a SQLite store remembers
the state of every chunk, and a later run over the same work directory takes up
what is left. The specifications here are about what that promise is worth when
imports fail, statements are refused, and processes die.

Paths below are relative to `src/src/oracle_dmp_converter/` of the repository.

## 1. Inventory

| Component | Code | State it keeps | Operations |
|---|---|---|---|
| Command line | `cli/commands.py` | none | `doctor`, `inspect`, `plan`, `convert` |
| Facade | `converter.py` | the container, the executor; `manifest.json`, `plan.yaml`, `conversion_report.yaml` | `start`, `stop`, `inspect`, `plan`, `convert`, `run` |
| Executor | `core/executor.py` | the workflow of the dump format, caches of table metadata, of prepared schemas and of created tablespaces | `inspect_dump`, `convert_plan`, `convert_table_batch`, `convert_table_plan`, the recovery of missing tablespaces and quotas |
| Staging fixups | `core/staging.py` | (in the staging database) | disable foreign keys and triggers, drop VPD policies, replace materialized views, widen CHAR columns |
| Import workflows | `datapump/workflow.py`, `datapump/modern`, `datapump/legacy` | parameter and log files | discovery, metadata import, `import_chunk`, `import_chunks_batch` |
| Exit policy | `datapump/_exit_policy.py`, `_base_runner.py` | none | success, warning or fatal, from return code and ORA codes |
| Planner | `planner.py` | none (pure) | strategy and chunks of each table |
| State store | `persistence/state.py` | `state.sqlite`, `sidecars/*.rowcount` | `upsert`, `deferred_commit`, `snapshot`, `get`, `reconcile_from_sidecars` |
| Report | `persistence/report.py` | `conversion_report.yaml` | `build_conversion_report`, `save_conversion_report` |
| Session | `runtime/session.py` | `session.json` | write, verify, remove a stale one |
| Container | `runtime/container_oracle.py`, `container_manager.py`, `admin.py` | the container | start, reconnect, wait until ready, stop |
| Oracle access | `oracle/conn.py`, `omf.py` | a connection | retry, `ensure_schema`, `truncate_table`, `count_rows` |
| Exporter, writers | `oracle/exporter.py`, `format_writer.py` | the output file | `export_table`; open, append, close |
| Metadata, types | `oracle/metadata.py`, `types.py` | none | dictionary queries, type mapping |
| Models, serialization | `models.py`, `persistence/serialization.py` | `manifest.json`, `plan.yaml` | to and from dictionaries, save and load |
| Settings, row validation | `settings.py`, `config.py`, `persistence/validation.py` | none | table overrides; counting rows of output files |
| Parameter files, DDL | `datapump/modern`, `datapump/legacy` | none | text of parameter files, SQLFILE and INDEXFILE parsing |
| Sample data | `scripts/create_full_combined_dump.py` | none | a database to make a test dump of |

**How they interact.** A command builds the facade, which starts or reconnects
to a container and gives it to the executor. `inspect` imports the metadata of
the dump into staging schemas and writes a manifest; the planner makes a plan
of it; `convert` runs the executor over the plan with a state store. The
executor calls the import tool inside the container, counts and exports staging
rows over its connections, and records each chunk in the store. The program is
one sequential process. What is concurrent with it is its environment: the
import tool and the database fail at any statement, a file write fails, the
process is killed between any two steps. What persists is spread over four
places that are never updated together: the state database, the sidecars, the
output files, and the staging tables when the container is kept.

**Which behaviours are hard, and what makes each component correct.**

* *Convert.* Steps of several runs interleave with failures. Correct when a
  completed chunk has exactly its rows, is never touched again, and when what a
  report says is durable. The only check the code makes is staging against
  output file, never against the dump; all rests on what is in staging before
  the import.
* *State store.* Correct when nothing runs ahead of the commit: sidecars,
  results, reports.
* *Import with recovery (per-table path).* Retries of a call that may already
  have loaded rows; correct when each retry has put something right, when they are bounded, and
  when a later call takes up exactly what is left. Which outcomes of the tool
  are failures at all is the exit policy's.
* *Lifecycle.* `session.json`, the container and the manifest are written at
  different times by different commands; correct when the session says of the
  container only what is so, when no failure leaves a container that nothing
  names, when `inspect` starts on an empty one, and
  when a conversion never trusts staging that inspect did not finish.
* *Fixups.* What keeps a row from being loaded must be gone from staging before
  the data import. Every statement commits by itself, and a one-shot conversion
  that reconnects inspects staging an earlier one left half fixed; correct when
  the second inspection gets there too, or says what it could not do.
* *Planner, serialization.* Pure; correct when every segment of a table is in
  exactly one chunk, and the plan is the same after a trip through its files.
* *Writers.* A file is opened by the first batch and closed in a `finally`;
  correct when an export that returns has left one whole file, for no rows too.
* *Recovery of the store.* Sidecars outlive the rows they copy; correct when a
  replay never makes a chunk completed whose file is not there.

`PROJECT.json` lists the individual hazards with their lines.

## 2. Modules

| Module | What it is |
|---|---|
| `StateStore` | the SQLite rows, the connection's view of them, the deferred block and the sidecars; one operator per store operation |
| `Convert` | the convert phase over any number of runs, on top of `StateStore`, with the staging database and the import tool it drives; its properties |
| `Resumable` | abstract specification: chunks become done, and what is done is never touched again |
| `ConvertInv` | the inductive invariant of `Convert` in named parts |
| `Convert_proofs` | its proof, and the theorems that follow |
| `ConvertRefines_proofs` | the proof that `Convert` implements `Resumable` |
| `Measure`, `Measure_proofs` | pure: what a command still has to do, as a quadruple of naturals in dictionary order; the proof that none gets shorter for ever |
| `ConvertEnds`, `ConvertEnds_proofs` | what a run of `Convert` still has to do, and why it gets to its end; the proof |
| `MCConvert` | the small plans TLC checks |
| `ExitPolicy` | the ORA codes with an opinion, and success, warning or fatal from return code and codes |
| `TableConvert` | the per-table path: calls of `convert_table_plan` on one executor, with the import's recovery of tablespaces and quotas; on top of `StateStore` and `ExitPolicy` |
| `MCTableConvert`, `TableConvert_proofs` | its small instance and its theorems |
| `Lifecycle` | the commands of a work directory over `session.json`, manifest, plan and containers |
| `MCLifecycle`, `Lifecycle_proofs` | its small instances and its theorems |
| `Planner` | pure: what is known of a table, and the plan `plan_table` makes of it |
| `Serialization` | pure: `manifest.json` and `plan.yaml` as dictionaries with optional keys |
| `Inspect` | one staging schema through `inspect_dump`: metadata import, the fixups statement by statement, manifest and plan; on top of `Planner` and `Serialization` |
| `MCInspect`, `Inspect_proofs` | its small instance and its theorems |
| `FormatWriter` | pure: what a chunk's file is after each call of the three writers |
| `StoreRecovery` | runs that export batch by batch, losses of the database and `reconcile_from_sidecars`; on top of `StateStore` and `FormatWriter` |
| `Recoverable` | abstract specification: a record of finished chunks that may be lost, with notes of them beside the files |
| `MCStoreRecovery`, `StoreRecovery_proofs` | its small instance and its theorems |

`Lifecycle` and `Convert` meet in one step each: `ConvertTables` of `Lifecycle`
is a run of `Convert`, and `NewStaging` of `Convert` is an inspection, or a
container made again, of `Lifecycle`. `Inspect` is `ImportMetadata` to
`SavePlan` of `Lifecycle` for one schema in full; what its properties say at
`done` is what `Convert` takes for granted of a staging table (rows are not kept
out, policies hide none, each row belongs to one chunk). `StoreRecovery` has the
file and the store of a `Convert` run in more detail (batches of rows, header,
footer, sidecar paths) and staging and import in less.

### StateStore

`db` is what a restart would read, `tx` what this connection sees; they differ
only inside a `deferred_commit` block. `deferred` is `_deferred_completed`,
`flush` the completions whose commit is done and whose sidecars are being
written one after the other, `sidecar` the files. `UpsertNow` and
`UpsertDeferred` are the two branches of `upsert`; `UpsertBlock` is a block that
marks a set of chunks and commits (nothing of it is durable before its one
commit, so it is one step). `CloseStore` ends a connection without commit, which
is what `close()`, a rollback and the death of the process have in common. A row
keeps one count because the program writes "completed" only when
`imported_rows = output_rows`.

### Convert

`pc` is where the run is:

```
idle -> preclear -> batch -> (truncate ->) import -> export <-> check -> batch ... -> idle
                                             \-> mark_failed -> idle
```

| Action | Code |
|---|---|
| `StartRun` | `convert_plan`: filter the plan, take the snapshot, list the tables to clear |
| `DeleteRows`, `DeferDelete`, `DeleteError`, `PreclearDone`, `NextPass`, `PreclearGivesUp` | `_delete_from_staging_tables`: one DELETE with its own commit per table, three passes |
| `SkipBatch`, `StartBatch` | `convert_table_batch` up to the running marks, which one commit makes durable |
| `TruncateTable` | `_truncate_legacy_stage_tables` |
| `ImportChunks`, `ImportWithWarnings`, `ImportFails` | `import_chunks_batch`: one `impdp` call for the batch, or one `imp` call per schema in order |
| `MarkFailed`, `RaiseImportError` | `_mark_pending_failed`, one commit per chunk, and the exception |
| `ExportChunk`, `RecordCompleted`, `RecordFailed`, `ExportRaises` | `_export_one_batched_chunk` around `export_table` |
| `EndBatch`, `CommitFails`, `Sidecar` | the end of the deferred block |
| `FinishRun` | `build_conversion_report`, `save_conversion_report` |
| `OracleError`, `Crash`, `NewStaging` | what the environment does |

Data are counted, not identified: `staged[c]` is the number of rows in the
staging partition of chunk `c`, `file[c][d]` the number in its output file at
destination `d` (an output directory with a format). Duplicated and missing rows
are exactly what these numbers show. `NewStaging` is a new container, or
`inspect` run again: both leave staging tables empty. `Insertable` is external
knowledge, the constraints staging cannot disable: a reference-partitioned
child's rows need a parent row.

`warned` and `suspect` are no state of the program: `warned` collects the chunks
a WARNING of the current run's log is about, `suspect` the chunks that were
warned about when they were completed. They let the main property say precisely
which corruption the program does not hide. The set `Faults` says what the
environment may do in an instance; the proofs hold for every such set.

A run may export the chunks of a batch in any order (the code uses plan order):
more behaviours than the program has, none fewer. The running marks and the
truncation do follow plan order where the order decides what a failure leaves.

`converter.convert` always sets the executor's workflow before it calls
`convert_plan`, so `validate_staging_tables` always filters the plan; `StartRun`
takes the filtered plan. Not in this module: the per-table path
(`convert_table_plan`), a `StateStore` given as `None` (only library callers do
it), a dump that changes between two runs of one work directory, and an import
tool that keeps loading after the process that started it was killed.

### Lifecycle

A command is one process; between commands `pc = "idle"` and only the files and
the containers remain.

| Action | Code |
|---|---|
| `StartInspect`, `MakePlan`, `StartConvert`, `StartRun` | the commands, with their early refusals |
| `CleanupStop`, `CleanupUnlink` | `cleanup_stale_session`, both halves best-effort: the runtime may refuse the stop, the file system the unlink, and both errors are swallowed |
| `StartContainer`, `Reconnect`, `StartFails` | `start_or_reconnect` |
| `Ready`, `NotReady` | the rest of `OracleDMPConverter.start`: readiness, directories, seeding the executor from the session; or the container is stopped |
| `PrepareSchema`, `PrepareFails` | `prepare_stage_schema` and its caches |
| `ImportMetadata`, `ImportSwallows`, `ImportFails`, `RecoverTablespaces` | `import_all_metadata` with the one retry after ORA-00959; the legacy form logs errors and returns |
| `ApplyFixups`, `DescribeTables`, `SaveManifest`, `SavePlan` | the rest of `inspect_dump`, `inspect`, `plan` |
| `ConvertRefused`, `ConvertTables` | `validate_metadata_state`, then `convert_plan`, which may fail after any of its schemas |
| `PhaseFails` | any exception inside the `with` block |
| `OpenSession`, `WriteSession`, `WriteFails` | `stop` with `keep_alive`: `session.json` is written in place; an `OSError` before or in the middle of it ends the command |
| `StopContainer`, `UnlinkSession`, `UnlinkFails` | `stop` without it; here an `OSError` of the unlink ends the command |
| `Crash`, `Vanish`, `Recreate` | a kill; a container that exits (`--rm` removes it); one made again, empty, under its name |

A container's database is reduced to its staging users, its custom tablespaces
and, per schema, how far the metadata is: `none` (or partial), `raw`, `ready`.
`Needs` is what the DDL of a schema refers to, `Listed` what
`required_tablespaces` finds in it; the difference is what the recovery is for.
Container names are fresh (the code draws them at random), so a name is only
used again when neither a container nor the session has it. Quotas, which are
granted with each tablespace, the second runtime (Docker or Podman) and a
password that differs between commands are left out; the last makes a start
fail, as `ready_error` does. An Oracle error while a tablespace is recovered is
`ImportFails`.

### TableConvert

The batch path of `Convert` is what the commands use; `convert_table_plan` is the
second path to the same store and staging tables, for callers of the library. It
differs in what it does on failure: it retries an import, up to three times,
after creating tablespaces and granting quotas the tool's output names, and the
first chunk that fails ends the call.

```
idle -> prepare -> (truncate ->) next -> (clear ->) import -> export -> check -> next ... -> idle
                                                   |     ^
                                                   v     |  Retry
                                                   recover
```

| Action | Code |
|---|---|
| `StartTable`, `PrepareSchema`, `PrepareFails` | the beginning of `convert_table_plan`; `prepare_stage_schema` with its two caches |
| `TruncateTable`, `TruncateFails` | the one truncation of a legacy table in several chunks |
| `SkipCompleted`, `BeginChunk` | the question to the store, the running mark |
| `ClearWholeTable`, `ClearFails` | the truncation in `import_table_chunk` |
| `ImportLoads`, `ImportWarns`, `ImportFails` | `import_chunk` of both workflows and the classification in `_run_tool` |
| `Retry`, `GiveUp`, `RecoverFails` | `_import_chunk_with_recovery`: `_recover_missing_tablespaces`, then `_recover_missing_quota`; the recovery comes before the count of attempts, so the last failure is repaired too |
| `ExportChunk`, `RecordCompleted`, `ExportFails` | `export_stage_table`, the comparison of counts, the completed row |
| `ChunkFails`, `EndCall`, `FinishTable` | the `except` clause, and the two ways out |
| `Crash`, `NewStaging` | a kill or a new executor; a new container inspect has prepared |

What the tool prints is external: a set of ORA codes with the tablespaces its
ORA-00959 and ORA-01950 lines name, some of what the chunk lacks and at least
one. `ExitPolicy` decides what becomes of it. `impdp` truncates the whole table
at each call (`TABLE_EXISTS_ACTION=TRUNCATE`) or refuses to (ORA-39120, a
constraint the staging database keeps refers to the table); `imp` appends.
`exists` and `quota` are the container's, `created` and `prepared` the
executor's caches.

`doubtful` and `suspect` are no state of the program. A chunk is doubtful when
its import ended in a warning, or when a legacy retry appended to what the
failed attempt had loaded; `suspect` collects those completed all the same.
Names of tablespaces are folded to upper case by the recovery, so one whose name
is not upper case (`MixedCase`) is never put right: a bounded number of
attempts, then a failed chunk.

Left out: the connection's own errors after the import (they end as an export
failure does), an error of SQLite in an upsert, a sidecar that cannot be written
(`Convert` has it), a call without a state store. All tables are of one source
schema: schemas share nothing but the tablespace cache.

### Planner and Serialization

A table is its type, its columns `[type, owner, hidden]` and its partitions, a
sequence of `[name, subs]`. `DiscoverTableMetadata` is what `metadata.py` reads
of it, `ManifestEntry` what `inspect_dump` keeps of that, `PlanTable` is
`plan_table` in the order of its returns, with the override of `config.py`.
`Segments` and `Reads` are the reference: the physical segments of a table and
those a chunk's SELECT and import address. `PartitionsTable` says that a plan
covers each segment once under names of its own. The name of a chunk is kept as
the parts its text is put together from (zero-padded positions come first, so
the text determines the parts).

In `Serialization` a dictionary is a function on the keys it has; a field with
its default value has no key. `SavedManifest` and `SavedPlan` are a save
followed by a load.

### Inspect

```
idle -> import -> mviews <-> (create, drop, rename) -> triggers -> foreign_keys
     -> functions -> policies -> columns -> describe -> plan -> done
```

| Action | Code |
|---|---|
| `StartInspect` | `inspect_dump` on a new container, or on what the last inspection left |
| `ImportMetadata`, `ImportFails` | external: what `impdp METADATA_ONLY REPLACE` and `imp ROWS=N IGNORE=Y` make, less the objects their log complains of |
| `ListMviews`, `CreateTmp`, `DropMview`, `RenameTmp`, `MviewFails` | `dematerialize_mviews`, in no try block |
| `ListObjects`, `ListingFails`, `FixObject`, `FixFails`, `FixupDone` | `disable_triggers`, `disable_foreign_key_constraints`, `drop_vpd_policy_functions`, `drop_vpd_policies`, `widen_byte_char_columns`: a listing that may raise, then statements whose errors are logged |
| `DescribeTables`, `DescribeFails` | `discover_table_metadata` for every table, over its own connections |
| `PlanTables`, `PlanCommand` | `plan_manifest` on the manifest in memory (`run`) or read back from `manifest.json`, the plan then read back from `plan.yaml` |
| `ConnectionLost`, `Crash` | what the environment does |

The connection matters because `_apply_staging_fixups` uses one for all fixups:
once it is dead every statement is logged away, and only the next listing raises.
`logged` is no state of the program: it collects what the logs of the current
inspection complain of, which is what the properties except. The retry after a
missing tablespace is in `Lifecycle`.

### FormatWriter and StoreRecovery

A file is `[headers, rows, complete]`: Parquet schema, Avro container header or
CSV header line; rows; and whether a reader takes it for finished. Avro is
complete after each batch, Parquet and CSV only once closed. `Torn` is what a
kill inside a call leaves.

| Action | Code |
|---|---|
| `StartRun`, `OpenExports`, `CommitExports`, `CommitFails` | the running marks and the deferred commit of `convert_table_batch` |
| `ImportFails`, `MarkFailed` | `_mark_pending_failed` |
| `BeginExport`, `FetchBatch`, `EndOfRows`, `ExportFails` | `export_table`: lazy open, a batch per `fetchmany`, `write_empty` or `close`, the `finally` |
| `RecordCompleted`, `Sidecar`, `EndRun` | the completed row; the sidecars after the commit, at `_sidecar_path` |
| `LoseDatabase` | external: `state.sqlite` is lost or moved away |
| `StartReplay`, `ReplaySidecar`, `SkipSidecar`, `CommitReplay` | `reconcile_from_sidecars` in one `transaction` |
| `Crash` | a kill anywhere, a replay that raises |

No command calls `reconcile_from_sidecars`: an operator does, between runs.
`Path` is `_sidecar_path`, under which two chunks may share a file: characters a
file name cannot have are replaced. `reopened` is no state of the program: the
chunks whose file a later run has opened anew while an older sidecar was there.

### Properties

| Property | Meaning |
|---|---|
| `NoSilentCorruption` | a completed chunk has, at some destination, a file with exactly its rows, unless a warning named it when it was completed |
| `ReimportIsIdempotent` | every completed chunk is exact, warned about or not: true of truncated staging and tools without warnings, refuted for Data Pump by `finding_reimport` |
| `SidecarsFollowCommit` | a sidecar always agrees with a committed completed row |
| `ReportIsDurable` | what a report lists is durably completed, with the count it gives |
| `FinishAccountsForAll` | a run that reaches its report has completed or failed every chunk of every supported table with a staging table, and lists exactly the completed ones |
| `ImplementsResumable` | refinement: completed stays completed, its files are never rewritten |
| `RunTerminates` | a run ends |
| `RunsGetShorter`, `CallsGetShorter`, `CommandsGetShorter`, `ProcessGetsShorter` | each step of a run, of a per-table call, of a command, of a run or replay in `StoreRecovery` leaves less to do, in the order of `Measure` |
| `RunsGoOn` | a run that has not ended has a next step of its own |
| `IInv` | the inductive invariant |
| `TypeOK` | types, and with them the bound of the delete passes (`Convert`) and of the import attempts (`Lifecycle`, `TableConvert`) |
| `CompletedExact` | per-table path: a completed chunk has a file with exactly its rows, unless it was completed doubtful |
| `EveryRetryIsPaidFor` | a retry follows only when staging can write to one more tablespace the chunk needs |
| `ReturnsWholeTable` | a call that returns has every chunk of its table durably completed, with the counts it returns |
| `SessionTellsTruth` | users the session calls prepared exist, metadata it calls imported is there, if its container runs |
| `CachesAreTrue` | the executor's two caches name nothing the database lacks |
| `NoContainerLost` | a container that is started, and runs, stays in use or named by the session; only a failing write of `session.json` ends that |
| `InspectStartsFresh` | `inspect` works on a container nothing was done to, although the old one could not be stopped or the file that names it not be deleted |
| `ConvertOnReady` | a conversion under a recorded flag finds all metadata |
| `CommandsTerminate` | a command ends |
| `RowsLoadUnhindered` | after the fixups no trigger, foreign key, policy or narrow column is left on a table that will be loaded, but for what this inspection's logs name |
| `PoliciesDefused` | no standalone policy function outlives the fixups unless a log says so |
| `TablesStaged` | every discovered table is a plain table in the end, or a log says so, whatever a kill left between CREATE, DROP and RENAME |
| `PlanFitsDump` | each row of a supported table is in exactly one chunk, chunk names are distinct, exported columns can be read; the same through the files |
| `ReturnedExportIsWhole` | an export that returns has left one file with one header and exactly the rows read |
| `CompletedIsBacked` | what the store calls completed has its whole file, through kills and one loss of the database |
| `ImplementsRecoverable` | refinement: the file of a completed chunk is not touched, only whole files are recorded, sidecars note committed rows only, and a replay brings back only what was noted, whole files only until a second loss |

## 3. Runs

| Run | Instance | Shows |
|---|---|---|
| `convert_modern` | parent with two partitions (one empty), child that references it, batches of one | the properties with failing deletes, imports that fail or warn, failing exports and sidecars, and kills; the child is in a later batch than its parent, the case the cross-batch pre-clear is there for; only what a warning named is inexact |
| `convert_legacy` | three tables, one of them unsupported, of two schemas in one batch, hence two `imp` calls, the second of an empty table; two destinations | truncation, a second call that fails after the first loaded, failing commits, lost connections: none of it doubles or loses a row (`ReimportIsIdempotent`); the inductive invariant itself |
| `convert_batches` | fairness; three tables, batches of two, tables that may be absent | the short last batch, tables without a result; the delete loop gives up although a table is deferred in every pass; the two halves of why a run ends (`RunsGetShorter`, `RunsGoOn`), and that it does |
| `lifecycle_two_step` | Data Pump, `inspect` and `convert --plan`, two images; kills, failing tools, refused stops; both tablespaces missing from the listing | `SessionTellsTruth` and `CachesAreTrue` over any sequence of commands; with stops refused, the deletion of the file is what keeps `InspectStartsFresh` |
| `lifecycle_restarts` | fairness, `inspect` and `convert --plan`, one image; kills, containers that vanish or are made again, a `session.json` that cannot be written or deleted | with deletions refused, the stop is what keeps `InspectStartsFresh`; the check of the users is enough for `ConvertOnReady`; every step of a command leaves it less to do, and no state a kill leaves keeps a later command from ending |
| `lifecycle_one_shot` | legacy dump, all commands, two images | `NoContainerLost` when phases raise, containers vanish and the file system refuses writes and deletions |
| `table_path` | a table in two partitions, one in a listed and an unlisted tablespace, the other in a mixed-case one, and a whole table another one refers to; both formats; kills, failing statements, tools and exports | the per-table path over any number of calls, executors and containers: exact files but for the two doubtful cases, no retry for nothing and none for ever, no early return, completed is final |
| `inspect_fixups` | a materialized view, a composite-partitioned table with trigger, key, policy and BYTE columns, an external table with a packaged policy, a table with a user-defined type; both dump formats; every fault | inspections one after the other on what the last one left, killed between any two statements, with a connection that dies; the plan handed on or read back |
| `store_recovery` | chunks of 3, 1 and 0 rows in batches of 2, every format, two chunks with one sidecar path; kills, two losses of the database | whole files, a store that is right after any replay of one loss, and the refinement of `Recoverable`; runs and replays come to their end |

**Bounds.** Chunks have 0 or 1 rows in the dump and a staging partition has room
for 2 (`StageCap`), so that "too few", "exact" and "twice" all exist and the
state space is finite; a call that would not fit fails as `impdp` does when a
tablespace is full. Runs are not counted: a state is reached again once a run is
over, so TLC covers any number of them. Two tables are enough for both ends of a
constraint and for a batch boundary between them, a third gives a short last
batch. `MaxPass` is the code's 3. In `Lifecycle` commands are not counted
either; two container names are the recorded one and a new one (a third only
repeats a leak), two images tell a session's from a plan's, two schemas give an
inspection that stops half way, two tablespaces a recovery that finds one of
them only. `MaxAttempt` is the code's one retry. In `TableConvert` calls are not
counted; chunks have one row, an import adds at most one, and three attempts
make three, so staging is bounded by itself. `MaxAttempts` is the code's 3.
Three tablespaces are a listed, an unlisted and a mixed-case one; a chunk that
needs two is what makes a second retry possible. The tool's codes are the two
the recovery reads and the two fatal ones `impdp` puts before them. Runs with
containers as a symmetry set check invariants only. In `Inspect` inspections are
not counted; an import log names at most two objects (`MaxMissed`), enough for a
table and something on another; one object of each kind stands for all, since
the fixups treat them one by one. In `StoreRecovery` runs and replays are not
counted; a batch of 2 makes a chunk of two batches with a short last one, of one
short batch and of none; the database is lost at most twice (`MaxLosses`),
because a second loss is the case `CompletedIsBacked` excepts.

**What the passing runs do not claim.** `CompletedExact` excepts legacy retries
onto loaded rows: when `imp` loads part of a chunk and then fails for a quota,
the next attempt appends, and the chunk may be completed with rows counted
twice. It also excepts warnings. `NoSilentCorruption` and `ReimportIsIdempotent`
ask for an exact file at some destination: exact with one destination, the first
of two otherwise. `InspectStartsFresh`, `SessionTellsTruth` and `ConvertOnReady`
hold if not both halves of a cleanup are refused: if the old container cannot be
stopped *and* `session.json` cannot be deleted, `inspect` reconnects to the old
container and imports into it; TLC then finds an inspection that fails and
records `metadata_imported` of an earlier one. `NoContainerLost` excepts the
write of `session.json` (see the divergences below) and is about exceptions: a kill
between `StartContainer` and `WriteSession` leaves a container that nothing
names, as does an interrupt during `start` (`except Exception` does not see it),
and a stop Docker refuses leaves one too (see the divergences below).
`SessionTellsTruth` is checked for the two-step workflow of a Data Pump dump; it
fails for the one-shot command and for legacy dumps (see the divergences below).
`ConvertOnReady` needs one image: with two, TLC finds a sequence in which a
recreated container gets its users back from a conversion that took the session
for stale and was killed, and the next conversion passes the check on empty
staging. `RowsLoadUnhindered`, `PoliciesDefused` and `TablesStaged` except what
a log names: the program goes on after such a log entry, and it is for the
reader of the log to act. `PoliciesDefused` also excepts materialized views:
their policies go with the view, before the functions are listed by policy.
`CompletedIsBacked` claims nothing after a second loss for a chunk whose file
was opened anew since: its old sidecar was never withdrawn, and the replay calls
a partial file completed.

**Fairness.** Only `WF_vars(RunStep)` in `convert_batches` and
`WF_vars(CommandStep)` in `lifecycle_restarts`: the one process
executes its next statement, and every statement is taken to return. Nothing
obliges the user to start a run or a fault to happen. The properties on ever
shorter runs need no fairness: they say what each step does. For a call of
`convert_table_plan` and for runs and replays in `StoreRecovery` no liveness
property is stated; that they cannot go on for ever follows from theirs
(section 4), that they are not stuck from the absence of deadlocks in which
`pc` is not "idle".

**Findings.** Three runs end in the counterexample they look for; each quotes what
the sources say.

| Run | The sources say | What happens |
|---|---|---|
| `finding_reimport` | re-import is idempotent (`core/executor.py:1168`) | a DELETE the pre-clear could not do is logged; APPEND doubles the rows; staging and file agree, and the chunk is completed |
| `finding_report_failures` | the failure is reflected in the report (`core/executor.py:1207`) | the failed chunk is in no list, its table counts as converted |
| `finding_nondata_tables` | the planner marks external and temporary tables as unsupported (`models.py:184`) | `inspect_dump` builds the manifest entry without `table_type`, so the planner sees ordinary tables and plans them |

**Other divergences**, seen while modelling and without a run of their own:

* `models.py:418` documents `output_path` as the path of the written file; for a
  chunk an earlier run completed it is computed from this run's directory and
  format (`core/executor.py:853`), where nothing may have been written.
* `converter.py:76` says an unexpected Docker error of the shutdown is surfaced
  to the caller; `ContainerOracle.stop` swallows it (`runtime/container_oracle.py:656`),
  and `session.json` is deleted while the container runs.
* `runtime/session.py:133` says of the cleanup that it deletes the file; it
  swallows the `OSError` of the unlink (`:146`), and `inspect` goes on to
  `start_or_reconnect` with the file in place: it fails on the stopped container,
  or takes over one that could not be stopped.
* `README.md:185` says names in output paths are lowercased and characters
  replaced with `_`; `filesystem_safe_identifier` quotes them reversibly
  (`oracle/identifiers.py:163`). No property depends on the spelling.
* With `keep_alive`, a `session.json` that cannot be written ends the command
  with an `OSError` and the container running (`converter.py:190`): no file leads
  to it, or half of one that cannot be parsed.
* `datapump/_exit_policy.py:47` calls ORA-00959 and ORA-01950 "recoverable:
  caller fixes up + retries". When `imp` reports them at exit code 2, the exit is
  a warning, no recovery runs, and the chunk is exported with what was loaded.
* `core/executor.py:639` says the truncation keeps re-runs idempotent; the
  retries inside `_import_chunk_with_recovery` come after it and truncate
  nothing.
* `converter.py:101` says `convert` always writes the report; a run that raises
  writes none, and leaves the one of an earlier run.
* `persistence/state.py:48` says a failing chunk becomes `failed`; a TRUNCATE
  that raises is outside the try block, and the chunks of the batch stay
  `running`. Harmless: `running` counts as pending everywhere
  (`FinishAccountsForAll` holds with it).
* A completed parent is not imported again, so once staging is new its pending
  reference-partitioned child cannot be loaded any more, and
  `persistence/state.py:47` promises a resumable conversion.
* `core/executor.py:192` says `metadata_imported` follows a successful import of
  every schema. It stays TRUE when a one-shot `convert` that reconnected fails
  to import again (nothing resets it), and becomes TRUE when a legacy import
  only logged its errors.
* `converter.py:160` logs that a stale session is re-imported; `convert --plan`
  imports nothing again.
* `models.py:317` says `oracle_image` started the container; `stop` records the
  image of the plan.
* `datapump/_exit_policy.py:35` says unlisted codes are treated as fatal. At exit
  2 or 5 only the listed fatal codes count (`:155`): a rejected row (ORA-12899)
  is a warning, and the chunk is exported without it.
* `runtime/session.py:31` says the fingerprint detects a recreated container. It
  is computed from what the session itself records, so a container made again
  under its name passes.
* `models.py:325` says `convert` refuses an empty database. A failed `inspect`
  leaves the flag FALSE, which switches the check off.
* A `_$TMP` table left by a kill makes the CREATE of the next inspection of that
  container fail (ORA-00955), which no try block catches: a one-shot conversion
  that reconnects fails until the container goes (`core/staging.py:288`).
* An exact table name in the configuration that names no strategy hides an
  upper-cased entry that does (`config.py:120`).
* An export that fails after its first batch leaves a complete file with part of
  the rows, one that fails before it the file of an earlier run. The row says
  failed; the file does not.
* Two chunks whose names differ only in replaced characters share a sidecar, and
  the last one written stays. `ReplaySidecar` then restores one of them only: a
  chunk is converted again, none is taken for converted.
* Avro timestamps are computed in floating point (`int(total_seconds() *
  1_000_000)`, `oracle/format_writer.py:163`) and may be a microsecond early.
  Values are not modelled.

## 4. Proofs

Assumption: `ConvertAssumption`, the types of the constants, the distinctness of
table positions and a batch size of at least one. No bound of section 3 is
assumed: any tables, chunks, row counts, batch size, destinations and faults.

`Convert_proofs` proves `Spec => []IInv` and from it the safety properties:
`TypeCorrect`, `CompletedChunksExact` (`NoSilentCorruption`), `SidecarsDurable`,
`ReportsDurable` and `FinishAccounts` (`FinishAccountsForAll`).
`ConvertRefines_proofs` proves `Implements` (`Spec => ImplementsResumable`).

Why `NoSilentCorruption` needs a stronger invariant: that a completed chunk is
exact follows from the row-count check only if staging held its exact rows, which
follows from the import only if staging held none before (`StageInv`, "import"),
which the truncation gives (legacy), or the pre-clear did for *all* tables with a
pending chunk many steps earlier (Data Pump). So the fact is carried through the
loop: while clearing, every chunk still to do is clean, warned about, or in a
table still to clear; while batches run, every pending chunk of later batches is
clean or warned about. That needs `WorkInv`: pending means the same to the
pre-clear and to the batches because nothing changes the rows of later batches
after the snapshot. `StoreInv` ties connection, file and sidecars together,
`OutputInv` and `ResultInv` carry the consequences for files and reports, and
`AccountInv` partitions the plan into converted tables, the batch in work and
the tables to come, which gives `FinishAccountsForAll`.

Each part has one lemma (`TypeStep`, `StoreStep`, `WorkStep`, `StageStep`,
`OutputStep`, `ResultStep`, `AccountStep`) with one step per action. TLC checks
`IInv` itself in `convert_legacy`.

Two theorems say how far the findings of section 3 reach. `ReimportIdempotent`
proves what `finding_reimport` refutes, under `NothingLeftBehind`: the import
tool reports no warnings, and either staging is truncated (legacy dumps) or no
DELETE fails and no reference-partitioned table can defer one. So kills, failed
and repeated imports, failed commits and exports never double or lose a row by
themselves: it takes a row the pre-clear left, or one a warning kept out.
`ReportsReflect` proves what `finding_report_failures` refutes, when no export
fails: there is then no failed chunk for a report to hide. A failed import marks
its batch failed and raises, so that run never reports, and a later run that does
has completed the batch again (`ExportedInv`: what the run has gone through is
completed). Failed rows without a trace in the report thus come from failed
exports only. `convert_legacy` is an instance of the first hypothesis.

The refinement maps `done` to the chunks completed in `db` and `out` to the
files. `ExportChunk` is `Write`, `EndBatch` is `Finish` of what the commit makes
durable, every other step a stutter.

### Why runs, calls and commands end

"It ends" is liveness, which the prover cannot do. What can be proved of it, and
is, are the three facts that leave nothing but fairness:

1. *Every step shortens what is left.* `RunLength` (`ConvertEnds`), `CallLength`
   (`TableConvert`), `CommandLength` (`Lifecycle`) and `ProcessLength`
   (`StoreRecovery`) count what is left to do, most significant part first: the
   passes, then the tables of later batches, the stage of this one, and what this
   stage still has to go through. Every step of the program gives a shorter
   length: `RunsShorten`, `CallsShorten`, `CommandsShorten`, `ProcessShortens`.
   Only a new command, a kill and what the environment does to containers or to
   the database are no such steps.
2. *No length gets shorter for ever.* `ShorterIsWellFounded` of `Measure_proofs`
   derives it from the library's facts on lexicographic orders.
3. *There is always a next step.* `RunsNeverStuck` (`RunsGoOn`), for `Convert`:
   in every stage some statement has what it waits for. The guards that could be
   in the way are spelled out in `CanGoOn` because ENABLED cannot be used in a
   proof: the first table of the set to clear exists, the next call of the import
   tool has schemas to load, the next batch exists though it is short, the
   connection is in the commit mode the statement expects.

The sets that are counted must be finite, so these theorems assume finite sets of
tables, chunks or schemas (a dump has finitely many), and nothing else. What
`RunsGoOn` and the lengths need besides `IInv` is `EndsInv` (`EndsInvariance`):
the sidecars that are due are finitely many although a row count is any number,
a stage that works through a set is not entered with an empty one, and no
partition holds more than fits. With weak fairness of `RunStep` the three give
`RunTerminates`; this last inference is not machine-checked, and TLC checks
`RunTerminates` and `CommandsTerminate` themselves.

What each length rests on: the passes of the pre-clear are bounded because
`NextPass` counts them; a table that is deferred leaves the set of its pass; a
failing import is not repeated in the batch path, and in the per-table path
`Retry` counts its attempts, although a recovery may find something to put right
each time; `export` and `check` alternate, so a chunk weighs two; in `Lifecycle`
the schemas not seen yet come before the phase a schema is in.

### Inspect

Assumption: `InspectAssumption`: any tables, objects, functions, configuration,
`MaxMissed` and faults. `Inspect_proofs` proves `Spec => []IInv` and from it
`TypeCorrect`, `RowsUnhindered`, `FunctionsDropped` (`PoliciesDefused`),
`AllStaged` (`TablesStaged`) and `PlansFit` (`PlanFitsDump`).

That an object is gone after the fixups depends on a listing several phases
earlier, so the invariant says of every later phase what the earlier ones have
done (`HindranceInv`: in and after the phase of a kind, an enabled object is
still to do, or logged).
`PhaseInv` ties `listed`, `todo` and `current` to the phase. `MviewInv` says
where a half replaced view can be (only the current one, only between DROP and
RENAME), which gives `TablesStaged`. `DefuseInv` is the one that relates kinds: a
function still there has its policy still attached, until the functions are
listed; it holds because the policies go after the functions. `PlanInv` carries
what the manifest was made of.

`PlansFit` rests on two lemmas about `PlanTable`, `PlanCovers` (each segment in
one chunk, for every sequence of partitions) and `PlanReadable` (no column that
cannot be read is exported), and on two theorems about `Serialization`:
`ManifestRoundTrip` and `PlanRoundTrip`, a save followed by a load is the
identity on what the program saves. Their lemmas are per record type
(`ColumnRoundTrip`, `PartitionRoundTrip`, `ChunkRoundTrip`).

### StoreRecovery

Assumption: `RecoveryAssumption`. `StoreRecovery_proofs` proves `Spec => []RInv`
and from it `TypeCorrect`, `ExportsAreWhole` (`ReturnedExportIsWhole`) and
`CompletedBacked` (`CompletedIsBacked`), `Implements` (`ImplementsRecoverable`)
and `ProcessShortens` (`ProcessGetsShorter`). A sidecar is only right as long as its
file is: `RInv` says that the file behind a sidecar is whole unless it was
reopened, that a reopened chunk has a row in the database as long as no loss came
after (the running mark, committed before any file is opened), and that the file
of the export in progress has the rows read so far under one header. The replay
skips chunks with a row, so it never meets a reopened one before a second loss.

The refinement maps `done` to the chunks completed in `db`, `whole` to the
chunks whose file holds their rows, `noted` to those with a sidecar. A step that
puts a file in place is `Write` of the current chunk, which `WorkInv` says is not
completed in `db`; the commit of the exports is `Finish`, a sidecar `Note`, a
loss `Lose`, the commit of a replay `Recover`. `RInv` is too weak for the two
commits: it says of a completed chunk only that it is backed, not why. `OriginInv`
adds where an uncommitted completion comes from: in the block of the exports
from an export whose file is whole and is not opened again before the commit,
in a replay from a sidecar.

### TableConvert

Assumption: `TableConvertAssumption`: any tables, chunks, row counts,
tablespaces, faults and either format; the set of tablespaces is finite.
`TableConvert_proofs` proves `Spec => []TInv` and from it `TypeCorrect`,
`CompletedChunksExact` (`CompletedExact`), `RetriesPaidFor`
(`EveryRetryIsPaidFor`), `WholeTableReturned` (`ReturnsWholeTable`),
`Implements` (`ImplementsResumable`) and, with `FlushInv` (at most one sidecar is
due), `CallsShorten` (`CallsGetShorter`).

`CompletedExact` is inductive only together with `StageInv`: staging of the chunk
in work is empty before a legacy import unless it is doubtful, and so is staging
of every chunk still to do of a partitioned legacy table, because the one
truncation came before the first of them; for Data Pump the import itself
empties it. `TodoInv` says that the list of chunks has no repetition, so that
work on its head leaves the rest alone, and `RowInv` that an upsert outside a
deferred block is durable at once.

`EveryRetryIsPaidFor` is an argument by cardinality (`RecoveryPays`): by
`SpaceInv` the caches name only tablespaces that exist, and the tool's output
names only what the chunk lacks, so a recovery that creates or grants anything
enlarges the set of needed, unlisted tablespaces with a quota by one at least;
after `attempt - 1` recoveries it has as many members (`AttemptInv`). A
mixed-case name breaks the argument, since what is created is another
tablespace, and is excepted.

`ResultInv` says that a chunk of the table is still to do or has a durable row
that agrees with its result; with an empty list that is `ReturnsWholeTable`.

### Lifecycle

Assumption: `LifecycleAssumption`: any container names, images, schemas,
tablespaces, commands and faults. Some theorems need more, and say what, as
their ASSUME; these are the conditions the runs are chosen by, and section 3
says what happens without them.

| Theorem | Property | Assumes besides |
|---|---|---|
| `TypeCorrect` | `TypeOK` | |
| `InspectFresh` | `InspectStartsFresh` | not both halves of a cleanup refused (`OneObeys`) |
| `CachesTrue` | `CachesAreTrue` | no container made again |
| `SessionTruth` | `SessionTellsTruth` | `OneObeys`, Data Pump, two-step commands, no container made again |
| `NoneLost` | `NoContainerLost` | no kills, no refused stops |
| `ConvertReady` | `ConvertOnReady` | `OneObeys`, Data Pump, two-step commands; one image, if containers are made again |
| `CommandsShorten` | `CommandsGetShorter` | finitely many schemas |

The common part of the invariant, `LInv`, says what a command has at each step
(`PhaseInv`) and whose session it is (`SessionInv`: a command that reconnected
holds the container the session names, one that started its own found no
session or has removed it). On top of it each theorem has a part of its own:
`UsersInv` (prepared users exist), `MetaInv` (the schemas an inspection is
through with are ready), `FlagInv` (a container called imported is ready, or was
made again and still lacks a user, which is what `validate_metadata_state` goes
by), `FreshInv` (an inspection never reconnects, and what does not run holds
nothing; a container told to stop is gone if the runtime obeys). `NoneLost` needs
no part of its own: what a step deletes or overwrites names a container that is
gone or held. The second half of that disjunction is what needs one image:
otherwise a conversion that ignores the session as stale adds the missing users
to a database that is still empty.

### Only model-checked

`RunTerminates` and `CommandsTerminate`: liveness under fairness is out of the
prover's reach; what is proved of them is above. The findings are
counterexamples, which TLC gives. Every other property of a passing run is the
statement of a theorem.

## 5. Not modelled

* *Text.* Parameter files, SQLFILE and INDEXFILE parsing, quoting, the text of
  reasons and reports: the content of strings. What the control needs of it is a
  constant (`Listed`, `Path`) or a choice (`Output`).
* *Values.* Type mapping and the conversion of column values; rows are counted.
* *Retries and polling.* `with_oracle_retry` wraps the opening of a connection
  only and repeats nothing with an effect; readiness polling is the choice
  between `Ready` and `NotReady`.
* *Two commands at a time* over one work directory. No lock forbids it, and no
  document promises anything of it.
* *A `StateStore` given as `None`* and plans merged by callers of the library.
* *Row validation* (`count_output_rows`): no command calls it. *Sample data*: a script
  the converter never runs.
* *Quotas in `Lifecycle`*, the second runtime, passwords: see there. A manifest
  or plan that cannot be written is `PhaseFails`; half of one, which the next
  command refuses to read, is not modelled.
* *SQLite errors at a single statement* of the export block (a failing commit is
  modelled), a report that cannot be written, and the part of a batch an Avro
  file of a failed chunk may hold.
