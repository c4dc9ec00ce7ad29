------------------------------ MODULE StateStore ------------------------------
(***************************************************************************)
(* The SQLite state store of a conversion (persistence/state.py): one row  *)
(* per chunk, autocommitted unless a deferred_commit block is open, and    *)
(* one ".rowcount" sidecar file per completed chunk, written only after    *)
(* the commit that made the row durable.                                   *)
(*                                                                         *)
(* The store has no process of its own: it is a library the executor       *)
(* calls.  This module therefore gives the state and one action per        *)
(* operation; Convert composes them with the executor's steps.             *)
(*                                                                         *)
(* Abstraction: imported_rows and output_rows are equal in every           *)
(* "completed" row the program writes (the executor compares them first),  *)
(* so a row keeps one count, "rows"; the error text is left out.           *)
(***************************************************************************)
EXTENDS Naturals

CONSTANT Chunk              \* (table_name, chunk_name) keys of the plan

VARIABLES
    db,                     \* the committed rows: what a restart reads
    tx,                     \* the rows as this connection sees them
    autocommit,             \* StateStore._autocommit
    deferred,               \* StateStore._deferred_completed
    flush,                  \* committed completions whose sidecar is due
    sidecar                 \* the sidecar files on disk

storeVars == <<db, tx, autocommit, deferred, flush, sidecar>>

Status == {"none", "running", "completed", "failed"}
Row == [status : Status, rows : Nat]

NoRow == [status |-> "none", rows |-> 0]        \* no record for the key
Running == [status |-> "running", rows |-> 0]
Failed == [status |-> "failed", rows |-> 0]
Completed(n) == [status |-> "completed", rows |-> n]

Entry == [chunk : Chunk, row : Row]

StoreTypeOK ==
    /\ db \in [Chunk -> Row]
    /\ tx \in [Chunk -> Row]
    /\ autocommit \in BOOLEAN
    /\ deferred \subseteq Entry
    /\ flush \subseteq Entry
    /\ sidecar \in [Chunk -> Row]               \* NoRow: no file

-----------------------------------------------------------------------------
StoreInit ==
    /\ db = [c \in Chunk |-> NoRow]
    /\ tx = db
    /\ autocommit = TRUE
    /\ deferred = {}
    /\ flush = {}
    /\ sidecar = [c \in Chunk |-> NoRow]

\* upsert outside a block: committed at once.  (The library's per-table path
\* also writes the sidecar of a completed row here; the batch path upserts
\* outside a block only rows that are not completed.)
UpsertNow(c, row) ==
    /\ autocommit
    /\ tx' = [tx EXCEPT ![c] = row]
    /\ db' = tx'
    /\ flush' = IF row.status = "completed"
                THEN flush \cup {[chunk |-> c, row |-> row]}
                ELSE flush
    /\ UNCHANGED <<autocommit, deferred, sidecar>>

\* The slip of listing a completion's sidecar before the block has committed.
UpsertDeferred_SidecarEarly(c, row) ==
    /\ ~autocommit
    /\ tx' = [tx EXCEPT ![c] = row]
    /\ sidecar' = IF row.status = "completed"
                  THEN [sidecar EXCEPT ![c] = row]
                  ELSE sidecar
    /\ UNCHANGED <<db, autocommit, deferred, flush>>

\* upsert inside a block: visible to this connection only; a completion is
\* remembered so that its sidecar can follow the commit.
UpsertDeferred(c, row) ==
    /\ ~autocommit
    /\ tx' = [tx EXCEPT ![c] = row]
    /\ deferred' = IF row.status = "completed"
                   THEN deferred \cup {[chunk |-> c, row |-> row]}
                   ELSE deferred
    /\ UNCHANGED <<db, autocommit, flush, sidecar>>

\* A whole block that upserts the same row for every chunk of S and commits:
\* nothing of it is durable before its one commit, so it is one step.
UpsertBlock(S, row) ==
    /\ autocommit
    /\ tx' = [c \in Chunk |-> IF c \in S THEN row ELSE tx[c]]
    /\ db' = tx'
    /\ UNCHANGED <<autocommit, deferred, flush, sidecar>>

\* deferred_commit: entering the block.
OpenBlock ==
    /\ autocommit' = FALSE
    /\ deferred' = {}
    /\ UNCHANGED <<db, tx, flush, sidecar>>

\* deferred_commit: clean exit.  One commit makes every upsert of the block
\* durable; the sidecars are due from then on.
CommitBlock ==
    /\ ~autocommit
    /\ db' = tx
    /\ flush' = deferred
    /\ deferred' = {}
    /\ autocommit' = TRUE
    /\ UNCHANGED <<tx, sidecar>>

\* _write_sidecar: temp file and rename, so the file is whole or absent.
WriteSidecar(e) ==
    /\ e \in flush
    /\ flush' = flush \ {e}
    /\ sidecar' = [sidecar EXCEPT ![e.chunk] = e.row]
    /\ UNCHANGED <<db, tx, autocommit, deferred>>

\* _write_sidecar: an OSError is logged and never raised.
SidecarError(e) ==
    /\ e \in flush
    /\ flush' = flush \ {e}
    /\ UNCHANGED <<db, tx, autocommit, deferred, sidecar>>

\* The connection ends without a commit - close(), a rolled-back block or the
\* death of the process: what was not committed is gone, and sidecars that
\* were due are never written.
CloseStore ==
    /\ tx' = db
    /\ autocommit' = TRUE
    /\ deferred' = {}
    /\ flush' = {}
    /\ UNCHANGED <<db, sidecar>>
=============================================================================
