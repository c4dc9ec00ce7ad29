------------------------------ MODULE ConvertInv ------------------------------
(***************************************************************************)
(* The inductive invariant of Convert: why a completed chunk is exact, why *)
(* sidecars and reports never run ahead of the database, and why completed *)
(* chunks are left alone.  TLC checks it as an invariant of a run;         *)
(* Convert_proofs proves it inductive for every value of the constants.    *)
(***************************************************************************)
EXTENDS Convert

\* The staging partition of c is empty, or a warning was logged about c.
Clean(c) == staged[c] = 0 \/ c \in warned

\* It holds the rows of the dump, or a warning was logged about c.
Exact(c) == staged[c] = Rows[c] \/ c \in warned

\* The connection and the file agree except inside the export block, and a
\* completed row is never on its way to be overwritten.
StoreInv ==
    /\ pc \notin {"export", "check"} => autocommit /\ deferred = {} /\ tx = db
    /\ pc \in {"export", "check"} => ~autocommit
    /\ pc # "batch" => flush = {}
    /\ \A c \in Chunk : IsCompleted(db[c]) => tx[c] = db[c]
    /\ \A e \in flush : IsCompleted(e.row) /\ db[e.chunk] = e.row
    /\ \A e \in deferred : IsCompleted(e.row) /\ tx[e.chunk] = e.row
    /\ \A c \in Chunk : sidecar[c] # NoRow =>
                            IsCompleted(sidecar[c]) /\ db[c] = sidecar[c]

\* The chunks a run still has to deal with are not completed, and nothing
\* happened to the rows of later batches since the snapshot.
WorkInv ==
    /\ pc # "idle" => dest \in Dest
    /\ pc \in {"idle", "preclear", "batch"} => pending = {} /\ batch = {}
    /\ pc \in {"export", "check"} => toImport = {}
    /\ pc = "truncate" => toImport = pending
    /\ pc = "check" => cur \in pending /\ file[cur][dest] = written
    /\ \A c \in pending : TableOf[c] \in batch /\ ~IsCompleted(tx[c])
    /\ batch \cap left = {}
    /\ pc = "idle" => left = {}
    /\ \A c \in ChunksOf(left) : snap[c] = db[c] /\ tx[c] = db[c]

\* What staging holds for the chunks the run still has to deal with.
StageInv ==
    /\ pc = "preclear" =>
          ~Legacy /\ \A c \in ChunksOf(left) :
                        \/ IsCompleted(snap[c])
                        \/ Clean(c)
                        \/ TableOf[c] \in todo \cup remaining
    /\ pc \notin {"idle", "preclear"} =>
          Legacy \/ \A c \in ChunksOf(left) : IsCompleted(snap[c]) \/ Clean(c)
    /\ pc = "truncate" => Legacy /\ \A c \in pending : Clean(c) \/ TableOf[c] \in todo
    /\ pc = "import" =>
          /\ \A c \in toImport : Clean(c)
          /\ \A c \in pending \ toImport : Exact(c)
    /\ pc \in {"export", "check"} => \A c \in pending : Exact(c)

\* A completion, committed or not, has its file, and the right one unless a
\* warning was logged about the chunk.
OutputInv ==
    \A c \in Chunk : IsCompleted(tx[c]) =>
        \E d \in Dest : /\ file[c][d] = tx[c].rows
                        /\ c \notin suspect => file[c][d] = Rows[c]

\* Results and reports give the rows of completions.
ResultInv ==
    /\ \A e \in results : tx[e.chunk] = Completed(e.rows)
    /\ ReportIsDurable

\* Every supported table is still to do, in work or dealt with, and then its
\* chunks are completed, each with a result, or failed.
AccountInv ==
    /\ pc = "idle" => converted = {} /\ results = {}
    /\ pc # "idle" => converted \cup batch \cup left = present \ Unsupported
    /\ \A c \in ChunksOf(converted \cup batch) \ pending :
          \/ tx[c].status = "failed"
          \/ IsCompleted(tx[c]) /\ \E e \in results : e.chunk = c
    /\ \A e \in results : TableOf[e.chunk] \in converted \cup batch

IInv ==
    /\ TypeOK
    /\ StoreInv
    /\ WorkInv
    /\ StageInv
    /\ OutputInv
    /\ ResultInv
    /\ AccountInv
=============================================================================
