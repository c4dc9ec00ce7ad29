----------------------------- MODULE FormatWriter -----------------------------
(***************************************************************************)
(* The three format writers (oracle/format_writer.py): what a chunk's file *)
(* is after each call, for a writer that opens it lazily with the first    *)
(* batch.  StoreRecovery drives them the way export_table does.            *)
(*                                                                         *)
(* A file is a record: how many headers it has (the Parquet schema, the    *)
(* Avro container header, the CSV header line), how many rows, and whether *)
(* it is complete as it stands - the Parquet footer written, the last Avro *)
(* block closed, the CSV buffer flushed.  Values are left out.             *)
(***************************************************************************)
EXTENDS Naturals

Format == {"parquet", "avro", "csv"}        \* _WRITERS

File == [headers : Nat, rows : Nat, complete : BOOLEAN]

NoFile == [headers |-> 0, rows |-> 0, complete |-> FALSE]

\* write_batch leaves an Avro file closed; the others stay open.
ClosedByBatch(format) == format = "avro"

\* The slip of a CSV batch whose header does not depend on the ones before.
WriteBatch_EveryHeader(format, file, opened, n) ==
    [headers |-> IF ~opened THEN 1
                 ELSE IF format = "csv" THEN file.headers + 1 ELSE file.headers,
     rows |-> IF opened THEN file.rows + n ELSE n,
     complete |-> ClosedByBatch(format)]

\* write_batch: the first one creates the file ("wb", or a ParquetWriter) with
\* its header, so that nothing of an older file stays; the others append to it
\* without one (Parquet on the open writer, Avro by "a+b", CSV with
\* include_header false).
WriteBatch(format, file, opened, n) ==
    [headers |-> IF opened THEN file.headers ELSE 1,
     rows |-> IF opened THEN file.rows + n ELSE n,
     complete |-> ClosedByBatch(format)]

\* A first write_batch that raises after creating the file, once closed; and
\* write_empty, which creates a file of its own: a header and no rows.
WriteEmpty(format) == [headers |-> 1, rows |-> 0, complete |-> TRUE]

\* close completes what is open; there is nothing to do for Avro, nor for a
\* writer that never opened its file.
Close(format, file, opened) ==
    IF opened THEN [headers |-> file.headers, rows |-> file.rows, complete |-> TRUE]
    ELSE file

\* The process dies within a call: half a header, or half a batch.
Torn(format, file, opened) ==
    IF opened THEN [headers |-> file.headers, rows |-> file.rows, complete |-> FALSE]
    ELSE NoFile

\* A file a reader takes for the whole of n rows.
Holds(file, n) == file = [headers |-> 1, rows |-> n, complete |-> TRUE]
=============================================================================
