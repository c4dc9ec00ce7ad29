------------------------------- MODULE Planner -------------------------------
(***************************************************************************)
(* What is known of a table, and the plan made of it: reading a table from *)
(* the dictionary (oracle/metadata.py), the manifest entry inspect_dump    *)
(* makes of it, and planner.py.  Everything here is a function of its      *)
(* arguments; Inspect applies it to what a staging schema holds.           *)
(*                                                                         *)
(* A table is a record: its type, its columns [type, owner, hidden] and    *)
(* its partitions, a sequence of [name, subs] in partition order, subs the *)
(* sequence of subpartition names.  Names stand for themselves; sizes, row *)
(* counts, keys and comments decide nothing and are left out.              *)
(***************************************************************************)
EXTENDS Naturals, Sequences

UnsupportedColumnTypes == {"BFILE"}
BuiltinOwnedTypes == {"XMLTYPE", "SDO_GEOMETRY"}
NoOwner == "none"                       \* data_type_owner is None

SegmentName == STRING \ {"none"}        \* "none" is no name
Column == [type : STRING, owner : STRING, hidden : BOOLEAN]
TableRecord == [type : {"TABLE", "EXTERNAL", "GTT"},
                columns : SUBSET Column,
                partitions : Seq([name : SegmentName, subs : Seq(SegmentName)])]

\* A table the dictionary does not have: every query comes back empty.
NoMetadata == [type |-> "TABLE", columns |-> {}, partitions |-> <<>>]

\* discover_table_metadata: the columns that are not hidden, the type by
\* ALL_EXTERNAL_TABLES and TEMPORARY, and the partitions with theirs.
DiscoverTableMetadata(t) ==
    [type |-> t.type, columns |-> {c \in t.columns : ~c.hidden}, partitions |-> t.partitions]

\* inspect_dump rebuilds the record under the source schema from seven of
\* its fields; table_type is not one of them and gets its default.
ManifestEntry(m) ==
    [type |-> "TABLE", columns |-> m.columns, partitions |-> m.partitions]

-----------------------------------------------------------------------------
\* _unsupported_column_reason is not None.  The built-in types are let
\* through before the owner is looked at.
ColumnUnsupported(c) ==
    \/ c.type \in UnsupportedColumnTypes
    \/ c.type \notin BuiltinOwnedTypes /\ c.owner # NoOwner

\* _table_unsupported_reason is not None.
TableUnsupported(m) ==
    \/ m.type \in {"EXTERNAL", "GTT"}
    \/ \E c \in m.columns : ColumnUnsupported(c)

\* table_override: the exact key, else the upper-cased one; "none" when there
\* is no entry or the entry names no strategy.  An exact entry without a
\* strategy hides an upper-cased one that has one.
TableOverride(config, upper, t) ==
    IF t \in DOMAIN config THEN config[t]
    ELSE IF upper[t] \in DOMAIN config THEN config[upper[t]]
    ELSE "none"

-----------------------------------------------------------------------------
\* ChunkPlan.  The name of a chunk is kept as the parts it is put together
\* from: zero-padded positions come first, so the text determines the parts.
WholeChunk == [name |-> <<"whole">>, partition |-> "none", subpartition |-> "none"]

PartitionChunk(m, i) ==
    [name |-> <<"partition", i, m.partitions[i].name>>,
     partition |-> m.partitions[i].name, subpartition |-> "none"]

SubpartitionChunk(m, i, j) ==
    [name |-> <<"subpartition", i, j, m.partitions[i].name, m.partitions[i].subs[j]>>,
     partition |-> m.partitions[i].name, subpartition |-> m.partitions[i].subs[j]]

\* The slip of planning the subpartitions of composite tables only.
PartitionChunks_AllOrNothing(m) ==
    IF \E i \in DOMAIN m.partitions : m.partitions[i].subs # <<>>
    THEN UNION {{SubpartitionChunk(m, i, j) : j \in DOMAIN m.partitions[i].subs} :
                    i \in DOMAIN m.partitions}
    ELSE {PartitionChunk(m, i) : i \in DOMAIN m.partitions}

\* One chunk per subpartition of a partition that has some, one for a
\* partition that has none.
PartitionChunks(m) ==
    UNION {IF m.partitions[i].subs # <<>>
           THEN {SubpartitionChunk(m, i, j) : j \in DOMAIN m.partitions[i].subs}
           ELSE {PartitionChunk(m, i)} :
               i \in DOMAIN m.partitions}

Unsupported == [strategy |-> "unsupported", chunks |-> {}]
WholeTable == [strategy |-> "whole_table", chunks |-> {WholeChunk}]

\* plan_table, in the order of its returns.
PlanTable(m, override) ==
    IF TableUnsupported(m) THEN Unsupported
    ELSE IF override = "whole" THEN WholeTable
    ELSE IF override # "none" THEN Unsupported
    ELSE IF m.partitions = <<>> THEN WholeTable
    ELSE [strategy |-> "partition", chunks |-> PartitionChunks(m)]

-----------------------------------------------------------------------------
\* The physical segments of a table: <<partition, subpartition>> by position,
\* zero where there is no such level.
Segments(t) ==
    IF t.partitions = <<>> THEN {<<0, 0>>}
    ELSE UNION {IF t.partitions[i].subs # <<>>
                THEN {<<i, j>> : j \in DOMAIN t.partitions[i].subs}
                ELSE {<<i, 0>>} :
                    i \in DOMAIN t.partitions}

\* The segments a chunk's SELECT reads, and its import loads: a subpartition
\* is named without its partition, for the names are unique in a table.
Reads(t, chunk) ==
    IF chunk.subpartition # "none"
    THEN {s \in Segments(t) :
             s[2] # 0 /\ t.partitions[s[1]].subs[s[2]] = chunk.subpartition}
    ELSE IF chunk.partition # "none"
    THEN {s \in Segments(t) : s[1] # 0 /\ t.partitions[s[1]].name = chunk.partition}
    ELSE Segments(t)

\* What Oracle grants of names: partition names are unique in a table, and so
\* are subpartition names.
DistinctNames(t) ==
    /\ \A i, k \in DOMAIN t.partitions :
          t.partitions[i].name = t.partitions[k].name => i = k
    /\ \A i, k \in DOMAIN t.partitions :
          \A j \in DOMAIN t.partitions[i].subs, l \in DOMAIN t.partitions[k].subs :
             t.partitions[i].subs[j] = t.partitions[k].subs[l] => i = k /\ j = l

\* A plan reads every segment of a table in exactly one of its chunks, and no
\* two of its chunks share the name that is their file and their row.
PartitionsTable(t, chunks) ==
    /\ \A s \in Segments(t) : \E c \in chunks : s \in Reads(t, c)
    /\ \A c, d \in chunks : c # d => /\ Reads(t, c) \cap Reads(t, d) = {}
                                     /\ c.name # d.name
=============================================================================
