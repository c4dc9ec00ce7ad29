---------------------------- MODULE Serialization ----------------------------
(***************************************************************************)
(* manifest.json and plan.yaml (persistence/serialization.py): what "plan" *)
(* reads of what "inspect" wrote, and "convert --plan" of what "plan" did. *)
(* A dictionary is a function on the keys it has.  Fields with their       *)
(* default value are left out of it and filled in again by the reader.     *)
(***************************************************************************)
EXTENDS Planner

\* A key that is written only when there is something to say.
Key(present, k) == IF present THEN {k} ELSE {}

\* data.get(k, default)
Get(data, k, default) == IF k \in DOMAIN data THEN data[k] ELSE default

ColumnToDict(c) ==
    [k \in {"data_type"} \cup Key(c.owner # NoOwner, "data_type_owner")
                         \cup Key(c.hidden, "hidden") |->
        CASE k = "data_type" -> c.type
          [] k = "data_type_owner" -> c.owner
          [] k = "hidden" -> "true"]

ColumnFromDict(data) ==
    [type |-> data["data_type"],
     owner |-> Get(data, "data_type_owner", NoOwner),
     hidden |-> Get(data, "hidden", "false") = "true"]

\* A subpartition is its name: its position is its place in the list, its
\* parent the partition it is listed under.
PartitionToDict(p) ==
    [k \in {"name"} \cup Key(p.subs # <<>>, "subpartitions") |->
        CASE k = "name" -> p.name
          [] k = "subpartitions" -> p.subs]

PartitionFromDict(data) ==
    [name |-> data["name"], subs |-> Get(data, "subpartitions", <<>>)]

TableMetadataToDict(m) ==
    [k \in {"columns", "partitions"} \cup Key(m.type # "TABLE", "table_type") |->
        CASE k = "columns" -> {ColumnToDict(c) : c \in m.columns}
          [] k = "partitions" -> [i \in DOMAIN m.partitions |-> PartitionToDict(m.partitions[i])]
          [] k = "table_type" -> m.type]

TableMetadataFromDict(data) ==
    [type |-> Get(data, "table_type", "TABLE"),
     columns |-> {ColumnFromDict(d) : d \in data["columns"]},
     partitions |-> [i \in DOMAIN data["partitions"] |-> PartitionFromDict(data["partitions"][i])]]

-----------------------------------------------------------------------------
\* The slip of writing the field and not reading it again.
ChunkPlanFromDict_NoSubpartition(data) ==
    [name |-> data["name"], partition |-> data["partition_name"], subpartition |-> "none"]

\* partition_name is always written, null where there is none.
ChunkPlanToDict(c) ==
    [k \in {"name", "partition_name"} \cup Key(c.subpartition # "none", "subpartition_name") |->
        CASE k = "name" -> c.name
          [] k = "partition_name" -> c.partition
          [] k = "subpartition_name" -> c.subpartition]

ChunkPlanFromDict(data) ==
    [name |-> data["name"],
     partition |-> data["partition_name"],
     subpartition |-> Get(data, "subpartition_name", "none")]

TablePlanToDict(plan) ==
    [strategy |-> plan.strategy, chunks |-> {ChunkPlanToDict(c) : c \in plan.chunks}]

TablePlanFromDict(data) ==
    [strategy |-> data.strategy, chunks |-> {ChunkPlanFromDict(d) : d \in data.chunks}]

-----------------------------------------------------------------------------
\* load_manifest of what save_manifest wrote of a table; load_plan likewise.
SavedManifest(m) == TableMetadataFromDict(TableMetadataToDict(m))
SavedPlan(plan) == TablePlanFromDict(TablePlanToDict(plan))
=============================================================================
