------------------------------- MODULE Inspect -------------------------------
(***************************************************************************)
(* inspect_dump on one staging schema (core/executor.py, core/staging.py): *)
(* the metadata import, the fixups statement by statement, each committed  *)
(* by itself, the reading of the tables and the plan made of them.         *)
(* Lifecycle has the same inspection as one step per phase, over several   *)
(* schemas and commands.                                                   *)
(*                                                                         *)
(* An inspection that fails or is killed may be followed by another on     *)
(* the same schema: a one-shot conversion reconnects to the container its  *)
(* session names.  "inspect" always begins with a new container.           *)
(*                                                                         *)
(* What the dictionary holds is reduced to what the fixups look for.  The  *)
(* retry of the import after a missing tablespace is in Lifecycle.         *)
(***************************************************************************)
EXTENDS Serialization, FiniteSets

CONSTANTS
    Table,              \* the tables the discovery found in the dump
    Dump,               \* [Table -> table record]: what they are
    Mview,              \* the tables that are materialized views
    Trigger, ForeignKey, Policy, ByteColumn,    \* what else the dump has
    PolicyFunction,     \* standalone functions of the dumped schema
    FunctionOf,         \* [Policy -> PolicyFunction \cup {NoFunction}]
    NoFunction,         \* the function is in a package or another schema's
    On,                 \* the table of a trigger, key, policy or column
    Unmodifiable,       \* virtual and partition-key columns
    Undisableable,      \* the keys of reference-partitioned tables
    Config, Upper,      \* table overrides, and names in upper case
    MaxMissed,          \* how many objects an import's log complains of
    NoMview,            \* no materialized view is in work
    Faults              \* what the environment may do

Object == Table \cup Trigger \cup ForeignKey \cup Policy \cup PolicyFunction \cup ByteColumn
Importable == Table \cup Trigger \cup Policy \cup PolicyFunction
AllFaults == {"import_error", "statement", "connection", "crash"}

ASSUME InspectAssumption ==
    /\ \A t \in Table : Dump[t] \in TableRecord /\ DistinctNames(Dump[t])
    /\ Mview \subseteq Table
    /\ Policy \cap (Trigger \cup ForeignKey) = {}
    /\ FunctionOf \in [Policy -> PolicyFunction \cup {NoFunction}]
    /\ NoFunction \notin PolicyFunction
    /\ On \in [Trigger \cup ForeignKey \cup Policy \cup ByteColumn -> Table]
    /\ Unmodifiable \subseteq ByteColumn
    /\ Undisableable \subseteq ForeignKey
    /\ MaxMissed \in Nat
    /\ NoMview \notin Table
    /\ Faults \subseteq AllFaults

VARIABLES
    pc,
    legacy,             \* the dump format: imp, or impdp
    staged,             \* [Table -> "absent", "table" or "mview"]
    tmp,                \* materialized views whose "_$TMP" table exists
    triggers, keys,     \* enabled
    policies,           \* attached
    functions,          \* existing
    bytes,              \* columns with BYTE length
    conn,               \* the connection of the fixups answers
    listed,             \* the fixup has read its listing
    todo,               \* what it has listed and not gone through
    current,            \* the materialized view being replaced
    logged,             \* what this inspection's logs complain of
    manifest, plan      \* per table; only of an inspection that got there

schemaVars == <<legacy, staged, tmp, triggers, keys, policies, functions, bytes>>
vars == <<pc, schemaVars, conn, listed, todo, current, logged, manifest, plan>>

NoPlan == [t \in Table |-> Unsupported]

\* The slip of dropping the policies first.
NextPhase_PoliciesFirst(p) ==
    CASE p = "mviews" -> "triggers"
      [] p = "triggers" -> "foreign_keys"
      [] p = "foreign_keys" -> "policies"
      [] p = "policies" -> "functions"
      [] p = "functions" -> "columns"
      [] p = "columns" -> "describe"

\* _apply_staging_fixups: the fixups after the first, in their order, each a
\* listing and then a statement per listed object.
FixupPhase == {"triggers", "foreign_keys", "functions", "policies", "columns"}
NextPhase(p) ==
    CASE p = "mviews" -> "triggers"
      [] p = "triggers" -> "foreign_keys"
      [] p = "foreign_keys" -> "functions"
      [] p = "functions" -> "policies"
      [] p = "policies" -> "columns"
      [] p = "columns" -> "describe"

ReplacePhase == {"mview_create", "mview_drop", "mview_rename"}
Phase == {"idle", "import", "describe", "plan", "done"}
            \cup {"mviews"} \cup ReplacePhase \cup FixupPhase

TypeOK ==
    /\ pc \in Phase
    /\ legacy \in BOOLEAN
    /\ staged \in [Table -> {"absent", "table", "mview"}]
    /\ tmp \subseteq Mview
    /\ triggers \subseteq Trigger
    /\ keys \subseteq ForeignKey
    /\ policies \subseteq Policy
    /\ functions \subseteq PolicyFunction
    /\ bytes \subseteq ByteColumn
    /\ conn \in BOOLEAN
    /\ listed \in BOOLEAN
    /\ todo \subseteq Object
    /\ current \in Mview \cup {NoMview}
    /\ logged \subseteq Object
    /\ manifest \in [Table -> TableRecord]
    /\ DOMAIN plan = Table
-----------------------------------------------------------------------------
\* External: impdp METADATA_ONLY with TABLE_EXISTS_ACTION=REPLACE makes every
\* table again with its policies and keys; triggers, functions and
\* materialized views are excluded (a view's container comes as a table).
\* What the log complains of, "missed", is not made, nor what belongs to it.
Made(missed, t) == t \notin missed
Belongs(missed, x) == x \notin missed /\ On[x] \notin missed

ModernImport(missed) ==
    /\ staged' = [t \in Table |-> IF Made(missed, t) THEN "table" ELSE "absent"]
    /\ triggers' = {}
    /\ keys' = {k \in ForeignKey : Belongs(missed, k)}
    /\ policies' = {p \in Policy : Belongs(missed, p)}
    /\ bytes' = {c \in ByteColumn : On[c] \notin missed}
    /\ UNCHANGED functions

\* External: imp ROWS=N IGNORE=Y leaves a table that exists as it is, makes
\* the others, and creates what hangs on a table again, existing or new.
LegacyImport(missed) ==
    LET created == {t \in Table : staged[t] = "absent" /\ t \notin missed}
        there == {t \in Table : staged[t] # "absent"} \cup created
    IN  /\ staged' = [t \in Table |-> IF t \notin created THEN staged[t]
                                      ELSE IF t \in Mview THEN "mview" ELSE "table"]
        /\ triggers' = triggers \cup {g \in Trigger : On[g] \in there /\ g \notin missed}
        /\ keys' = keys \cup {k \in ForeignKey : On[k] \in there /\ k \notin missed}
        /\ policies' = policies \cup {p \in Policy : On[p] \in there /\ p \notin missed}
        /\ functions' = functions \cup {f \in PolicyFunction : f \notin missed}
        /\ bytes' = bytes \cup {c \in ByteColumn : On[c] \in created}

ToolImports(missed) ==
    /\ Cardinality(missed) <= MaxMissed
    /\ IF legacy THEN LegacyImport(missed) ELSE ModernImport(missed)
    /\ UNCHANGED <<legacy, tmp>>

-----------------------------------------------------------------------------
\* A container inspect has just started: nothing is staged.
FreshSchema ==
    /\ legacy' = legacy
    /\ staged' = [t \in Table |-> "absent"]
    /\ tmp' = {}
    /\ triggers' = {}
    /\ keys' = {}
    /\ policies' = {}
    /\ functions' = {}
    /\ bytes' = {}

Init ==
    /\ pc = "idle"
    /\ legacy \in BOOLEAN
    /\ staged = [t \in Table |-> "absent"]
    /\ tmp = {}
    /\ triggers = {}
    /\ keys = {}
    /\ policies = {}
    /\ functions = {}
    /\ bytes = {}
    /\ conn = TRUE
    /\ listed = FALSE
    /\ todo = {}
    /\ current = NoMview
    /\ logged = {}
    /\ manifest = [t \in Table |-> NoMetadata]
    /\ plan = NoPlan

\* The inspection ends without a manifest: an exception, or the process dies.
Ends ==
    /\ pc' = "idle"
    /\ conn' = TRUE
    /\ listed' = FALSE
    /\ todo' = {}
    /\ current' = NoMview
    /\ UNCHANGED <<logged, manifest, plan>>

Raises == Ends /\ UNCHANGED schemaVars

\* inspect_dump begins, on what an earlier one left or on a new container.
StartInspect ==
    /\ pc \in {"idle", "done"}
    /\ pc' = "import"
    /\ logged' = {}
    /\ manifest' = [t \in Table |-> NoMetadata]
    /\ plan' = NoPlan
    /\ \/ UNCHANGED schemaVars
       \/ FreshSchema
    /\ UNCHANGED <<conn, listed, todo, current>>

\* import_all_metadata returns: it did everything, or its errors were such as
\* end in a warning (impdp) or in a log entry (imp).
ImportMetadata(missed) ==
    /\ pc = "import"
    /\ missed # {} => "import_error" \in Faults
    /\ ToolImports(missed)
    /\ logged' = missed
    /\ pc' = "mviews"
    /\ UNCHANGED <<conn, listed, todo, current, manifest, plan>>

\* It raises, with part of the schema made.
ImportFails(missed) ==
    /\ pc = "import"
    /\ "import_error" \in Faults
    /\ ToolImports(missed)
    /\ Ends

-----------------------------------------------------------------------------
\* dematerialize_mviews: the listing, then three statements for each view.
\* None of them is in a try block.
ListMviews ==
    /\ pc = "mviews"
    /\ conn
    /\ todo' = {m \in Mview : staged[m] = "mview"}
    /\ pc' = IF todo' = {} THEN NextPhase(pc) ELSE "mview_create"
    /\ UNCHANGED <<schemaVars, conn, listed, current, logged, manifest, plan>>

\* CREATE TABLE "..._$TMP": refused when one is there already (ORA-00955).
CreateTmp(m) ==
    /\ pc = "mview_create"
    /\ conn
    /\ m \in todo \ tmp
    /\ tmp' = tmp \cup {m}
    /\ current' = m
    /\ pc' = "mview_drop"
    /\ UNCHANGED <<legacy, staged, triggers, keys, policies, functions, bytes>>
    /\ UNCHANGED <<conn, listed, todo, logged, manifest, plan>>

\* DROP MATERIALIZED VIEW takes what hangs on the view with it.
DropMview ==
    /\ pc = "mview_drop"
    /\ conn
    /\ staged' = [staged EXCEPT ![current] = "absent"]
    /\ triggers' = {g \in triggers : On[g] # current}
    /\ keys' = {k \in keys : On[k] # current}
    /\ policies' = {p \in policies : On[p] # current}
    /\ pc' = "mview_rename"
    /\ UNCHANGED <<legacy, tmp, functions, bytes>>
    /\ UNCHANGED <<conn, listed, todo, current, logged, manifest, plan>>

RenameTmp ==
    /\ pc = "mview_rename"
    /\ conn
    /\ staged' = [staged EXCEPT ![current] = "table"]
    /\ tmp' = tmp \ {current}
    /\ todo' = todo \ {current}
    /\ current' = NoMview
    /\ pc' = IF todo' = {} THEN NextPhase("mviews") ELSE "mview_create"
    /\ UNCHANGED <<legacy, triggers, keys, policies, functions, bytes>>
    /\ UNCHANGED <<conn, listed, logged, manifest, plan>>

\* The slip of treating it as the other fixups treat theirs: log and go on.
MviewFails_GoesOn ==
    /\ pc \in ReplacePhase
    /\ \/ "statement" \in Faults
       \/ ~conn
       \/ pc = "mview_create" /\ todo \cap tmp # {}
    /\ \E m \in todo :
          /\ current # NoMview => m = current
          /\ todo' = todo \ {m}
    /\ current' = NoMview
    /\ pc' = IF todo' = {} THEN NextPhase("mviews") ELSE "mview_create"
    /\ UNCHANGED <<schemaVars, conn, listed, logged, manifest, plan>>

\* A statement is refused, or the connection does not answer.
MviewFails ==
    /\ pc \in ReplacePhase
    /\ \/ "statement" \in Faults
       \/ ~conn
       \/ pc = "mview_create" /\ todo \cap tmp # {}
    /\ Raises

-----------------------------------------------------------------------------
\* The tables whose objects the fixups list: neither external nor temporary.
Ordinary(t) == Dump[t].type = "TABLE"

\* What each fixup lists.  (disable_triggers lists disabled triggers too, for
\* which its statement changes nothing.)
TriggerListing == {g \in triggers : Ordinary(On[g])}
KeyListing == {k \in keys : Ordinary(On[k])}

\* The slip of leaving out "PACKAGE IS NULL".
FunctionListing_Packaged == {FunctionOf[x] : x \in policies}

\* The functions are found through the policies that name them.
FunctionListing == {FunctionOf[x] : x \in policies} \ {NoFunction}

\* Policies are listed on every kind of table.
PolicyListing == policies

ColumnListing == {c \in bytes \ Unmodifiable : Ordinary(On[c])}

Listing(p) ==
    CASE p = "triggers" -> TriggerListing
      [] p = "foreign_keys" -> KeyListing
      [] p = "functions" -> FunctionListing
      [] p = "policies" -> PolicyListing
      [] p = "columns" -> ColumnListing

ListObjects ==
    /\ pc \in FixupPhase
    /\ ~listed
    /\ conn
    /\ todo' = Listing(pc)
    /\ listed' = TRUE
    /\ UNCHANGED <<pc, schemaVars, conn, current, logged, manifest, plan>>

\* The slip of taking a listing that fails for an empty one.
ListingFails_Empty ==
    /\ pc \in FixupPhase
    /\ ~listed
    /\ \/ "statement" \in Faults
       \/ ~conn
    /\ listed' = TRUE
    /\ UNCHANGED <<pc, schemaVars, conn, todo, current, logged, manifest, plan>>

\* A listing is in no try block.
ListingFails ==
    /\ pc \in FixupPhase \cup {"mviews"}
    /\ ~listed
    /\ \/ "statement" \in Faults
       \/ ~conn
    /\ Raises

\* ALTER or DROP one object.  An object that is gone (ORA-02430, -02431,
\* -04080, -28102, -04043) is passed over, which leaves the same behind.
FixObject(x) ==
    /\ pc \in FixupPhase
    /\ listed
    /\ conn
    /\ x \in todo \ Undisableable
    /\ todo' = todo \ {x}
    /\ triggers' = triggers \ {x}
    /\ keys' = keys \ {x}
    /\ policies' = policies \ {x}
    /\ functions' = functions \ {x}
    /\ bytes' = bytes \ {x}
    /\ UNCHANGED <<pc, legacy, staged, tmp, conn, listed, current, logged, manifest, plan>>

\* Any other error is logged, a dead connection's too: the loop goes on.
FixFails(x) ==
    /\ pc \in FixupPhase
    /\ listed
    /\ x \in todo
    /\ \/ "statement" \in Faults
       \/ ~conn
       \/ x \in Undisableable
    /\ todo' = todo \ {x}
    /\ logged' = logged \cup {x}
    /\ UNCHANGED <<pc, schemaVars, conn, listed, current, manifest, plan>>

\* The fixup returns; the last one closes the connection.
FixupDone ==
    /\ pc \in FixupPhase
    /\ listed
    /\ todo = {}
    /\ pc' = NextPhase(pc)
    /\ listed' = FALSE
    /\ conn' = (conn \/ pc = "columns")
    /\ UNCHANGED <<schemaVars, todo, current, logged, manifest, plan>>

-----------------------------------------------------------------------------
\* Every discovered table is read over a connection of its own.
DescribeTables ==
    /\ pc = "describe"
    /\ manifest' = [t \in Table |->
                       ManifestEntry(IF staged[t] = "absent" THEN NoMetadata
                                     ELSE DiscoverTableMetadata(Dump[t]))]
    /\ pc' = "plan"
    /\ UNCHANGED <<schemaVars, conn, listed, todo, current, logged, plan>>

DescribeFails ==
    /\ pc = "describe"
    /\ "statement" \in Faults
    /\ Raises

\* run() makes the plan of the manifest inspect() has returned, and converts
\* by it.
PlanTables ==
    /\ pc = "plan"
    /\ plan' = [t \in Table |-> PlanTable(manifest[t], TableOverride(Config, Upper, t))]
    /\ pc' = "done"
    /\ UNCHANGED <<schemaVars, conn, listed, todo, current, logged, manifest>>

\* "plan" makes it of the manifest it reads, and "convert --plan" reads it.
PlanCommand ==
    /\ pc = "plan"
    /\ plan' = [t \in Table |-> SavedPlan(PlanTable(SavedManifest(manifest[t]),
                                                  TableOverride(Config, Upper, t)))]
    /\ pc' = "done"
    /\ UNCHANGED <<schemaVars, conn, listed, todo, current, logged, manifest>>

\* The connection of the fixups dies.
ConnectionLost ==
    /\ pc \in FixupPhase \cup ReplacePhase \cup {"mviews"}
    /\ conn
    /\ "connection" \in Faults
    /\ conn' = FALSE
    /\ UNCHANGED <<pc, schemaVars, listed, todo, current, logged, manifest, plan>>

\* The process is killed; the container stays.
Crash ==
    /\ pc \notin {"idle", "done"}
    /\ "crash" \in Faults
    /\ Raises

Next ==
    \/ StartInspect
    \/ \E missed \in SUBSET Importable : ImportMetadata(missed) \/ ImportFails(missed)
    \/ ListMviews
    \/ \E m \in Mview : CreateTmp(m)
    \/ DropMview
    \/ RenameTmp
    \/ MviewFails
    \/ ListObjects
    \/ ListingFails
    \/ \E x \in Object : FixObject(x) \/ FixFails(x)
    \/ FixupDone
    \/ DescribeTables
    \/ DescribeFails
    \/ PlanTables
    \/ PlanCommand
    \/ ConnectionLost
    \/ Crash

Spec == Init /\ [][Next]_vars

-----------------------------------------------------------------------------
(***************************************************************************)
(* Properties.                                                             *)
(***************************************************************************)
FixupsDone == pc \in {"describe", "plan", "done"}

\* Once the fixups are through, nothing on a table that will be loaded keeps a
\* row from being loaded or read: no enabled trigger or foreign key, no
\* policy, no column counted in bytes that could be widened - but for those a
\* log of this very inspection complains of.  It takes every listing to have
\* been read over a living connection, and a second inspection to undo what
\* its import brought back (core/executor.py:424, core/staging.py).
RowsLoadUnhindered ==
    FixupsDone =>
        /\ \A g \in triggers : Ordinary(On[g]) => g \in logged
        /\ \A k \in keys : Ordinary(On[k]) => k \in logged
        /\ policies \subseteq logged
        /\ \A c \in bytes : Ordinary(On[c]) => c \in Unmodifiable \cup logged

\* No standalone policy function outlives the fixups unless a log says so, so
\* that no later import can attach a working policy again: the functions are
\* found through the policies, which must still be there
\* (core/staging.py:232).  A materialized view's policies go with the view,
\* before the functions are listed; their functions stay.
PoliciesDefused ==
    FixupsDone =>
        \A p \in Policy :
            On[p] \notin Mview /\ FunctionOf[p] \in functions =>
                {FunctionOf[p], p, On[p]} \cap logged # {}

\* An inspection that gets through its fixups leaves every discovered table as
\* a plain table, or its import log complained of it: no materialized view is
\* half replaced, whatever an inspection killed between CREATE, DROP and
\* RENAME left behind (core/staging.py:288).
TablesStaged ==
    FixupsDone =>
        \A t \in Table : \/ staged[t] = "table"
                         \/ staged[t] = "absent" /\ t \in logged

\* The plan that convert gets fits the dump, whether it was handed on or went
\* through manifest.json and plan.yaml: each row of a supported table that is
\* staged is in exactly one chunk, no two chunks share a name, and no column
\* that is exported has a type the exporter cannot read (planner.py:77,
\* persistence/serialization.py:163).
PlanFitsDump ==
    pc = "done" =>
        \A t \in Table :
            plan[t].strategy # "unsupported" /\ staged[t] = "table" =>
                /\ PartitionsTable(Dump[t], plan[t].chunks)
                /\ \A c \in Dump[t].columns :
                      ~c.hidden => /\ c.type # "BFILE"
                                   /\ c.owner # NoOwner => c.type \in BuiltinOwnedTypes

\* "The planner uses this to mark non-data-bearing tables as UNSUPPORTED so
\* they don't produce empty / broken parquet output" (models.py:184).
NonDataTablesUnsupported ==
    pc = "done" =>
        \A t \in Table :
            Dump[t].type # "TABLE" /\ staged[t] = "table" =>
                plan[t].strategy = "unsupported"
=============================================================================
