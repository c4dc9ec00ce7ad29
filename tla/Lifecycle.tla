------------------------------ MODULE Lifecycle ------------------------------
(***************************************************************************)
(* The commands of one work directory over time (cli/commands.py,          *)
(* converter.py): `inspect`, `plan`, `convert --plan` and the one-shot     *)
(* `convert`, each a process that starts or reconnects to the container,   *)
(* imports metadata schema by schema (StagingExecutor.inspect_dump) or     *)
(* converts, and then keeps or stops the container.  What passes from one  *)
(* command to the next is session.json, manifest.json, plan.yaml and the   *)
(* container; commands fail, containers vanish, processes are killed       *)
(* between any two steps.                                                  *)
(*                                                                         *)
(* Abstraction: the conversion itself is one step here (Convert has its    *)
(* steps).  The dump, hence the set of source schemas, does not change; a  *)
(* plan covers all of them.  Of a container's database the model keeps     *)
(* what survives from command to command: the staging users, how far the   *)
(* metadata of each schema is, and the tablespaces.                        *)
(***************************************************************************)
EXTENDS Naturals, FiniteSets, Measure

CONSTANTS
    Name,                   \* container names: as many containers at a time
    Image,                  \* Oracle images a command may be given
    Schema,                 \* source schemas of the dump
    Tablespace,             \* custom tablespaces the dump refers to
    Needs,                  \* Needs[s]: those the objects of schema s need
    Listed,                 \* those required_tablespaces finds in the DDL
    Legacy,                 \* TRUE: exp/imp dump; FALSE: Data Pump dump
    Commands,               \* the commands the user gives: see Command
    Faults,                 \* what the environment may do: see Fault
    NoName, NoImage, NoSchema, NoSession, Torn

Command == {"inspect", "convert", "run"}    \* run: convert without --plan

Fault == {"crash",              \* the process is killed
          "tool_error",         \* an exception in inspect, plan or convert
          "ready_error",        \* the container does not become ready
          "docker_error",       \* the container runtime refuses a request
          "file_error",         \* the file system refuses one for session.json
          "vanish",             \* a container exits: it is removed (--rm)
          "recreate"}           \* it is made again, empty, under its name

Session == [name : Name, image : Image, imported : BOOLEAN,
            prepared : SUBSET Schema]

ASSUME LifecycleAssumption ==
    /\ Needs \in [Schema -> SUBSET Tablespace]
    /\ Listed \subseteq Tablespace
    /\ Schema # {}
    /\ Legacy \in BOOLEAN
    /\ Commands \subseteq Command
    /\ Faults \subseteq Fault
    /\ NoName \notin Name
    /\ NoImage \notin Image
    /\ NoSchema \notin Schema
    /\ NoSession \notin Session \cup {Torn}
    /\ Torn \notin Session

VARIABLES
    session,                \* session.json: none, whole, or half written
    manifest,               \* manifest.json: oracle_image of the inspection
    plan,                   \* plan.yaml: its oracle_image
    running,                \* containers that run
    imageOf,                \* the image each was started from
    users,                  \* staging users that exist in its database
    meta,                   \* how far the metadata of each schema is
    spaces,                 \* custom tablespaces that exist there
    pc,                     \* where the command is
    cmd, keep, image,       \* the command, settings.keep_alive, .oracle_image
    cont,                   \* OracleDMPConverter._container
    existed,                \* _session_existed_at_start
    imported,               \* StagingExecutor.metadata_imported
    prepared,               \* StagingExecutor._prepared_schemas
    created,                \* StagingExecutor._created_tablespaces
    todo, cur, attempt      \* the loop of inspect_dump over the schemas

fileVars == <<session, manifest, plan>>
dbVars == <<running, imageOf, users, meta, spaces>>
cmdVars == <<cmd, keep, image>>
execVars == <<imported, prepared, created>>
loopVars == <<todo, cur, attempt>>
vars == <<fileVars, dbVars, pc, cmdVars, cont, existed, execVars, loopVars>>

Meta == {"none",            \* absent or partial
         "raw",             \* imported, staging fixups not applied
         "ready"}

\* _import with recovery in inspect_dump: one retry.
MaxAttempt == 2

Recorded == session \in Session
HasSession == session # NoSession            \* session_path.exists()
SessionRuns == Recorded /\ session.name \in running
Fresh(n) == n \notin running /\ (Recorded => session.name # n)

TypeOK ==
    /\ session \in Session \cup {NoSession, Torn}
    /\ manifest \in Image \cup {NoImage}
    /\ plan \in Image \cup {NoImage}
    /\ running \subseteq Name
    /\ imageOf \in [Name -> Image \cup {NoImage}]
    /\ users \in [Name -> SUBSET Schema]
    /\ meta \in [Name -> [Schema -> Meta]]
    /\ spaces \in [Name -> SUBSET Tablespace]
    /\ pc \in {"idle", "cleanup", "unlink_stale", "start", "ready", "prepare",
               "import", "fixup", "describe", "manifest", "plan", "convert",
               "stop", "write", "unlink"}
    /\ cmd \in Command \cup {"none"}
    /\ keep \in BOOLEAN
    /\ image \in Image \cup {NoImage}
    /\ cont \in Name \cup {NoName}
    /\ existed \in BOOLEAN
    /\ imported \in BOOLEAN
    /\ prepared \subseteq Schema
    /\ created \subseteq Tablespace
    /\ todo \subseteq Schema
    /\ cur \in Schema \cup {NoSchema}
    /\ attempt \in 1 .. MaxAttempt

NoMeta == [s \in Schema |-> "none"]

Init ==
    /\ session = NoSession /\ manifest = NoImage /\ plan = NoImage
    /\ running = {}
    /\ imageOf = [n \in Name |-> NoImage]
    /\ users = [n \in Name |-> {}]
    /\ meta = [n \in Name |-> NoMeta]
    /\ spaces = [n \in Name |-> {}]
    /\ pc = "idle"
    /\ cmd = "none" /\ keep = FALSE /\ image = NoImage
    /\ cont = NoName /\ existed = FALSE
    /\ imported = FALSE /\ prepared = {} /\ created = {}
    /\ todo = {} /\ cur = NoSchema /\ attempt = 1

\* The process is over, normally or not: its memory is gone.
Exit ==
    /\ pc' = "idle"
    /\ cmd' = "none" /\ keep' = FALSE /\ image' = NoImage
    /\ cont' = NoName /\ existed' = FALSE
    /\ imported' = FALSE /\ prepared' = {} /\ created' = {}
    /\ todo' = {} /\ cur' = NoSchema /\ attempt' = 1

\* container.stop(): the container is gone (--rm), and what it held with it.
Remove(n) ==
    /\ running' = running \ {n}
    /\ imageOf' = [imageOf EXCEPT ![n] = NoImage]
    /\ users' = [users EXCEPT ![n] = {}]
    /\ meta' = [meta EXCEPT ![n] = NoMeta]
    /\ spaces' = [spaces EXCEPT ![n] = {}]

-----------------------------------------------------------------------------
(***************************************************************************)
(* The commands.                                                           *)
(***************************************************************************)

\* `inspect` always keeps the container; an existing session is cleaned up.
StartInspect(img) ==
    /\ pc = "idle"
    /\ "inspect" \in Commands
    /\ cmd' = "inspect" /\ keep' = TRUE /\ image' = img
    /\ pc' = IF HasSession THEN "cleanup" ELSE "start"
    /\ UNCHANGED <<fileVars, dbVars, cont, existed, execVars, loopVars>>

\* `plan` needs a manifest only; --oracle-image or the configuration may
\* choose another image than the one inspected.
MakePlan(img) ==
    /\ pc = "idle"
    /\ manifest # NoImage
    /\ plan' = img
    /\ UNCHANGED <<session, manifest, dbVars, pc, cmdVars, cont, existed, execVars,
                   loopVars>>

\* `convert --plan` refuses (and changes nothing) when there is no session.
StartConvert(k) ==
    /\ pc = "idle"
    /\ "convert" \in Commands
    /\ plan # NoImage
    /\ HasSession
    /\ cmd' = "convert" /\ keep' = k /\ image' = plan
    /\ pc' = "start"
    /\ UNCHANGED <<fileVars, dbVars, cont, existed, execVars, loopVars>>

\* `convert` without a plan: inspect, plan and convert in one process.
StartRun(img, k) ==
    /\ pc = "idle"
    /\ "run" \in Commands
    /\ cmd' = "run" /\ keep' = k /\ image' = img
    /\ pc' = "start"
    /\ UNCHANGED <<fileVars, dbVars, cont, existed, execVars, loopVars>>

\* The slip of deleting the file and leaving the container to run.
CleanupStop_FileOnly ==
    /\ pc = "cleanup"
    /\ pc' = "unlink_stale"
    /\ UNCHANGED <<fileVars, dbVars, cmdVars, cont, existed, execVars, loopVars>>

\* cleanup_stale_session, first half: load the session, reconnect, stop; any
\* error is swallowed.
CleanupStop ==
    /\ pc = "cleanup"
    /\ \/ SessionRuns /\ Remove(session.name)
       \/ (~SessionRuns \/ "docker_error" \in Faults) /\ UNCHANGED dbVars
    /\ pc' = "unlink_stale"
    /\ UNCHANGED <<fileVars, cmdVars, cont, existed, execVars, loopVars>>

\* The slip of deleting the file only when the container could be stopped.
CleanupUnlink_OnlyIfStopped ==
    /\ pc = "unlink_stale"
    /\ session' = IF SessionRuns \/ ~Recorded THEN session ELSE NoSession
    /\ pc' = "start"
    /\ UNCHANGED <<manifest, plan, dbVars, cmdVars, cont, existed, execVars, loopVars>>

\* ... second half: the file is deleted whatever happened, unless the file
\* system refuses; that error is swallowed too, and the file stays.
CleanupUnlink ==
    /\ pc = "unlink_stale"
    /\ \/ session' = NoSession
       \/ "file_error" \in Faults /\ UNCHANGED session
    /\ pc' = "start"
    /\ UNCHANGED <<manifest, plan, dbVars, cmdVars, cont, existed, execVars, loopVars>>

-----------------------------------------------------------------------------
(***************************************************************************)
(* OracleDMPConverter.start.                                               *)
(***************************************************************************)

\* start_or_reconnect without a session: a new container.
StartContainer(n) ==
    /\ pc = "start"
    /\ ~HasSession
    /\ Fresh(n)
    /\ running' = running \cup {n}
    /\ imageOf' = [imageOf EXCEPT ![n] = image]
    /\ cont' = n
    /\ existed' = FALSE
    /\ pc' = "ready"
    /\ UNCHANGED <<fileVars, users, meta, spaces, cmdVars, execVars, loopVars>>

\* start_or_reconnect with one: the recorded container, if it still runs.
Reconnect ==
    /\ pc = "start"
    /\ SessionRuns
    /\ cont' = session.name
    /\ existed' = TRUE
    /\ pc' = "ready"
    /\ UNCHANGED <<fileVars, dbVars, cmdVars, execVars, loopVars>>

\* It raises: nothing was started, nothing is stopped.  (A session.json that
\* is torn cannot be parsed.)
StartFails ==
    /\ pc = "start"
    /\ \/ "docker_error" \in Faults \/ "file_error" \in Faults
       \/ ~HasSession /\ \A n \in Name : ~Fresh(n)
       \/ HasSession /\ ~SessionRuns
    /\ Exit
    /\ UNCHANGED <<fileVars, dbVars>>

\* verify_session_fingerprint compares the recorded image with the settings'
\* (name and schemas are compared with the session's own).
StaleSession == existed /\ session.image # image

\* The database answers, directories are created, and the executor is seeded
\* from the session unless its fingerprint does not match.  inspect_dump goes
\* on with the discovery, which changes nothing in the database.
Ready ==
    /\ pc = "ready"
    /\ cont \in running
    /\ imported' = (existed /\ ~StaleSession /\ session.imported)
    /\ prepared' = IF existed /\ ~StaleSession THEN session.prepared ELSE {}
    /\ IF cmd = "convert"
       THEN pc' = "convert" /\ UNCHANGED todo
       ELSE pc' = "prepare" /\ todo' = Schema
    /\ UNCHANGED <<fileVars, dbVars, cmdVars, cont, existed, created, cur, attempt>>

\* The slip of leaving the container to the caller.
NotReady_Unstopped ==
    /\ pc = "ready"
    /\ "ready_error" \in Faults \/ cont \notin running
    /\ UNCHANGED <<dbVars>>
    /\ Exit
    /\ UNCHANGED fileVars

\* An exception after the container was started or found: it is stopped, as
\* far as the runtime allows; session.json stays.
NotReady ==
    /\ pc = "ready"
    /\ "ready_error" \in Faults \/ cont \notin running
    /\ \/ Remove(cont)
       \/ "docker_error" \in Faults /\ UNCHANGED dbVars
    /\ Exit
    /\ UNCHANGED fileVars

-----------------------------------------------------------------------------
(***************************************************************************)
(* inspect_dump, one schema after the other, and the manifest.             *)
(***************************************************************************)

\* prepare_stage_schema: skipped for a schema in the cache.
PrepareSchema(s) ==
    /\ pc = "prepare"
    /\ s \in todo
    /\ cont \in running
    /\ IF s \in prepared
       THEN UNCHANGED <<users, spaces, prepared, created>>
       ELSE /\ users' = [users EXCEPT ![cont] = @ \cup {s}]
            /\ spaces' = [spaces EXCEPT ![cont] = @ \cup (Listed \ created)]
            /\ created' = created \cup Listed
            /\ prepared' = prepared \cup {s}
    /\ cur' = s /\ attempt' = 1
    /\ pc' = "import"
    /\ UNCHANGED <<fileVars, running, imageOf, meta, cmdVars, cont, existed, imported,
                   todo>>

\* ... which fails after the user and some of the tablespaces.
PrepareFails(s, T) ==
    /\ pc = "prepare"
    /\ "tool_error" \in Faults
    /\ cont \in running
    /\ s \in todo \ prepared
    /\ T \subseteq Listed \ created
    /\ users' = [users EXCEPT ![cont] = @ \cup {s}]
    /\ spaces' = [spaces EXCEPT ![cont] = @ \cup T]
    /\ created' = created \cup T
    /\ pc' = "stop"
    /\ UNCHANGED <<fileVars, running, imageOf, meta, cmdVars, cont, existed, imported,
                   prepared, loopVars>>

MissingSpaces == Needs[cur] \ spaces[cont]

\* import_all_metadata creates every object of the schema.
ImportMetadata ==
    /\ pc = "import"
    /\ cont \in running
    /\ cur \in users[cont]
    /\ MissingSpaces = {}
    /\ meta' = [meta EXCEPT ![cont][cur] = "raw"]
    /\ pc' = "fixup"
    /\ UNCHANGED <<fileVars, running, imageOf, users, spaces, cmdVars, cont, existed,
                   execVars, loopVars>>

\* Legacy: imp reports errors, missing tablespaces for one; they carry IMP or
\* ORA codes, so import_all_metadata logs them and returns.
ImportSwallows ==
    /\ Legacy
    /\ pc = "import"
    /\ cont \in running
    /\ MissingSpaces # {} \/ "tool_error" \in Faults
    /\ meta' = [meta EXCEPT ![cont][cur] = "none"]
    /\ pc' = "fixup"
    /\ UNCHANGED <<fileVars, running, imageOf, users, spaces, cmdVars, cont, existed,
                   execVars, loopVars>>

\* The slip of noting as created what the schema needs, not what the output
\* of the tool names and the recovery has created.
RecoverTablespaces_NotesAll(M) ==
    /\ ~Legacy
    /\ pc = "import"
    /\ cont \in running
    /\ M # {} /\ M \subseteq MissingSpaces
    /\ attempt < MaxAttempt
    /\ spaces' = [spaces EXCEPT ![cont] = @ \cup (M \ created)]
    /\ created' = created \cup Needs[cur]
    /\ meta' = [meta EXCEPT ![cont][cur] = "none"]
    /\ attempt' = attempt + 1
    /\ UNCHANGED <<fileVars, running, imageOf, users, pc, cmdVars, cont, existed,
                   imported, prepared, todo, cur>>

\* The slip of retrying as long as the recovery finds something to create.
RecoverTablespaces_Unbounded(M) ==
    /\ ~Legacy
    /\ pc = "import"
    /\ cont \in running
    /\ M # {} /\ M \subseteq MissingSpaces
    /\ spaces' = [spaces EXCEPT ![cont] = @ \cup (M \ created)]
    /\ created' = created \cup M
    /\ meta' = [meta EXCEPT ![cont][cur] = "none"]
    /\ attempt' = attempt + 1
    /\ UNCHANGED <<fileVars, running, imageOf, users, pc, cmdVars, cont, existed,
                   imported, prepared, todo, cur>>

\* impdp fails with ORA-00959 for the tablespaces M: they are created, and
\* the import is tried once more (TABLE_EXISTS_ACTION=REPLACE).
RecoverTablespaces(M) ==
    /\ ~Legacy
    /\ pc = "import"
    /\ cont \in running
    /\ M # {} /\ M \subseteq MissingSpaces
    /\ attempt < MaxAttempt
    /\ spaces' = [spaces EXCEPT ![cont] = @ \cup (M \ created)]
    /\ created' = created \cup M
    /\ meta' = [meta EXCEPT ![cont][cur] = "none"]
    /\ attempt' = attempt + 1
    /\ UNCHANGED <<fileVars, running, imageOf, users, pc, cmdVars, cont, existed,
                   imported, prepared, todo, cur>>

\* impdp fails otherwise, or again: partial metadata, and the exception ends
\* the command.
ImportFails ==
    /\ pc = "import"
    /\ \/ "tool_error" \in Faults
       \/ cont \notin running
       \/ cur \notin users[cont]
       \/ ~Legacy /\ MissingSpaces # {} /\ attempt = MaxAttempt
    /\ meta' = IF cont \in running
               THEN [meta EXCEPT ![cont][cur] = "none"]
               ELSE meta
    /\ pc' = "stop"
    /\ UNCHANGED <<fileVars, running, imageOf, users, spaces, cmdVars, cont, existed,
                   execVars, loopVars>>

\* The slip of setting the flag with the first schema that is through.
ApplyFixups_FlagsEarly ==
    /\ pc = "fixup"
    /\ cont \in running
    /\ meta' = [meta EXCEPT ![cont][cur] = IF @ = "raw" THEN "ready" ELSE @]
    /\ todo' = todo \ {cur}
    /\ cur' = NoSchema
    /\ imported' = TRUE
    /\ pc' = IF todo' = {} THEN "describe" ELSE "prepare"
    /\ UNCHANGED <<fileVars, running, imageOf, users, spaces, cmdVars, cont, existed,
                   prepared, created, attempt>>

\* The slip of forgetting which schemas were seen.
ApplyFixups_NotSeen ==
    /\ pc = "fixup"
    /\ cont \in running
    /\ meta' = [meta EXCEPT ![cont][cur] = IF @ = "raw" THEN "ready" ELSE @]
    /\ cur' = NoSchema
    /\ pc' = "prepare"
    /\ UNCHANGED <<fileVars, running, imageOf, users, spaces, cmdVars, cont, existed,
                   execVars, todo, attempt>>

\* _apply_staging_fixups of the schema (single objects that cannot be fixed
\* are logged).
ApplyFixups ==
    /\ pc = "fixup"
    /\ cont \in running
    /\ meta' = [meta EXCEPT ![cont][cur] = IF @ = "raw" THEN "ready" ELSE @]
    /\ todo' = todo \ {cur}
    /\ cur' = NoSchema
    /\ pc' = IF todo' = {} THEN "describe" ELSE "prepare"
    /\ UNCHANGED <<fileVars, running, imageOf, users, spaces, cmdVars, cont, existed,
                   execVars, attempt>>

\* discover_table_metadata for every table, then the flag is set.
DescribeTables ==
    /\ pc = "describe"
    /\ cont \in running
    /\ imported' = TRUE
    /\ pc' = "manifest"
    /\ UNCHANGED <<fileVars, dbVars, cmdVars, cont, existed, prepared, created,
                   loopVars>>

\* OracleDMPConverter.inspect writes the manifest.
SaveManifest ==
    /\ pc = "manifest"
    /\ manifest' = image
    /\ pc' = IF cmd = "inspect" THEN "stop" ELSE "plan"
    /\ UNCHANGED <<session, plan, dbVars, cmdVars, cont, existed, execVars, loopVars>>

\* OracleDMPConverter.plan inside the one-shot command: it raises if the
\* configuration has another image, so the plan gets the one inspected.
SavePlan ==
    /\ pc = "plan"
    /\ plan' = image
    /\ pc' = "convert"
    /\ UNCHANGED <<session, manifest, dbVars, cmdVars, cont, existed, execVars,
                   loopVars>>

-----------------------------------------------------------------------------
(***************************************************************************)
(* OracleDMPConverter.convert, and stop.                                   *)
(***************************************************************************)

\* The slip of checking that the database answers, and nothing more.
Validated_Reachable == imported => cont \in running

\* validate_metadata_state: with the flag set every staging user must exist.
Validated == imported => Schema \subseteq users[cont]

ConvertRefused ==
    /\ pc = "convert"
    /\ cont \in running
    /\ ~Validated
    /\ pc' = "stop"
    /\ UNCHANGED <<fileVars, dbVars, cmdVars, cont, existed, execVars, loopVars>>

\* convert_plan prepares the schemas of its tables, those in the cache
\* excepted, and converts; it may fail after any number of them.
ConvertTables(S) ==
    /\ pc = "convert"
    /\ cont \in running
    /\ Validated
    /\ S = Schema \/ "tool_error" \in Faults
    /\ users' = [users EXCEPT ![cont] = @ \cup (S \ prepared)]
    /\ prepared' = prepared \cup S
    /\ LET new == IF S \subseteq prepared THEN {} ELSE Listed \ created
       IN  /\ spaces' = [spaces EXCEPT ![cont] = @ \cup new]
           /\ created' = created \cup new
    /\ pc' = "stop"
    /\ UNCHANGED <<fileVars, running, imageOf, meta, cmdVars, cont, existed, imported,
                   loopVars>>

\* Any exception of the phases: __exit__ goes on with stop().
PhaseFails ==
    /\ \/ /\ pc \in {"prepare", "fixup", "describe", "convert"}
          /\ "tool_error" \in Faults \/ cont \notin running
       \/ pc \in {"manifest", "plan"} /\ "tool_error" \in Faults
    /\ pc' = "stop"
    /\ UNCHANGED <<fileVars, dbVars, cmdVars, cont, existed, execVars, loopVars>>

\* stop() with keep_alive: session.json is written in place, not renamed, so
\* a kill or an error of the file system here leaves it torn.
OpenSession ==
    /\ pc = "stop"
    /\ keep
    /\ session' = Torn
    /\ pc' = "write"
    /\ UNCHANGED <<manifest, plan, dbVars, cmdVars, cont, existed, execVars, loopVars>>

WriteSession ==
    /\ pc = "write"
    /\ session' = [name |-> cont, image |-> image, imported |-> imported,
                   prepared |-> prepared]
    /\ Exit
    /\ UNCHANGED <<manifest, plan, dbVars>>

\* save_session raises, before session.json is opened or with half of it
\* written: __exit__ does not stop the container for that.
WriteFails ==
    /\ "file_error" \in Faults
    /\ \/ pc = "stop" /\ keep
       \/ pc = "write"
    /\ Exit
    /\ UNCHANGED <<fileVars, dbVars>>

\* stop() without it: ContainerOracle.stop tries stop, then kill, and returns
\* normally even if the runtime refused both.
StopContainer ==
    /\ pc = "stop"
    /\ ~keep
    /\ \/ Remove(cont)
       \/ "docker_error" \in Faults /\ UNCHANGED dbVars
    /\ pc' = "unlink"
    /\ UNCHANGED <<fileVars, cmdVars, cont, existed, execVars, loopVars>>

UnlinkSession ==
    /\ pc = "unlink"
    /\ session' = NoSession
    /\ Exit
    /\ UNCHANGED <<manifest, plan, dbVars>>

\* The file system refuses: stop() does not swallow this, the file stays.
UnlinkFails ==
    /\ "file_error" \in Faults
    /\ pc = "unlink"
    /\ HasSession
    /\ Exit
    /\ UNCHANGED <<fileVars, dbVars>>

-----------------------------------------------------------------------------
(***************************************************************************)
(* The environment.                                                        *)
(***************************************************************************)

\* Killed.  The container of the process keeps running; unless session.json
\* names it, no command will find it again.
Crash ==
    /\ "crash" \in Faults
    /\ pc # "idle"
    /\ Exit
    /\ UNCHANGED <<fileVars, dbVars>>

\* A container exits (host restart, out of memory, by hand): it is removed.
Vanish(n) ==
    /\ "vanish" \in Faults
    /\ n \in running
    /\ Remove(n)
    /\ UNCHANGED <<fileVars, pc, cmdVars, cont, existed, execVars, loopVars>>

\* Between commands the recorded container is restarted or recreated empty.
Recreate(n) ==
    /\ "recreate" \in Faults
    /\ n \in running /\ n # cont
    /\ users' = [users EXCEPT ![n] = {}]
    /\ meta' = [meta EXCEPT ![n] = NoMeta]
    /\ spaces' = [spaces EXCEPT ![n] = {}]
    /\ UNCHANGED <<fileVars, running, imageOf, pc, cmdVars, cont, existed, execVars,
                   loopVars>>

CommandStep ==
    \/ CleanupStop \/ CleanupUnlink
    \/ \E n \in Name : StartContainer(n)
    \/ Reconnect \/ StartFails
    \/ Ready \/ NotReady
    \/ \E s \in Schema : PrepareSchema(s)
    \/ \E s \in Schema, T \in SUBSET Tablespace : PrepareFails(s, T)
    \/ ImportMetadata \/ ImportSwallows \/ ImportFails
    \/ \E M \in SUBSET Tablespace : RecoverTablespaces(M)
    \/ ApplyFixups \/ DescribeTables \/ SaveManifest
    \/ SavePlan \/ ConvertRefused
    \/ \E S \in SUBSET Schema : ConvertTables(S)
    \/ PhaseFails
    \/ OpenSession \/ WriteSession \/ WriteFails
    \/ StopContainer \/ UnlinkSession \/ UnlinkFails

Next ==
    \/ \E img \in Image : StartInspect(img) \/ MakePlan(img)
    \/ \E k \in BOOLEAN : StartConvert(k) \/ (\E img \in Image : StartRun(img, k))
    \/ CommandStep
    \/ Crash
    \/ \E n \in Name : Vanish(n) \/ Recreate(n)

Spec == Init /\ [][Next]_vars

\* The one process executes its next statement.
FairSpec == Spec /\ WF_vars(CommandStep)


-----------------------------------------------------------------------------
(***************************************************************************)
(* Properties.                                                             *)
(***************************************************************************)

AllReady(n) == \A s \in Schema : meta[n][s] = "ready"

\* What session.json says of a container that runs is so: the users it calls
\* prepared exist, and with metadata_imported every schema was imported and
\* fixed up (converter.stop, executor.inspect_dump).
SessionTellsTruth ==
    SessionRuns =>
        /\ session.prepared \subseteq users[session.name]
        /\ session.imported => AllReady(session.name)

\* The two caches of the executor, one of them seeded from a session another
\* process wrote, never name what the database of the connected container does
\* not have (prepare_stage_schema, _recover_missing_tablespaces).
CachesAreTrue ==
    cont \in running =>
        /\ prepared \subseteq users[cont]
        /\ created \subseteq spaces[cont]

\* The command in progress has the container, or session.json leads to it.
Held(n) == n = cont \/ (Recorded /\ session.name = n)

\* A container that is started is held, and stays held while it runs: nothing
\* but a session.json that can not be written leaves one behind, no failure of
\* a phase, of the start or of the container itself, and no file that can not
\* be deleted (start, stop, cleanup_stale_session).
NoContainerLost ==
    [][\A n \in running' : (n \in running => Held(n)) => Held(n)' \/ WriteFails]_vars

Empty(n) == users[n] = {} /\ meta[n] = NoMeta /\ spaces[n] = {}

\* An inspection gets a container nothing was done to, whatever state earlier
\* commands left theirs and session.json in.  cleanup_stale_session stops the
\* old container and deletes the file, swallowing the errors of both: one of
\* the two is enough.
InspectStartsFresh == pc = "ready" /\ cmd = "inspect" => Empty(cont)

\* A conversion that trusts metadata_imported finds the staging metadata of all
\* schemas in place, even if the container was made again in between
\* (validate_metadata_state).
ConvertOnReady ==
    [][(\E S \in SUBSET Schema : ConvertTables(S)) /\ imported => AllReady(cont)]_vars

\* What a command still has to do: its phases, and in inspect_dump the schemas
\* not seen and, for the one in work, the attempts left.
CommandLength ==
    CASE pc = "idle"         -> Nothing
      [] pc = "cleanup"      -> <<11, 0, 0, 0>>
      [] pc = "unlink_stale" -> <<10, 0, 0, 0>>
      [] pc = "start"        -> <<9, 0, 0, 0>>
      [] pc = "ready"        -> <<8, 0, 0, 0>>
      [] pc = "prepare"      -> <<7, Cardinality(todo), 3, 0>>
      [] pc = "import"       -> <<7, Cardinality(todo), 2, MaxAttempt - attempt>>
      [] pc = "fixup"        -> <<7, Cardinality(todo), 1, 0>>
      [] pc = "describe"     -> <<6, 0, 0, 0>>
      [] pc = "manifest"     -> <<5, 0, 0, 0>>
      [] pc = "plan"         -> <<4, 0, 0, 0>>
      [] pc = "convert"      -> <<3, 0, 0, 0>>
      [] pc = "stop"         -> <<2, 0, 0, 0>>
      [] pc \in {"write", "unlink"} -> <<1, 0, 0, 0>>

\* Every step of a command brings its end nearer, whatever the container does
\* meanwhile: no phase is taken twice, a schema is seen once, a failed import
\* is tried again once (converter.__exit__, inspect_dump).
CommandsGetShorter == [][Shorter(CommandLength', CommandLength) \/ ~CommandStep]_vars

\* Every command ends, whatever fails and in whatever state an earlier one was
\* killed (converter.__exit__, inspect_dump).
CommandsTerminate == pc # "idle" ~> pc = "idle"
=============================================================================
