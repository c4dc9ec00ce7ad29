--------------------------- MODULE Lifecycle_proofs ---------------------------
(***************************************************************************)
(* Proofs about Lifecycle: what session.json says is so, the caches of the *)
(* executor name nothing that is not there, no container is lost, and a    *)
(* conversion that trusts the flag finds the metadata - each under the     *)
(* assumptions it needs of the commands, the dump and the faults.          *)
(***************************************************************************)
EXTENDS Lifecycle, FiniteSetTheorems, TLAPS

USE DEF fileVars, dbVars, cmdVars, execVars, loopVars

\* The steps before a container is asked for, and those of inspect_dump.
Before == {"idle", "cleanup", "unlink_stale", "start"}
Inspecting == {"prepare", "import", "fixup", "describe"}

\* What a command has, step by step.
PhaseInv ==
    /\ pc = "idle" <=> cmd = "none"
    /\ cmd \in Commands \cup {"none"}
    /\ pc # "idle" => image \in Image
    /\ pc \in Before => cont = NoName
    /\ pc \notin Before => cont \in Name
    /\ pc \in Before \cup {"ready"} => ~imported /\ prepared = {} /\ created = {}
    /\ pc \in Inspecting \cup {"manifest", "plan"} => cmd # "convert"
    /\ pc \in {"import", "fixup"} => cur \in todo
    /\ pc = "describe" => todo = {}

\* The session of a command is that of the container it reconnected to; a
\* command that started a container found none, or has removed it.
SessionInv ==
    /\ pc \notin Before \cup {"write"} /\ existed => Recorded /\ session.name = cont
    /\ pc \notin Before \cup {"write"} /\ ~existed => session = NoSession
    /\ pc = "write" => session = Torn
    /\ pc \in Before => ~existed

LInv == TypeOK /\ PhaseInv /\ SessionInv

\* The users a session calls prepared are there.
UsersInv ==
    /\ CachesAreTrue
    /\ SessionRuns => session.prepared \subseteq users[session.name]

\* How far inspect_dump is.
MetaInv ==
    cont \in running =>
        /\ pc \in Inspecting => \A s \in Schema \ todo : meta[cont][s] = "ready"
        /\ pc = "fixup" => meta[cont][cur] \in {"raw", "ready"}

\* A container that is called imported is, or was made again and lacks users.
Imported(n) == AllReady(n) \/ ("recreate" \in Faults /\ ~(Schema \subseteq users[n]))

FlagInv ==
    /\ imported /\ cont \in running => Imported(cont)
    /\ SessionRuns /\ session.imported => Imported(session.name)
    /\ pc \in {"ready"} \cup Inspecting /\ cmd = "inspect" => ~imported
    /\ pc = "convert" /\ existed /\ (\A i, j \in Image : i = j) =>
          imported = session.imported

\* What is assumed of a work directory whose container may be made again.
OneImageIfRecreated == "recreate" \in Faults => \A i, j \in Image : i = j

\* A container that was told to stop is gone, if the runtime obeys.
StopInv ==
    "docker_error" \notin Faults =>
        /\ pc = "unlink_stale" => ~SessionRuns
        /\ pc = "unlink" => cont \notin running

\* What an inspection needs of the runtime and the file system: that not both
\* refuse the cleanup.
OneObeys == "docker_error" \notin Faults \/ "file_error" \notin Faults

\* No session leads an inspection to a container; one that does not run holds
\* nothing.
FreshInv ==
    /\ StopInv
    /\ pc = "start" /\ cmd = "inspect" => ~SessionRuns
    /\ cmd = "inspect" => ~existed
    /\ \A n \in Name \ running : Empty(n)
    /\ InspectStartsFresh

-----------------------------------------------------------------------------
\* The truth values of the type invariant, and the rest of it.
Flags == keep \in BOOLEAN /\ existed \in BOOLEAN /\ imported \in BOOLEAN

Data ==
    /\ session \in Session \cup {NoSession, Torn}
    /\ manifest \in Image \cup {NoImage} /\ plan \in Image \cup {NoImage}
    /\ running \subseteq Name
    /\ imageOf \in [Name -> Image \cup {NoImage}]
    /\ users \in [Name -> SUBSET Schema]
    /\ meta \in [Name -> [Schema -> Meta]]
    /\ spaces \in [Name -> SUBSET Tablespace]
    /\ pc \in {"idle", "cleanup", "unlink_stale", "start", "ready", "prepare",
               "import", "fixup", "describe", "manifest", "plan", "convert",
               "stop", "write", "unlink"}
    /\ cmd \in Command \cup {"none"}
    /\ image \in Image \cup {NoImage}
    /\ cont \in Name \cup {NoName}
    /\ prepared \subseteq Schema /\ created \subseteq Tablespace
    /\ todo \subseteq Schema /\ cur \in Schema \cup {NoSchema}
    /\ attempt \in 1 .. MaxAttempt

\* What is left when a container is gone.
LEMMA RemoveTypes ==
    ASSUME Data, NEW n, Remove(n) \/ UNCHANGED dbVars
    PROVE  /\ running' \subseteq Name
           /\ imageOf' \in [Name -> Image \cup {NoImage}]
           /\ users' \in [Name -> SUBSET Schema]
           /\ meta' \in [Name -> [Schema -> Meta]]
           /\ spaces' \in [Name -> SUBSET Tablespace]
<1>1. CASE Remove(n)
  <2>1. NoMeta \in [Schema -> Meta]
    BY DEF NoMeta, Meta
  <2>. QED BY <1>1, <2>1 DEF Data, Remove
<1>2. CASE UNCHANGED dbVars
  BY <1>2 DEF Data
<1>. QED BY <1>1, <1>2

\* The type invariant is its two parts.
LEMMA TypeParts == TypeOK <=> Flags /\ Data
  BY DEF TypeOK, Flags, Data

\* The truth values stay truth values.
LEMMA FlagsStep ==
    Flags /\ [Next]_vars => Flags'
<1>. SUFFICES ASSUME Flags, [Next]_vars PROVE Flags'
  OBVIOUS
<1>. USE DEF Flags
<1>1. ASSUME NEW img \in Image, StartInspect(img) PROVE Flags'
  BY <1>1 DEF StartInspect
<1>2. ASSUME NEW img \in Image, MakePlan(img) PROVE Flags'
  BY <1>2 DEF MakePlan
<1>3. ASSUME NEW k \in BOOLEAN, StartConvert(k) PROVE Flags'
  BY <1>3 DEF StartConvert
<1>4. ASSUME NEW img \in Image, NEW k \in BOOLEAN, StartRun(img, k) PROVE Flags'
  BY <1>4 DEF StartRun
<1>5. ASSUME CleanupStop PROVE Flags'
  BY <1>5 DEF CleanupStop, Remove
<1>6. ASSUME CleanupUnlink PROVE Flags'
  BY <1>6 DEF CleanupUnlink
<1>7. ASSUME NEW n \in Name, StartContainer(n) PROVE Flags'
  BY <1>7 DEF StartContainer
<1>8. ASSUME Reconnect PROVE Flags'
  BY <1>8 DEF Reconnect
<1>9. ASSUME StartFails PROVE Flags'
  BY <1>9 DEF StartFails, Exit
<1>10. ASSUME Ready PROVE Flags'
  BY <1>10, Zenon DEF Ready
<1>11. ASSUME NotReady PROVE Flags'
  BY <1>11 DEF NotReady, Exit, Remove
<1>12. ASSUME NEW s \in Schema, PrepareSchema(s) PROVE Flags'
  BY <1>12 DEF PrepareSchema
<1>13. ASSUME NEW s \in Schema, NEW T \in SUBSET Tablespace, PrepareFails(s, T) PROVE Flags'
  BY <1>13 DEF PrepareFails
<1>14. ASSUME ImportMetadata PROVE Flags'
  BY <1>14 DEF ImportMetadata
<1>15. ASSUME ImportSwallows PROVE Flags'
  BY <1>15 DEF ImportSwallows
<1>16. ASSUME ImportFails PROVE Flags'
  BY <1>16 DEF ImportFails
<1>17. ASSUME NEW M \in SUBSET Tablespace, RecoverTablespaces(M) PROVE Flags'
  BY <1>17 DEF RecoverTablespaces
<1>18. ASSUME ApplyFixups PROVE Flags'
  BY <1>18 DEF ApplyFixups
<1>19. ASSUME DescribeTables PROVE Flags'
  BY <1>19 DEF DescribeTables
<1>20. ASSUME SaveManifest PROVE Flags'
  BY <1>20 DEF SaveManifest
<1>21. ASSUME SavePlan PROVE Flags'
  BY <1>21 DEF SavePlan
<1>22. ASSUME ConvertRefused PROVE Flags'
  BY <1>22 DEF ConvertRefused
<1>23. ASSUME NEW S \in SUBSET Schema, ConvertTables(S) PROVE Flags'
  BY <1>23 DEF ConvertTables
<1>24. ASSUME PhaseFails PROVE Flags'
  BY <1>24 DEF PhaseFails
<1>25. ASSUME OpenSession PROVE Flags'
  BY <1>25 DEF OpenSession
<1>26. ASSUME WriteSession PROVE Flags'
  BY <1>26 DEF WriteSession, Exit
<1>27. ASSUME StopContainer PROVE Flags'
  BY <1>27 DEF StopContainer, Remove
<1>28. ASSUME UnlinkSession PROVE Flags'
  BY <1>28 DEF UnlinkSession, Exit
<1>29. ASSUME Crash PROVE Flags'
  BY <1>29 DEF Crash, Exit
<1>30. ASSUME NEW n \in Name, Vanish(n) PROVE Flags'
  BY <1>30 DEF Vanish, Remove
<1>31. ASSUME NEW n \in Name, Recreate(n) PROVE Flags'
  BY <1>31 DEF Recreate
<1>32. CASE UNCHANGED vars
  BY <1>32 DEF vars
<1>33. ASSUME WriteFails PROVE Flags'
  BY <1>33 DEF WriteFails, Exit
<1>34. ASSUME UnlinkFails PROVE Flags'
  BY <1>34 DEF UnlinkFails, Exit
<1>. QED
  BY <1>1, <1>2, <1>3, <1>4, <1>5, <1>6, <1>7, <1>8, <1>9, <1>10, <1>11, <1>12,
     <1>13, <1>14, <1>15, <1>16, <1>17, <1>18, <1>19, <1>20, <1>21, <1>22, <1>23,
     <1>24, <1>25, <1>26, <1>27, <1>28, <1>29, <1>30, <1>31, <1>32, <1>33, <1>34
     DEF Next, CommandStep

\* The other types are kept.
LEMMA DataStep ==
    Flags /\ Data /\ PhaseInv /\ SessionInv /\ [Next]_vars => Data'
<1>. SUFFICES ASSUME Flags, Data, PhaseInv, SessionInv, [Next]_vars PROVE Data'
  OBVIOUS
<1>. USE LifecycleAssumption DEF Flags, Data, PhaseInv, Inspecting, Before, Command, Meta, MaxAttempt, NoMeta
<1>1. ASSUME NEW img \in Image, StartInspect(img) PROVE Data'
  BY <1>1 DEF StartInspect
<1>2. ASSUME NEW img \in Image, MakePlan(img) PROVE Data'
  BY <1>2 DEF MakePlan
<1>3. ASSUME NEW k \in BOOLEAN, StartConvert(k) PROVE Data'
  BY <1>3 DEF StartConvert
<1>4. ASSUME NEW img \in Image, NEW k \in BOOLEAN, StartRun(img, k) PROVE Data'
  BY <1>4 DEF StartRun
<1>5. ASSUME CleanupStop PROVE Data'
  BY <1>5, RemoveTypes DEF CleanupStop
<1>6. ASSUME CleanupUnlink PROVE Data'
  BY <1>6 DEF CleanupUnlink
<1>7. ASSUME NEW n \in Name, StartContainer(n) PROVE Data'
  BY <1>7 DEF StartContainer
<1>8. ASSUME Reconnect PROVE Data'
  BY <1>8 DEF Reconnect, SessionRuns, Recorded, Session
<1>9. ASSUME StartFails PROVE Data'
  BY <1>9 DEF StartFails, Exit
<1>10. ASSUME Ready PROVE Data'
  <2>1. prepared' \subseteq Schema
    BY <1>10 DEF Ready, StaleSession, Session, SessionInv, Recorded
  <2>2. todo' \subseteq Schema /\ pc' \in {"convert", "prepare"}
    BY <1>10 DEF Ready
  <2>. QED BY <1>10, <2>1, <2>2 DEF Ready
<1>11. ASSUME NotReady PROVE Data'
  BY <1>11, RemoveTypes DEF NotReady, Exit
<1>12. ASSUME NEW s \in Schema, PrepareSchema(s) PROVE Data'
  BY <1>12 DEF PrepareSchema
<1>13. ASSUME NEW s \in Schema, NEW T \in SUBSET Tablespace, PrepareFails(s, T) PROVE Data'
  BY <1>13 DEF PrepareFails
<1>14. ASSUME ImportMetadata PROVE Data'
  BY <1>14 DEF ImportMetadata
<1>15. ASSUME ImportSwallows PROVE Data'
  BY <1>15 DEF ImportSwallows
<1>16. ASSUME ImportFails PROVE Data'
  BY <1>16 DEF ImportFails
<1>17. ASSUME NEW M \in SUBSET Tablespace, RecoverTablespaces(M) PROVE Data'
  BY <1>17 DEF RecoverTablespaces
<1>18. ASSUME ApplyFixups PROVE Data'
  BY <1>18 DEF ApplyFixups
<1>19. ASSUME DescribeTables PROVE Data'
  BY <1>19 DEF DescribeTables
<1>20. ASSUME SaveManifest PROVE Data'
  BY <1>20 DEF SaveManifest
<1>21. ASSUME SavePlan PROVE Data'
  BY <1>21 DEF SavePlan
<1>22. ASSUME ConvertRefused PROVE Data'
  BY <1>22 DEF ConvertRefused
<1>23. ASSUME NEW S \in SUBSET Schema, ConvertTables(S) PROVE Data'
  BY <1>23 DEF ConvertTables
<1>24. ASSUME PhaseFails PROVE Data'
  BY <1>24 DEF PhaseFails
<1>25. ASSUME OpenSession PROVE Data'
  BY <1>25 DEF OpenSession
<1>26. ASSUME WriteSession PROVE Data'
  <2>1. cont \in Name /\ image \in Image
    BY <1>26 DEF WriteSession
  <2>2. session' \in Session
    BY <1>26, <2>1 DEF WriteSession, Session
  <2>. QED BY <1>26, <2>2 DEF WriteSession, Exit
<1>27. ASSUME StopContainer PROVE Data'
  BY <1>27, RemoveTypes DEF StopContainer
<1>28. ASSUME UnlinkSession PROVE Data'
  BY <1>28 DEF UnlinkSession, Exit
<1>29. ASSUME Crash PROVE Data'
  BY <1>29 DEF Crash, Exit
<1>30. ASSUME NEW n \in Name, Vanish(n) PROVE Data'
  BY <1>30 DEF Vanish, Remove
<1>31. ASSUME NEW n \in Name, Recreate(n) PROVE Data'
  BY <1>31 DEF Recreate
<1>32. CASE UNCHANGED vars
  BY <1>32 DEF vars
<1>33. ASSUME WriteFails PROVE Data'
  BY <1>33 DEF WriteFails, Exit
<1>34. ASSUME UnlinkFails PROVE Data'
  BY <1>34 DEF UnlinkFails, Exit
<1>. QED
  BY <1>1, <1>2, <1>3, <1>4, <1>5, <1>6, <1>7, <1>8, <1>9, <1>10, <1>11, <1>12,
     <1>13, <1>14, <1>15, <1>16, <1>17, <1>18, <1>19, <1>20, <1>21, <1>22, <1>23,
     <1>24, <1>25, <1>26, <1>27, <1>28, <1>29, <1>30, <1>31, <1>32, <1>33, <1>34
     DEF Next, CommandStep

\* What a command has at each step.
LEMMA PhaseStep ==
    TypeOK /\ PhaseInv /\ SessionInv /\ [Next]_vars => PhaseInv'
<1>. SUFFICES ASSUME TypeOK, PhaseInv, SessionInv, [Next]_vars PROVE PhaseInv'
  OBVIOUS
<1>. USE LifecycleAssumption DEF TypeOK, PhaseInv, Inspecting, Before
<1>1. ASSUME NEW img \in Image, StartInspect(img) PROVE PhaseInv'
  BY <1>1 DEF StartInspect
<1>2. ASSUME NEW img \in Image, MakePlan(img) PROVE PhaseInv'
  BY <1>2 DEF MakePlan
<1>3. ASSUME NEW k \in BOOLEAN, StartConvert(k) PROVE PhaseInv'
  BY <1>3 DEF StartConvert
<1>4. ASSUME NEW img \in Image, NEW k \in BOOLEAN, StartRun(img, k) PROVE PhaseInv'
  BY <1>4 DEF StartRun
<1>5. ASSUME CleanupStop PROVE PhaseInv'
  BY <1>5 DEF CleanupStop, Remove
<1>6. ASSUME CleanupUnlink PROVE PhaseInv'
  BY <1>6 DEF CleanupUnlink
<1>7. ASSUME NEW n \in Name, StartContainer(n) PROVE PhaseInv'
  BY <1>7 DEF StartContainer
<1>8. ASSUME Reconnect PROVE PhaseInv'
  BY <1>8 DEF Reconnect, SessionRuns
<1>9. ASSUME StartFails PROVE PhaseInv'
  BY <1>9 DEF StartFails, Exit
<1>10. ASSUME Ready PROVE PhaseInv'
  BY <1>10 DEF Ready
<1>11. ASSUME NotReady PROVE PhaseInv'
  BY <1>11 DEF NotReady, Exit, Remove
<1>12. ASSUME NEW s \in Schema, PrepareSchema(s) PROVE PhaseInv'
  BY <1>12 DEF PrepareSchema
<1>13. ASSUME NEW s \in Schema, NEW T \in SUBSET Tablespace, PrepareFails(s, T) PROVE PhaseInv'
  BY <1>13 DEF PrepareFails
<1>14. ASSUME ImportMetadata PROVE PhaseInv'
  BY <1>14 DEF ImportMetadata
<1>15. ASSUME ImportSwallows PROVE PhaseInv'
  BY <1>15 DEF ImportSwallows
<1>16. ASSUME ImportFails PROVE PhaseInv'
  BY <1>16 DEF ImportFails
<1>17. ASSUME NEW M \in SUBSET Tablespace, RecoverTablespaces(M) PROVE PhaseInv'
  BY <1>17 DEF RecoverTablespaces
<1>18. ASSUME ApplyFixups PROVE PhaseInv'
  BY <1>18 DEF ApplyFixups
<1>19. ASSUME DescribeTables PROVE PhaseInv'
  BY <1>19 DEF DescribeTables
<1>20. ASSUME SaveManifest PROVE PhaseInv'
  BY <1>20 DEF SaveManifest
<1>21. ASSUME SavePlan PROVE PhaseInv'
  BY <1>21 DEF SavePlan
<1>22. ASSUME ConvertRefused PROVE PhaseInv'
  BY <1>22 DEF ConvertRefused
<1>23. ASSUME NEW S \in SUBSET Schema, ConvertTables(S) PROVE PhaseInv'
  BY <1>23 DEF ConvertTables
<1>24. ASSUME PhaseFails PROVE PhaseInv'
  BY <1>24 DEF PhaseFails
<1>25. ASSUME OpenSession PROVE PhaseInv'
  BY <1>25 DEF OpenSession
<1>26. ASSUME WriteSession PROVE PhaseInv'
  BY <1>26 DEF WriteSession, Exit
<1>27. ASSUME StopContainer PROVE PhaseInv'
  BY <1>27 DEF StopContainer, Remove
<1>28. ASSUME UnlinkSession PROVE PhaseInv'
  BY <1>28 DEF UnlinkSession, Exit
<1>29. ASSUME Crash PROVE PhaseInv'
  BY <1>29 DEF Crash, Exit
<1>30. ASSUME NEW n \in Name, Vanish(n) PROVE PhaseInv'
  BY <1>30 DEF Vanish, Remove
<1>31. ASSUME NEW n \in Name, Recreate(n) PROVE PhaseInv'
  BY <1>31 DEF Recreate
<1>32. CASE UNCHANGED vars
  BY <1>32 DEF vars
<1>33. ASSUME WriteFails PROVE PhaseInv'
  BY <1>33 DEF WriteFails, Exit
<1>34. ASSUME UnlinkFails PROVE PhaseInv'
  BY <1>34 DEF UnlinkFails, Exit
<1>. QED
  BY <1>1, <1>2, <1>3, <1>4, <1>5, <1>6, <1>7, <1>8, <1>9, <1>10, <1>11, <1>12,
     <1>13, <1>14, <1>15, <1>16, <1>17, <1>18, <1>19, <1>20, <1>21, <1>22, <1>23,
     <1>24, <1>25, <1>26, <1>27, <1>28, <1>29, <1>30, <1>31, <1>32, <1>33, <1>34
     DEF Next, CommandStep

\* The session of a command.
LEMMA SessionStep ==
    TypeOK /\ PhaseInv /\ SessionInv /\ [Next]_vars => SessionInv'
<1>. SUFFICES ASSUME TypeOK, PhaseInv, SessionInv, [Next]_vars PROVE SessionInv'
  OBVIOUS
<1>. USE LifecycleAssumption DEF PhaseInv, SessionInv, Before, Recorded, HasSession, SessionRuns
<1>1. ASSUME NEW img \in Image, StartInspect(img) PROVE SessionInv'
  BY <1>1 DEF StartInspect
<1>2. ASSUME NEW img \in Image, MakePlan(img) PROVE SessionInv'
  BY <1>2 DEF MakePlan
<1>3. ASSUME NEW k \in BOOLEAN, StartConvert(k) PROVE SessionInv'
  BY <1>3 DEF StartConvert
<1>4. ASSUME NEW img \in Image, NEW k \in BOOLEAN, StartRun(img, k) PROVE SessionInv'
  BY <1>4 DEF StartRun
<1>5. ASSUME CleanupStop PROVE SessionInv'
  BY <1>5 DEF CleanupStop, Remove
<1>6. ASSUME CleanupUnlink PROVE SessionInv'
  BY <1>6 DEF CleanupUnlink
<1>7. ASSUME NEW n \in Name, StartContainer(n) PROVE SessionInv'
  BY <1>7 DEF StartContainer
<1>8. ASSUME Reconnect PROVE SessionInv'
  BY <1>8 DEF Reconnect
<1>9. ASSUME StartFails PROVE SessionInv'
  BY <1>9 DEF StartFails, Exit
<1>10. ASSUME Ready PROVE SessionInv'
  BY <1>10 DEF Ready
<1>11. ASSUME NotReady PROVE SessionInv'
  BY <1>11 DEF NotReady, Exit, Remove
<1>12. ASSUME NEW s \in Schema, PrepareSchema(s) PROVE SessionInv'
  BY <1>12 DEF PrepareSchema
<1>13. ASSUME NEW s \in Schema, NEW T \in SUBSET Tablespace, PrepareFails(s, T) PROVE SessionInv'
  BY <1>13 DEF PrepareFails
<1>14. ASSUME ImportMetadata PROVE SessionInv'
  BY <1>14 DEF ImportMetadata
<1>15. ASSUME ImportSwallows PROVE SessionInv'
  BY <1>15 DEF ImportSwallows
<1>16. ASSUME ImportFails PROVE SessionInv'
  BY <1>16 DEF ImportFails
<1>17. ASSUME NEW M \in SUBSET Tablespace, RecoverTablespaces(M) PROVE SessionInv'
  BY <1>17 DEF RecoverTablespaces
<1>18. ASSUME ApplyFixups PROVE SessionInv'
  BY <1>18 DEF ApplyFixups
<1>19. ASSUME DescribeTables PROVE SessionInv'
  BY <1>19 DEF DescribeTables
<1>20. ASSUME SaveManifest PROVE SessionInv'
  BY <1>20 DEF SaveManifest
<1>21. ASSUME SavePlan PROVE SessionInv'
  BY <1>21 DEF SavePlan
<1>22. ASSUME ConvertRefused PROVE SessionInv'
  BY <1>22 DEF ConvertRefused
<1>23. ASSUME NEW S \in SUBSET Schema, ConvertTables(S) PROVE SessionInv'
  BY <1>23 DEF ConvertTables
<1>24. ASSUME PhaseFails PROVE SessionInv'
  BY <1>24 DEF PhaseFails
<1>25. ASSUME OpenSession PROVE SessionInv'
  BY <1>25 DEF OpenSession
<1>26. ASSUME WriteSession PROVE SessionInv'
  BY <1>26 DEF WriteSession, Exit
<1>27. ASSUME StopContainer PROVE SessionInv'
  BY <1>27 DEF StopContainer, Remove
<1>28. ASSUME UnlinkSession PROVE SessionInv'
  BY <1>28 DEF UnlinkSession, Exit
<1>29. ASSUME Crash PROVE SessionInv'
  BY <1>29 DEF Crash, Exit
<1>30. ASSUME NEW n \in Name, Vanish(n) PROVE SessionInv'
  BY <1>30 DEF Vanish, Remove
<1>31. ASSUME NEW n \in Name, Recreate(n) PROVE SessionInv'
  BY <1>31 DEF Recreate
<1>32. CASE UNCHANGED vars
  BY <1>32 DEF vars
<1>33. ASSUME WriteFails PROVE SessionInv'
  BY <1>33 DEF WriteFails, Exit
<1>34. ASSUME UnlinkFails PROVE SessionInv'
  BY <1>34 DEF UnlinkFails, Exit
<1>. QED
  BY <1>1, <1>2, <1>3, <1>4, <1>5, <1>6, <1>7, <1>8, <1>9, <1>10, <1>11, <1>12,
     <1>13, <1>14, <1>15, <1>16, <1>17, <1>18, <1>19, <1>20, <1>21, <1>22, <1>23,
     <1>24, <1>25, <1>26, <1>27, <1>28, <1>29, <1>30, <1>31, <1>32, <1>33, <1>34
     DEF Next, CommandStep

\* Users that are prepared stay, as long as no container is made again.
LEMMA UsersStep ==
    "recreate" \notin Faults /\ LInv /\ UsersInv /\ [Next]_vars => UsersInv'
<1>. SUFFICES ASSUME "recreate" \notin Faults, LInv, UsersInv, [Next]_vars PROVE UsersInv'
  OBVIOUS
<1>. USE LifecycleAssumption DEF LInv, TypeOK, PhaseInv, SessionInv, Before, Inspecting, Recorded, HasSession, SessionRuns, UsersInv, CachesAreTrue, Session
<1>1. ASSUME NEW img \in Image, StartInspect(img) PROVE UsersInv'
  BY <1>1 DEF StartInspect
<1>2. ASSUME NEW img \in Image, MakePlan(img) PROVE UsersInv'
  BY <1>2 DEF MakePlan
<1>3. ASSUME NEW k \in BOOLEAN, StartConvert(k) PROVE UsersInv'
  BY <1>3 DEF StartConvert
<1>4. ASSUME NEW img \in Image, NEW k \in BOOLEAN, StartRun(img, k) PROVE UsersInv'
  BY <1>4 DEF StartRun
<1>5. ASSUME CleanupStop PROVE UsersInv'
  BY <1>5 DEF CleanupStop, Remove
<1>6. ASSUME CleanupUnlink PROVE UsersInv'
  BY <1>6 DEF CleanupUnlink
<1>7. ASSUME NEW n \in Name, StartContainer(n) PROVE UsersInv'
  BY <1>7 DEF StartContainer
<1>8. ASSUME Reconnect PROVE UsersInv'
  BY <1>8 DEF Reconnect
<1>9. ASSUME StartFails PROVE UsersInv'
  BY <1>9 DEF StartFails, Exit
<1>10. ASSUME Ready PROVE UsersInv'
  BY <1>10 DEF Ready
<1>11. ASSUME NotReady PROVE UsersInv'
  BY <1>11 DEF NotReady, Exit, Remove
<1>12. ASSUME NEW s \in Schema, PrepareSchema(s) PROVE UsersInv'
  BY <1>12 DEF PrepareSchema
<1>13. ASSUME NEW s \in Schema, NEW T \in SUBSET Tablespace, PrepareFails(s, T) PROVE UsersInv'
  BY <1>13 DEF PrepareFails
<1>14. ASSUME ImportMetadata PROVE UsersInv'
  BY <1>14 DEF ImportMetadata
<1>15. ASSUME ImportSwallows PROVE UsersInv'
  BY <1>15 DEF ImportSwallows
<1>16. ASSUME ImportFails PROVE UsersInv'
  BY <1>16 DEF ImportFails
<1>17. ASSUME NEW M \in SUBSET Tablespace, RecoverTablespaces(M) PROVE UsersInv'
  BY <1>17 DEF RecoverTablespaces
<1>18. ASSUME ApplyFixups PROVE UsersInv'
  BY <1>18 DEF ApplyFixups
<1>19. ASSUME DescribeTables PROVE UsersInv'
  BY <1>19 DEF DescribeTables
<1>20. ASSUME SaveManifest PROVE UsersInv'
  BY <1>20 DEF SaveManifest
<1>21. ASSUME SavePlan PROVE UsersInv'
  BY <1>21 DEF SavePlan
<1>22. ASSUME ConvertRefused PROVE UsersInv'
  BY <1>22 DEF ConvertRefused
<1>23. ASSUME NEW S \in SUBSET Schema, ConvertTables(S) PROVE UsersInv'
  BY <1>23 DEF ConvertTables
<1>24. ASSUME PhaseFails PROVE UsersInv'
  BY <1>24 DEF PhaseFails
<1>25. ASSUME OpenSession PROVE UsersInv'
  BY <1>25 DEF OpenSession
<1>26. ASSUME WriteSession PROVE UsersInv'
  BY <1>26 DEF WriteSession, Exit
<1>27. ASSUME StopContainer PROVE UsersInv'
  BY <1>27 DEF StopContainer, Remove
<1>28. ASSUME UnlinkSession PROVE UsersInv'
  BY <1>28 DEF UnlinkSession, Exit
<1>29. ASSUME Crash PROVE UsersInv'
  BY <1>29 DEF Crash, Exit
<1>30. ASSUME NEW n \in Name, Vanish(n) PROVE UsersInv'
  BY <1>30 DEF Vanish, Remove
<1>31. ASSUME NEW n \in Name, Recreate(n) PROVE UsersInv'
  BY <1>31 DEF Recreate
<1>32. CASE UNCHANGED vars
  BY <1>32 DEF vars
<1>33. ASSUME WriteFails PROVE UsersInv'
  BY <1>33 DEF WriteFails, Exit
<1>34. ASSUME UnlinkFails PROVE UsersInv'
  BY <1>34 DEF UnlinkFails, Exit
<1>. HIDE DEF UsersInv, CachesAreTrue, LInv
<1>. QED
  BY <1>1, <1>2, <1>3, <1>4, <1>5, <1>6, <1>7, <1>8, <1>9, <1>10, <1>11, <1>12,
     <1>13, <1>14, <1>15, <1>16, <1>17, <1>18, <1>19, <1>20, <1>21, <1>22, <1>23,
     <1>24, <1>25, <1>26, <1>27, <1>28, <1>29, <1>30, <1>31, <1>32, <1>33, <1>34
     DEF Next, CommandStep

\* A schema that is through is ready, if no import error is swallowed.
LEMMA MetaStep ==
    ~Legacy /\ LInv /\ MetaInv /\ [Next]_vars => MetaInv'
<1>. SUFFICES ASSUME ~Legacy, LInv, MetaInv, [Next]_vars PROVE MetaInv'
  OBVIOUS
<1>. USE LifecycleAssumption DEF LInv, TypeOK, PhaseInv, SessionInv, Before, Inspecting, Recorded, HasSession, SessionRuns, MetaInv, Meta
<1>1. ASSUME NEW img \in Image, StartInspect(img) PROVE MetaInv'
  BY <1>1 DEF StartInspect
<1>2. ASSUME NEW img \in Image, MakePlan(img) PROVE MetaInv'
  BY <1>2 DEF MakePlan
<1>3. ASSUME NEW k \in BOOLEAN, StartConvert(k) PROVE MetaInv'
  BY <1>3 DEF StartConvert
<1>4. ASSUME NEW img \in Image, NEW k \in BOOLEAN, StartRun(img, k) PROVE MetaInv'
  BY <1>4 DEF StartRun
<1>5. ASSUME CleanupStop PROVE MetaInv'
  BY <1>5 DEF CleanupStop, Remove
<1>6. ASSUME CleanupUnlink PROVE MetaInv'
  BY <1>6 DEF CleanupUnlink
<1>7. ASSUME NEW n \in Name, StartContainer(n) PROVE MetaInv'
  BY <1>7 DEF StartContainer
<1>8. ASSUME Reconnect PROVE MetaInv'
  BY <1>8 DEF Reconnect
<1>9. ASSUME StartFails PROVE MetaInv'
  BY <1>9 DEF StartFails, Exit
<1>10. ASSUME Ready PROVE MetaInv'
  BY <1>10 DEF Ready
<1>11. ASSUME NotReady PROVE MetaInv'
  BY <1>11 DEF NotReady, Exit, Remove
<1>12. ASSUME NEW s \in Schema, PrepareSchema(s) PROVE MetaInv'
  BY <1>12 DEF PrepareSchema
<1>13. ASSUME NEW s \in Schema, NEW T \in SUBSET Tablespace, PrepareFails(s, T) PROVE MetaInv'
  BY <1>13 DEF PrepareFails
<1>14. ASSUME ImportMetadata PROVE MetaInv'
  BY <1>14 DEF ImportMetadata
<1>15. ASSUME ImportSwallows PROVE MetaInv'
  BY <1>15 DEF ImportSwallows
<1>16. ASSUME ImportFails PROVE MetaInv'
  BY <1>16 DEF ImportFails
<1>17. ASSUME NEW M \in SUBSET Tablespace, RecoverTablespaces(M) PROVE MetaInv'
  BY <1>17 DEF RecoverTablespaces
<1>18. ASSUME ApplyFixups PROVE MetaInv'
  BY <1>18 DEF ApplyFixups
<1>19. ASSUME DescribeTables PROVE MetaInv'
  BY <1>19 DEF DescribeTables
<1>20. ASSUME SaveManifest PROVE MetaInv'
  BY <1>20 DEF SaveManifest
<1>21. ASSUME SavePlan PROVE MetaInv'
  BY <1>21 DEF SavePlan
<1>22. ASSUME ConvertRefused PROVE MetaInv'
  BY <1>22 DEF ConvertRefused
<1>23. ASSUME NEW S \in SUBSET Schema, ConvertTables(S) PROVE MetaInv'
  BY <1>23 DEF ConvertTables
<1>24. ASSUME PhaseFails PROVE MetaInv'
  BY <1>24 DEF PhaseFails
<1>25. ASSUME OpenSession PROVE MetaInv'
  BY <1>25 DEF OpenSession
<1>26. ASSUME WriteSession PROVE MetaInv'
  BY <1>26 DEF WriteSession, Exit
<1>27. ASSUME StopContainer PROVE MetaInv'
  BY <1>27 DEF StopContainer, Remove
<1>28. ASSUME UnlinkSession PROVE MetaInv'
  BY <1>28 DEF UnlinkSession, Exit
<1>29. ASSUME Crash PROVE MetaInv'
  BY <1>29 DEF Crash, Exit
<1>30. ASSUME NEW n \in Name, Vanish(n) PROVE MetaInv'
  BY <1>30 DEF Vanish, Remove
<1>31. ASSUME NEW n \in Name, Recreate(n) PROVE MetaInv'
  BY <1>31 DEF Recreate
<1>32. CASE UNCHANGED vars
  BY <1>32 DEF vars
<1>33. ASSUME WriteFails PROVE MetaInv'
  BY <1>33 DEF WriteFails, Exit
<1>34. ASSUME UnlinkFails PROVE MetaInv'
  BY <1>34 DEF UnlinkFails, Exit
<1>. QED
  BY <1>1, <1>2, <1>3, <1>4, <1>5, <1>6, <1>7, <1>8, <1>9, <1>10, <1>11, <1>12,
     <1>13, <1>14, <1>15, <1>16, <1>17, <1>18, <1>19, <1>20, <1>21, <1>22, <1>23,
     <1>24, <1>25, <1>26, <1>27, <1>28, <1>29, <1>30, <1>31, <1>32, <1>33, <1>34
     DEF Next, CommandStep

\* An inspection starts on an empty container.
LEMMA FreshStep ==
    OneObeys /\ LInv /\ FreshInv /\ [Next]_vars => FreshInv'
<1>. SUFFICES ASSUME OneObeys, LInv, FreshInv, [Next]_vars PROVE FreshInv'
  OBVIOUS
<1>. USE LifecycleAssumption DEF LInv, TypeOK, PhaseInv, SessionInv, Before, Inspecting, Recorded, HasSession, SessionRuns, FreshInv, StopInv, OneObeys, InspectStartsFresh, Empty, Session
<1>1. ASSUME NEW img \in Image, StartInspect(img) PROVE FreshInv'
  BY <1>1 DEF StartInspect
<1>2. ASSUME NEW img \in Image, MakePlan(img) PROVE FreshInv'
  BY <1>2 DEF MakePlan
<1>3. ASSUME NEW k \in BOOLEAN, StartConvert(k) PROVE FreshInv'
  BY <1>3 DEF StartConvert
<1>4. ASSUME NEW img \in Image, NEW k \in BOOLEAN, StartRun(img, k) PROVE FreshInv'
  BY <1>4 DEF StartRun
<1>5. ASSUME CleanupStop PROVE FreshInv'
  BY <1>5 DEF CleanupStop, Remove
<1>6. ASSUME CleanupUnlink PROVE FreshInv'
  BY <1>6 DEF CleanupUnlink
<1>7. ASSUME NEW n \in Name, StartContainer(n) PROVE FreshInv'
  <2>1. /\ cont' = n /\ running' = running \cup {n} /\ n \notin running /\ ~existed'
        /\ pc' = "ready" /\ UNCHANGED <<users, meta, spaces, cmd>>
    BY <1>7 DEF StartContainer, Fresh
  <2>2. \A m \in Name : Empty(m)' <=> Empty(m)
    BY <2>1
  <2>3. Empty(n)
    BY <2>1
  <2>. HIDE DEF Empty
  <2>. QED BY <2>1, <2>2, <2>3
<1>8. ASSUME Reconnect PROVE FreshInv'
  BY <1>8 DEF Reconnect
<1>9. ASSUME StartFails PROVE FreshInv'
  BY <1>9 DEF StartFails, Exit
<1>10. ASSUME Ready PROVE FreshInv'
  BY <1>10 DEF Ready
<1>11. ASSUME NotReady PROVE FreshInv'
  BY <1>11 DEF NotReady, Exit, Remove
<1>12. ASSUME NEW s \in Schema, PrepareSchema(s) PROVE FreshInv'
  BY <1>12 DEF PrepareSchema
<1>13. ASSUME NEW s \in Schema, NEW T \in SUBSET Tablespace, PrepareFails(s, T) PROVE FreshInv'
  BY <1>13 DEF PrepareFails
<1>14. ASSUME ImportMetadata PROVE FreshInv'
  BY <1>14 DEF ImportMetadata
<1>15. ASSUME ImportSwallows PROVE FreshInv'
  BY <1>15 DEF ImportSwallows
<1>16. ASSUME ImportFails PROVE FreshInv'
  BY <1>16 DEF ImportFails
<1>17. ASSUME NEW M \in SUBSET Tablespace, RecoverTablespaces(M) PROVE FreshInv'
  BY <1>17 DEF RecoverTablespaces
<1>18. ASSUME ApplyFixups PROVE FreshInv'
  BY <1>18 DEF ApplyFixups
<1>19. ASSUME DescribeTables PROVE FreshInv'
  BY <1>19 DEF DescribeTables
<1>20. ASSUME SaveManifest PROVE FreshInv'
  BY <1>20 DEF SaveManifest
<1>21. ASSUME SavePlan PROVE FreshInv'
  BY <1>21 DEF SavePlan
<1>22. ASSUME ConvertRefused PROVE FreshInv'
  BY <1>22 DEF ConvertRefused
<1>23. ASSUME NEW S \in SUBSET Schema, ConvertTables(S) PROVE FreshInv'
  BY <1>23 DEF ConvertTables
<1>24. ASSUME PhaseFails PROVE FreshInv'
  BY <1>24 DEF PhaseFails
<1>25. ASSUME OpenSession PROVE FreshInv'
  BY <1>25 DEF OpenSession
<1>26. ASSUME WriteSession PROVE FreshInv'
  BY <1>26 DEF WriteSession, Exit
<1>27. ASSUME StopContainer PROVE FreshInv'
  BY <1>27 DEF StopContainer, Remove
<1>28. ASSUME UnlinkSession PROVE FreshInv'
  BY <1>28 DEF UnlinkSession, Exit
<1>29. ASSUME Crash PROVE FreshInv'
  BY <1>29 DEF Crash, Exit
<1>30. ASSUME NEW n \in Name, Vanish(n) PROVE FreshInv'
  BY <1>30 DEF Vanish, Remove
<1>31. ASSUME NEW n \in Name, Recreate(n) PROVE FreshInv'
  BY <1>31 DEF Recreate
<1>32. CASE UNCHANGED vars
  BY <1>32 DEF vars
<1>33. ASSUME WriteFails PROVE FreshInv'
  BY <1>33 DEF WriteFails, Exit
<1>34. ASSUME UnlinkFails PROVE FreshInv'
  BY <1>34 DEF UnlinkFails, Exit
<1>. HIDE DEF FreshInv, LInv
<1>. QED
  BY <1>1, <1>2, <1>3, <1>4, <1>5, <1>6, <1>7, <1>8, <1>9, <1>10, <1>11, <1>12,
     <1>13, <1>14, <1>15, <1>16, <1>17, <1>18, <1>19, <1>20, <1>21, <1>22, <1>23,
     <1>24, <1>25, <1>26, <1>27, <1>28, <1>29, <1>30, <1>31, <1>32, <1>33, <1>34
     DEF Next, CommandStep

\* No container is lost.
LEMMA LostStep ==
    ASSUME "crash" \notin Faults, "docker_error" \notin Faults, LInv, FreshInv, [Next]_vars
    PROVE  \A n \in running' : (n \in running => Held(n)) => Held(n)' \/ WriteFails
<1>. DEFINE Kept == \A n \in running' : (n \in running => Held(n)) => Held(n)' \/ WriteFails
<1>. USE LifecycleAssumption DEF LInv, TypeOK, PhaseInv, SessionInv, Before, Inspecting, Recorded, HasSession, SessionRuns, FreshInv, StopInv, Held, Session
<1>1. ASSUME NEW img \in Image, StartInspect(img) PROVE Kept
  BY <1>1 DEF StartInspect
<1>2. ASSUME NEW img \in Image, MakePlan(img) PROVE Kept
  BY <1>2 DEF MakePlan
<1>3. ASSUME NEW k \in BOOLEAN, StartConvert(k) PROVE Kept
  BY <1>3 DEF StartConvert
<1>4. ASSUME NEW img \in Image, NEW k \in BOOLEAN, StartRun(img, k) PROVE Kept
  BY <1>4 DEF StartRun
<1>5. ASSUME CleanupStop PROVE Kept
  BY <1>5 DEF CleanupStop, Remove
<1>6. ASSUME CleanupUnlink PROVE Kept
  BY <1>6 DEF CleanupUnlink
<1>7. ASSUME NEW n \in Name, StartContainer(n) PROVE Kept
  BY <1>7 DEF StartContainer
<1>8. ASSUME Reconnect PROVE Kept
  BY <1>8 DEF Reconnect
<1>9. ASSUME StartFails PROVE Kept
  BY <1>9 DEF StartFails, Exit
<1>10. ASSUME Ready PROVE Kept
  BY <1>10 DEF Ready
<1>11. ASSUME NotReady PROVE Kept
  BY <1>11 DEF NotReady, Exit, Remove
<1>12. ASSUME NEW s \in Schema, PrepareSchema(s) PROVE Kept
  BY <1>12 DEF PrepareSchema
<1>13. ASSUME NEW s \in Schema, NEW T \in SUBSET Tablespace, PrepareFails(s, T) PROVE Kept
  BY <1>13 DEF PrepareFails
<1>14. ASSUME ImportMetadata PROVE Kept
  BY <1>14 DEF ImportMetadata
<1>15. ASSUME ImportSwallows PROVE Kept
  BY <1>15 DEF ImportSwallows
<1>16. ASSUME ImportFails PROVE Kept
  BY <1>16 DEF ImportFails
<1>17. ASSUME NEW M \in SUBSET Tablespace, RecoverTablespaces(M) PROVE Kept
  BY <1>17 DEF RecoverTablespaces
<1>18. ASSUME ApplyFixups PROVE Kept
  BY <1>18 DEF ApplyFixups
<1>19. ASSUME DescribeTables PROVE Kept
  BY <1>19 DEF DescribeTables
<1>20. ASSUME SaveManifest PROVE Kept
  BY <1>20 DEF SaveManifest
<1>21. ASSUME SavePlan PROVE Kept
  BY <1>21 DEF SavePlan
<1>22. ASSUME ConvertRefused PROVE Kept
  BY <1>22 DEF ConvertRefused
<1>23. ASSUME NEW S \in SUBSET Schema, ConvertTables(S) PROVE Kept
  BY <1>23 DEF ConvertTables
<1>24. ASSUME PhaseFails PROVE Kept
  BY <1>24 DEF PhaseFails
<1>25. ASSUME OpenSession PROVE Kept
  BY <1>25 DEF OpenSession
<1>26. ASSUME WriteSession PROVE Kept
  BY <1>26 DEF WriteSession, Exit
<1>27. ASSUME StopContainer PROVE Kept
  BY <1>27 DEF StopContainer, Remove
<1>28. ASSUME UnlinkSession PROVE Kept
  BY <1>28 DEF UnlinkSession, Exit
<1>29. ASSUME Crash PROVE Kept
  BY <1>29 DEF Crash, Exit
<1>30. ASSUME NEW n \in Name, Vanish(n) PROVE Kept
  BY <1>30 DEF Vanish, Remove
<1>31. ASSUME NEW n \in Name, Recreate(n) PROVE Kept
  BY <1>31 DEF Recreate
<1>32. ASSUME UNCHANGED vars PROVE Kept
  BY <1>32 DEF vars
<1>33. ASSUME WriteFails PROVE Kept
  BY <1>33
<1>34. ASSUME UnlinkFails PROVE Kept
  BY <1>34 DEF UnlinkFails, Exit
<1>. HIDE DEF Kept
<1>35. Kept
  BY <1>1, <1>2, <1>3, <1>4, <1>5, <1>6, <1>7, <1>8, <1>9, <1>10, <1>11, <1>12,
     <1>13, <1>14, <1>15, <1>16, <1>17, <1>18, <1>19, <1>20, <1>21, <1>22, <1>23,
     <1>24, <1>25, <1>26, <1>27, <1>28, <1>29, <1>30, <1>31, <1>32, <1>33, <1>34
     DEF Next, CommandStep
<1>. QED BY <1>35 DEF Kept

\* A container that is called imported stays so, or lacks users.
LEMMA FlagStep ==
    ~Legacy /\ "run" \notin Commands /\ OneImageIfRecreated /\ LInv /\ FreshInv /\ MetaInv /\ FlagInv
      /\ [Next]_vars => FlagInv'
<1>. SUFFICES ASSUME ~Legacy, "run" \notin Commands, OneImageIfRecreated, LInv, FreshInv, MetaInv, FlagInv, [Next]_vars
              PROVE  FlagInv'
  OBVIOUS
<1>. USE LifecycleAssumption DEF LInv, TypeOK, PhaseInv, SessionInv, Before, Inspecting, Recorded, HasSession, SessionRuns, FlagInv, Imported, AllReady, OneImageIfRecreated, MetaInv, Meta, Session, Command
<1>0. cmd = "inspect" => ~existed
  BY DEF FreshInv
<1>1. ASSUME NEW img \in Image, StartInspect(img) PROVE FlagInv'
  BY <1>1 DEF StartInspect
<1>2. ASSUME NEW img \in Image, MakePlan(img) PROVE FlagInv'
  BY <1>2 DEF MakePlan
<1>3. ASSUME NEW k \in BOOLEAN, StartConvert(k) PROVE FlagInv'
  BY <1>3 DEF StartConvert
<1>4. ASSUME NEW img \in Image, NEW k \in BOOLEAN, StartRun(img, k) PROVE FlagInv'
  BY <1>4 DEF StartRun
<1>5. ASSUME CleanupStop PROVE FlagInv'
  BY <1>5 DEF CleanupStop, Remove
<1>6. ASSUME CleanupUnlink PROVE FlagInv'
  BY <1>6 DEF CleanupUnlink
<1>7. ASSUME NEW n \in Name, StartContainer(n) PROVE FlagInv'
  BY <1>7 DEF StartContainer
<1>8. ASSUME Reconnect PROVE FlagInv'
  BY <1>8 DEF Reconnect
<1>9. ASSUME StartFails PROVE FlagInv'
  BY <1>9 DEF StartFails, Exit
<1>10. ASSUME Ready PROVE FlagInv'
  <2>1. imported' => existed /\ session.imported /\ session.name = cont /\ Recorded
    BY <1>10, Zenon DEF Ready, SessionInv, Before
  <2>2. UNCHANGED <<cont, running, existed, session, users, meta, cmd>>
    BY <1>10 DEF Ready
  <2>3. imported' /\ cont \in running => Imported(cont)
    BY <2>1
  <2>4. cmd = "inspect" => ~imported'
    BY <2>1 DEF FreshInv
  <2>5. existed /\ (\A i, j \in Image : i = j) => imported' = session.imported
    <3>1. ASSUME existed, \A i, j \in Image : i = j PROVE ~StaleSession
      BY <1>10, <3>1 DEF StaleSession, Ready
    <3>. QED BY <1>10, <3>1, Zenon DEF Ready
  <2>. QED BY <1>10, <2>1, <2>2, <2>3, <2>4, <2>5
<1>11. ASSUME NotReady PROVE FlagInv'
  BY <1>11 DEF NotReady, Exit, Remove
<1>12. ASSUME NEW s \in Schema, PrepareSchema(s) PROVE FlagInv'
  BY <1>0, <1>12 DEF PrepareSchema
<1>13. ASSUME NEW s \in Schema, NEW T \in SUBSET Tablespace, PrepareFails(s, T) PROVE FlagInv'
  BY <1>0, <1>13 DEF PrepareFails
<1>14. ASSUME ImportMetadata PROVE FlagInv'
  BY <1>0, <1>14 DEF ImportMetadata
<1>15. ASSUME ImportSwallows PROVE FlagInv'
  BY <1>0, <1>15 DEF ImportSwallows
<1>16. ASSUME ImportFails PROVE FlagInv'
  BY <1>0, <1>16 DEF ImportFails
<1>17. ASSUME NEW M \in SUBSET Tablespace, RecoverTablespaces(M) PROVE FlagInv'
  BY <1>0, <1>17 DEF RecoverTablespaces
<1>18. ASSUME ApplyFixups PROVE FlagInv'
  BY <1>0, <1>18 DEF ApplyFixups
<1>19. ASSUME DescribeTables PROVE FlagInv'
  BY <1>0, <1>19 DEF DescribeTables
<1>20. ASSUME SaveManifest PROVE FlagInv'
  BY <1>0, <1>20 DEF SaveManifest
<1>21. ASSUME SavePlan PROVE FlagInv'
  BY <1>0, <1>21 DEF SavePlan
<1>22. ASSUME ConvertRefused PROVE FlagInv'
  BY <1>22 DEF ConvertRefused
<1>23. ASSUME NEW S \in SUBSET Schema, ConvertTables(S) PROVE FlagInv'
  <2>1. /\ UNCHANGED <<cont, running, existed, session, meta, imported, cmd>>
        /\ pc = "convert" /\ pc' = "stop" /\ cont \in running
    BY <1>23 DEF ConvertTables
  <2>2. imported => AllReady(cont)
    BY <1>23, <2>1 DEF ConvertTables, Validated
  <2>3. \A n \in Name : AllReady(n) => AllReady(n)'
    BY <2>1
  <2>4. SessionRuns /\ session.imported => AllReady(session.name)
    <3>1. CASE "recreate" \notin Faults
      BY <3>1
    <3>2. CASE "recreate" \in Faults
      <4>1. SessionRuns => existed /\ session.name = cont
        BY <2>1
      <4>2. existed => imported = session.imported
        BY <2>1, <3>2
      <4>. QED BY <2>2, <4>1, <4>2
    <3>. QED BY <3>1, <3>2
  <2>. QED BY <2>1, <2>2, <2>3, <2>4
<1>24. ASSUME PhaseFails PROVE FlagInv'
  BY <1>24 DEF PhaseFails
<1>25. ASSUME OpenSession PROVE FlagInv'
  BY <1>25 DEF OpenSession
<1>26. ASSUME WriteSession PROVE FlagInv'
  BY <1>26 DEF WriteSession, Exit
<1>27. ASSUME StopContainer PROVE FlagInv'
  BY <1>27 DEF StopContainer, Remove
<1>28. ASSUME UnlinkSession PROVE FlagInv'
  BY <1>28 DEF UnlinkSession, Exit
<1>29. ASSUME Crash PROVE FlagInv'
  BY <1>29 DEF Crash, Exit
<1>30. ASSUME NEW n \in Name, Vanish(n) PROVE FlagInv'
  BY <1>30 DEF Vanish, Remove
<1>31. ASSUME NEW n \in Name, Recreate(n) PROVE FlagInv'
  BY <1>31 DEF Recreate
<1>32. CASE UNCHANGED vars
  BY <1>32 DEF vars
<1>33. ASSUME WriteFails PROVE FlagInv'
  BY <1>33 DEF WriteFails, Exit
<1>34. ASSUME UnlinkFails PROVE FlagInv'
  BY <1>34 DEF UnlinkFails, Exit
<1>. HIDE DEF FlagInv, MetaInv, LInv
<1>. QED
  BY <1>1, <1>2, <1>3, <1>4, <1>5, <1>6, <1>7, <1>8, <1>9, <1>10, <1>11, <1>12,
     <1>13, <1>14, <1>15, <1>16, <1>17, <1>18, <1>19, <1>20, <1>21, <1>22, <1>23,
     <1>24, <1>25, <1>26, <1>27, <1>28, <1>29, <1>30, <1>31, <1>32, <1>33, <1>34
     DEF Next, CommandStep

-----------------------------------------------------------------------------
\* All parts hold of a work directory without commands.
LEMMA InitInv == Init => LInv /\ UsersInv /\ MetaInv /\ FlagInv /\ FreshInv
<1>. SUFFICES ASSUME Init PROVE LInv /\ UsersInv /\ MetaInv /\ FlagInv /\ FreshInv
  OBVIOUS
<1>1. Flags
  BY DEF Flags, Init
<1>2. Data
  BY DEF Data, Init, NoMeta, Meta, MaxAttempt
<1>3. PhaseInv /\ SessionInv
  BY LifecycleAssumption DEF Init, PhaseInv, SessionInv, Before, Inspecting, Recorded
<1>4. UsersInv /\ MetaInv /\ FlagInv /\ FreshInv
  BY LifecycleAssumption DEF Init, UsersInv, CachesAreTrue, SessionRuns, MetaInv, FlagInv, Inspecting,
     FreshInv, StopInv, InspectStartsFresh, Empty
<1>. QED BY <1>1, <1>2, <1>3, <1>4, TypeParts DEF LInv

\* The common part is inductive.
LEMMA LStep == LInv /\ [Next]_vars => LInv'
<1>1. LInv => TypeOK /\ Flags /\ Data /\ PhaseInv /\ SessionInv
  BY TypeParts DEF LInv
<1>2. Flags' /\ Data' => TypeOK'
  BY TypeParts DEF TypeOK, Flags, Data
<1>. QED BY <1>1, <1>2, FlagsStep, DataStep, PhaseStep, SessionStep DEF LInv

\* What every command and every step has.
THEOREM Invariance == Spec => []LInv
  BY InitInv, LStep, PTL DEF Spec

\* Every variable has its type, whatever the commands and the faults; in
\* particular a failed import is tried again once and not more often.
THEOREM TypeCorrect == Spec => []TypeOK
<1>1. LInv => TypeOK
  BY DEF LInv
<1>. QED BY <1>1, Invariance, PTL

\* An inspection gets a container nothing was done to (cleanup_stale_session),
\* whatever the state of the session it found and whatever else fails, unless
\* the runtime refuses to stop the old one and the file system to delete the
\* file that leads to it.
THEOREM InspectFresh ==
    ASSUME OneObeys
    PROVE  Spec => []InspectStartsFresh
<1>1. LInv /\ FreshInv /\ [Next]_vars => FreshInv'
  BY FreshStep
<1>2. FreshInv => InspectStartsFresh
  BY DEF FreshInv
<1>. QED BY <1>1, <1>2, InitInv, Invariance, PTL DEF Spec

\* The caches of the executor are true (prepare_stage_schema,
\* _recover_missing_tablespaces) unless a container is made again while
\* session.json remembers the old one.
THEOREM CachesTrue ==
    ASSUME "recreate" \notin Faults
    PROVE  Spec => []CachesAreTrue
<1>1. LInv /\ UsersInv /\ [Next]_vars => UsersInv'
  BY UsersStep
<1>2. UsersInv => CachesAreTrue
  BY DEF UsersInv
<1>. QED BY <1>1, <1>2, InitInv, Invariance, PTL DEF Spec

\* What session.json says is so (converter.stop) in the two-step workflow of a
\* Data Pump dump, for any dump, number of commands and faults but one.
THEOREM SessionTruth ==
    ASSUME ~Legacy, "run" \notin Commands, "recreate" \notin Faults, OneObeys
    PROVE  Spec => []SessionTellsTruth
<1>1. LInv /\ UsersInv /\ [Next]_vars => UsersInv'
  BY UsersStep
<1>2. LInv /\ MetaInv /\ [Next]_vars => MetaInv'
  BY MetaStep
<1>3. LInv /\ FreshInv /\ [Next]_vars => FreshInv'
  BY FreshStep
<1>4. LInv /\ FreshInv /\ MetaInv /\ FlagInv /\ [Next]_vars => FlagInv'
  BY FlagStep DEF OneImageIfRecreated
<1>5. UsersInv /\ FlagInv => SessionTellsTruth
  BY DEF UsersInv, FlagInv, Imported, SessionTellsTruth
<1>. QED BY <1>1, <1>2, <1>3, <1>4, <1>5, InitInv, Invariance, PTL DEF Spec

\* A container that runs stays the one of the command or the one session.json
\* leads to, but for a session.json that can not be written (start, stop,
\* cleanup_stale_session), if stops are not refused and nothing is killed.
THEOREM NoneLost ==
    ASSUME "crash" \notin Faults, "docker_error" \notin Faults
    PROVE  Spec => NoContainerLost
<1>1. LInv /\ FreshInv /\ [Next]_vars => FreshInv'
  BY FreshStep DEF OneObeys
<1>2. LInv /\ FreshInv /\ [Next]_vars
        => [\A n \in running' : (n \in running => Held(n)) => Held(n)' \/ WriteFails]_vars
  BY LostStep
<1>. QED BY <1>1, <1>2, InitInv, Invariance, PTL DEF Spec, NoContainerLost

\* A conversion that trusts the recorded flag finds the metadata of all schemas
\* (validate_metadata_state), in the two-step workflow of a Data Pump dump; when
\* containers may be made again, there must be one image for all commands.
THEOREM ConvertReady ==
    ASSUME ~Legacy, "run" \notin Commands, OneImageIfRecreated, OneObeys
    PROVE  Spec => ConvertOnReady
<1>1. LInv /\ MetaInv /\ [Next]_vars => MetaInv'
  BY MetaStep
<1>2. LInv /\ FreshInv /\ [Next]_vars => FreshInv'
  BY FreshStep
<1>3. LInv /\ FreshInv /\ MetaInv /\ FlagInv /\ [Next]_vars => FlagInv'
  BY FlagStep
<1>4. FlagInv => [(\E S \in SUBSET Schema : ConvertTables(S)) /\ imported => AllReady(cont)]_vars
  BY DEF FlagInv, Imported, ConvertTables, Validated
<1>. QED BY <1>1, <1>2, <1>3, <1>4, InitInv, Invariance, PTL DEF Spec, ConvertOnReady

-----------------------------------------------------------------------------
(***************************************************************************)
(* A command ends: every step of it leaves less to do.                     *)
(***************************************************************************)

\* What is left of a command is a length.
LEMMA CommandLengthType ==
    ASSUME IsFiniteSet(Schema)
    PROVE  LInv => CommandLength \in Length
<1>. SUFFICES ASSUME LInv PROVE CommandLength \in Length
  OBVIOUS
<1>1. todo \in SUBSET Schema /\ attempt \in 1 .. 2
  BY DEF LInv, TypeOK, MaxAttempt
<1>2. Cardinality(todo) \in Nat /\ MaxAttempt - attempt \in Nat
  BY <1>1, FS_Subset, FS_CardinalityType DEF MaxAttempt
<1>3. pc \in {"idle", "cleanup", "unlink_stale", "start", "ready", "prepare",
              "import", "fixup", "describe", "manifest", "plan", "convert",
              "stop", "write", "unlink"}
  BY DEF LInv, TypeOK
<1>. QED BY <1>2, <1>3 DEF CommandLength, Length, Nothing

\* The place of a step among the phases of a command.
Phase == CommandLength[1]

\* The steps that go on to a later phase, or end the command.
LEMMA PhasesShorter ==
    ASSUME TypeOK,
           \/ CleanupStop \/ CleanupUnlink
           \/ \E n \in Name : StartContainer(n)
           \/ Reconnect \/ StartFails
           \/ Ready \/ NotReady
           \/ \E s \in Schema, T \in SUBSET Tablespace : PrepareFails(s, T)
           \/ ImportFails
           \/ DescribeTables \/ SaveManifest
           \/ SavePlan \/ ConvertRefused
           \/ \E S \in SUBSET Schema : ConvertTables(S)
           \/ PhaseFails
           \/ OpenSession \/ WriteSession \/ WriteFails
           \/ StopContainer \/ UnlinkSession \/ UnlinkFails
    PROVE  Less(CommandLength', CommandLength)
<1>1. ASSUME CleanupStop \/ CleanupUnlink PROVE Phase' < Phase
  BY <1>1 DEF CleanupStop, CleanupUnlink, Phase, CommandLength
<1>2. ASSUME (\E n \in Name : StartContainer(n)) \/ Reconnect PROVE Phase' < Phase
  BY <1>2 DEF StartContainer, Reconnect, Phase, CommandLength
<1>3. ASSUME \/ StartFails \/ NotReady
             \/ WriteSession \/ WriteFails \/ UnlinkSession \/ UnlinkFails
      PROVE  Phase' < Phase
  <2>1. pc' = "idle" /\ pc \in {"start", "ready", "stop", "write", "unlink"}
    BY <1>3 DEF StartFails, NotReady, WriteSession, WriteFails, UnlinkSession, UnlinkFails, Exit
  <2>2. Phase' = 0
    BY <2>1 DEF Phase, CommandLength, Nothing
  <2>3. Phase \in {9, 8, 2, 1}
    BY <2>1 DEF Phase, CommandLength
  <2>. QED BY <2>2, <2>3
<1>4. ASSUME Ready PROVE Phase' < Phase
  <2>1. pc = "ready" /\ pc' \in {"convert", "prepare"}
    BY <1>4 DEF Ready
  <2>2. Phase = 8 /\ Phase' \in {3, 7}
    BY <2>1 DEF Phase, CommandLength
  <2>. QED BY <2>2
<1>5. ASSUME \/ \E s \in Schema, T \in SUBSET Tablespace : PrepareFails(s, T)
             \/ ImportFails \/ ConvertRefused \/ PhaseFails
             \/ \E S \in SUBSET Schema : ConvertTables(S)
      PROVE  Phase' < Phase
  <2>1. pc' = "stop"
        /\ pc \in {"prepare", "import", "fixup", "describe", "manifest", "plan", "convert"}
    BY <1>5 DEF PrepareFails, ImportFails, ConvertRefused, PhaseFails, ConvertTables
  <2>2. Phase' = 2
    BY <2>1 DEF Phase, CommandLength
  <2>3. Phase \in {7, 6, 5, 4, 3}
    BY <2>1 DEF Phase, CommandLength
  <2>. QED BY <2>2, <2>3
<1>6. ASSUME DescribeTables \/ SavePlan PROVE Phase' < Phase
  BY <1>6 DEF DescribeTables, SavePlan, Phase, CommandLength
<1>7. ASSUME SaveManifest PROVE Phase' < Phase
  <2>1. pc = "manifest" /\ pc' \in {"stop", "plan"}
    BY <1>7 DEF SaveManifest
  <2>2. Phase = 5 /\ Phase' \in {2, 4}
    BY <2>1 DEF Phase, CommandLength
  <2>. QED BY <2>2
<1>8. ASSUME OpenSession \/ StopContainer PROVE Phase' < Phase
  <2>1. pc = "stop" /\ pc' \in {"write", "unlink"}
    BY <1>8 DEF OpenSession, StopContainer
  <2>2. Phase = 2 /\ Phase' = 1
    BY <2>1 DEF Phase, CommandLength
  <2>. QED BY <2>2
<1>9. Phase' < Phase
  BY <1>1, <1>2, <1>3, <1>4, <1>5, <1>6, <1>7, <1>8
<1>. QED BY <1>9 DEF Phase, Less

\* The loop of inspect_dump: the schema of the loop is imported and fixed up,
\* with at most one more attempt, and is then no longer to do.
LEMMA LoopShorter ==
    ASSUME LInv, IsFiniteSet(Schema),
           \/ \E s \in Schema : PrepareSchema(s)
           \/ ImportMetadata \/ ImportSwallows
           \/ \E M \in SUBSET Tablespace : RecoverTablespaces(M)
           \/ ApplyFixups
    PROVE  Less(CommandLength', CommandLength)
<1>1. todo \in SUBSET Schema /\ attempt \in 1 .. 2
  BY DEF LInv, TypeOK, MaxAttempt
<1>2. IsFiniteSet(todo) /\ Cardinality(todo) \in Nat
  BY <1>1, FS_Subset, FS_CardinalityType
<1>3. ASSUME NEW s \in Schema, PrepareSchema(s) PROVE Less(CommandLength', CommandLength)
  BY <1>3 DEF PrepareSchema, CommandLength, Less
<1>4. ASSUME ImportMetadata \/ ImportSwallows PROVE Less(CommandLength', CommandLength)
  BY <1>4 DEF ImportMetadata, ImportSwallows, CommandLength, Less
<1>5. ASSUME NEW M \in SUBSET Tablespace, RecoverTablespaces(M)
      PROVE  Less(CommandLength', CommandLength)
  <2>1. pc = "import" /\ pc' = "import" /\ todo' = todo /\ attempt' = attempt + 1
    BY <1>5 DEF RecoverTablespaces
  <2>2. /\ CommandLength = <<7, Cardinality(todo), 2, 2 - attempt>>
        /\ CommandLength' = <<7, Cardinality(todo), 2, 2 - (attempt + 1)>>
    BY <2>1 DEF CommandLength, MaxAttempt
  <2>. QED BY <1>1, <2>2 DEF Less
<1>6. ASSUME ApplyFixups PROVE Less(CommandLength', CommandLength)
  <2>1. pc = "fixup" /\ pc' \in {"describe", "prepare"} /\ todo' = todo \ {cur}
    BY <1>6 DEF ApplyFixups
  <2>2. cur \in todo
    BY <2>1 DEF LInv, PhaseInv
  <2>3. Cardinality(todo') = Cardinality(todo) - 1
    BY <1>2, <2>1, <2>2, FS_RemoveElement
  <2>4. CommandLength = <<7, Cardinality(todo), 1, 0>>
    BY <2>1 DEF CommandLength
  <2>5. CASE pc' = "describe"
    <3>1. CommandLength' = <<6, 0, 0, 0>>
      BY <2>5 DEF CommandLength
    <3>. QED BY <2>4, <3>1 DEF Less
  <2>6. CASE pc' = "prepare"
    <3>1. CommandLength' = <<7, Cardinality(todo'), 3, 0>>
      BY <2>6 DEF CommandLength
    <3>. QED BY <1>2, <2>3, <2>4, <3>1 DEF Less
  <2>. QED BY <2>1, <2>5, <2>6
<1>. QED BY <1>3, <1>4, <1>5, <1>6

\* Every step of a command brings its end nearer, for every dump of finitely
\* many schemas and whatever fails or happens to the containers.
THEOREM CommandsShorten ==
    ASSUME IsFiniteSet(Schema)
    PROVE  Spec => CommandsGetShorter
<1>1. ASSUME LInv, CommandStep PROVE Less(CommandLength', CommandLength)
  BY <1>1, PhasesShorter, LoopShorter DEF LInv, CommandStep
<1>2. LInv /\ (CommandLength \in Length)' /\ [Next]_vars
          => [Shorter(CommandLength', CommandLength) \/ ~CommandStep]_vars
  BY <1>1 DEF Shorter
<1>. QED BY <1>2, CommandLengthType, Invariance, PTL DEF CommandsGetShorter, Spec
=============================================================================
