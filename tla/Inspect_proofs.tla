---------------------------- MODULE Inspect_proofs ----------------------------
(***************************************************************************)
(* Proofs about Inspect: an inductive invariant that follows the fixups    *)
(* phase by phase, from it what holds once they are through, and that a    *)
(* plan covers its table.                                                  *)
(***************************************************************************)
EXTENDS Inspect, TLAPS

USE DEF schemaVars, TriggerListing, KeyListing, FunctionListing, PolicyListing, ColumnListing

\* The phases after a phase of the fixups.
AfterMviews == FixupPhase \cup {"describe", "plan", "done"}
AfterTriggers == AfterMviews \ {"triggers"}
AfterKeys == AfterTriggers \ {"foreign_keys"}
AfterFunctions == AfterKeys \ {"functions"}
AfterPolicies == AfterFunctions \ {"policies"}

\* Which phases may have something left to go through, and of what kind.
PhaseInv ==
    /\ pc \notin FixupPhase \cup ReplacePhase => todo = {}
    /\ pc \notin FixupPhase => ~listed
    /\ pc \in FixupPhase /\ ~listed => todo = {}
    /\ pc = "triggers" => todo \subseteq Trigger
    /\ pc = "foreign_keys" => todo \subseteq ForeignKey
    /\ pc \in {"mview_drop", "mview_rename"} => current \in todo \cap Mview
    /\ pc \notin {"mview_drop", "mview_rename"} => current = NoMview

\* Every table is staged or complained of; a materialized view is in the list
\* until it is replaced, and missing only between its DROP and its RENAME.
MviewInv ==
    /\ \A t \in Table : staged[t] = "mview" => t \in Mview
    /\ pc \in {"mviews"} \cup ReplacePhase \cup AfterMviews =>
          \A t \in Table : staged[t] = "absent" =>
              t \in logged \/ (pc = "mview_rename" /\ t = current)
    /\ pc \in ReplacePhase \cup AfterMviews =>
          \A t \in Table : staged[t] = "mview" => t \in todo /\ pc \in ReplacePhase

\* What a fixup has not gone through is in its list, or logged.
HindranceInv ==
    /\ pc \in AfterMviews /\ (pc = "triggers" => listed) =>
          \A g \in triggers : Ordinary(On[g]) =>
              g \in logged \/ (pc = "triggers" /\ g \in todo)
    /\ pc \in AfterTriggers /\ (pc = "foreign_keys" => listed) =>
          \A k \in keys : Ordinary(On[k]) =>
              k \in logged \/ (pc = "foreign_keys" /\ k \in todo)
    /\ pc \in AfterFunctions /\ (pc = "policies" => listed) =>
          \A x \in policies : x \in logged \/ (pc = "policies" /\ x \in todo)
    /\ pc \in AfterPolicies /\ (pc = "columns" => listed) =>
          \A c \in bytes : Ordinary(On[c]) =>
              c \in Unmodifiable \cup logged \/ (pc = "columns" /\ c \in todo)

\* Until the functions are listed, a policy that is missing is missing for a
\* reason a log gives; from then on, so is a function that is still there.
DefuseInv ==
    /\ \/ pc \in {"mviews", "triggers", "foreign_keys"} \cup ReplacePhase
       \/ pc = "functions" /\ ~listed
       => \A p \in Policy : On[p] \notin Mview =>
              p \in policies \/ {p, On[p]} \cap logged # {}
    /\ pc \in AfterKeys /\ (pc = "functions" => listed) =>
          \A p \in Policy :
              On[p] \notin Mview /\ FunctionOf[p] \in functions =>
                  \/ {FunctionOf[p], p, On[p]} \cap logged # {}
                  \/ pc = "functions" /\ FunctionOf[p] \in todo

\* The manifest and the plan of tables that are staged.
PlanInv ==
    /\ pc \in {"plan", "done"} =>
          \A t \in Table : staged[t] # "absent" =>
              manifest[t] = ManifestEntry(DiscoverTableMetadata(Dump[t]))
    /\ pc = "done" =>
          \A t \in Table : plan[t] = PlanTable(manifest[t], TableOverride(Config, Upper, t))

IInv ==
    /\ TypeOK
    /\ PhaseInv
    /\ MviewInv
    /\ HindranceInv
    /\ DefuseInv
    /\ PlanInv

-----------------------------------------------------------------------------
(***************************************************************************)
(* What the files keep.                                                    *)
(***************************************************************************)
\* Positions of a sequence, and what is there.
LEMMA SequenceFacts ==
    ASSUME NEW S, NEW q \in Seq(S), NEW i \in DOMAIN q
    PROVE  i \in Nat \ {0} /\ q[i] \in S
  OBVIOUS

\* A column comes back from manifest.json as it was.
LEMMA ColumnRoundTrip ==
    ASSUME NEW c \in Column
    PROVE  ColumnFromDict(ColumnToDict(c)) = c
<1>. DEFINE d == ColumnToDict(c)
<1>1. /\ "data_type" \in DOMAIN d /\ d["data_type"] = c.type
      /\ "data_type_owner" \in DOMAIN d <=> c.owner # NoOwner
      /\ c.owner # NoOwner => d["data_type_owner"] = c.owner
      /\ "hidden" \in DOMAIN d <=> c.hidden
      /\ c.hidden => d["hidden"] = "true"
  BY DEF ColumnToDict, Key
<1>. HIDE DEF d
<1>2. Get(d, "data_type_owner", NoOwner) = c.owner
  BY <1>1 DEF Get
<1>3. (Get(d, "hidden", "false") = "true") = c.hidden
  BY <1>1 DEF Get, Column
<1>4. ColumnFromDict(d) = [type |-> c.type, owner |-> c.owner, hidden |-> c.hidden]
  BY <1>1, <1>2, <1>3 DEF ColumnFromDict
<1>. QED BY <1>4 DEF Column, d

\* So does a partition with its subpartitions.
LEMMA PartitionRoundTrip ==
    ASSUME NEW p \in [name : SegmentName, subs : Seq(SegmentName)]
    PROVE  PartitionFromDict(PartitionToDict(p)) = p
<1>. DEFINE d == PartitionToDict(p)
<1>1. /\ d["name"] = p.name
      /\ "subpartitions" \in DOMAIN d <=> p.subs # <<>>
      /\ p.subs # <<>> => d["subpartitions"] = p.subs
  BY DEF PartitionToDict, Key
<1>. HIDE DEF d
<1>2. Get(d, "subpartitions", <<>>) = p.subs
  BY <1>1 DEF Get
<1>. QED BY <1>1, <1>2 DEF PartitionFromDict, d

\* A whole table does: the plan command sees what inspect has seen.
LEMMA ManifestRoundTrip ==
    ASSUME NEW m \in TableRecord
    PROVE  SavedManifest(m) = m
<1>. DEFINE d == TableMetadataToDict(m)
<1>1. /\ d["columns"] = {ColumnToDict(c) : c \in m.columns}
      /\ d["partitions"] = [i \in DOMAIN m.partitions |-> PartitionToDict(m.partitions[i])]
      /\ "table_type" \in DOMAIN d <=> m.type # "TABLE"
      /\ m.type # "TABLE" => d["table_type"] = m.type
  BY DEF TableMetadataToDict, Key
<1>. HIDE DEF d
<1>2. Get(d, "table_type", "TABLE") = m.type
  BY <1>1 DEF Get
<1>3. {ColumnFromDict(x) : x \in d["columns"]} = m.columns
  <2>1. m.columns \subseteq Column
    BY DEF TableRecord
  <2>2. \A c \in m.columns : ColumnFromDict(ColumnToDict(c)) = c
    BY <2>1, ColumnRoundTrip
  <2>. QED BY <1>1, <2>2
<1>4. [i \in DOMAIN d["partitions"] |-> PartitionFromDict(d["partitions"][i])] = m.partitions
  <2>1. m.partitions \in Seq([name : SegmentName, subs : Seq(SegmentName)])
    BY DEF TableRecord
  <2>2. \A i \in DOMAIN m.partitions :
            m.partitions[i] \in [name : SegmentName, subs : Seq(SegmentName)]
    BY <2>1, SequenceFacts
  <2>3. \A i \in DOMAIN m.partitions :
            PartitionFromDict(PartitionToDict(m.partitions[i])) = m.partitions[i]
    BY <2>2, PartitionRoundTrip
  <2>4. m.partitions = [i \in DOMAIN m.partitions |-> m.partitions[i]]
    BY <2>1
  <2>. QED BY <1>1, <2>3, <2>4
<1>5. TableMetadataFromDict(d) = [type |-> m.type, columns |-> m.columns, partitions |-> m.partitions]
  BY <1>2, <1>3, <1>4 DEF TableMetadataFromDict
<1>. QED BY <1>5 DEF TableRecord, SavedManifest, d

\* A chunk is its name, its partition and its subpartition.
ChunkForm(c) == c = [name |-> c.name, partition |-> c.partition, subpartition |-> c.subpartition]

\* A chunk comes back from plan.yaml as it was.
LEMMA ChunkRoundTrip ==
    ASSUME NEW c, ChunkForm(c)
    PROVE  ChunkPlanFromDict(ChunkPlanToDict(c)) = c
<1>. DEFINE d == ChunkPlanToDict(c)
<1>1. /\ d["name"] = c.name
      /\ d["partition_name"] = c.partition
      /\ "subpartition_name" \in DOMAIN d <=> c.subpartition # "none"
      /\ c.subpartition # "none" => d["subpartition_name"] = c.subpartition
  BY DEF ChunkPlanToDict, Key
<1>. HIDE DEF d
<1>2. Get(d, "subpartition_name", "none") = c.subpartition
  BY <1>1 DEF Get
<1>3. ChunkPlanFromDict(d)
          = [name |-> c.name, partition |-> c.partition, subpartition |-> c.subpartition]
  BY <1>1, <1>2 DEF ChunkPlanFromDict
<1>. QED BY <1>3 DEF ChunkForm, d

\* The plan of a table does: convert --plan converts what plan has planned.
LEMMA PlanRoundTrip ==
    ASSUME NEW m, NEW o
    PROVE  SavedPlan(PlanTable(m, o)) = PlanTable(m, o)
<1>. DEFINE p == PlanTable(m, o)
<1>1. p = [strategy |-> p.strategy, chunks |-> p.chunks]
  BY DEF PlanTable, Unsupported, WholeTable
<1>2. \A c \in p.chunks : ChunkForm(c)
  BY DEF PlanTable, Unsupported, WholeTable, WholeChunk, PartitionChunks, PartitionChunk,
         SubpartitionChunk, ChunkForm
<1>. HIDE DEF p
<1>3. \A c \in p.chunks : ChunkPlanFromDict(ChunkPlanToDict(c)) = c
  BY <1>2, ChunkRoundTrip
<1>4. TablePlanToDict(p).strategy = p.strategy
      /\ TablePlanToDict(p).chunks = {ChunkPlanToDict(c) : c \in p.chunks}
  BY DEF TablePlanToDict
<1>5. {ChunkPlanFromDict(d) : d \in TablePlanToDict(p).chunks} = p.chunks
  BY <1>3, <1>4
<1>. QED BY <1>1, <1>4, <1>5 DEF SavedPlan, TablePlanFromDict, p

\* The manifest has the records the files are for.
LEMMA NoMetadataIsRecord == NoMetadata \in TableRecord
  BY DEF NoMetadata, TableRecord

\* What is discovered of a table, and what the manifest keeps of it, are records.
LEMMA EntryIsRecord ==
    ASSUME NEW t \in TableRecord
    PROVE  /\ DiscoverTableMetadata(t) \in TableRecord
           /\ ManifestEntry(t) \in TableRecord
  BY DEF TableRecord, ManifestEntry, DiscoverTableMetadata

-----------------------------------------------------------------------------
\* Type correctness.
LEMMA TypeStep == IInv /\ [Next]_vars => TypeOK'
<1>. SUFFICES ASSUME IInv, [Next]_vars PROVE TypeOK'
  OBVIOUS
<1>. USE InspectAssumption DEF IInv, TypeOK, PhaseInv, Object, Phase, FixupPhase, ReplacePhase
<1>1. ASSUME StartInspect PROVE TypeOK'
  BY <1>1, NoMetadataIsRecord DEF StartInspect, FreshSchema, NoPlan
<1>2. ASSUME NEW missed \in SUBSET Importable, ImportMetadata(missed) PROVE TypeOK'
  BY <1>2 DEF ImportMetadata, Importable, ToolImports, ModernImport, LegacyImport, Made,
              Belongs
<1>3. ASSUME NEW missed \in SUBSET Importable, ImportFails(missed) PROVE TypeOK'
  BY <1>3 DEF ImportFails, Ends, ToolImports, ModernImport, LegacyImport, Made, Belongs
<1>4. ASSUME ListMviews PROVE TypeOK'
  BY <1>4 DEF ListMviews, NextPhase
<1>5. ASSUME NEW m \in Mview, CreateTmp(m) PROVE TypeOK'
  BY <1>5 DEF CreateTmp
<1>6. ASSUME DropMview PROVE TypeOK'
  BY <1>6 DEF DropMview
<1>7. ASSUME RenameTmp PROVE TypeOK'
  BY <1>7 DEF RenameTmp, NextPhase
<1>8. ASSUME MviewFails PROVE TypeOK'
  BY <1>8 DEF MviewFails, Raises, Ends
<1>9. ASSUME ListObjects PROVE TypeOK'
  BY <1>9 DEF ListObjects, Listing
<1>10. ASSUME ListingFails PROVE TypeOK'
  BY <1>10 DEF ListingFails, Raises, Ends
<1>11. ASSUME NEW x \in Object, FixObject(x) PROVE TypeOK'
  BY <1>11 DEF FixObject
<1>12. ASSUME NEW x \in Object, FixFails(x) PROVE TypeOK'
  BY <1>12 DEF FixFails
<1>13. ASSUME FixupDone PROVE TypeOK'
  BY <1>13 DEF FixupDone, NextPhase
<1>14. ASSUME DescribeTables PROVE TypeOK'
  <2>1. \A t \in Table : DiscoverTableMetadata(Dump[t]) \in TableRecord
    BY EntryIsRecord
  <2>2. \A t \in Table :
            ManifestEntry(IF staged[t] = "absent" THEN NoMetadata
                          ELSE DiscoverTableMetadata(Dump[t])) \in TableRecord
    BY <2>1, EntryIsRecord, NoMetadataIsRecord
  <2>. QED BY <1>14, <2>2 DEF DescribeTables
<1>15. ASSUME DescribeFails PROVE TypeOK'
  BY <1>15 DEF DescribeFails, Raises, Ends
<1>16. ASSUME PlanTables PROVE TypeOK'
  BY <1>16 DEF PlanTables
<1>17. ASSUME PlanCommand PROVE TypeOK'
  BY <1>17 DEF PlanCommand
<1>18. ASSUME ConnectionLost PROVE TypeOK'
  BY <1>18 DEF ConnectionLost
<1>19. ASSUME Crash PROVE TypeOK'
  BY <1>19 DEF Crash, Raises, Ends
<1>20. CASE UNCHANGED vars
  BY <1>20 DEF vars
<1>. QED
  BY <1>1, <1>2, <1>3, <1>4, <1>5, <1>6, <1>7, <1>8, <1>9, <1>10, <1>11, <1>12, <1>13,
     <1>14, <1>15, <1>16, <1>17, <1>18, <1>19, <1>20 DEF Next

\* What a phase has to go through.
LEMMA PhaseStep == IInv /\ [Next]_vars => PhaseInv'
<1>. SUFFICES ASSUME IInv, [Next]_vars PROVE PhaseInv'
  OBVIOUS
<1>. USE InspectAssumption DEF IInv, TypeOK, PhaseInv, FixupPhase, ReplacePhase
<1>1. ASSUME StartInspect PROVE PhaseInv'
  BY <1>1 DEF StartInspect, FreshSchema
<1>2. ASSUME NEW missed \in SUBSET Importable, ImportMetadata(missed) PROVE PhaseInv'
  BY <1>2 DEF ImportMetadata, ToolImports, ModernImport, LegacyImport, Made, Belongs
<1>3. ASSUME NEW missed \in SUBSET Importable, ImportFails(missed) PROVE PhaseInv'
  BY <1>3 DEF ImportFails, Ends, ToolImports, ModernImport, LegacyImport, Made, Belongs
<1>4. ASSUME ListMviews PROVE PhaseInv'
  BY <1>4 DEF ListMviews, NextPhase
<1>5. ASSUME NEW m \in Mview, CreateTmp(m) PROVE PhaseInv'
  BY <1>5 DEF CreateTmp
<1>6. ASSUME DropMview PROVE PhaseInv'
  BY <1>6 DEF DropMview
<1>7. ASSUME RenameTmp PROVE PhaseInv'
  BY <1>7 DEF RenameTmp, NextPhase
<1>8. ASSUME MviewFails PROVE PhaseInv'
  BY <1>8 DEF MviewFails, Raises, Ends
<1>9. ASSUME ListObjects PROVE PhaseInv'
  BY <1>9 DEF ListObjects, Listing
<1>10. ASSUME ListingFails PROVE PhaseInv'
  BY <1>10 DEF ListingFails, Raises, Ends
<1>11. ASSUME NEW x \in Object, FixObject(x) PROVE PhaseInv'
  BY <1>11 DEF FixObject
<1>12. ASSUME NEW x \in Object, FixFails(x) PROVE PhaseInv'
  BY <1>12 DEF FixFails
<1>13. ASSUME FixupDone PROVE PhaseInv'
  BY <1>13 DEF FixupDone, NextPhase
<1>14. ASSUME DescribeTables PROVE PhaseInv'
  BY <1>14 DEF DescribeTables
<1>15. ASSUME DescribeFails PROVE PhaseInv'
  BY <1>15 DEF DescribeFails, Raises, Ends
<1>16. ASSUME PlanTables PROVE PhaseInv'
  BY <1>16 DEF PlanTables
<1>17. ASSUME PlanCommand PROVE PhaseInv'
  BY <1>17 DEF PlanCommand
<1>18. ASSUME ConnectionLost PROVE PhaseInv'
  BY <1>18 DEF ConnectionLost
<1>19. ASSUME Crash PROVE PhaseInv'
  BY <1>19 DEF Crash, Raises, Ends
<1>20. CASE UNCHANGED vars
  BY <1>20 DEF vars
<1>. QED
  BY <1>1, <1>2, <1>3, <1>4, <1>5, <1>6, <1>7, <1>8, <1>9, <1>10, <1>11, <1>12, <1>13,
     <1>14, <1>15, <1>16, <1>17, <1>18, <1>19, <1>20 DEF Next

\* Tables and materialized views.
LEMMA MviewStep == IInv /\ [Next]_vars => MviewInv'
<1>. SUFFICES ASSUME IInv, [Next]_vars PROVE MviewInv'
  OBVIOUS
<1>. USE InspectAssumption DEF IInv, TypeOK, PhaseInv, MviewInv, FixupPhase, ReplacePhase,
                               AfterMviews
<1>1. ASSUME StartInspect PROVE MviewInv'
  BY <1>1 DEF StartInspect, FreshSchema
<1>2. ASSUME NEW missed \in SUBSET Importable, ImportMetadata(missed) PROVE MviewInv'
  BY <1>2 DEF ImportMetadata, ToolImports, ModernImport, LegacyImport, Made, Belongs
<1>3. ASSUME NEW missed \in SUBSET Importable, ImportFails(missed) PROVE MviewInv'
  BY <1>3 DEF ImportFails, Ends, ToolImports, ModernImport, LegacyImport, Made, Belongs
<1>4. ASSUME ListMviews PROVE MviewInv'
  BY <1>4 DEF ListMviews, NextPhase
<1>5. ASSUME NEW m \in Mview, CreateTmp(m) PROVE MviewInv'
  BY <1>5 DEF CreateTmp
<1>6. ASSUME DropMview PROVE MviewInv'
  BY <1>6 DEF DropMview
<1>7. ASSUME RenameTmp PROVE MviewInv'
  BY <1>7 DEF RenameTmp, NextPhase
<1>8. ASSUME MviewFails PROVE MviewInv'
  BY <1>8 DEF MviewFails, Raises, Ends
<1>9. ASSUME ListObjects PROVE MviewInv'
  BY <1>9 DEF ListObjects, Listing
<1>10. ASSUME ListingFails PROVE MviewInv'
  BY <1>10 DEF ListingFails, Raises, Ends
<1>11. ASSUME NEW x \in Object, FixObject(x) PROVE MviewInv'
  BY <1>11 DEF FixObject
<1>12. ASSUME NEW x \in Object, FixFails(x) PROVE MviewInv'
  BY <1>12 DEF FixFails
<1>13. ASSUME FixupDone PROVE MviewInv'
  BY <1>13 DEF FixupDone, NextPhase
<1>14. ASSUME DescribeTables PROVE MviewInv'
  BY <1>14 DEF DescribeTables
<1>15. ASSUME DescribeFails PROVE MviewInv'
  BY <1>15 DEF DescribeFails, Raises, Ends
<1>16. ASSUME PlanTables PROVE MviewInv'
  BY <1>16 DEF PlanTables
<1>17. ASSUME PlanCommand PROVE MviewInv'
  BY <1>17 DEF PlanCommand
<1>18. ASSUME ConnectionLost PROVE MviewInv'
  BY <1>18 DEF ConnectionLost
<1>19. ASSUME Crash PROVE MviewInv'
  BY <1>19 DEF Crash, Raises, Ends
<1>20. CASE UNCHANGED vars
  BY <1>20 DEF vars
<1>. QED
  BY <1>1, <1>2, <1>3, <1>4, <1>5, <1>6, <1>7, <1>8, <1>9, <1>10, <1>11, <1>12, <1>13,
     <1>14, <1>15, <1>16, <1>17, <1>18, <1>19, <1>20 DEF Next

\* Triggers, keys, policies and columns.
LEMMA HindranceStep == IInv /\ [Next]_vars => HindranceInv'
<1>. SUFFICES ASSUME IInv, [Next]_vars PROVE HindranceInv'
  OBVIOUS
<1>. USE InspectAssumption DEF IInv, TypeOK, PhaseInv, HindranceInv, FixupPhase,
                               ReplacePhase, AfterMviews, AfterTriggers, AfterKeys,
                               AfterFunctions, AfterPolicies
<1>1. ASSUME StartInspect PROVE HindranceInv'
  BY <1>1 DEF StartInspect, FreshSchema
<1>2. ASSUME NEW missed \in SUBSET Importable, ImportMetadata(missed) PROVE HindranceInv'
  BY <1>2 DEF ImportMetadata, ToolImports, ModernImport, LegacyImport, Made, Belongs
<1>3. ASSUME NEW missed \in SUBSET Importable, ImportFails(missed) PROVE HindranceInv'
  BY <1>3 DEF ImportFails, Ends, ToolImports, ModernImport, LegacyImport, Made, Belongs
<1>4. ASSUME ListMviews PROVE HindranceInv'
  BY <1>4 DEF ListMviews, NextPhase
<1>5. ASSUME NEW m \in Mview, CreateTmp(m) PROVE HindranceInv'
  BY <1>5 DEF CreateTmp
<1>6. ASSUME DropMview PROVE HindranceInv'
  BY <1>6 DEF DropMview
<1>7. ASSUME RenameTmp PROVE HindranceInv'
  BY <1>7 DEF RenameTmp, NextPhase
<1>8. ASSUME MviewFails PROVE HindranceInv'
  BY <1>8 DEF MviewFails, Raises, Ends
<1>9. ASSUME ListObjects PROVE HindranceInv'
  BY <1>9 DEF ListObjects, Listing
<1>10. ASSUME ListingFails PROVE HindranceInv'
  BY <1>10 DEF ListingFails, Raises, Ends
<1>11. ASSUME NEW x \in Object, FixObject(x) PROVE HindranceInv'
  BY <1>11 DEF FixObject
<1>12. ASSUME NEW x \in Object, FixFails(x) PROVE HindranceInv'
  BY <1>12 DEF FixFails
<1>13. ASSUME FixupDone PROVE HindranceInv'
  BY <1>13 DEF FixupDone, NextPhase
<1>14. ASSUME DescribeTables PROVE HindranceInv'
  BY <1>14 DEF DescribeTables
<1>15. ASSUME DescribeFails PROVE HindranceInv'
  BY <1>15 DEF DescribeFails, Raises, Ends
<1>16. ASSUME PlanTables PROVE HindranceInv'
  BY <1>16 DEF PlanTables
<1>17. ASSUME PlanCommand PROVE HindranceInv'
  BY <1>17 DEF PlanCommand
<1>18. ASSUME ConnectionLost PROVE HindranceInv'
  BY <1>18 DEF ConnectionLost
<1>19. ASSUME Crash PROVE HindranceInv'
  BY <1>19 DEF Crash, Raises, Ends
<1>20. CASE UNCHANGED vars
  BY <1>20 DEF vars
<1>. QED
  BY <1>1, <1>2, <1>3, <1>4, <1>5, <1>6, <1>7, <1>8, <1>9, <1>10, <1>11, <1>12, <1>13,
     <1>14, <1>15, <1>16, <1>17, <1>18, <1>19, <1>20 DEF Next

\* Policies and their functions.
LEMMA DefuseStep == IInv /\ [Next]_vars => DefuseInv'
<1>. SUFFICES ASSUME IInv, [Next]_vars PROVE DefuseInv'
  OBVIOUS
<1>. USE InspectAssumption DEF IInv, TypeOK, PhaseInv, MviewInv, DefuseInv, FixupPhase,
                               ReplacePhase, AfterMviews, AfterTriggers, AfterKeys
<1>1. ASSUME StartInspect PROVE DefuseInv'
  BY <1>1 DEF StartInspect, FreshSchema
<1>2. ASSUME NEW missed \in SUBSET Importable, ImportMetadata(missed) PROVE DefuseInv'
  BY <1>2 DEF ImportMetadata, ToolImports, ModernImport, LegacyImport, Made, Belongs
<1>3. ASSUME NEW missed \in SUBSET Importable, ImportFails(missed) PROVE DefuseInv'
  BY <1>3 DEF ImportFails, Ends, ToolImports, ModernImport, LegacyImport, Made, Belongs
<1>4. ASSUME ListMviews PROVE DefuseInv'
  BY <1>4 DEF ListMviews, NextPhase
<1>5. ASSUME NEW m \in Mview, CreateTmp(m) PROVE DefuseInv'
  BY <1>5 DEF CreateTmp
<1>6. ASSUME DropMview PROVE DefuseInv'
  BY <1>6 DEF DropMview
<1>7. ASSUME RenameTmp PROVE DefuseInv'
  BY <1>7 DEF RenameTmp, NextPhase
<1>8. ASSUME MviewFails PROVE DefuseInv'
  BY <1>8 DEF MviewFails, Raises, Ends
<1>9. ASSUME ListObjects PROVE DefuseInv'
  BY <1>9 DEF ListObjects, Listing
<1>10. ASSUME ListingFails PROVE DefuseInv'
  BY <1>10 DEF ListingFails, Raises, Ends
<1>11. ASSUME NEW x \in Object, FixObject(x) PROVE DefuseInv'
  BY <1>11 DEF FixObject
<1>12. ASSUME NEW x \in Object, FixFails(x) PROVE DefuseInv'
  BY <1>12 DEF FixFails
<1>13. ASSUME FixupDone PROVE DefuseInv'
  BY <1>13 DEF FixupDone, NextPhase
<1>14. ASSUME DescribeTables PROVE DefuseInv'
  BY <1>14 DEF DescribeTables
<1>15. ASSUME DescribeFails PROVE DefuseInv'
  BY <1>15 DEF DescribeFails, Raises, Ends
<1>16. ASSUME PlanTables PROVE DefuseInv'
  BY <1>16 DEF PlanTables
<1>17. ASSUME PlanCommand PROVE DefuseInv'
  BY <1>17 DEF PlanCommand
<1>18. ASSUME ConnectionLost PROVE DefuseInv'
  BY <1>18 DEF ConnectionLost
<1>19. ASSUME Crash PROVE DefuseInv'
  BY <1>19 DEF Crash, Raises, Ends
<1>20. CASE UNCHANGED vars
  BY <1>20 DEF vars
<1>. QED
  BY <1>1, <1>2, <1>3, <1>4, <1>5, <1>6, <1>7, <1>8, <1>9, <1>10, <1>11, <1>12, <1>13,
     <1>14, <1>15, <1>16, <1>17, <1>18, <1>19, <1>20 DEF Next

\* Manifest and plan.
LEMMA PlanStep == IInv /\ [Next]_vars => PlanInv'
<1>. SUFFICES ASSUME IInv, [Next]_vars PROVE PlanInv'
  OBVIOUS
<1>. USE InspectAssumption DEF IInv, TypeOK, PlanInv, FixupPhase, ReplacePhase
<1>1. ASSUME StartInspect PROVE PlanInv'
  BY <1>1 DEF StartInspect, FreshSchema
<1>2. ASSUME NEW missed \in SUBSET Importable, ImportMetadata(missed) PROVE PlanInv'
  BY <1>2 DEF ImportMetadata, ToolImports, ModernImport, LegacyImport, Made, Belongs
<1>3. ASSUME NEW missed \in SUBSET Importable, ImportFails(missed) PROVE PlanInv'
  BY <1>3 DEF ImportFails, Ends, ToolImports, ModernImport, LegacyImport, Made, Belongs
<1>4. ASSUME ListMviews PROVE PlanInv'
  BY <1>4 DEF ListMviews, NextPhase
<1>5. ASSUME NEW m \in Mview, CreateTmp(m) PROVE PlanInv'
  BY <1>5 DEF CreateTmp
<1>6. ASSUME DropMview PROVE PlanInv'
  BY <1>6 DEF DropMview
<1>7. ASSUME RenameTmp PROVE PlanInv'
  BY <1>7 DEF RenameTmp, NextPhase
<1>8. ASSUME MviewFails PROVE PlanInv'
  BY <1>8 DEF MviewFails, Raises, Ends
<1>9. ASSUME ListObjects PROVE PlanInv'
  BY <1>9 DEF ListObjects, Listing
<1>10. ASSUME ListingFails PROVE PlanInv'
  BY <1>10 DEF ListingFails, Raises, Ends
<1>11. ASSUME NEW x \in Object, FixObject(x) PROVE PlanInv'
  BY <1>11 DEF FixObject
<1>12. ASSUME NEW x \in Object, FixFails(x) PROVE PlanInv'
  BY <1>12 DEF FixFails
<1>13. ASSUME FixupDone PROVE PlanInv'
  BY <1>13 DEF FixupDone, NextPhase
<1>14. ASSUME DescribeTables PROVE PlanInv'
  BY <1>14 DEF DescribeTables
<1>15. ASSUME DescribeFails PROVE PlanInv'
  BY <1>15 DEF DescribeFails, Raises, Ends
<1>16. ASSUME PlanTables PROVE PlanInv'
  BY <1>16 DEF PlanTables
<1>17. ASSUME PlanCommand PROVE PlanInv'
  <2>1. \A t \in Table :
            SavedPlan(PlanTable(SavedManifest(manifest[t]), TableOverride(Config, Upper, t)))
                = PlanTable(manifest[t], TableOverride(Config, Upper, t))
    BY ManifestRoundTrip, PlanRoundTrip
  <2>2. plan' = [t \in Table |-> PlanTable(manifest[t], TableOverride(Config, Upper, t))]
    BY <1>17, <2>1 DEF PlanCommand
  <2>. QED BY <1>17, <2>2 DEF PlanCommand
<1>18. ASSUME ConnectionLost PROVE PlanInv'
  BY <1>18 DEF ConnectionLost
<1>19. ASSUME Crash PROVE PlanInv'
  BY <1>19 DEF Crash, Raises, Ends
<1>20. CASE UNCHANGED vars
  BY <1>20 DEF vars
<1>. QED
  BY <1>1, <1>2, <1>3, <1>4, <1>5, <1>6, <1>7, <1>8, <1>9, <1>10, <1>11, <1>12, <1>13,
     <1>14, <1>15, <1>16, <1>17, <1>18, <1>19, <1>20 DEF Next

-----------------------------------------------------------------------------
(***************************************************************************)
(* The plan of a table (module Planner).                                   *)
(***************************************************************************)

\* Names of partitions and subpartitions, and positions.
LEMMA PartitionFacts ==
    ASSUME NEW t \in TableRecord, NEW i \in DOMAIN t.partitions
    PROVE  /\ i \in Nat \ {0}
           /\ t.partitions[i].name \in SegmentName
           /\ t.partitions[i].subs \in Seq(SegmentName)
           /\ \A j \in DOMAIN t.partitions[i].subs :
                 j \in Nat \ {0} /\ t.partitions[i].subs[j] \in SegmentName
<1>1. t.partitions \in Seq([name : SegmentName, subs : Seq(SegmentName)])
  BY DEF TableRecord
<1>2. i \in Nat \ {0} /\ t.partitions[i] \in [name : SegmentName, subs : Seq(SegmentName)]
  BY <1>1, SequenceFacts
<1>3. t.partitions[i].name \in SegmentName /\ t.partitions[i].subs \in Seq(SegmentName)
  BY <1>2
<1>4. \A j \in DOMAIN t.partitions[i].subs :
          j \in Nat \ {0} /\ t.partitions[i].subs[j] \in SegmentName
  BY <1>3, SequenceFacts
<1>. QED BY <1>2, <1>3, <1>4

\* The segments of a partitioned table, by position.
LEMMA SegmentFacts ==
    ASSUME NEW t \in TableRecord, t.partitions # <<>>, NEW s
    PROVE  s \in Segments(t) <=>
               \E i \in DOMAIN t.partitions :
                  \/ t.partitions[i].subs = <<>> /\ s = <<i, 0>>
                  \/ t.partitions[i].subs # <<>> /\
                     \E j \in DOMAIN t.partitions[i].subs : s = <<i, j>>
  BY DEF Segments

\* The chunk of a partition without subpartitions reads it and nothing else.
LEMMA PartitionReads ==
    ASSUME NEW t \in TableRecord, DistinctNames(t), NEW i \in DOMAIN t.partitions,
           t.partitions[i].subs = <<>>
    PROVE  Reads(t, PartitionChunk(t, i)) = {<<i, 0>>}
<1>. DEFINE c == PartitionChunk(t, i)
<1>1. c.subpartition = "none" /\ c.partition = t.partitions[i].name /\ c.partition # "none"
  BY PartitionFacts DEF PartitionChunk, SegmentName
<1>2. Reads(t, c) = {s \in Segments(t) : s[1] # 0 /\ t.partitions[s[1]].name = c.partition}
  BY <1>1 DEF Reads
<1>3. t.partitions # <<>>
  OBVIOUS
<1>4. <<i, 0>> \in Segments(t) /\ i # 0
  BY <1>3, SegmentFacts, PartitionFacts
<1>. HIDE DEF c
<1>5. <<i, 0>> \in Reads(t, c)
  BY <1>1, <1>2, <1>4
<1>6. ASSUME NEW s \in Reads(t, c) PROVE s = <<i, 0>>
  <2>1. PICK k \in DOMAIN t.partitions :
            \/ t.partitions[k].subs = <<>> /\ s = <<k, 0>>
            \/ t.partitions[k].subs # <<>> /\
               \E j \in DOMAIN t.partitions[k].subs : s = <<k, j>>
    BY <1>2, <1>3, <1>6, SegmentFacts
  <2>2. s[1] = k
    BY <2>1
  <2>3. t.partitions[k].name = t.partitions[i].name
    BY <1>1, <1>2, <2>2
  <2>4. k = i
    BY <2>3 DEF DistinctNames
  <2>. QED BY <2>1, <2>4
<1>. QED BY <1>5, <1>6 DEF c

\* The chunk of a subpartition reads it and nothing else.
LEMMA SubpartitionReads ==
    ASSUME NEW t \in TableRecord, DistinctNames(t), NEW i \in DOMAIN t.partitions,
           NEW j \in DOMAIN t.partitions[i].subs
    PROVE  Reads(t, SubpartitionChunk(t, i, j)) = {<<i, j>>}
<1>. DEFINE c == SubpartitionChunk(t, i, j)
<1>1. c.subpartition = t.partitions[i].subs[j] /\ c.subpartition # "none"
  BY PartitionFacts DEF SubpartitionChunk, SegmentName
<1>2. Reads(t, c) = {s \in Segments(t) :
                        s[2] # 0 /\ t.partitions[s[1]].subs[s[2]] = c.subpartition}
  BY <1>1 DEF Reads
<1>3. t.partitions # <<>> /\ t.partitions[i].subs # <<>>
  OBVIOUS
<1>4. <<i, j>> \in Segments(t) /\ j # 0
  BY <1>3, SegmentFacts, PartitionFacts
<1>. HIDE DEF c
<1>5. <<i, j>> \in Reads(t, c)
  BY <1>1, <1>2, <1>4
<1>6. ASSUME NEW s \in Reads(t, c) PROVE s = <<i, j>>
  <2>1. PICK k \in DOMAIN t.partitions :
            \/ t.partitions[k].subs = <<>> /\ s = <<k, 0>>
            \/ t.partitions[k].subs # <<>> /\
               \E l \in DOMAIN t.partitions[k].subs : s = <<k, l>>
    BY <1>2, <1>3, <1>6, SegmentFacts
  <2>2. PICK l \in DOMAIN t.partitions[k].subs : s = <<k, l>>
    BY <1>2, <1>6, <2>1
  <2>3. t.partitions[k].subs[l] = t.partitions[i].subs[j]
    BY <1>1, <1>2, <1>6, <2>2
  <2>4. k = i /\ l = j
    BY <2>3 DEF DistinctNames
  <2>. QED BY <2>2, <2>4
<1>. QED BY <1>5, <1>6 DEF c

\* The chunks of a partitioned table read each of its segments once.
LEMMA ChunksPartition ==
    ASSUME NEW t \in TableRecord, DistinctNames(t), t.partitions # <<>>
    PROVE  PartitionsTable(t, PartitionChunks(t))
<1>1. \A c : c \in PartitionChunks(t) <=>
          \E i \in DOMAIN t.partitions :
             \/ t.partitions[i].subs = <<>> /\ c = PartitionChunk(t, i)
             \/ t.partitions[i].subs # <<>> /\
                \E j \in DOMAIN t.partitions[i].subs : c = SubpartitionChunk(t, i, j)
  BY DEF PartitionChunks
<1>2. \A s \in Segments(t) : \E c \in PartitionChunks(t) : s \in Reads(t, c)
  <2>. SUFFICES ASSUME NEW s \in Segments(t)
                PROVE  \E c \in PartitionChunks(t) : s \in Reads(t, c)
    OBVIOUS
  <2>1. PICK i \in DOMAIN t.partitions :
            \/ t.partitions[i].subs = <<>> /\ s = <<i, 0>>
            \/ t.partitions[i].subs # <<>> /\
               \E j \in DOMAIN t.partitions[i].subs : s = <<i, j>>
    BY SegmentFacts
  <2>2. CASE t.partitions[i].subs = <<>>
    BY <1>1, <2>1, <2>2, PartitionReads
  <2>3. CASE t.partitions[i].subs # <<>>
    <3>1. PICK j \in DOMAIN t.partitions[i].subs : s = <<i, j>>
      BY <2>1, <2>3
    <3>. QED BY <1>1, <2>3, <3>1, SubpartitionReads
  <2>. QED BY <2>2, <2>3
<1>3. \A c \in PartitionChunks(t) :
          \E i \in DOMAIN t.partitions :
             \/ Reads(t, c) = {<<i, 0>>} /\ c = PartitionChunk(t, i)
             \/ \E j \in DOMAIN t.partitions[i].subs :
                   Reads(t, c) = {<<i, j>>} /\ c = SubpartitionChunk(t, i, j)
  BY <1>1, PartitionReads, SubpartitionReads
<1>4. ASSUME NEW c \in PartitionChunks(t), NEW d \in PartitionChunks(t), c # d
      PROVE  Reads(t, c) \cap Reads(t, d) = {} /\ c.name # d.name
  <2>1. PICK i \in DOMAIN t.partitions :
             \/ Reads(t, c) = {<<i, 0>>} /\ c = PartitionChunk(t, i)
             \/ \E j \in DOMAIN t.partitions[i].subs :
                   Reads(t, c) = {<<i, j>>} /\ c = SubpartitionChunk(t, i, j)
    BY <1>3
  <2>2. PICK k \in DOMAIN t.partitions :
             \/ Reads(t, d) = {<<k, 0>>} /\ d = PartitionChunk(t, k)
             \/ \E l \in DOMAIN t.partitions[k].subs :
                   Reads(t, d) = {<<k, l>>} /\ d = SubpartitionChunk(t, k, l)
    BY <1>3
  <2>3. /\ c.name[1] \in {"partition", "subpartition"} /\ c.name[2] = i
        /\ d.name[1] \in {"partition", "subpartition"} /\ d.name[2] = k
    BY <2>1, <2>2 DEF PartitionChunk, SubpartitionChunk
  <2>4. CASE i # k
    BY <2>1, <2>2, <2>3, <2>4
  <2>5. CASE i = k
    <3>. DEFINE P(x) == Reads(t, x) = {<<i, 0>>} /\ x = PartitionChunk(t, i)
    <3>1. CASE P(c) /\ P(d)
      BY <1>4, <3>1
    <3>2. CASE P(c) /\ ~P(d)
      <4>1. PICK l \in DOMAIN t.partitions[k].subs :
                Reads(t, d) = {<<k, l>>} /\ d = SubpartitionChunk(t, k, l)
        BY <2>2, <2>5, <3>2
      <4>2. l # 0
        BY PartitionFacts
      <4>3. c.name[1] # d.name[1]
        BY <3>2, <4>1 DEF PartitionChunk, SubpartitionChunk
      <4>. QED BY <3>2, <4>1, <4>2, <4>3
    <3>3. CASE ~P(c) /\ P(d)
      <4>1. PICK j \in DOMAIN t.partitions[i].subs :
                Reads(t, c) = {<<i, j>>} /\ c = SubpartitionChunk(t, i, j)
        BY <2>1, <3>3
      <4>2. j # 0
        BY PartitionFacts
      <4>3. c.name[1] # d.name[1]
        BY <2>5, <3>3, <4>1 DEF PartitionChunk, SubpartitionChunk
      <4>. QED BY <3>3, <4>1, <4>2, <4>3
    <3>4. CASE ~P(c) /\ ~P(d)
      <4>1. PICK j \in DOMAIN t.partitions[i].subs :
                Reads(t, c) = {<<i, j>>} /\ c = SubpartitionChunk(t, i, j)
        BY <2>1, <3>4
      <4>2. PICK l \in DOMAIN t.partitions[k].subs :
                Reads(t, d) = {<<k, l>>} /\ d = SubpartitionChunk(t, k, l)
        BY <2>2, <2>5, <3>4
      <4>3. j # l
        BY <1>4, <2>5, <4>1, <4>2
      <4>4. c.name[3] = j /\ d.name[3] = l
        BY <4>1, <4>2 DEF SubpartitionChunk
      <4>. QED BY <4>1, <4>2, <4>3, <4>4
    <3>. QED BY <3>1, <3>2, <3>3, <3>4
  <2>. QED BY <2>4, <2>5
<1>. QED BY <1>2, <1>4 DEF PartitionsTable

\* So does the plan of a supported table, whatever the configuration says.
LEMMA PlanCovers ==
    ASSUME NEW t \in TableRecord, DistinctNames(t), NEW o,
           PlanTable(ManifestEntry(DiscoverTableMetadata(t)), o).strategy # "unsupported"
    PROVE  PartitionsTable(t, PlanTable(ManifestEntry(DiscoverTableMetadata(t)), o).chunks)
<1>. DEFINE m == ManifestEntry(DiscoverTableMetadata(t))
<1>1. m.partitions = t.partitions
  BY DEF ManifestEntry, DiscoverTableMetadata
<1>2. PartitionChunks(m) = PartitionChunks(t)
  BY <1>1 DEF PartitionChunks, PartitionChunk, SubpartitionChunk
<1>. HIDE DEF m
<1>3. \/ PlanTable(m, o) = WholeTable
      \/ PlanTable(m, o) = [strategy |-> "partition", chunks |-> PartitionChunks(m)]
         /\ m.partitions # <<>>
  BY DEF PlanTable, Unsupported, m
<1>4. CASE PlanTable(m, o) = WholeTable
  <2>1. PlanTable(m, o).chunks = {WholeChunk}
    BY <1>4 DEF WholeTable
  <2>2. Reads(t, WholeChunk) = Segments(t)
    BY DEF Reads, WholeChunk
  <2>3. PartitionsTable(t, {WholeChunk})
    BY <2>2 DEF PartitionsTable
  <2>. QED BY <2>1, <2>3 DEF m
<1>5. CASE /\ PlanTable(m, o) = [strategy |-> "partition", chunks |-> PartitionChunks(m)]
           /\ m.partitions # <<>>
  BY <1>1, <1>2, <1>5, ChunksPartition DEF m
<1>. QED BY <1>3, <1>4, <1>5

\* A supported table has no column the exporter cannot read.
LEMMA PlanReadable ==
    ASSUME NEW t \in TableRecord, NEW o,
           PlanTable(ManifestEntry(DiscoverTableMetadata(t)), o).strategy # "unsupported",
           NEW c \in t.columns, ~c.hidden
    PROVE  /\ c.type # "BFILE"
           /\ c.owner # NoOwner => c.type \in BuiltinOwnedTypes
<1>. DEFINE m == ManifestEntry(DiscoverTableMetadata(t))
<1>1. c \in m.columns
  BY DEF ManifestEntry, DiscoverTableMetadata
<1>. HIDE DEF m
<1>2. ~TableUnsupported(m)
  BY DEF PlanTable, Unsupported, m
<1>3. ~ColumnUnsupported(c)
  BY <1>1, <1>2 DEF TableUnsupported
<1>. QED BY <1>3 DEF ColumnUnsupported, UnsupportedColumnTypes

-----------------------------------------------------------------------------
(***************************************************************************)
(* The theorems.                                                           *)
(***************************************************************************)
LEMMA IInvInit == Init => IInv
<1>. SUFFICES ASSUME Init PROVE IInv
  OBVIOUS
<1>1. TypeOK
  BY InspectAssumption, NoMetadataIsRecord DEF Init, TypeOK, Phase, NoPlan
<1>2. PhaseInv /\ MviewInv /\ HindranceInv /\ DefuseInv /\ PlanInv
  BY
     DEF Init, PhaseInv, MviewInv, HindranceInv, DefuseInv, PlanInv, FixupPhase,
         ReplacePhase,
         AfterMviews, AfterTriggers, AfterKeys, AfterFunctions, AfterPolicies
<1>. QED BY <1>1, <1>2 DEF IInv

\* The parts of IInv put together: one step keeps it.
LEMMA IInvStep == IInv /\ [Next]_vars => IInv'
  BY TypeStep, PhaseStep, MviewStep, HindranceStep, DefuseStep, PlanStep DEF IInv

\* The invariant holds in every execution.
THEOREM Invariance == Spec => []IInv
  BY IInvInit, IInvStep, PTL DEF Spec

\* Type correctness; no fixup ever goes through anything but objects.
THEOREM TypeCorrect == Spec => []TypeOK
<1>1. IInv => TypeOK
  BY DEF IInv
<1>. QED BY <1>1, Invariance, PTL

\* Once the fixups are through, nothing hinders the loading of rows but what
\* a log of this inspection complains of.
THEOREM RowsUnhindered == Spec => []RowsLoadUnhindered
<1>1. IInv => RowsLoadUnhindered
  BY DEF IInv, HindranceInv, RowsLoadUnhindered, FixupsDone, FixupPhase,
         AfterMviews, AfterTriggers, AfterKeys, AfterFunctions, AfterPolicies
<1>. QED BY <1>1, Invariance, PTL

\* Nor does a policy function that a later import could attach again.
THEOREM FunctionsDropped == Spec => []PoliciesDefused
<1>1. IInv => PoliciesDefused
  BY DEF IInv, DefuseInv, PoliciesDefused, FixupsDone, FixupPhase,
         AfterMviews, AfterTriggers, AfterKeys
<1>. QED BY <1>1, Invariance, PTL

\* No materialized view is left, nor half replaced, whatever earlier
\* inspections were killed or failed at.
THEOREM AllStaged == Spec => []TablesStaged
<1>1. IInv => TablesStaged
  BY
     DEF IInv, TypeOK, MviewInv, TablesStaged, FixupsDone, FixupPhase, ReplacePhase,
         AfterMviews
<1>. QED BY <1>1, Invariance, PTL

\* The plan of a finished inspection reads each segment of each supported
\* table in exactly one chunk, under a name of its own.
THEOREM PlansFit == Spec => []PlanFitsDump
<1>1. IInv => PlanFitsDump
  <2>. SUFFICES ASSUME IInv, pc = "done", NEW t \in Table,
                       plan[t].strategy # "unsupported", staged[t] = "table"
                PROVE  /\ PartitionsTable(Dump[t], plan[t].chunks)
                       /\ \A c \in Dump[t].columns :
                             ~c.hidden => /\ c.type # "BFILE"
                                          /\ c.owner # NoOwner => c.type \in BuiltinOwnedTypes
    BY DEF PlanFitsDump
  <2>1. Dump[t] \in TableRecord /\ DistinctNames(Dump[t])
    BY InspectAssumption
  <2>2. plan[t] = PlanTable(ManifestEntry(DiscoverTableMetadata(Dump[t])),
                            TableOverride(Config, Upper, t))
    BY DEF IInv, PlanInv
  <2>3. PartitionsTable(Dump[t], plan[t].chunks)
    BY <2>1, <2>2, PlanCovers
  <2>4. \A c \in Dump[t].columns :
            ~c.hidden => /\ c.type # "BFILE"
                         /\ c.owner # NoOwner => c.type \in BuiltinOwnedTypes
    BY <2>1, <2>2, PlanReadable
  <2>. QED BY <2>3, <2>4
<1>. QED BY <1>1, Invariance, PTL
=============================================================================
