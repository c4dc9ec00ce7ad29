------------------------- MODULE TableConvert_proofs -------------------------
(***************************************************************************)
(* Proofs about TableConvert: an inductive invariant, and from it that     *)
(* completed chunks are exact, that retries are bounded by what they put   *)
(* right, that a call returns a whole table, and that the path implements  *)
(* Resumable.                                                              *)
(***************************************************************************)
EXTENDS TableConvert, FiniteSetTheorems, TLAPS

USE DEF storeVars, spaceVars, dataVars, chunkVars

\* The steps at which the first chunk of todo is being converted.
Working == {"clear", "import", "recover", "export", "check"}

\* What is left to do is part of the table, without repetition.
TodoInv ==
    /\ pc = "idle" => todo = <<>>
    /\ pc # "idle" => table \in Table
    /\ pc \in Working => todo # <<>>
    /\ \A i \in DOMAIN todo : todo[i] \in ChunkSet(table)
    /\ \A i, j \in DOMAIN todo : todo[i] = todo[j] => i = j

\* Every upsert is committed at once; the chunk in work is not completed.
RowInv ==
    /\ autocommit
    /\ tx = db
    /\ deferred = {}
    /\ pc \in Working => ~IsCompleted(db[cur])

\* What is in staging before an import, and what an export finds there.
StageInv ==
    /\ legacy /\ table \in Partitioned /\ pc \in Working \cup {"next"} =>
          \A i \in DOMAIN todo : pc = "next" \/ i # 1 => staged[todo[i]] = 0
    /\ pc = "import" /\ legacy /\ ~doubtful => staged[cur] = 0
    /\ pc \in {"export", "check"} /\ ~doubtful => staged[cur] = Rows[cur]
    /\ pc = "check" => file[cur] = written

\* The caches name nothing the container lacks, and the recovery is told of
\* nothing the schema has.
SpaceInv ==
    /\ created \ MixedCase \subseteq exists
    /\ prepared => Listed \subseteq quota
    /\ pc \notin {"idle", "prepare"} => prepared
    /\ pc = "recover" => /\ output.missing \subseteq Needs[cur] \ exists
                         /\ output.noquota \subseteq (Needs[cur] \cap exists) \ quota

\* Attempts are paid for in tablespaces.
Paid == Needs[cur] \cap MixedCase = {} =>
            Cardinality(Needs[cur] \cap (quota \ Listed)) >= attempt - 1

AttemptInv ==
    /\ pc \in {"idle", "prepare", "truncate", "next", "clear"} => attempt = 1
    /\ pc \in {"import", "recover"} => Paid

\* A chunk of the table is still to do, or has its result.
ResultInv ==
    pc # "idle" =>
        \A c \in ChunkSet(table) :
            \/ \E i \in DOMAIN todo : todo[i] = c
            \/ \E e \in results : e.chunk = c /\ db[c] = Completed(e.rows)

TInv ==
    /\ TypeOK
    /\ TodoInv
    /\ RowInv
    /\ StageInv
    /\ SpaceInv
    /\ AttemptInv
    /\ ResultInv
    /\ CompletedExact

-----------------------------------------------------------------------------
\* The rows the program writes are rows, and which of them are completed.
LEMMA RowFacts ==
    /\ NoRow \in Row /\ Running \in Row /\ Failed \in Row
    /\ \A n \in Nat : /\ Completed(n) \in Row
                      /\ IsCompleted(Completed(n))
                      /\ Completed(n).rows = n
    /\ ~IsCompleted(Running) /\ ~IsCompleted(Failed) /\ ~IsCompleted(NoRow)
    /\ \A r \in Row : IsCompleted(r) => r = Completed(r.rows) /\ r.rows \in Nat
  BY DEF NoRow, Running, Failed, Completed, Row, Status, IsCompleted

\* The first element of a sequence and the rest of it.
LEMMA TailFacts ==
    ASSUME NEW S, NEW q \in Seq(S), q # <<>>
    PROVE  /\ Head(q) \in S /\ Head(q) = q[1] /\ 1 \in DOMAIN q
           /\ Tail(q) \in Seq(S)
           /\ \A i \in DOMAIN Tail(q) : i + 1 \in DOMAIN q /\ Tail(q)[i] = q[i + 1] /\ i + 1 # 1
           /\ \A i \in DOMAIN q : i # 1 => i - 1 \in DOMAIN Tail(q) /\ Tail(q)[i - 1] = q[i]
  OBVIOUS

\* The chunk in work is a chunk of the table.
LEMMA CurFacts ==
    ASSUME TypeOK, TodoInv, todo # <<>>
    PROVE  /\ cur \in Chunk /\ cur \in ChunkSet(table) /\ Rows[cur] \in Nat
           /\ cur = todo[1] /\ 1 \in DOMAIN todo /\ Needs[cur] \in SUBSET Tablespace
           /\ \A i \in DOMAIN todo : i # 1 => todo[i] # cur
           /\ Tail(todo) \in Seq(Chunk)
  BY TailFacts, TableConvertAssumption DEF TypeOK, TodoInv, cur

\* What the tool prints, as far as the recovery reads it.
LEMMA PrintFacts ==
    ASSUME TypeOK, TodoInv, todo # <<>>, NEW o \in Prints
    PROVE  /\ o \in Output
           /\ o.missing \subseteq Needs[cur] \ exists
           /\ o.noquota \subseteq (Needs[cur] \cap exists) \ quota
<1>1. CASE Refused
  BY <1>1 DEF Prints, Refusal, Output
<1>2. CASE ~Refused
  <2>1. ToolCodes \subseteq Nat /\ Missing \subseteq Tablespace /\ NoQuota \subseteq Tablespace
    BY CurFacts, TableConvertAssumption DEF Missing, NoQuota
  <2>2. o \in [codes : SUBSET ToolCodes, missing : SUBSET Missing, noquota : SUBSET NoQuota]
    BY <1>2 DEF Prints
  <2>. QED BY <2>1, <2>2 DEF Output, Missing, NoQuota
<1>. QED BY <1>1, <1>2

-----------------------------------------------------------------------------
\* What is left to do of the table.
LEMMA TodoStep == TypeOK /\ TodoInv /\ [Next]_vars => TodoInv'
<1>. SUFFICES ASSUME TypeOK, TodoInv, [Next]_vars PROVE TodoInv'
  OBVIOUS
<1>. USE TableConvertAssumption DEF TypeOK, TodoInv, Working
<1>1. ASSUME NEW t \in Table, StartTable(t) PROVE TodoInv'
  BY <1>1 DEF StartTable, ChunkSet
<1>2. ASSUME PrepareSchema PROVE TodoInv'
  BY <1>2 DEF PrepareSchema, CreateSpaces
<1>3. ASSUME TruncateTable PROVE TodoInv'
  BY <1>3 DEF TruncateTable, Emptied
<1>4. ASSUME TruncateFails PROVE TodoInv'
  BY <1>4 DEF TruncateFails, EndCall
<1>5. ASSUME NEW M \in SUBSET Listed, NEW Q \in SUBSET Listed, PrepareFails(M, Q) PROVE TodoInv'
  BY <1>5 DEF PrepareFails, CreateSpaces, EndCall
<1>6. ASSUME SkipCompleted PROVE TodoInv'
  BY <1>6, TailFacts DEF SkipCompleted, AtChunk
<1>7. ASSUME BeginChunk PROVE TodoInv'
  BY <1>7 DEF BeginChunk, AtChunk, UpsertNow, Running
<1>8. ASSUME ClearWholeTable PROVE TodoInv'
  BY <1>8 DEF ClearWholeTable, Emptied
<1>9. ASSUME ClearFails PROVE TodoInv'
  BY <1>9 DEF ClearFails, ChunkFails, EndCall, UpsertNow, Failed
<1>10. ASSUME ImportLoads PROVE TodoInv'
  BY <1>10 DEF ImportLoads, AfterLoad, Emptied
<1>11. ASSUME NEW rc \in {1, 2, 5}, NEW o \in Prints, ImportWarns(rc, o) PROVE TodoInv'
  BY <1>11 DEF ImportWarns, ToolEndsShort, AfterLoad, Emptied
<1>12. ASSUME NEW rc \in {1, 2, 5}, NEW o \in Prints, ImportFails(rc, o) PROVE TodoInv'
  BY <1>12 DEF ImportFails, ToolEndsShort, AfterLoad, Emptied
<1>13. ASSUME Retry PROVE TodoInv'
  BY <1>13 DEF Retry, Recover, CreateSpaces
<1>14. ASSUME GiveUp PROVE TodoInv'
  BY <1>14 DEF GiveUp, Recover, CreateSpaces, ChunkFails, EndCall, UpsertNow, Failed
<1>15. ASSUME NEW M \in SUBSET output.missing,
             NEW Q \in SUBSET (output.missing \cup output.noquota), RecoverFails(M, Q) PROVE TodoInv'
  BY <1>15 DEF RecoverFails, CreateSpaces, ChunkFails, EndCall, UpsertNow, Failed
<1>16. ASSUME ExportChunk PROVE TodoInv'
  BY <1>16 DEF ExportChunk
<1>17. ASSUME RecordCompleted PROVE TodoInv'
  <2>1. todo \in Seq(Chunk) /\ todo # <<>> /\ todo' = Tail(todo) /\ pc' = "next" /\ table' = table
    BY <1>17 DEF RecordCompleted
  <2>. QED BY <2>1, TailFacts
<1>18. ASSUME ExportFails PROVE TodoInv'
  BY <1>18 DEF ExportFails, ChunkFails, EndCall, UpsertNow, Failed
<1>19. ASSUME NEW e \in flush, Sidecar(e) PROVE TodoInv'
  BY <1>19 DEF Sidecar, WriteSidecar
<1>20. ASSUME FinishTable PROVE TodoInv'
  BY <1>20 DEF FinishTable, EndCall
<1>21. ASSUME Crash PROVE TodoInv'
  BY <1>21 DEF Crash, EndCall, CloseStore
<1>22. ASSUME NewStaging PROVE TodoInv'
  BY <1>22 DEF NewStaging, FreshContainer
<1>23. CASE UNCHANGED vars
  BY <1>23 DEF vars
<1>. QED
  BY <1>1, <1>2, <1>3, <1>4, <1>5, <1>6, <1>7, <1>8, <1>9, <1>10, <1>11, <1>12,
     <1>13, <1>14, <1>15, <1>16, <1>17, <1>18, <1>19, <1>20, <1>21, <1>22, <1>23 DEF
     Next, CallStep, ImportStep

-----------------------------------------------------------------------------
\* Types after an upsert, after the end of a call, after a recovery and after
\* an import.
LEMMA UpsertTypes ==
    ASSUME StoreTypeOK, NEW c \in Chunk, NEW r \in Row, UpsertNow(c, r)
    PROVE  StoreTypeOK'
  BY DEF StoreTypeOK, UpsertNow, Entry

\* Ending a call leaves its variables well-typed.
LEMMA EndTypes ==
    ASSUME EndCall
    PROVE  /\ pc' = "idle" /\ table' \in Table \cup {NoTable} /\ todo' \in Seq(Chunk)
           /\ attempt' \in 1 .. MaxAttempts /\ output' \in Output /\ written' \in Nat
           /\ results' \subseteq Result
  BY DEF EndCall, MaxAttempts, Output, NoOutput

\* So does creating tablespaces, and no created one disappears.
LEMMA SpaceTypes ==
    ASSUME TypeOK, SpaceInv, NEW M \in SUBSET Tablespace, CreateSpaces(M)
    PROVE  /\ exists \subseteq exists' /\ exists' \subseteq Tablespace
           /\ created' \subseteq Tablespace
           /\ created' \ MixedCase \subseteq exists'
           /\ M \ MixedCase \subseteq exists'
  BY DEF TypeOK, SpaceInv, CreateSpaces

\* Loading leaves a count of rows in every staging table.
LEMMA LoadTypes ==
    ASSUME TypeOK, TodoInv, todo # <<>>, NEW n \in Nat
    PROVE  AfterLoad(n) \in [Chunk -> Nat]
<1>1. Emptied(table) \in [Chunk -> Nat] /\ staged \in [Chunk -> Nat] /\ cur \in Chunk
  BY CurFacts DEF Emptied, TypeOK
<1>2. CASE Refused
  BY <1>1, <1>2 DEF AfterLoad
<1>3. CASE ~Refused /\ legacy
  BY <1>1, <1>3 DEF AfterLoad
<1>4. CASE ~Refused /\ ~legacy
  BY <1>1, <1>4 DEF AfterLoad
<1>. QED BY <1>2, <1>3, <1>4

\* A recovery, whole or in part: what gets a quota exists.
LEMMA RecoverTypes ==
    ASSUME TypeOK, SpaceInv, pc = "recover",
           NEW M \in SUBSET output.missing,
           NEW Q \in SUBSET (output.missing \cup output.noquota),
           M = output.missing \/ Q = {},
           CreateSpaces(M), quota' = quota \cup (Q \ MixedCase)
    PROVE  /\ quota' \subseteq exists' /\ exists' \subseteq Tablespace
           /\ created' \subseteq Tablespace /\ created' \ MixedCase \subseteq exists'
<1>1. M \in SUBSET Tablespace
  BY DEF TypeOK, Output
<1>2. output.noquota \subseteq exists
  BY DEF SpaceInv
<1>. QED BY <1>1, <1>2, SpaceTypes DEF TypeOK


\* The three parts of the types.
Flags == legacy \in BOOLEAN /\ prepared \in BOOLEAN /\ doubtful \in BOOLEAN

Data ==
    /\ exists \subseteq Tablespace /\ quota \subseteq exists
    /\ created \subseteq Tablespace
    /\ staged \in [Chunk -> Nat]
    /\ file \in [Chunk -> Nat \cup {NoFile}]
    /\ pc \in {"idle", "prepare", "truncate", "next", "clear", "import",
               "recover", "export", "check"}
    /\ table \in Table \cup {NoTable}
    /\ todo \in Seq(Chunk)
    /\ attempt \in 1 .. MaxAttempts
    /\ output \in Output
    /\ written \in Nat
    /\ results \subseteq Result
    /\ suspect \subseteq Chunk

\* The three parts are the type invariant.
LEMMA TypeParts == TypeOK <=> StoreTypeOK /\ Flags /\ Data
  BY DEF TypeOK, Flags, Data

\* The flags are truth values.
LEMMA FlagsStep == Flags /\ [Next]_vars => Flags'
<1>. SUFFICES ASSUME Flags, [Next]_vars PROVE Flags'
  OBVIOUS
<1>. USE DEF Flags
<1>1. ASSUME NEW t \in Table, StartTable(t) PROVE Flags'
  BY <1>1 DEF StartTable
<1>2. ASSUME PrepareSchema PROVE Flags'
  BY <1>2 DEF PrepareSchema, CreateSpaces
<1>3. ASSUME TruncateTable PROVE Flags'
  BY <1>3 DEF TruncateTable, Emptied
<1>4. ASSUME TruncateFails PROVE Flags'
  BY <1>4 DEF TruncateFails, EndCall
<1>5. ASSUME NEW M \in SUBSET Listed, NEW Q \in SUBSET Listed, PrepareFails(M, Q) PROVE Flags'
  BY <1>5 DEF PrepareFails, CreateSpaces, EndCall
<1>6. ASSUME SkipCompleted PROVE Flags'
  BY <1>6 DEF SkipCompleted, AtChunk
<1>7. ASSUME BeginChunk PROVE Flags'
  BY <1>7 DEF BeginChunk, AtChunk, UpsertNow, Running
<1>8. ASSUME ClearWholeTable PROVE Flags'
  BY <1>8 DEF ClearWholeTable, Emptied
<1>9. ASSUME ClearFails PROVE Flags'
  BY <1>9 DEF ClearFails, ChunkFails, EndCall, UpsertNow, Failed
<1>10. ASSUME ImportLoads PROVE Flags'
  BY <1>10 DEF ImportLoads, AfterLoad, Emptied
<1>11. ASSUME NEW rc \in {1, 2, 5}, NEW o \in Prints, ImportWarns(rc, o) PROVE Flags'
  BY <1>11 DEF ImportWarns, ToolEndsShort, AfterLoad, Emptied
<1>12. ASSUME NEW rc \in {1, 2, 5}, NEW o \in Prints, ImportFails(rc, o) PROVE Flags'
  BY <1>12 DEF ImportFails, ToolEndsShort, AfterLoad, Emptied
<1>13. ASSUME Retry PROVE Flags'
  BY <1>13 DEF Retry, Recover, CreateSpaces
<1>14. ASSUME GiveUp PROVE Flags'
  BY <1>14 DEF GiveUp, Recover, CreateSpaces, ChunkFails, EndCall, UpsertNow, Failed
<1>15. ASSUME NEW M \in SUBSET output.missing,
             NEW Q \in SUBSET (output.missing \cup output.noquota), RecoverFails(M, Q) PROVE Flags'
  BY <1>15 DEF RecoverFails, CreateSpaces, ChunkFails, EndCall, UpsertNow, Failed
<1>16. ASSUME ExportChunk PROVE Flags'
  BY <1>16 DEF ExportChunk
<1>17. ASSUME RecordCompleted PROVE Flags'
  BY <1>17 DEF RecordCompleted, UpsertNow, Completed
<1>18. ASSUME ExportFails PROVE Flags'
  BY <1>18 DEF ExportFails, ChunkFails, EndCall, UpsertNow, Failed
<1>19. ASSUME NEW e \in flush, Sidecar(e) PROVE Flags'
  BY <1>19 DEF Sidecar, WriteSidecar
<1>20. ASSUME FinishTable PROVE Flags'
  BY <1>20 DEF FinishTable, EndCall
<1>21. ASSUME Crash PROVE Flags'
  BY <1>21 DEF Crash, EndCall, CloseStore
<1>22. ASSUME NewStaging PROVE Flags'
  BY <1>22 DEF NewStaging, FreshContainer
<1>23. CASE UNCHANGED vars
  BY <1>23 DEF vars
<1>. QED
  BY <1>1, <1>2, <1>3, <1>4, <1>5, <1>6, <1>7, <1>8, <1>9, <1>10, <1>11, <1>12,
     <1>13, <1>14, <1>15, <1>16, <1>17, <1>18, <1>19, <1>20, <1>21, <1>22, <1>23 DEF
     Next, CallStep, ImportStep

\* The types of the store.
LEMMA StoreStep == TypeOK /\ TodoInv /\ StoreTypeOK /\ [Next]_vars => StoreTypeOK'
<1>. SUFFICES ASSUME TypeOK, TodoInv, StoreTypeOK, [Next]_vars PROVE StoreTypeOK'
  OBVIOUS
<1>. USE RowFacts
<1>1. ASSUME NEW t \in Table, StartTable(t) PROVE StoreTypeOK'
  BY <1>1 DEF StartTable, StoreTypeOK
<1>2. ASSUME PrepareSchema PROVE StoreTypeOK'
  BY <1>2 DEF PrepareSchema, CreateSpaces, StoreTypeOK
<1>3. ASSUME TruncateTable PROVE StoreTypeOK'
  BY <1>3 DEF TruncateTable, Emptied, StoreTypeOK
<1>4. ASSUME TruncateFails PROVE StoreTypeOK'
  BY <1>4 DEF TruncateFails, EndCall, StoreTypeOK
<1>5. ASSUME NEW M \in SUBSET Listed, NEW Q \in SUBSET Listed, PrepareFails(M, Q) PROVE StoreTypeOK'
  BY <1>5 DEF PrepareFails, CreateSpaces, EndCall, StoreTypeOK
<1>6. ASSUME SkipCompleted PROVE StoreTypeOK'
  BY <1>6 DEF SkipCompleted, AtChunk, StoreTypeOK
<1>7. ASSUME BeginChunk PROVE StoreTypeOK'
  BY <1>7, CurFacts, UpsertTypes DEF BeginChunk, AtChunk
<1>8. ASSUME ClearWholeTable PROVE StoreTypeOK'
  BY <1>8 DEF ClearWholeTable, Emptied, StoreTypeOK
<1>9. ASSUME ClearFails PROVE StoreTypeOK'
  BY <1>9, CurFacts, UpsertTypes DEF ClearFails, ChunkFails, TodoInv, Working
<1>10. ASSUME ImportLoads PROVE StoreTypeOK'
  BY <1>10 DEF ImportLoads, AfterLoad, Emptied, StoreTypeOK
<1>11. ASSUME NEW rc \in {1, 2, 5}, NEW o \in Prints, ImportWarns(rc, o) PROVE StoreTypeOK'
  BY <1>11 DEF ImportWarns, ToolEndsShort, AfterLoad, Emptied, StoreTypeOK
<1>12. ASSUME NEW rc \in {1, 2, 5}, NEW o \in Prints, ImportFails(rc, o) PROVE StoreTypeOK'
  BY <1>12 DEF ImportFails, ToolEndsShort, AfterLoad, Emptied, StoreTypeOK
<1>13. ASSUME Retry PROVE StoreTypeOK'
  BY <1>13 DEF Retry, Recover, CreateSpaces, StoreTypeOK
<1>14. ASSUME GiveUp PROVE StoreTypeOK'
  BY <1>14, CurFacts, UpsertTypes DEF GiveUp, ChunkFails, TodoInv, Working
<1>15. ASSUME NEW M \in SUBSET output.missing,
             NEW Q \in SUBSET (output.missing \cup output.noquota), RecoverFails(M, Q) PROVE StoreTypeOK'
  BY <1>15, CurFacts, UpsertTypes DEF RecoverFails, ChunkFails, TodoInv, Working
<1>16. ASSUME ExportChunk PROVE StoreTypeOK'
  BY <1>16 DEF ExportChunk, StoreTypeOK
<1>17. ASSUME RecordCompleted PROVE StoreTypeOK'
  <2>1. cur \in Chunk /\ Completed(written) \in Row /\ UpsertNow(cur, Completed(written))
    BY <1>17, CurFacts DEF RecordCompleted, TodoInv, Working, Data, TypeOK
  <2>. QED BY <2>1, UpsertTypes
<1>18. ASSUME ExportFails PROVE StoreTypeOK'
  BY <1>18, CurFacts, UpsertTypes DEF ExportFails, ChunkFails, TodoInv, Working
<1>19. ASSUME NEW e \in flush, Sidecar(e) PROVE StoreTypeOK'
  BY <1>19 DEF Sidecar, WriteSidecar, Entry, StoreTypeOK
<1>20. ASSUME FinishTable PROVE StoreTypeOK'
  BY <1>20 DEF FinishTable, EndCall, StoreTypeOK
<1>21. ASSUME Crash PROVE StoreTypeOK'
  BY <1>21 DEF Crash, CloseStore, StoreTypeOK
<1>22. ASSUME NewStaging PROVE StoreTypeOK'
  BY <1>22 DEF NewStaging, FreshContainer, StoreTypeOK
<1>23. CASE UNCHANGED vars
  BY <1>23 DEF vars, StoreTypeOK
<1>. QED
  BY <1>1, <1>2, <1>3, <1>4, <1>5, <1>6, <1>7, <1>8, <1>9, <1>10, <1>11, <1>12,
     <1>13, <1>14, <1>15, <1>16, <1>17, <1>18, <1>19, <1>20, <1>21, <1>22, <1>23 DEF
     Next, CallStep, ImportStep

\* The other types.
LEMMA DataStep == TypeOK /\ TodoInv /\ SpaceInv /\ Data /\ [Next]_vars => Data'
<1>. SUFFICES ASSUME TypeOK, TodoInv, SpaceInv, Data, [Next]_vars PROVE Data'
  OBVIOUS
<1>. USE TableConvertAssumption, RowFacts DEF Data, MaxAttempts
<1>1. ASSUME NEW t \in Table, StartTable(t) PROVE Data'
  BY <1>1 DEF StartTable
<1>2. ASSUME PrepareSchema PROVE Data'
  <2>1. CASE prepared
    BY <1>2, <2>1 DEF PrepareSchema
  <2>2. CASE ~prepared
    <3>1. CreateSpaces(Listed) /\ quota' = quota \cup Listed /\ Listed \cap MixedCase = {}
      BY <1>2, <2>2 DEF PrepareSchema
    <3>2. exists' \subseteq Tablespace /\ created' \subseteq Tablespace /\ quota' \subseteq exists'
      BY <3>1, SpaceTypes
    <3>. QED BY <1>2, <2>2, <3>2 DEF PrepareSchema
  <2>. QED BY <2>1, <2>2
<1>3. ASSUME TruncateTable PROVE Data'
  BY <1>3 DEF TruncateTable, Emptied
<1>4. ASSUME TruncateFails PROVE Data'
  BY <1>4, EndTypes DEF TruncateFails
<1>5. ASSUME NEW M \in SUBSET Listed, NEW Q \in SUBSET Listed, PrepareFails(M, Q) PROVE Data'
  <2>1. CreateSpaces(M) /\ quota' = quota \cup Q /\ M \cap MixedCase = {} /\ Q \subseteq M
    BY <1>5 DEF PrepareFails
  <2>2. exists' \subseteq Tablespace /\ created' \subseteq Tablespace /\ quota' \subseteq exists'
    BY <2>1, SpaceTypes
  <2>. QED BY <1>5, <2>2, EndTypes DEF PrepareFails
<1>6. ASSUME SkipCompleted PROVE Data'
  <2>1. todo # <<>> /\ IsCompleted(tx[cur]) /\ todo' = Tail(todo)
    BY <1>6 DEF SkipCompleted, AtChunk
  <2>2. tx[cur].rows \in Nat /\ cur \in Chunk /\ todo' \in Seq(Chunk)
    BY <2>1, CurFacts, RowFacts DEF TypeOK, StoreTypeOK
  <2>3. results' \subseteq Result
    BY <1>6, <2>2 DEF SkipCompleted, Result
  <2>. QED BY <1>6, <2>2, <2>3 DEF SkipCompleted
<1>7. ASSUME BeginChunk PROVE Data'
  BY <1>7 DEF BeginChunk
<1>8. ASSUME ClearWholeTable PROVE Data'
  BY <1>8 DEF ClearWholeTable, Emptied
<1>9. ASSUME ClearFails PROVE Data'
  <2>1. EndCall
    BY <1>9 DEF ClearFails, ChunkFails
  <2>. QED BY <1>9, <2>1, EndTypes DEF ClearFails, ChunkFails
<1>10. ASSUME ImportLoads PROVE Data'
  <2>1. todo # <<>> /\ pc = "import"
    BY <1>10 DEF ImportLoads, TodoInv, Working
  <2>2. staged' = AfterLoad(Rows[cur])
    BY <1>10 DEF ImportLoads
  <2>3. staged' \in [Chunk -> Nat]
    BY <2>1, <2>2, CurFacts, LoadTypes
  <2>. QED BY <1>10, <2>3 DEF ImportLoads, NoOutput, Output
<1>11. ASSUME NEW rc \in {1, 2, 5}, NEW o \in Prints, ImportWarns(rc, o) PROVE Data'
  <2>1. todo # <<>> /\ pc = "import"
    BY <1>11 DEF ImportWarns, ToolEndsShort, TodoInv, Working
  <2>2. PICK n \in 0 .. Rows[cur] : staged' = AfterLoad(n)
    BY <1>11 DEF ImportWarns, ToolEndsShort
  <2>3. staged' \in [Chunk -> Nat]
    BY <2>1, <2>2, CurFacts, LoadTypes
  <2>. QED BY <1>11, <2>1, <2>3, PrintFacts DEF ImportWarns, ToolEndsShort
<1>12. ASSUME NEW rc \in {1, 2, 5}, NEW o \in Prints, ImportFails(rc, o) PROVE Data'
  <2>1. todo # <<>> /\ pc = "import"
    BY <1>12 DEF ImportFails, ToolEndsShort, TodoInv, Working
  <2>2. PICK n \in 0 .. Rows[cur] : staged' = AfterLoad(n)
    BY <1>12 DEF ImportFails, ToolEndsShort
  <2>3. staged' \in [Chunk -> Nat]
    BY <2>1, <2>2, CurFacts, LoadTypes
  <2>. QED BY <1>12, <2>1, <2>3, PrintFacts DEF ImportFails, ToolEndsShort
<1>13. ASSUME Retry PROVE Data'
  <2>1. quota' \subseteq exists' /\ exists' \subseteq Tablespace /\ created' \subseteq Tablespace
    BY <1>13, RecoverTypes DEF Retry, Recover
  <2>. QED BY <1>13, <2>1 DEF Retry, NoOutput, Output
<1>14. ASSUME GiveUp PROVE Data'
  <2>1. quota' \subseteq exists' /\ exists' \subseteq Tablespace /\ created' \subseteq Tablespace
    BY <1>14, RecoverTypes DEF GiveUp, Recover
  <2>2. EndCall
    BY <1>14 DEF GiveUp, ChunkFails
  <2>. QED BY <1>14, <2>1, <2>2, EndTypes DEF GiveUp, ChunkFails
<1>15. ASSUME NEW M \in SUBSET output.missing,
             NEW Q \in SUBSET (output.missing \cup output.noquota), RecoverFails(M, Q) PROVE Data'
  <2>1. quota' \subseteq exists' /\ exists' \subseteq Tablespace /\ created' \subseteq Tablespace
    <3>1. M = output.missing \/ Q = {}
      BY <1>15 DEF RecoverFails
    <3>2. pc = "recover" /\ CreateSpaces(M) /\ quota' = quota \cup (Q \ MixedCase)
      BY <1>15 DEF RecoverFails
    <3>. QED BY <3>1, <3>2, RecoverTypes
  <2>2. EndCall
    BY <1>15 DEF RecoverFails, ChunkFails
  <2>. QED BY <1>15, <2>1, <2>2, EndTypes DEF RecoverFails, ChunkFails
<1>16. ASSUME ExportChunk PROVE Data'
  <2>1. cur \in Chunk
    BY <1>16, CurFacts DEF ExportChunk, TodoInv, Working
  <2>2. PICK n \in Nat : file' = [file EXCEPT ![cur] = n] /\ written' = n
    <3>1. (IF "export_error" \in Faults THEN 0 .. staged[cur] ELSE {staged[cur]}) \subseteq Nat
      BY <2>1
    <3>. QED BY <1>16, <3>1 DEF ExportChunk
  <2>. QED BY <1>16, <2>1, <2>2 DEF ExportChunk, NoOutput, Output
<1>17. ASSUME RecordCompleted PROVE Data'
  <2>1. cur \in Chunk /\ Tail(todo) \in Seq(Chunk)
    BY <1>17, CurFacts DEF RecordCompleted, TodoInv, Working
  <2>2. results' \subseteq Result
    BY <1>17, <2>1 DEF RecordCompleted, Result
  <2>. QED BY <1>17, <2>1, <2>2 DEF RecordCompleted, NoOutput, Output
<1>18. ASSUME ExportFails PROVE Data'
  <2>1. EndCall
    BY <1>18 DEF ExportFails, ChunkFails
  <2>. QED BY <1>18, <2>1, EndTypes DEF ExportFails, ChunkFails
<1>19. ASSUME NEW e \in flush, Sidecar(e) PROVE Data'
  BY <1>19 DEF Sidecar
<1>20. ASSUME FinishTable PROVE Data'
  BY <1>20, EndTypes DEF FinishTable
<1>21. ASSUME Crash PROVE Data'
  BY <1>21, EndTypes DEF Crash, CloseStore
<1>22. ASSUME NewStaging PROVE Data'
  BY <1>22 DEF NewStaging, FreshContainer
<1>23. CASE UNCHANGED vars
  BY <1>23 DEF vars
<1>. QED
  BY <1>1, <1>2, <1>3, <1>4, <1>5, <1>6, <1>7, <1>8, <1>9, <1>10, <1>11, <1>12,
     <1>13, <1>14, <1>15, <1>16, <1>17, <1>18, <1>19, <1>20, <1>21, <1>22, <1>23 DEF
     Next, CallStep, ImportStep

\* One step keeps the types.
LEMMA TypeStep == TypeOK /\ TodoInv /\ SpaceInv /\ [Next]_vars => TypeOK'
<1>1. TypeOK' <=> StoreTypeOK' /\ Flags' /\ Data'
  BY DEF TypeOK, Flags, Data
<1>. QED BY <1>1, TypeParts, FlagsStep, StoreStep, DataStep

-----------------------------------------------------------------------------
\* The running or failed row of a chunk is not a completed one.
LEMMA UpsertRow ==
    ASSUME TypeOK, NEW c \in Chunk, NEW r \in Row, UpsertNow(c, r)
    PROVE  /\ tx' = [tx EXCEPT ![c] = r] /\ db' = tx' /\ tx'[c] = r
           /\ autocommit' = autocommit /\ deferred' = deferred
           /\ \A x \in Chunk : x # c => tx'[x] = tx[x]
  BY DEF TypeOK, StoreTypeOK, UpsertNow

\* The store holds what it shows; the chunk in work is not completed.
LEMMA RowStep == TypeOK /\ TodoInv /\ RowInv /\ [Next]_vars => RowInv'
<1>. SUFFICES ASSUME TypeOK, TodoInv, RowInv, [Next]_vars PROVE RowInv'
  OBVIOUS
<1>. USE RowFacts DEF RowInv, Working
<1>1. ASSUME NEW t \in Table, StartTable(t) PROVE RowInv'
  BY <1>1 DEF StartTable
<1>2. ASSUME PrepareSchema PROVE RowInv'
  BY <1>2 DEF PrepareSchema, CreateSpaces
<1>3. ASSUME TruncateTable PROVE RowInv'
  BY <1>3 DEF TruncateTable, Emptied
<1>4. ASSUME TruncateFails PROVE RowInv'
  BY <1>4 DEF TruncateFails, EndCall
<1>5. ASSUME NEW M \in SUBSET Listed, NEW Q \in SUBSET Listed, PrepareFails(M, Q) PROVE RowInv'
  BY <1>5 DEF PrepareFails, CreateSpaces, EndCall
<1>6. ASSUME SkipCompleted PROVE RowInv'
  BY <1>6 DEF SkipCompleted
<1>7. ASSUME BeginChunk PROVE RowInv'
  <2>1. cur \in Chunk /\ cur' = cur /\ UpsertNow(cur, Running)
    BY <1>7, CurFacts DEF BeginChunk, AtChunk, cur
  <2>2. /\ tx' = db' /\ autocommit' = autocommit /\ deferred' = deferred
        /\ db'[cur] = Running
    BY <2>1, UpsertRow
  <2>3. ~IsCompleted(db'[cur'])
    BY <2>1, <2>2
  <2>. QED BY <2>2, <2>3
<1>8. ASSUME ClearWholeTable PROVE RowInv'
  BY <1>8 DEF ClearWholeTable, Emptied, cur
<1>9. ASSUME ClearFails PROVE RowInv'
  <2>1. cur \in Chunk /\ UpsertNow(cur, Failed) /\ pc' = "idle"
    BY <1>9, CurFacts DEF ClearFails, ChunkFails, EndCall, TodoInv
  <2>. QED BY <2>1, UpsertRow
<1>10. ASSUME ImportLoads PROVE RowInv'
  BY <1>10 DEF ImportLoads, AfterLoad, Emptied, cur
<1>11. ASSUME NEW rc \in {1, 2, 5}, NEW o \in Prints, ImportWarns(rc, o) PROVE RowInv'
  BY <1>11 DEF ImportWarns, ToolEndsShort, AfterLoad, Emptied, cur
<1>12. ASSUME NEW rc \in {1, 2, 5}, NEW o \in Prints, ImportFails(rc, o) PROVE RowInv'
  BY <1>12 DEF ImportFails, ToolEndsShort, AfterLoad, Emptied, cur
<1>13. ASSUME Retry PROVE RowInv'
  BY <1>13 DEF Retry, Recover, CreateSpaces, cur
<1>14. ASSUME GiveUp PROVE RowInv'
  <2>1. cur \in Chunk /\ UpsertNow(cur, Failed) /\ pc' = "idle"
    BY <1>14, CurFacts DEF GiveUp, ChunkFails, EndCall, TodoInv
  <2>. QED BY <2>1, UpsertRow
<1>15. ASSUME NEW M \in SUBSET output.missing,
             NEW Q \in SUBSET (output.missing \cup output.noquota), RecoverFails(M, Q) PROVE RowInv'
  <2>1. cur \in Chunk /\ UpsertNow(cur, Failed) /\ pc' = "idle"
    BY <1>15, CurFacts DEF RecoverFails, ChunkFails, EndCall, TodoInv
  <2>. QED BY <2>1, UpsertRow
<1>16. ASSUME ExportChunk PROVE RowInv'
  BY <1>16 DEF ExportChunk, cur
<1>17. ASSUME RecordCompleted PROVE RowInv'
  <2>1. /\ cur \in Chunk /\ Completed(written) \in Row /\ pc' = "next"
        /\ UpsertNow(cur, Completed(written))
    BY <1>17, CurFacts DEF RecordCompleted, TodoInv, TypeOK
  <2>. QED BY <2>1, UpsertRow
<1>18. ASSUME ExportFails PROVE RowInv'
  <2>1. cur \in Chunk /\ UpsertNow(cur, Failed) /\ pc' = "idle"
    BY <1>18, CurFacts DEF ExportFails, ChunkFails, EndCall, TodoInv
  <2>. QED BY <2>1, UpsertRow
<1>19. ASSUME NEW e \in flush, Sidecar(e) PROVE RowInv'
  BY <1>19 DEF Sidecar, WriteSidecar, cur
<1>20. ASSUME FinishTable PROVE RowInv'
  BY <1>20 DEF FinishTable, EndCall
<1>21. ASSUME Crash PROVE RowInv'
  BY <1>21 DEF Crash, CloseStore, EndCall
<1>22. ASSUME NewStaging PROVE RowInv'
  BY <1>22 DEF NewStaging, FreshContainer
<1>23. CASE UNCHANGED vars
  BY <1>23 DEF vars, cur
<1>. QED
  BY <1>1, <1>2, <1>3, <1>4, <1>5, <1>6, <1>7, <1>8, <1>9, <1>10, <1>11, <1>12,
     <1>13, <1>14, <1>15, <1>16, <1>17, <1>18, <1>19, <1>20, <1>21, <1>22, <1>23 DEF
     Next, CallStep, ImportStep

\* The tablespaces and the caches.
LEMMA SpaceStep == TypeOK /\ TodoInv /\ SpaceInv /\ [Next]_vars => SpaceInv'
<1>. SUFFICES ASSUME TypeOK, TodoInv, SpaceInv, [Next]_vars PROVE SpaceInv'
  OBVIOUS
<1>. USE TableConvertAssumption DEF SpaceInv, Working
<1>1. ASSUME NEW t \in Table, StartTable(t) PROVE SpaceInv'
  BY <1>1 DEF StartTable, cur
<1>2. ASSUME PrepareSchema PROVE SpaceInv'
  <2>1. CASE prepared
    BY <1>2, <2>1 DEF PrepareSchema
  <2>2. CASE ~prepared
    <3>1. CreateSpaces(Listed) /\ quota' = quota \cup Listed
      BY <1>2, <2>2 DEF PrepareSchema
    <3>2. created' \ MixedCase \subseteq exists'
      BY <3>1, SpaceTypes
    <3>. QED BY <1>2, <3>1, <3>2 DEF PrepareSchema
  <2>. QED BY <2>1, <2>2
<1>3. ASSUME TruncateTable PROVE SpaceInv'
  BY <1>3 DEF TruncateTable, Emptied, cur
<1>4. ASSUME TruncateFails PROVE SpaceInv'
  BY <1>4 DEF TruncateFails, EndCall, cur
<1>5. ASSUME NEW M \in SUBSET Listed, NEW Q \in SUBSET Listed, PrepareFails(M, Q) PROVE SpaceInv'
  <2>1. CreateSpaces(M) /\ M \in SUBSET Tablespace
    BY <1>5 DEF PrepareFails
  <2>2. created' \ MixedCase \subseteq exists'
    BY <2>1, SpaceTypes
  <2>. QED BY <1>5, <2>2 DEF PrepareFails, EndCall
<1>6. ASSUME SkipCompleted PROVE SpaceInv'
  BY <1>6 DEF SkipCompleted, AtChunk, cur
<1>7. ASSUME BeginChunk PROVE SpaceInv'
  BY <1>7 DEF BeginChunk, AtChunk, UpsertNow, Running, cur
<1>8. ASSUME ClearWholeTable PROVE SpaceInv'
  BY <1>8 DEF ClearWholeTable, Emptied, cur
<1>9. ASSUME ClearFails PROVE SpaceInv'
  BY <1>9 DEF ClearFails, ChunkFails, EndCall, UpsertNow, Failed, cur
<1>10. ASSUME ImportLoads PROVE SpaceInv'
  BY <1>10 DEF ImportLoads, AfterLoad, Emptied
<1>11. ASSUME NEW rc \in {1, 2, 5}, NEW o \in Prints, ImportWarns(rc, o) PROVE SpaceInv'
  BY <1>11 DEF ImportWarns, ToolEndsShort, AfterLoad, Emptied
<1>12. ASSUME NEW rc \in {1, 2, 5}, NEW o \in Prints, ImportFails(rc, o) PROVE SpaceInv'
  <2>1. output' = o /\ todo # <<>> /\ cur' = cur /\ pc = "import"
    BY <1>12 DEF ImportFails, ToolEndsShort, TodoInv, Working, cur
  <2>2. /\ output'.missing \subseteq Needs[cur] \ exists
        /\ output'.noquota \subseteq (Needs[cur] \cap exists) \ quota
    <3>1. o \in Prints
      BY <1>12
    <3>2. /\ o \in Output
          /\ o.missing \subseteq Needs[cur] \ exists
          /\ o.noquota \subseteq (Needs[cur] \cap exists) \ quota
      <4>1. todo # <<>>
        BY <2>1
      <4>. QED BY <3>1, <4>1, PrintFacts
    <3>. QED BY <2>1, <3>2
  <2>. QED BY <1>12, <2>1, <2>2 DEF ImportFails
<1>13. ASSUME Retry PROVE SpaceInv'
  <2>1. CreateSpaces(output.missing) /\ output.missing \in SUBSET Tablespace
    BY <1>13 DEF Retry, Recover, TypeOK, Output
  <2>2. created' \ MixedCase \subseteq exists'
    BY <2>1, SpaceTypes
  <2>. QED BY <1>13, <2>2 DEF Retry, Recover
<1>14. ASSUME GiveUp PROVE SpaceInv'
  <2>1. CreateSpaces(output.missing) /\ output.missing \in SUBSET Tablespace
    BY <1>14 DEF GiveUp, Recover, TypeOK, Output
  <2>2. created' \ MixedCase \subseteq exists'
    BY <2>1, SpaceTypes
  <2>. QED BY <1>14, <2>2 DEF GiveUp, Recover, ChunkFails, EndCall
<1>15. ASSUME NEW M \in SUBSET output.missing,
             NEW Q \in SUBSET (output.missing \cup output.noquota), RecoverFails(M, Q) PROVE SpaceInv'
  <2>1. CreateSpaces(M) /\ M \in SUBSET Tablespace
    BY <1>15 DEF RecoverFails, TypeOK, Output
  <2>2. created' \ MixedCase \subseteq exists'
    BY <2>1, SpaceTypes
  <2>. QED BY <1>15, <2>2 DEF RecoverFails, ChunkFails, EndCall
<1>16. ASSUME ExportChunk PROVE SpaceInv'
  BY <1>16 DEF ExportChunk, cur
<1>17. ASSUME RecordCompleted PROVE SpaceInv'
  BY <1>17 DEF RecordCompleted, UpsertNow, Completed, cur
<1>18. ASSUME ExportFails PROVE SpaceInv'
  BY <1>18 DEF ExportFails, ChunkFails, EndCall, UpsertNow, Failed, cur
<1>19. ASSUME NEW e \in flush, Sidecar(e) PROVE SpaceInv'
  BY <1>19 DEF Sidecar, WriteSidecar, cur
<1>20. ASSUME FinishTable PROVE SpaceInv'
  BY <1>20 DEF FinishTable, EndCall, cur
<1>21. ASSUME Crash PROVE SpaceInv'
  BY <1>21 DEF Crash, EndCall, CloseStore, cur
<1>22. ASSUME NewStaging PROVE SpaceInv'
  BY <1>22 DEF NewStaging, FreshContainer, cur
<1>23. CASE UNCHANGED vars
  BY <1>23 DEF vars, cur
<1>. QED
  BY <1>1, <1>2, <1>3, <1>4, <1>5, <1>6, <1>7, <1>8, <1>9, <1>10, <1>11, <1>12,
     <1>13, <1>14, <1>15, <1>16, <1>17, <1>18, <1>19, <1>20, <1>21, <1>22, <1>23 DEF
     Next, CallStep, ImportStep

-----------------------------------------------------------------------------
\* What an import leaves in the partitions of the chunks: the rows of the
\* current one, and nothing new in the others.
LEMMA LoadFacts ==
    ASSUME TypeOK, TodoInv, todo # <<>>, NEW n \in Nat
    PROVE  /\ \A c \in Chunk : c # cur /\ staged[c] = 0 => AfterLoad(n)[c] = 0
           /\ ~Refused /\ (legacy => staged[cur] = 0) => AfterLoad(n)[cur] = n
<1>1. /\ staged \in [Chunk -> Nat] /\ cur \in Chunk /\ cur \in ChunkSet(table)
      /\ Emptied(table) \in [Chunk -> Nat] /\ Emptied(table)[cur] = 0
      /\ \A c \in Chunk : staged[c] = 0 => Emptied(table)[c] = 0
  BY CurFacts DEF Emptied, TypeOK
<1>2. CASE Refused
  BY <1>1, <1>2 DEF AfterLoad
<1>3. CASE ~Refused /\ legacy
  BY <1>1, <1>3 DEF AfterLoad
<1>4. CASE ~Refused /\ ~legacy
  BY <1>1, <1>4 DEF AfterLoad
<1>. QED BY <1>2, <1>3, <1>4

\* The chunks after the current one are the first of the rest.
LEMMA RestEmpty ==
    ASSUME NEW q \in Seq(Chunk), q # <<>>, NEW f,
           \A i \in DOMAIN q : i # 1 => f[q[i]] = 0
    PROVE  \A i \in DOMAIN Tail(q) : f[Tail(q)[i]] = 0
  BY TailFacts

\* What is in staging when it is imported into, and when it is exported.
LEMMA StageStep == TypeOK /\ TodoInv /\ StageInv /\ [Next]_vars => StageInv'
<1>. SUFFICES ASSUME TypeOK, TodoInv, StageInv, [Next]_vars PROVE StageInv'
  OBVIOUS
<1>. USE TableConvertAssumption DEF StageInv, Working
<1>1. ASSUME NEW t \in Table, StartTable(t) PROVE StageInv'
  BY <1>1 DEF StartTable
<1>2. ASSUME PrepareSchema PROVE StageInv'
  BY <1>2 DEF PrepareSchema, CreateSpaces
<1>3. ASSUME TruncateTable PROVE StageInv'
  <2>1. \A c \in ChunkSet(table) : c \in Chunk => staged'[c] = 0
    BY <1>3 DEF TruncateTable, Emptied
  <2>2. \A i \in DOMAIN todo : todo[i] \in ChunkSet(table) /\ todo[i] \in Chunk
    BY DEF TodoInv, TypeOK
  <2>. QED BY <1>3, <2>1, <2>2 DEF TruncateTable
<1>4. ASSUME TruncateFails PROVE StageInv'
  BY <1>4 DEF TruncateFails, EndCall
<1>5. ASSUME NEW M \in SUBSET Listed, NEW Q \in SUBSET Listed, PrepareFails(M, Q) PROVE StageInv'
  BY <1>5 DEF PrepareFails, CreateSpaces, EndCall
<1>6. ASSUME SkipCompleted PROVE StageInv'
  <2>1. todo' = Tail(todo) /\ todo # <<>> /\ pc = "next" /\ pc' = "next" /\ staged' = staged
    BY <1>6 DEF SkipCompleted, AtChunk
  <2>2. legacy /\ table \in Partitioned => \A i \in DOMAIN todo' : staged[todo'[i]] = 0
    BY <2>1, RestEmpty DEF TypeOK
  <2>. QED BY <1>6, <2>1, <2>2 DEF SkipCompleted
<1>7. ASSUME BeginChunk PROVE StageInv'
  <2>1. todo # <<>> /\ cur = todo[1] /\ 1 \in DOMAIN todo
    BY <1>7, CurFacts DEF BeginChunk, AtChunk
  <2>. QED BY <1>7, <2>1 DEF BeginChunk, AtChunk, cur
<1>8. ASSUME ClearWholeTable PROVE StageInv'
  <2>1. cur \in Chunk /\ cur \in ChunkSet(table) /\ cur' = cur
    BY <1>8, CurFacts DEF ClearWholeTable, TodoInv, cur
  <2>2. \A i \in DOMAIN todo : todo[i] \in ChunkSet(table) /\ todo[i] \in Chunk
    BY DEF TodoInv, TypeOK
  <2>3. staged'[cur] = 0 /\ \A i \in DOMAIN todo : staged'[todo[i]] = 0
    BY <1>8, <2>1, <2>2 DEF ClearWholeTable, Emptied
  <2>. QED BY <1>8, <2>1, <2>3 DEF ClearWholeTable
<1>9. ASSUME ClearFails PROVE StageInv'
  BY <1>9 DEF ClearFails, ChunkFails, EndCall, UpsertNow, Failed
<1>10. ASSUME ImportLoads PROVE StageInv'
  <2>1. /\ todo # <<>> /\ pc = "import" /\ cur' = cur
        /\ UNCHANGED <<legacy, table, todo, doubtful, written>>
    BY <1>10 DEF ImportLoads, TodoInv, cur
  <2>. DEFINE n == Rows[cur]
  <2>2. staged' = AfterLoad(n)
    BY <1>10 DEF ImportLoads
  <2>3. n \in Nat
    BY <2>1, CurFacts
  <2>. HIDE DEF n
  <2>4. legacy /\ table \in Partitioned => \A i \in DOMAIN todo : i # 1 => staged'[todo[i]] = 0
    <3>1. \A i \in DOMAIN todo : i # 1 => todo[i] # cur /\ todo[i] \in Chunk
      BY <2>1, CurFacts DEF TypeOK
    <3>. QED BY <2>1, <2>2, <2>3, <3>1, LoadFacts
  <2>5. ~doubtful => staged'[cur] = Rows[cur]
    BY <1>10, <2>1, <2>2, <2>3, LoadFacts DEF ImportLoads, n
  <2>. QED BY <1>10, <2>1, <2>4, <2>5 DEF ImportLoads
<1>11. ASSUME NEW rc \in {1, 2, 5}, NEW o \in Prints, ImportWarns(rc, o) PROVE StageInv'
  <2>1. /\ todo # <<>> /\ pc = "import" /\ cur' = cur
        /\ UNCHANGED <<legacy, table, todo, written>>
    BY <1>11 DEF ImportWarns, ToolEndsShort, TodoInv, cur
  <2>2. PICK n \in 0 .. Rows[cur] : staged' = AfterLoad(n)
    BY <1>11 DEF ImportWarns, ToolEndsShort
  <2>3. n \in Nat
    BY <2>1, CurFacts
  <2>4. legacy /\ table \in Partitioned => \A i \in DOMAIN todo : i # 1 => staged'[todo[i]] = 0
    <3>1. \A i \in DOMAIN todo : i # 1 => todo[i] # cur /\ todo[i] \in Chunk
      BY <2>1, CurFacts DEF TypeOK
    <3>. QED BY <2>1, <2>2, <2>3, <3>1, LoadFacts
  <2>. QED BY <1>11, <2>1, <2>4 DEF ImportWarns
<1>12. ASSUME NEW rc \in {1, 2, 5}, NEW o \in Prints, ImportFails(rc, o) PROVE StageInv'
  <2>1. /\ todo # <<>> /\ pc = "import" /\ cur' = cur
        /\ UNCHANGED <<legacy, table, todo, doubtful, written>>
    BY <1>12 DEF ImportFails, ToolEndsShort, TodoInv, cur
  <2>2. PICK n \in 0 .. Rows[cur] : staged' = AfterLoad(n)
    BY <1>12 DEF ImportFails, ToolEndsShort
  <2>3. n \in Nat
    BY <2>1, CurFacts
  <2>4. legacy /\ table \in Partitioned => \A i \in DOMAIN todo : i # 1 => staged'[todo[i]] = 0
    <3>1. \A i \in DOMAIN todo : i # 1 => todo[i] # cur /\ todo[i] \in Chunk
      BY <2>1, CurFacts DEF TypeOK
    <3>. QED BY <2>1, <2>2, <2>3, <3>1, LoadFacts
  <2>. QED BY <1>12, <2>1, <2>4 DEF ImportFails
<1>13. ASSUME Retry PROVE StageInv'
  <2>1. cur' = cur /\ staged[cur] \in Nat
    BY <1>13, CurFacts DEF Retry, TodoInv, TypeOK, cur
  <2>2. legacy /\ ~doubtful' => staged[cur] = 0
    <3>1. doubtful' = (doubtful \/ (legacy /\ staged[cur] > 0))
      BY <1>13 DEF Retry
    <3>2. legacy /\ ~doubtful' => ~(staged[cur] > 0)
      BY <3>1, Zenon
    <3>3. ~(staged[cur] > 0) => staged[cur] = 0
      BY <2>1
    <3>. QED BY <3>2, <3>3
  <2>3. /\ pc = "recover" /\ pc' = "import"
        /\ UNCHANGED <<legacy, staged, table, todo>>
    BY <1>13 DEF Retry
  <2>. QED BY <2>1, <2>2, <2>3
<1>14. ASSUME GiveUp PROVE StageInv'
  BY <1>14 DEF GiveUp, Recover, CreateSpaces, ChunkFails, EndCall, UpsertNow, Failed
<1>15. ASSUME NEW M \in SUBSET output.missing,
             NEW Q \in SUBSET (output.missing \cup output.noquota), RecoverFails(M, Q) PROVE StageInv'
  BY <1>15 DEF RecoverFails, CreateSpaces, ChunkFails, EndCall, UpsertNow, Failed
<1>16. ASSUME ExportChunk PROVE StageInv'
  <2>1. cur' = cur /\ cur \in Chunk
    BY <1>16, CurFacts DEF ExportChunk, TodoInv, cur
  <2>2. file'[cur] = written'
    BY <1>16, <2>1 DEF ExportChunk, TypeOK
  <2>. QED BY <1>16, <2>1, <2>2 DEF ExportChunk
<1>17. ASSUME RecordCompleted PROVE StageInv'
  <2>1. todo' = Tail(todo) /\ todo # <<>> /\ pc' = "next" /\ staged' = staged
    BY <1>17 DEF RecordCompleted, TodoInv
  <2>2. legacy /\ table \in Partitioned => \A i \in DOMAIN todo' : staged[todo'[i]] = 0
    BY <1>17, <2>1, RestEmpty DEF TypeOK, RecordCompleted
  <2>. QED BY <1>17, <2>1, <2>2 DEF RecordCompleted
<1>18. ASSUME ExportFails PROVE StageInv'
  BY <1>18 DEF ExportFails, ChunkFails, EndCall, UpsertNow, Failed
<1>19. ASSUME NEW e \in flush, Sidecar(e) PROVE StageInv'
  BY <1>19 DEF Sidecar, cur
<1>20. ASSUME FinishTable PROVE StageInv'
  BY <1>20 DEF FinishTable, EndCall
<1>21. ASSUME Crash PROVE StageInv'
  BY <1>21 DEF Crash, EndCall, CloseStore
<1>22. ASSUME NewStaging PROVE StageInv'
  BY <1>22 DEF NewStaging, FreshContainer
<1>23. CASE UNCHANGED vars
  BY <1>23 DEF vars, cur
<1>. QED
  BY <1>1, <1>2, <1>3, <1>4, <1>5, <1>6, <1>7, <1>8, <1>9, <1>10, <1>11, <1>12,
     <1>13, <1>14, <1>15, <1>16, <1>17, <1>18, <1>19, <1>20, <1>21, <1>22, <1>23 DEF
     Next, CallStep, ImportStep

-----------------------------------------------------------------------------
\* A recovery whose output named a tablespace the chunk needs pays for one
\* more attempt.
LEMMA RecoveryPays ==
    ASSUME TypeOK, TodoInv, SpaceInv, Paid, pc = "recover", Recoverable, Recover,
           todo # <<>>, UNCHANGED todo, attempt' = attempt + 1
    PROVE  Paid'
<1>1. cur' = cur /\ Needs[cur] \in SUBSET Tablespace /\ IsFiniteSet(Needs[cur]) /\ attempt \in Nat
  BY CurFacts, TableConvertAssumption, FS_Subset DEF cur, TypeOK
<1>. DEFINE S == Needs[cur] \cap (quota \ Listed)
            T == Needs[cur] \cap (quota' \ Listed)
<1>2. SUFFICES ASSUME Needs[cur] \cap MixedCase = {}
              PROVE  Cardinality(T) >= attempt
  BY <1>1 DEF Paid
<1>3. PICK x : x \in output.missing \cup output.noquota
  BY DEF Recoverable
<1>4. x \in Needs[cur] /\ x \notin quota
  BY <1>3 DEF SpaceInv, TypeOK
<1>5. quota' = quota \cup ((output.missing \cup output.noquota) \ MixedCase)
  BY DEF Recover
<1>6. Listed \subseteq quota
  BY DEF SpaceInv
<1>7. S \subseteq T /\ x \in T /\ x \notin S
  BY <1>2, <1>3, <1>4, <1>5, <1>6
<1>8. IsFiniteSet(T) /\ IsFiniteSet(S)
  BY <1>1, FS_Subset
<1>9. Cardinality(S) \in Nat /\ Cardinality(T) \in Nat /\ Cardinality(S) < Cardinality(T)
  BY <1>7, <1>8, FS_Subset, FS_CardinalityType
<1>10. Cardinality(S) >= attempt - 1
  BY <1>2 DEF Paid
<1>. QED BY <1>1, <1>9, <1>10

\* The first attempt owes nothing.
LEMMA FirstAttempt ==
    ASSUME TypeOK, TodoInv, todo # <<>>, attempt = 1
    PROVE  Paid
<1>1. Cardinality(Needs[cur] \cap (quota \ Listed)) \in Nat
  BY CurFacts, TableConvertAssumption, FS_Subset, FS_CardinalityType
<1>. QED BY <1>1 DEF Paid

\* What attempts have cost.
LEMMA AttemptStep == TypeOK /\ TodoInv /\ SpaceInv /\ AttemptInv /\ [Next]_vars => AttemptInv'
<1>. SUFFICES ASSUME TypeOK, TodoInv, SpaceInv, AttemptInv, [Next]_vars PROVE AttemptInv'
  OBVIOUS
<1>. USE DEF AttemptInv
<1>1. ASSUME NEW t \in Table, StartTable(t) PROVE AttemptInv'
  BY <1>1 DEF StartTable
<1>2. ASSUME PrepareSchema PROVE AttemptInv'
  BY <1>2 DEF PrepareSchema
<1>3. ASSUME TruncateTable PROVE AttemptInv'
  BY <1>3 DEF TruncateTable, Emptied
<1>4. ASSUME TruncateFails PROVE AttemptInv'
  BY <1>4 DEF TruncateFails, EndCall
<1>5. ASSUME NEW M \in SUBSET Listed, NEW Q \in SUBSET Listed, PrepareFails(M, Q) PROVE AttemptInv'
  BY <1>5 DEF PrepareFails, CreateSpaces, EndCall
<1>6. ASSUME SkipCompleted PROVE AttemptInv'
  BY <1>6 DEF SkipCompleted, AtChunk
<1>7. ASSUME BeginChunk PROVE AttemptInv'
  <2>1. todo # <<>> /\ attempt = 1 /\ Paid
    BY <1>7, FirstAttempt DEF BeginChunk, AtChunk
  <2>2. UNCHANGED <<todo, quota, attempt>>
    BY <1>7 DEF BeginChunk
  <2>3. Paid'
    BY <2>1, <2>2 DEF Paid, cur
  <2>. QED BY <1>7, <2>1, <2>2, <2>3 DEF BeginChunk
<1>8. ASSUME ClearWholeTable PROVE AttemptInv'
  <2>1. todo # <<>> /\ attempt = 1 /\ Paid
    BY <1>8, FirstAttempt DEF ClearWholeTable, TodoInv, Working
  <2>2. UNCHANGED <<todo, quota, attempt>>
    BY <1>8 DEF ClearWholeTable
  <2>3. Paid'
    BY <2>1, <2>2 DEF Paid, cur
  <2>. QED BY <1>8, <2>1, <2>2, <2>3 DEF ClearWholeTable
<1>9. ASSUME ClearFails PROVE AttemptInv'
  BY <1>9 DEF ClearFails, ChunkFails, EndCall
<1>10. ASSUME ImportLoads PROVE AttemptInv'
  BY <1>10 DEF ImportLoads, AfterLoad, Emptied
<1>11. ASSUME NEW rc \in {1, 2, 5}, NEW o \in Prints, ImportWarns(rc, o) PROVE AttemptInv'
  BY <1>11 DEF ImportWarns, ToolEndsShort, AfterLoad, Emptied
<1>12. ASSUME NEW rc \in {1, 2, 5}, NEW o \in Prints, ImportFails(rc, o) PROVE AttemptInv'
  <2>1. pc = "import" /\ UNCHANGED <<todo, quota, attempt>>
    BY <1>12 DEF ImportFails, ToolEndsShort
  <2>2. Paid'
    BY <2>1 DEF Paid, cur
  <2>. QED BY <1>12, <2>2 DEF ImportFails
<1>13. ASSUME Retry PROVE AttemptInv'
  <2>1. /\ pc = "recover" /\ Recoverable /\ Recover /\ todo # <<>> /\ UNCHANGED todo
        /\ attempt' = attempt + 1 /\ pc' = "import"
    BY <1>13 DEF Retry, TodoInv, Working
  <2>. QED BY <2>1, RecoveryPays
<1>14. ASSUME GiveUp PROVE AttemptInv'
  BY <1>14 DEF GiveUp, ChunkFails, EndCall
<1>15. ASSUME NEW M \in SUBSET output.missing,
             NEW Q \in SUBSET (output.missing \cup output.noquota), RecoverFails(M, Q) PROVE AttemptInv'
  BY <1>15 DEF RecoverFails, ChunkFails, EndCall
<1>16. ASSUME ExportChunk PROVE AttemptInv'
  BY <1>16 DEF ExportChunk
<1>17. ASSUME RecordCompleted PROVE AttemptInv'
  BY <1>17 DEF RecordCompleted
<1>18. ASSUME ExportFails PROVE AttemptInv'
  BY <1>18 DEF ExportFails, ChunkFails, EndCall
<1>19. ASSUME NEW e \in flush, Sidecar(e) PROVE AttemptInv'
  BY <1>19 DEF Sidecar, Paid, cur
<1>20. ASSUME FinishTable PROVE AttemptInv'
  BY <1>20 DEF FinishTable, EndCall
<1>21. ASSUME Crash PROVE AttemptInv'
  BY <1>21 DEF Crash, EndCall, CloseStore
<1>22. ASSUME NewStaging PROVE AttemptInv'
  BY <1>22 DEF NewStaging, FreshContainer
<1>23. CASE UNCHANGED vars
  BY <1>23 DEF vars, Paid, cur
<1>. QED
  BY <1>1, <1>2, <1>3, <1>4, <1>5, <1>6, <1>7, <1>8, <1>9, <1>10, <1>11, <1>12,
     <1>13, <1>14, <1>15, <1>16, <1>17, <1>18, <1>19, <1>20, <1>21, <1>22, <1>23 DEF
     Next, CallStep, ImportStep

-----------------------------------------------------------------------------
\* What is in a sequence and not its first element is in the rest.
LEMMA InTheRest ==
    ASSUME NEW S, NEW q \in Seq(S), q # <<>>, NEW i \in DOMAIN q, i # 1
    PROVE  \E j \in DOMAIN Tail(q) : Tail(q)[j] = q[i]
  BY TailFacts

\* A row that becomes, or ceases to be, that of the chunk in work leaves the
\* other chunks their results.
LEMMA ResultsKept ==
    ASSUME TypeOK, TodoInv, RowInv, ResultInv, pc # "idle", todo # <<>>, NEW r \in Row,
           UpsertNow(cur, r), UNCHANGED results
    PROVE  \A c \in ChunkSet(table) : c # cur =>
               \/ \E i \in DOMAIN todo : todo[i] = c /\ i # 1
               \/ \E e \in results' : e.chunk = c /\ db'[c] = Completed(e.rows)
<1>1. cur \in Chunk /\ ChunkSet(table) \subseteq Chunk /\ cur = todo[1]
  BY CurFacts, TableConvertAssumption DEF ChunkSet, TodoInv
<1>2. \A c \in ChunkSet(table) : c # cur => db'[c] = db[c]
  BY <1>1, UpsertRow DEF RowInv
<1>. QED BY <1>1, <1>2 DEF ResultInv

\* Every chunk of the table is to do or has its result.
LEMMA ResultStep == TypeOK /\ TodoInv /\ RowInv /\ ResultInv /\ [Next]_vars => ResultInv'
<1>. SUFFICES ASSUME TypeOK, TodoInv, RowInv, ResultInv, [Next]_vars PROVE ResultInv'
  OBVIOUS
<1>. USE DEF ResultInv
<1>1. ASSUME NEW t \in Table, StartTable(t) PROVE ResultInv'
  <2>1. \A c \in ChunkSet(t) : \E i \in DOMAIN ChunksOf[t] : ChunksOf[t][i] = c
    BY DEF ChunkSet
  <2>. QED BY <1>1, <2>1 DEF StartTable
<1>2. ASSUME PrepareSchema PROVE ResultInv'
  BY <1>2 DEF PrepareSchema
<1>3. ASSUME TruncateTable PROVE ResultInv'
  BY <1>3 DEF TruncateTable, Emptied
<1>4. ASSUME TruncateFails PROVE ResultInv'
  BY <1>4 DEF TruncateFails, EndCall
<1>5. ASSUME NEW M \in SUBSET Listed, NEW Q \in SUBSET Listed, PrepareFails(M, Q) PROVE ResultInv'
  BY <1>5 DEF PrepareFails, EndCall
<1>6. ASSUME SkipCompleted PROVE ResultInv'
  <2>1. /\ todo # <<>> /\ todo \in Seq(Chunk) /\ IsCompleted(tx[cur]) /\ todo' = Tail(todo)
        /\ results' = results \cup {[chunk |-> cur, rows |-> tx[cur].rows]}
        /\ UNCHANGED <<db, table>> /\ pc = "next" /\ pc' = "next"
    BY <1>6 DEF SkipCompleted, AtChunk, TypeOK
  <2>2. db[cur] = Completed(tx[cur].rows) /\ cur = todo[1]
    BY <2>1, CurFacts, RowFacts DEF RowInv, TypeOK, StoreTypeOK
  <2>. DEFINE e == [chunk |-> cur, rows |-> tx[cur].rows]
  <2>3. e \in results' /\ e.chunk = cur /\ db'[cur] = Completed(e.rows)
    BY <2>1, <2>2
  <2>. HIDE DEF e
  <2>4. results \subseteq results'
    BY <2>1
  <2>5. ASSUME NEW c \in ChunkSet(table), c # cur
        PROVE  \/ \E i \in DOMAIN todo : todo[i] = c /\ i # 1
               \/ \E x \in results' : x.chunk = c /\ db'[c] = Completed(x.rows)
    BY <2>1, <2>2, <2>4, <2>5
  <2>6. \A c : (\E i \in DOMAIN todo : todo[i] = c /\ i # 1) => \E i \in DOMAIN todo' : todo'[i] = c
    BY <2>1, InTheRest
  <2>. QED BY <2>1, <2>3, <2>5, <2>6
<1>7. ASSUME BeginChunk PROVE ResultInv'
  <2>1. /\ todo # <<>> /\ UpsertNow(cur, Running) /\ pc # "idle"
        /\ UNCHANGED <<todo, table, results>>
    BY <1>7 DEF BeginChunk, AtChunk
  <2>2. cur = todo[1] /\ 1 \in DOMAIN todo
    BY <2>1, CurFacts
  <2>. QED BY <2>1, <2>2, ResultsKept, RowFacts
<1>8. ASSUME ClearWholeTable PROVE ResultInv'
  BY <1>8 DEF ClearWholeTable, Emptied
<1>9. ASSUME ClearFails PROVE ResultInv'
  BY <1>9 DEF ClearFails, ChunkFails, EndCall
<1>10. ASSUME ImportLoads PROVE ResultInv'
  BY <1>10 DEF ImportLoads, AfterLoad, Emptied
<1>11. ASSUME NEW rc \in {1, 2, 5}, NEW o \in Prints, ImportWarns(rc, o) PROVE ResultInv'
  BY <1>11 DEF ImportWarns, ToolEndsShort, AfterLoad, Emptied
<1>12. ASSUME NEW rc \in {1, 2, 5}, NEW o \in Prints, ImportFails(rc, o) PROVE ResultInv'
  BY <1>12 DEF ImportFails, ToolEndsShort, AfterLoad, Emptied
<1>13. ASSUME Retry PROVE ResultInv'
  BY <1>13 DEF Retry, Recover, CreateSpaces
<1>14. ASSUME GiveUp PROVE ResultInv'
  BY <1>14 DEF GiveUp, ChunkFails, EndCall
<1>15. ASSUME NEW M \in SUBSET output.missing,
             NEW Q \in SUBSET (output.missing \cup output.noquota), RecoverFails(M, Q) PROVE ResultInv'
  BY <1>15 DEF RecoverFails, ChunkFails, EndCall
<1>16. ASSUME ExportChunk PROVE ResultInv'
  BY <1>16 DEF ExportChunk
<1>17. ASSUME RecordCompleted PROVE ResultInv'
  <2>1. /\ todo # <<>> /\ todo \in Seq(Chunk) /\ UpsertNow(cur, Completed(written))
        /\ todo' = Tail(todo) /\ table' = table /\ pc # "idle" /\ written \in Nat
        /\ results' = results \cup {[chunk |-> cur, rows |-> written]}
    BY <1>17 DEF RecordCompleted, TodoInv, Working, TypeOK
  <2>2. /\ cur = todo[1] /\ cur \in Chunk /\ db'[cur] = Completed(written)
        /\ \A c \in Chunk : c # cur => db'[c] = db[c]
    <3>1. Completed(written) \in Row /\ cur = todo[1] /\ cur \in Chunk
      BY <2>1, CurFacts, RowFacts
    <3>2. /\ db' = tx' /\ tx'[cur] = Completed(written)
          /\ \A c \in Chunk : c # cur => tx'[c] = tx[c]
      BY <2>1, <3>1, UpsertRow
    <3>. QED BY <3>1, <3>2 DEF RowInv
  <2>. DEFINE e == [chunk |-> cur, rows |-> written]
  <2>3. e \in results' /\ e.chunk = cur /\ db'[cur] = Completed(e.rows)
    BY <2>1, <2>2
  <2>. HIDE DEF e
  <2>4. results \subseteq results' /\ ChunkSet(table) \subseteq Chunk
    BY <2>1, <1>17, TableConvertAssumption DEF ChunkSet, TodoInv
  <2>5. ASSUME NEW c \in ChunkSet(table), c # cur
        PROVE  \/ \E i \in DOMAIN todo : todo[i] = c /\ i # 1
               \/ \E x \in results' : x.chunk = c /\ db'[c] = Completed(x.rows)
    BY <2>1, <2>2, <2>4, <2>5
  <2>6. \A c : (\E i \in DOMAIN todo : todo[i] = c /\ i # 1) => \E i \in DOMAIN todo' : todo'[i] = c
    BY <2>1, InTheRest
  <2>. QED BY <2>1, <2>3, <2>5, <2>6
<1>18. ASSUME ExportFails PROVE ResultInv'
  BY <1>18 DEF ExportFails, ChunkFails, EndCall
<1>19. ASSUME NEW e \in flush, Sidecar(e) PROVE ResultInv'
  BY <1>19 DEF Sidecar, WriteSidecar
<1>20. ASSUME FinishTable PROVE ResultInv'
  BY <1>20 DEF FinishTable, EndCall
<1>21. ASSUME Crash PROVE ResultInv'
  BY <1>21 DEF Crash, EndCall
<1>22. ASSUME NewStaging PROVE ResultInv'
  BY <1>22 DEF NewStaging, FreshContainer
<1>23. CASE UNCHANGED vars
  BY <1>23 DEF vars
<1>. QED
  BY <1>1, <1>2, <1>3, <1>4, <1>5, <1>6, <1>7, <1>8, <1>9, <1>10, <1>11, <1>12,
     <1>13, <1>14, <1>15, <1>16, <1>17, <1>18, <1>19, <1>20, <1>21, <1>22, <1>23 DEF
     Next, CallStep, ImportStep

-----------------------------------------------------------------------------
\* What becomes of the rows and the files that CompletedExact is about: only
\* an export writes a file, of a chunk that is not completed, and only
\* RecordCompleted completes one.
LEMMA ExactKept ==
    ASSUME CompletedExact, suspect \subseteq suspect', UNCHANGED file,
           \A c \in Chunk : IsCompleted(db'[c]) => IsCompleted(db[c])
    PROVE  CompletedExact'
  BY DEF CompletedExact

\* An upsert of a row that is not completed completes nothing.
LEMMA UpsertKeeps ==
    ASSUME TypeOK, RowInv, NEW c \in Chunk, NEW r \in Row, ~IsCompleted(r), UpsertNow(c, r)
    PROVE  /\ \A x \in Chunk : IsCompleted(db'[x]) => IsCompleted(db[x])
           /\ ~IsCompleted(db[c]) => \A x \in Chunk : IsCompleted(db[x]) => IsCompleted(db'[x])
<1>1. db'[c] = r /\ \A x \in Chunk : x # c => db'[x] = db[x]
  BY UpsertRow DEF RowInv
<1>. QED BY <1>1


\* The steps that touch neither a committed row nor a file.
Quiet ==
    \/ \E t \in Table : StartTable(t)
    \/ PrepareSchema \/ TruncateTable \/ TruncateFails
    \/ \E M, Q \in SUBSET Listed : PrepareFails(M, Q)
    \/ SkipCompleted \/ ClearWholeTable
    \/ ImportLoads
    \/ \E rc \in {1, 2, 5}, o \in Prints : ImportWarns(rc, o) \/ ImportFails(rc, o)
    \/ Retry
    \/ \E e \in flush : Sidecar(e)
    \/ FinishTable \/ Crash \/ NewStaging
    \/ UNCHANGED vars

\* They change neither the rows of the store nor a file.
LEMMA QuietSteps == Quiet => UNCHANGED <<db, file>> /\ UNCHANGED suspect
<1>1. ASSUME NEW t \in Table, StartTable(t) PROVE UNCHANGED <<db, file, suspect>>
  BY <1>1 DEF StartTable
<1>2. ASSUME NEW M \in SUBSET Listed, NEW Q \in SUBSET Listed, PrepareFails(M, Q)
      PROVE  UNCHANGED <<db, file, suspect>>
  BY <1>2 DEF PrepareFails
<1>3. ASSUME NEW rc \in {1, 2, 5}, NEW o \in Prints, ImportWarns(rc, o) \/ ImportFails(rc, o)
      PROVE  UNCHANGED <<db, file, suspect>>
  BY <1>3 DEF ImportWarns, ImportFails
<1>4. ASSUME NEW e \in flush, Sidecar(e) PROVE UNCHANGED <<db, file, suspect>>
  BY <1>4 DEF Sidecar, WriteSidecar
<1>5. ASSUME \/ PrepareSchema \/ TruncateTable \/ TruncateFails \/ SkipCompleted
             \/ ClearWholeTable \/ ImportLoads \/ Retry
      PROVE  UNCHANGED <<db, file, suspect>>
  BY <1>5 DEF PrepareSchema, TruncateTable, TruncateFails, SkipCompleted, ClearWholeTable,
              ImportLoads, Retry
<1>6. ASSUME FinishTable \/ Crash \/ NewStaging \/ UNCHANGED vars
      PROVE  UNCHANGED <<db, file, suspect>>
  BY <1>6 DEF FinishTable, Crash, CloseStore, NewStaging, vars
<1>. QED BY <1>1, <1>2, <1>3, <1>4, <1>5, <1>6 DEF Quiet

\* Completed chunks stay exact.
LEMMA ExactStep == TypeOK /\ TodoInv /\ RowInv /\ StageInv /\ CompletedExact /\ [Next]_vars => CompletedExact'
<1>. SUFFICES ASSUME TypeOK, TodoInv, RowInv, StageInv, CompletedExact, [Next]_vars PROVE CompletedExact'
  OBVIOUS
<1>. USE RowFacts
<1>1. ASSUME BeginChunk PROVE CompletedExact'
  <2>1. cur \in Chunk /\ UpsertNow(cur, Running) /\ UNCHANGED <<file, suspect>>
    BY <1>1, CurFacts DEF BeginChunk, AtChunk
  <2>2. \A x \in Chunk : IsCompleted(db'[x]) => IsCompleted(db[x])
    BY <2>1, UpsertKeeps
  <2>. QED BY <2>1, <2>2, ExactKept
<1>2. ASSUME ClearFails PROVE CompletedExact'
  <2>1. cur \in Chunk /\ UpsertNow(cur, Failed) /\ UNCHANGED <<file, suspect>>
    BY <1>2, CurFacts DEF ClearFails, ChunkFails, TodoInv, Working
  <2>2. \A x \in Chunk : IsCompleted(db'[x]) => IsCompleted(db[x])
    BY <2>1, UpsertKeeps
  <2>. QED BY <2>1, <2>2, ExactKept
<1>3. ASSUME GiveUp PROVE CompletedExact'
  <2>1. cur \in Chunk /\ UpsertNow(cur, Failed) /\ UNCHANGED <<file, suspect>>
    BY <1>3, CurFacts DEF GiveUp, ChunkFails, TodoInv, Working
  <2>2. \A x \in Chunk : IsCompleted(db'[x]) => IsCompleted(db[x])
    BY <2>1, UpsertKeeps
  <2>. QED BY <2>1, <2>2, ExactKept
<1>4. ASSUME NEW M \in SUBSET output.missing,
             NEW Q \in SUBSET (output.missing \cup output.noquota), RecoverFails(M, Q) PROVE CompletedExact'
  <2>1. cur \in Chunk /\ UpsertNow(cur, Failed) /\ UNCHANGED <<file, suspect>>
    BY <1>4, CurFacts DEF RecoverFails, ChunkFails, TodoInv, Working
  <2>2. \A x \in Chunk : IsCompleted(db'[x]) => IsCompleted(db[x])
    BY <2>1, UpsertKeeps
  <2>. QED BY <2>1, <2>2, ExactKept
<1>5. ASSUME ExportChunk PROVE CompletedExact'
  <2>1. cur \in Chunk /\ ~IsCompleted(db[cur]) /\ UNCHANGED <<db, suspect>>
    BY <1>5, CurFacts DEF ExportChunk, TodoInv, RowInv, Working
  <2>2. \A c \in Chunk : c # cur => file'[c] = file[c]
    BY <1>5 DEF ExportChunk, TypeOK
  <2>. QED BY <2>1, <2>2 DEF CompletedExact
<1>6. ASSUME RecordCompleted PROVE CompletedExact'
  <2>1. /\ cur \in Chunk /\ Completed(written) \in Row /\ UpsertNow(cur, Completed(written))
        /\ UNCHANGED file /\ suspect \subseteq suspect'
        /\ doubtful => cur \in suspect'
    BY <1>6, CurFacts DEF RecordCompleted, TodoInv, Working, TypeOK
  <2>2. \A c \in Chunk : c # cur => db'[c] = db[c]
    BY <2>1, UpsertRow DEF RowInv
  <2>3. ~doubtful => file[cur] = Rows[cur]
    BY <1>6 DEF RecordCompleted, StageInv
  <2>. QED BY <2>1, <2>2, <2>3 DEF CompletedExact
<1>7. ASSUME ExportFails PROVE CompletedExact'
  <2>1. cur \in Chunk /\ UpsertNow(cur, Failed) /\ UNCHANGED <<file, suspect>>
    BY <1>7, CurFacts DEF ExportFails, ChunkFails, TodoInv, Working
  <2>2. \A x \in Chunk : IsCompleted(db'[x]) => IsCompleted(db[x])
    BY <2>1, UpsertKeeps
  <2>. QED BY <2>1, <2>2, ExactKept
<1>8. ASSUME Quiet PROVE CompletedExact'
  BY <1>8, QuietSteps, ExactKept
<1>. QED
  BY <1>1, <1>2, <1>3, <1>4, <1>5, <1>6, <1>7, <1>8 DEF Next, CallStep, ImportStep,
     Quiet

-----------------------------------------------------------------------------
\* No chunk of a table is done at first, and nothing is to do.
LEMMA TInvInit == Init => TInv
<1>. SUFFICES ASSUME Init PROVE TInv
  OBVIOUS
<1>. USE TableConvertAssumption, RowFacts DEF Init
<1>1. StoreTypeOK
  BY DEF StoreInit, StoreTypeOK
<1>2. Flags
  BY DEF Flags
<1>3. Data
  BY DEF Data, MaxAttempts, FreshContainer, Output, NoOutput
<1>4. TypeOK
  BY <1>1, <1>2, <1>3, TypeParts
<1>5. TodoInv /\ SpaceInv
  BY DEF TodoInv, SpaceInv, Working
<1>6. RowInv /\ CompletedExact
  BY DEF StoreInit, RowInv, CompletedExact, Working
<1>7. StageInv /\ AttemptInv /\ ResultInv
  BY DEF StageInv, AttemptInv, ResultInv, Working
<1>. QED BY <1>4, <1>5, <1>6, <1>7 DEF TInv

\* The parts of TInv put together: one step keeps it.
LEMMA TInvStep == TInv /\ [Next]_vars => TInv'
  BY TypeStep, TodoStep, RowStep, StageStep, SpaceStep, AttemptStep, ResultStep, ExactStep
     DEF TInv

\* The invariant holds in every execution.
THEOREM Invariance == Spec => []TInv
  BY TInvInit, TInvStep, PTL DEF Spec

\* Type correctness; an import is attempted at most three times.
THEOREM TypeCorrect == Spec => []TypeOK
<1>1. TInv => TypeOK
  BY DEF TInv
<1>. QED BY <1>1, Invariance, PTL

\* A completed chunk has a file with exactly its rows, unless a warning or a
\* legacy retry made it doubtful (core/executor.py, convert_table_plan).
THEOREM CompletedChunksExact == Spec => []CompletedExact
<1>1. TInv => CompletedExact
  BY DEF TInv
<1>. QED BY <1>1, Invariance, PTL

\* Each retry of _import_chunk_with_recovery follows a tablespace put right,
\* however many the chunk needs and whatever the tool names of them.
THEOREM RetriesPaidFor == Spec => []EveryRetryIsPaidFor
<1>1. TInv => EveryRetryIsPaidFor
  BY DEF TInv, AttemptInv, Paid, EveryRetryIsPaidFor
<1>. QED BY <1>1, Invariance, PTL

\* A call that returns has all chunks of its table durably completed, with
\* the counts it returns.
THEOREM WholeTableReturned == Spec => ReturnsWholeTable
<1>. DEFINE Whole == FinishTable =>
                \A c \in ChunkSet(table) :
                    \E e \in results : e.chunk = c /\ db[c] = Completed(e.rows)
<1>1. TInv => Whole
  <2>. SUFFICES ASSUME TInv, FinishTable, NEW c \in ChunkSet(table)
                PROVE  \E e \in results : e.chunk = c /\ db[c] = Completed(e.rows)
    OBVIOUS
  <2>1. pc # "idle" /\ todo = <<>>
    BY DEF FinishTable
  <2>. QED BY <2>1 DEF TInv, ResultInv
<1>2. TInv /\ [Next]_vars => [Whole]_vars
  BY <1>1
<1>3. Spec => [][Whole]_vars
  BY <1>2, Invariance, PTL DEF Spec
<1>. QED BY <1>3 DEF ReturnsWholeTable

-----------------------------------------------------------------------------
\* Steps that write no file, complete no chunk and take no completion back.
LEMMA Stutter ==
    ASSUME UNCHANGED file, \A c \in Chunk : IsCompleted(db'[c]) <=> IsCompleted(db[c])
    PROVE  UNCHANGED Abstract!vars
  BY DEF Abstract!vars

\* No chunk is completed at first.
LEMMA MapsInit == Init => Abstract!Init
  BY RowFacts DEF Init, StoreInit, Abstract!Init

\* An export is a Write of Resumable ...
LEMMA MapsExport ==
    ASSUME TInv, ExportChunk
    PROVE  Abstract!Next
<1>1. cur \in Chunk /\ ~IsCompleted(db[cur]) /\ UNCHANGED db
  BY CurFacts DEF ExportChunk, TInv, TodoInv, RowInv, Working
<1>2. PICK x \in Chunk : x = cur
  BY <1>1
<1>3. \A c \in Chunk : c # x => file'[c] = file[c]
  BY <1>2 DEF ExportChunk, TInv, TypeOK
<1>4. Abstract!Write(x, NoTable)
  BY <1>1, <1>2, <1>3 DEF Abstract!Write
<1>. QED BY <1>4 DEF Abstract!Next

\* ... and recording a completion is a Finish.
LEMMA MapsCompletion ==
    ASSUME TInv, RecordCompleted
    PROVE  Abstract!Next
<1>1. /\ cur \in Chunk /\ ~IsCompleted(db[cur]) /\ file[cur] = written /\ written \in Nat
      /\ UpsertNow(cur, Completed(written)) /\ UNCHANGED file
  BY CurFacts DEF RecordCompleted, TInv, TodoInv, RowInv, StageInv, Working, TypeOK
<1>2. IsCompleted(db'[cur]) /\ \A c \in Chunk : c # cur => db'[c] = db[c]
  <2>1. Completed(written) \in Row /\ IsCompleted(Completed(written))
    BY <1>1, RowFacts
  <2>. QED BY <1>1, <2>1, UpsertRow DEF TInv, RowInv
<1>3. {c \in Chunk : IsCompleted(db'[c])} = {c \in Chunk : IsCompleted(db[c])} \cup {cur}
  BY <1>1, <1>2
<1>4. file[cur] # NoFile
  BY <1>1, TableConvertAssumption
<1>5. Abstract!Finish({cur})
  BY <1>1, <1>3, <1>4 DEF Abstract!Finish
<1>. QED BY <1>1, <1>5 DEF Abstract!Next

\* Every step is one of Resumable, or a stutter.
LEMMA MapsStep == TInv /\ [Next]_vars => [Abstract!Next]_Abstract!vars
<1>. SUFFICES ASSUME TInv, [Next]_vars PROVE [Abstract!Next]_Abstract!vars
  OBVIOUS
<1>. USE RowFacts DEF TInv
<1>1. ASSUME BeginChunk PROVE [Abstract!Next]_Abstract!vars
  <2>1. /\ cur \in Chunk /\ UpsertNow(cur, Running) /\ UNCHANGED file
        /\ ~IsCompleted(db[cur])
    BY <1>1, CurFacts DEF BeginChunk, AtChunk, RowInv
  <2>. QED BY <2>1, UpsertKeeps, Stutter
<1>2. ASSUME ClearFails PROVE [Abstract!Next]_Abstract!vars
  <2>1. /\ cur \in Chunk /\ UpsertNow(cur, Failed) /\ UNCHANGED file
        /\ ~IsCompleted(db[cur])
    BY <1>2, CurFacts DEF ClearFails, ChunkFails, TodoInv, RowInv, Working
  <2>. QED BY <2>1, UpsertKeeps, Stutter
<1>3. ASSUME GiveUp PROVE [Abstract!Next]_Abstract!vars
  <2>1. /\ cur \in Chunk /\ UpsertNow(cur, Failed) /\ UNCHANGED file
        /\ ~IsCompleted(db[cur])
    BY <1>3, CurFacts DEF GiveUp, ChunkFails, TodoInv, RowInv, Working
  <2>. QED BY <2>1, UpsertKeeps, Stutter
<1>4. ASSUME NEW M \in SUBSET output.missing,
             NEW Q \in SUBSET (output.missing \cup output.noquota), RecoverFails(M, Q) PROVE [Abstract!Next]_Abstract!vars
  <2>1. /\ cur \in Chunk /\ UpsertNow(cur, Failed) /\ UNCHANGED file
        /\ ~IsCompleted(db[cur])
    BY <1>4, CurFacts DEF RecoverFails, ChunkFails, TodoInv, RowInv, Working
  <2>. QED BY <2>1, UpsertKeeps, Stutter
<1>5. ASSUME ExportChunk PROVE [Abstract!Next]_Abstract!vars
  BY <1>5, MapsExport
<1>6. ASSUME RecordCompleted PROVE [Abstract!Next]_Abstract!vars
  BY <1>6, MapsCompletion
<1>7. ASSUME ExportFails PROVE [Abstract!Next]_Abstract!vars
  <2>1. /\ cur \in Chunk /\ UpsertNow(cur, Failed) /\ UNCHANGED file
        /\ ~IsCompleted(db[cur])
    BY <1>7, CurFacts DEF ExportFails, ChunkFails, TodoInv, RowInv, Working
  <2>. QED BY <2>1, UpsertKeeps, Stutter
<1>8. ASSUME Quiet PROVE [Abstract!Next]_Abstract!vars
  BY <1>8, QuietSteps, Stutter
<1>. QED
  BY <1>1, <1>2, <1>3, <1>4, <1>5, <1>6, <1>7, <1>8 DEF Next, CallStep, ImportStep,
     Quiet

\* This path, too, keeps a completed chunk completed and its file as it is.
THEOREM Implements == Spec => ImplementsResumable
<1>1. Spec => Abstract!Init /\ [][Abstract!Next]_Abstract!vars
  BY MapsInit, MapsStep, Invariance, PTL DEF Spec
<1>. QED BY <1>1 DEF ImplementsResumable, Abstract!Spec

-----------------------------------------------------------------------------
(***************************************************************************)
(* A call ends: every step of it leaves less to do.                        *)
(***************************************************************************)

\* At most one sidecar is due, and only between two chunks.
FlushInv == flush # {} => pc = "next" /\ \E e : flush = {e}

\* A row that is not completed has no sidecar.
LEMMA NoSidecarDue ==
    ASSUME NEW c, NEW row, UpsertNow(c, row), ~IsCompleted(row)
    PROVE  flush' = flush
  BY DEF UpsertNow, IsCompleted

\* One step keeps it.
LEMMA FlushStep == TInv /\ FlushInv /\ [Next]_vars => FlushInv'
<1>. SUFFICES ASSUME TInv, FlushInv, [Next]_vars PROVE FlushInv'
  OBVIOUS
<1>1. CASE UNCHANGED flush /\ (pc' = "next" \/ pc # "next")
  BY <1>1 DEF FlushInv
<1>2. CASE flush' = {}
  BY <1>2 DEF FlushInv
<1>3. ASSUME ChunkFails PROVE flush' = flush
  BY <1>3, NoSidecarDue, RowFacts DEF ChunkFails
<1>4. ASSUME \/ \E t \in Table : StartTable(t)
             \/ PrepareSchema \/ TruncateTable \/ TruncateFails \/ ClearWholeTable
             \/ \E M, Q \in SUBSET Listed : PrepareFails(M, Q)
             \/ NewStaging \/ ExportChunk \/ Retry \/ ImportLoads
             \/ UNCHANGED vars
      PROVE  UNCHANGED flush /\ (pc' = "next" \/ pc # "next")
  BY <1>4 DEF StartTable, PrepareSchema, TruncateTable, TruncateFails, ClearWholeTable,
     PrepareFails, NewStaging, ExportChunk, Retry, ImportLoads, vars
<1>5. ASSUME NEW rc, NEW o, ImportWarns(rc, o) \/ ImportFails(rc, o)
      PROVE  UNCHANGED flush /\ pc # "next"
  BY <1>5 DEF ImportWarns, ImportFails, ToolEndsShort
<1>6. ASSUME \/ ClearFails \/ GiveUp \/ ExportFails
             \/ \E M \in SUBSET output.missing,
                   Q \in SUBSET (output.missing \cup output.noquota) : RecoverFails(M, Q)
      PROVE  UNCHANGED flush /\ pc # "next"
  BY <1>3, <1>6 DEF ClearFails, GiveUp, ExportFails, RecoverFails
<1>7. ASSUME SkipCompleted \/ FinishTable PROVE flush' = {}
  BY <1>7 DEF SkipCompleted, AtChunk, FinishTable
<1>8. ASSUME BeginChunk PROVE flush' = {}
  BY <1>8, NoSidecarDue, RowFacts DEF BeginChunk, AtChunk
<1>9. ASSUME RecordCompleted PROVE FlushInv'
  BY <1>9 DEF RecordCompleted, UpsertNow, FlushInv
<1>10. ASSUME NEW e \in flush, Sidecar(e) PROVE flush' = {}
  BY <1>10 DEF Sidecar, WriteSidecar, FlushInv
<1>11. ASSUME Crash PROVE flush' = {}
  BY <1>11 DEF Crash, CloseStore
<1>. QED
  BY <1>1, <1>2, <1>4, <1>5, <1>6, <1>7, <1>8, <1>9, <1>10, <1>11
     DEF Next, CallStep, ImportStep

\* Both invariants hold in every state.
LEMMA FlushInvariance == Spec => [](TInv /\ FlushInv)
<1>1. Init => FlushInv
  BY DEF Init, StoreInit, FlushInv
<1>. QED BY <1>1, TInvInit, TInvStep, FlushStep, PTL DEF Spec

\* What is left of a call is a length.
LEMMA CallLengthType == TypeOK => CallLength \in Length
<1>. SUFFICES ASSUME TypeOK PROVE CallLength \in Length
  OBVIOUS
<1>1. attempt \in 1 .. 3
  BY DEF TypeOK, MaxAttempts
<1>2. 2 * (MaxAttempts - attempt) \in Nat /\ 2 * (MaxAttempts - attempt) + 1 \in Nat
  BY <1>1 DEF MaxAttempts
<1>3. Len(todo) \in Nat
  BY DEF TypeOK
<1>4. pc \in {"idle", "prepare", "truncate", "next", "clear", "import",
              "recover", "export", "check"}
  BY DEF TypeOK
<1>. QED BY <1>2, <1>3, <1>4 DEF CallLength, Length, Nothing

\* A call that ends or raises has nothing left to do.
LEMMA EndShorter == pc' = "idle" /\ TypeOK /\ pc # "idle" => Less(CallLength', CallLength)
<1>. SUFFICES ASSUME pc' = "idle", TypeOK, pc # "idle" PROVE Less(CallLength', CallLength)
  OBVIOUS
<1>1. CallLength' = Nothing
  BY DEF CallLength
<1>2. pc \in {"prepare", "truncate", "next", "clear", "import", "recover", "export", "check"}
  BY DEF TypeOK
<1>3. CallLength[1] \in {1, 2, 3}
  BY <1>2 DEF CallLength
<1>. QED BY <1>1, <1>3 DEF Less, Nothing

\* Every step of a call leaves it less to do.
LEMMA CallShorter ==
    ASSUME TInv, FlushInv, CallStep
    PROVE  Less(CallLength', CallLength)
<1>0. TypeOK /\ todo \in Seq(Chunk) /\ attempt \in 1 .. 3 /\ Len(todo) \in Nat
  BY DEF TInv, TypeOK, MaxAttempts
<1>1. ASSUME PrepareSchema \/ TruncateTable PROVE Less(CallLength', CallLength)
  BY <1>1 DEF PrepareSchema, TruncateTable, CallLength, Less
<1>2. ASSUME \/ TruncateFails \/ ClearFails \/ GiveUp \/ ExportFails \/ FinishTable
             \/ \E M, Q \in SUBSET Listed : PrepareFails(M, Q)
             \/ \E M \in SUBSET output.missing,
                   Q \in SUBSET (output.missing \cup output.noquota) : RecoverFails(M, Q)
      PROVE  pc # "idle" /\ pc' = "idle"
  BY <1>2 DEF TruncateFails, ClearFails, GiveUp, ExportFails, FinishTable, PrepareFails,
     RecoverFails, ChunkFails, EndCall
<1>3. ASSUME todo # <<>>, todo' = Tail(todo) PROVE Len(todo') = Len(todo) - 1
  BY <1>0, <1>3
<1>4. ASSUME SkipCompleted PROVE Less(CallLength', CallLength)
  <2>1. pc = "next" /\ pc' = "next" /\ todo # <<>> /\ todo' = Tail(todo)
    BY <1>4 DEF SkipCompleted, AtChunk
  <2>2. CallLength[1] = 1 /\ CallLength'[1] = 1
        /\ CallLength[2] = Len(todo) /\ CallLength'[2] = Len(todo')
    BY <2>1 DEF CallLength
  <2>. QED BY <1>0, <1>3, <2>1, <2>2 DEF Less
<1>5. ASSUME BeginChunk PROVE Less(CallLength', CallLength)
  <2>1. pc = "next" /\ pc' \in {"clear", "import"} /\ todo' = todo
    BY <1>5 DEF BeginChunk, AtChunk
  <2>2. CallLength[1] = 1 /\ CallLength[2] = Len(todo) /\ CallLength[3] = 5
    BY <2>1 DEF CallLength
  <2>3. CallLength'[1] = 1 /\ CallLength'[2] = Len(todo) /\ CallLength'[3] \in {3, 4}
    BY <2>1 DEF CallLength
  <2>. QED BY <2>2, <2>3 DEF Less
<1>6. ASSUME ClearWholeTable \/ ImportLoads \/ ExportChunk
      PROVE  Less(CallLength', CallLength)
  BY <1>6 DEF ClearWholeTable, ImportLoads, ExportChunk, CallLength, Less
<1>7. ASSUME NEW rc, NEW o, ImportWarns(rc, o) \/ ImportFails(rc, o)
      PROVE  Less(CallLength', CallLength)
  <2>1. pc = "import" /\ pc' \in {"export", "recover"} /\ todo' = todo /\ attempt' = attempt
    BY <1>7 DEF ImportWarns, ImportFails, ToolEndsShort
  <2>2. CallLength = <<1, Len(todo), 3, 2 * (3 - attempt) + 1>>
    BY <2>1 DEF CallLength, MaxAttempts
  <2>3. CASE pc' = "export"
    <3>1. CallLength' = <<1, Len(todo), 2, 0>>
      BY <2>1, <2>3 DEF CallLength
    <3>. QED BY <2>2, <3>1 DEF Less
  <2>4. CASE pc' = "recover"
    <3>1. CallLength' = <<1, Len(todo), 3, 2 * (3 - attempt)>>
      BY <2>1, <2>4 DEF CallLength, MaxAttempts
    <3>. QED BY <1>0, <2>2, <3>1 DEF Less
  <2>. QED BY <2>1, <2>3, <2>4
<1>8. ASSUME Retry PROVE Less(CallLength', CallLength)
  <2>1. pc = "recover" /\ pc' = "import" /\ todo' = todo /\ attempt' = attempt + 1
    BY <1>8 DEF Retry
  <2>2. /\ CallLength = <<1, Len(todo), 3, 2 * (3 - attempt)>>
        /\ CallLength' = <<1, Len(todo), 3, 2 * (3 - (attempt + 1)) + 1>>
    BY <2>1 DEF CallLength, MaxAttempts
  <2>. QED BY <1>0, <2>2 DEF Less
<1>9. ASSUME RecordCompleted PROVE Less(CallLength', CallLength)
  <2>1. pc = "check" /\ pc' = "next" /\ todo # <<>> /\ todo' = Tail(todo)
    BY <1>9 DEF RecordCompleted, TInv, TodoInv, Working
  <2>2. CallLength[1] = 1 /\ CallLength'[1] = 1
        /\ CallLength[2] = Len(todo) /\ CallLength'[2] = Len(todo')
    BY <2>1 DEF CallLength
  <2>. QED BY <1>0, <1>3, <2>1, <2>2 DEF Less
<1>10. ASSUME NEW e \in flush, Sidecar(e) PROVE Less(CallLength', CallLength)
  <2>1. pc = "next" /\ pc' = "next" /\ todo' = todo /\ flush # {} /\ flush' = {}
    BY <1>10 DEF Sidecar, WriteSidecar, FlushInv
  <2>. QED BY <2>1 DEF CallLength, Less
<1>. QED
  BY <1>0, <1>1, <1>2, <1>4, <1>5, <1>6, <1>7, <1>8, <1>9, <1>10, EndShorter
     DEF CallStep, ImportStep

\* Every step of a call brings its end nearer, whatever fails and however
\* often a recovery finds something to put right.
THEOREM CallsShorten == Spec => CallsGetShorter
<1>1. (TInv /\ FlushInv) /\ (CallLength \in Length)' /\ [Next]_vars
          => [Shorter(CallLength', CallLength) \/ ~CallStep]_vars
  BY CallShorter DEF Shorter
<1>. QED BY <1>1, CallLengthType, TypeCorrect, FlushInvariance, PTL DEF CallsGetShorter, Spec
=============================================================================
