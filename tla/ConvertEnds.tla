----------------------------- MODULE ConvertEnds -----------------------------
(***************************************************************************)
(* Why a run of Convert ends, as two safety properties: every step of a    *)
(* run leaves less to do (RunsGetShorter), and until it is over a step of  *)
(* it can be taken (RunsGoOn).  With the fairness of FairSpec the two give *)
(* RunTerminates.  EndsInv is what they need besides IInv.                 *)
(***************************************************************************)
EXTENDS ConvertInv, Measure

\* What a run still has to do: the passes of the pre-clear and the tables of
\* this pass; then the tables of later batches, the stages of this batch, and
\* the tables, chunks or sidecars of this stage.
RunLength ==
    CASE pc = "idle"        -> Nothing
      [] pc = "preclear"    -> <<2, MaxPass - pass, Cardinality(todo), 0>>
      [] pc = "truncate"    -> <<1, Cardinality(left), 5, Cardinality(todo)>>
      [] pc = "import"      -> <<1, Cardinality(left), 4, Cardinality(toImport)>>
      [] pc = "mark_failed" -> <<1, Cardinality(left), 3, Cardinality(pending)>>
      [] pc = "export"      -> <<1, Cardinality(left), 2, 2 * Cardinality(pending) + 1>>
      [] pc = "check"       -> <<1, Cardinality(left), 2, 2 * Cardinality(pending)>>
      [] pc = "batch"       -> <<1, Cardinality(left), 1, Cardinality(flush)>>

\* Some statement of the run has what it waits for: a first table to clear, a
\* next call of the import tool and room for what it leaves behind, a next
\* batch, the connection in the commit mode the statement expects.
CanGoOn ==
    \/ pc = "preclear" /\ \/ todo = {}
                          \/ \E t \in todo : IsFirst(t, todo)
    \/ pc = "truncate" /\ \E t \in todo : IsFirst(t, todo)
    \/ pc = "import" /\ \E G \in SUBSET toImport : IsNextCall(G) /\ Loads(G) # {}
    \/ pc = "mark_failed" /\ autocommit
    \/ pc \in {"export", "check"} /\ ~autocommit
    \/ pc = "batch" /\ \/ flush # {}
                       \/ LoopDone
                       \/ autocommit /\ \E S \in SUBSET left : IsNextBatch(S)

\* The sidecars that are due are finitely many, a stage that works on a set
\* is not entered with an empty one, and no partition holds more than it can.
EndsInv ==
    /\ IsFiniteSet(flush)
    /\ IsFiniteSet(deferred)
    /\ pc = "truncate" => todo # {} /\ pending # {}
    /\ pc = "import" => toImport # {}
    /\ \A c \in Chunk : staged[c] <= StageCap

\* Every step of a run brings its end nearer: the delete passes are counted,
\* a chunk is exported once, a batch that ends is not taken again, a failed
\* import is not repeated (convert_plan, convert_table_batch).
RunsGetShorter == [][Shorter(RunLength', RunLength) \/ ~RunStep]_vars

\* A run that is not over is never stuck: batches do not stop short of the
\* last tables, the pre-clear finds a table to clear or ends, the export block
\* is open exactly while chunks are exported.
RunsGoOn == pc # "idle" => CanGoOn
=============================================================================
