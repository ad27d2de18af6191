------------------------------ MODULE Backfill ------------------------------
(***************************************************************************)
(* One job name of src/jobs/backfill/runner.ts: callers of                 *)
(* ResumableBackfillRunner.run() and their marker in backfill_progress.    *)
(* Nothing keeps two runs of a job apart.  Every statement commits by      *)
(* itself; the mark*() operations of the repository read the marker and    *)
(* then replace it, and a run may crash or a statement fail anywhere.  The *)
(* rows of the job are 1..LastRow, and a cursor is the last row before it. *)
(***************************************************************************)
EXTENDS Naturals

CONSTANTS
    Runner,              \* callers of run(), each of which may call again
    LastRow,
    batchSize,
    initialCursor,       \* the row before the first row the job is asked to do
    MaxRuns,             \* bound on calls of run()
    MaxBackfillFaults    \* bound on crashes and failed statements together

VARIABLES
    progress,          \* the row of backfill_progress
    runner,            \* runner[r]: where its run() is, with its local variables
    doneRows,          \* rows that batches applied since the last forced restart
    restartedAmidRuns, \* some forced restart met another run in flight
    runsBegun,
    backfillFaults

backfillVars == <<progress, runner, doneRows, restartedAmidRuns, runsBegun, backfillFaults>>

ASSUME BackfillAssumption ==
    /\ LastRow \in Nat /\ batchSize \in Nat \ {0} /\ initialCursor \in 0..LastRow
    /\ MaxRuns \in Nat /\ MaxBackfillFaults \in Nat

Absent == [cursor |-> 0, status |-> "none"]

\* pc is the next statement, and seen what a mark*() operation has read.
IdleRunner == [pc |-> "idle", cursor |-> 0, seen |-> Absent]

BackfillInit ==
    /\ progress = Absent /\ runner = [r \in Runner |-> IdleRunner]
    /\ doneRows = {} /\ restartedAmidRuns = FALSE /\ runsBegun = 0 /\ backfillFaults = 0

\* run() up to its first statement and what it makes of the marker found:
\* "existing?.cursorValue ?? initialCursor".
findByJobName(r) ==
    /\ runner[r].pc = "idle" /\ runsBegun < MaxRuns
    /\ \E forceRestart \in BOOLEAN :
          LET next == IF forceRestart /\ progress.status # "none" THEN "reset" ELSE "readRunning"
          IN  /\ forceRestart \/ progress.status # "completed"
              /\ runner' = [runner EXCEPT ![r] =
                    [IdleRunner EXCEPT !.pc = next,
                                       !.cursor = IF progress.status = "none" THEN initialCursor ELSE progress.cursor]]
    /\ runsBegun' = runsBegun + 1
    /\ UNCHANGED <<progress, doneRows, restartedAmidRuns, backfillFaults>>

\* The upsert of a forced restart.
resetProgress(r) ==
    /\ runner[r].pc = "reset"
    /\ progress' = [cursor |-> initialCursor, status |-> "pending"]
    /\ runner' = [runner EXCEPT ![r].pc = "readRunning", ![r].cursor = initialCursor]
    /\ doneRows' = {}
    /\ restartedAmidRuns' = (restartedAmidRuns \/ \E q \in Runner \ {r} : runner[q].pc # "idle")
    /\ UNCHANGED <<runsBegun, backfillFaults>>

\* The SELECT of markRunning(), markCompleted() and markFailed().
readProgress(r) ==
    /\ runner[r].pc \in {"readRunning", "readCompleted", "readFailed"}
    /\ runner' = [runner EXCEPT ![r].seen = progress,
                                ![r].pc = CASE @ = "readRunning" -> "markRunning"
                                            [] @ = "readCompleted" -> "markCompleted"
                                            [] @ = "readFailed" -> "markFailed"]
    /\ UNCHANGED <<progress, doneRows, restartedAmidRuns, runsBegun, backfillFaults>>

\* Its upsert.  A marker that markRunning() creates has the cursor '', which
\* is not the initialCursor that the run itself begins with.
markRunning(r) ==
    /\ runner[r].pc = "markRunning"
    /\ progress' = [runner[r].seen EXCEPT !.status = "running"]
    /\ runner' = [runner EXCEPT ![r].pc = "batch", ![r].seen = Absent]
    /\ UNCHANGED <<doneRows, restartedAmidRuns, runsBegun, backfillFaults>>

rowsAfterCursor(r) == {n \in 1..LastRow : runner[r].cursor < n /\ n <= runner[r].cursor + batchSize}

\* The batch processor, which the caller passes in: it applies the rows after
\* the cursor and says whether there are more.
processBatch(r) ==
    LET batch == rowsAfterCursor(r)
    IN  /\ runner[r].pc = "batch"
        /\ doneRows' = doneRows \cup batch
        /\ runner' = [runner EXCEPT
                ![r].pc = IF runner[r].cursor + batchSize > LastRow THEN "lastCheckpoint" ELSE "checkpoint",
                ![r].cursor = IF @ + batchSize <= LastRow THEN @ + batchSize ELSE LastRow]
        /\ UNCHANGED <<progress, restartedAmidRuns, runsBegun, backfillFaults>>

\* Mutant: a batch that throws is skipped.
skipBatch(r) ==
    /\ runner[r].pc = "batch" /\ backfillFaults < MaxBackfillFaults
    /\ runner' = [runner EXCEPT ![r].pc = "checkpoint",
                                ![r].cursor = IF @ + batchSize <= LastRow THEN @ + batchSize ELSE LastRow]
    /\ backfillFaults' = backfillFaults + 1
    /\ UNCHANGED <<progress, doneRows, restartedAmidRuns, runsBegun>>

\* The batch throws, with or without its rows applied.
batchFails(r) ==
    /\ runner[r].pc = "batch" /\ backfillFaults < MaxBackfillFaults
    /\ doneRows' \in {doneRows, doneRows \cup rowsAfterCursor(r)}
    /\ runner' = [runner EXCEPT ![r].pc = "readFailed"]
    /\ backfillFaults' = backfillFaults + 1
    /\ UNCHANGED <<progress, restartedAmidRuns, runsBegun>>

\* A batch that is done, or empty, was the last.
checkpoint(r) ==
    /\ runner[r].pc \in {"checkpoint", "lastCheckpoint"}
    /\ progress' = [cursor |-> runner[r].cursor, status |-> "running"]
    /\ runner' = [runner EXCEPT ![r].pc = IF @ = "lastCheckpoint" THEN "readCompleted" ELSE "batch"]
    /\ UNCHANGED <<doneRows, restartedAmidRuns, runsBegun, backfillFaults>>

markCompleted(r) ==
    /\ runner[r].pc = "markCompleted"
    /\ progress' = [cursor |-> runner[r].cursor, status |-> "completed"]
    /\ runner' = [runner EXCEPT ![r] = IdleRunner]
    /\ UNCHANGED <<doneRows, restartedAmidRuns, runsBegun, backfillFaults>>

markFailed(r) ==
    /\ runner[r].pc = "markFailed"
    /\ progress' = [runner[r].seen EXCEPT !.status = "failed"]
    /\ runner' = [runner EXCEPT ![r] = IdleRunner]
    /\ UNCHANGED <<doneRows, restartedAmidRuns, runsBegun, backfillFaults>>

\* A statement of the try block is answered by an error before the database
\* has applied it; an error after that is the statement and then this step.
statementThrows(r) ==
    /\ runner[r].pc \in {"checkpoint", "lastCheckpoint", "readCompleted", "markCompleted"}
    /\ backfillFaults < MaxBackfillFaults
    /\ runner' = [runner EXCEPT ![r].pc = "readFailed"]
    /\ backfillFaults' = backfillFaults + 1
    /\ UNCHANGED <<progress, doneRows, restartedAmidRuns, runsBegun>>

\* The process of r crashes, or a statement outside the try block fails.
runCrashes(r) ==
    /\ runner[r].pc # "idle" /\ backfillFaults < MaxBackfillFaults
    /\ runner' = [runner EXCEPT ![r] = IdleRunner]
    /\ backfillFaults' = backfillFaults + 1
    /\ UNCHANGED <<progress, doneRows, restartedAmidRuns, runsBegun>>

BackfillNext ==
    \E r \in Runner :
        \/ findByJobName(r) \/ resetProgress(r) \/ readProgress(r) \/ markRunning(r)
        \/ processBatch(r) \/ batchFails(r) \/ checkpoint(r) \/ markCompleted(r) \/ markFailed(r)
        \/ statementThrows(r) \/ runCrashes(r)

BackfillSpec == BackfillInit /\ [][BackfillNext]_backfillVars

(***************************************************************************)
(* Resuming skips nothing: however runs of the job overlap, crash, fail    *)
(* and put back the marker they had read, every row up to the stored       *)
(* cursor has been applied, and a job that reads completed has applied     *)
(* all its rows, since the last forced restart.  The exception is a forced *)
(* restart while another run is in flight: that run's next checkpoint      *)
(* brings the old cursor back (checkpoint and the mark* operations).       *)
(***************************************************************************)
Applied(cursor) == initialCursor + 1 .. cursor \subseteq doneRows

ResumeSkipsNothing ==
    restartedAmidRuns \/
      /\ Applied(progress.cursor)
      /\ progress.status = "completed" => Applied(LastRow)

=============================================================================
