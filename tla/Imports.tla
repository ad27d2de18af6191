------------------------------- MODULE Imports -------------------------------
(***************************************************************************)
(* Requests that commit an import under one idempotency key of one tenant: *)
(* commitImportFile() of src/services/imports/commit.ts, with the process- *)
(* local checkpoints and lock of InMemoryImportCheckpointStore and rows    *)
(* that are upserted one at a time.  An upsert may fail, before or after   *)
(* the database has applied it, and the process may restart.  The files    *)
(* are valid: dryRunImportFile() returned before the lock is asked for.    *)
(***************************************************************************)
EXTENDS Naturals, Sequences

CONSTANTS
    Request,          \* concurrent requests, each of which may be made again
    File,             \* a file with its column mapping, the fingerprint
    NoFile,
    RowCount,         \* rows of every file
    MaxImports,       \* bound on requests
    MaxImportFaults   \* bound on failed upserts and restarts together

VARIABLES
    saved,         \* the checkpoint of the key: the fingerprint, the rows whose
                   \* outcome is accepted, and completed
    lockQueue,     \* withLock(): the requests in turn, its head at work
    request,       \* request[q]: its file, the row it is at and the rows it
                   \* found or made retryable
    upserts,       \* upserts[f][n]: how often row n of f was applied
    importsBegun, importRestarts, importFaults

importVars == <<saved, lockQueue, request, upserts, importsBegun, importRestarts, importFaults>>

ASSUME ImportAssumption ==
    NoFile \notin File /\ RowCount \in Nat \ {0} /\ MaxImports \in Nat /\ MaxImportFaults \in Nat

Row == 1..RowCount
NoCheckpoint == [file |-> NoFile, acceptedRows |-> {}, completed |-> FALSE]
IdleRequest == [at |-> "idle", file |-> NoFile, row |-> 0, retryable |-> {}]

ImportInit ==
    /\ saved = NoCheckpoint /\ lockQueue = <<>> /\ request = [q \in Request |-> IdleRequest]
    /\ upserts = [f \in File |-> [n \in Row |-> 0]]
    /\ importsBegun = 0 /\ importRestarts = 0 /\ importFaults = 0

commitImportFile(q) ==
    /\ request[q].at = "idle" /\ importsBegun < MaxImports
    /\ \E f \in File :
          request' = [request EXCEPT ![q] = [at |-> "queued", file |-> f, row |-> 0, retryable |-> {}]]
    /\ lockQueue' = Append(lockQueue, q)
    /\ importsBegun' = importsBegun + 1
    /\ UNCHANGED <<saved, upserts, importRestarts, importFaults>>

\* Mutant: nobody waits for a turn.
anyTurn(q) == TRUE

\* "await previous"
hasTurn(q) == Head(lockQueue) = q

\* release() by the one whose turn it is: the next in line goes on.
passedOn == Tail(lockQueue)

\* execute() up to its first row: a checkpoint of another fingerprint is
\* answered by 409.
executeCommit(q) ==
    /\ request[q].at = "queued" /\ hasTurn(q)
    /\ IF saved.file \in File \ {request[q].file}
       THEN /\ request' = [request EXCEPT ![q] = IdleRequest]
            /\ lockQueue' = passedOn
            /\ UNCHANGED saved
       ELSE /\ saved' = IF saved.file = NoFile THEN [NoCheckpoint EXCEPT !.file = request[q].file] ELSE saved
            /\ request' = [request EXCEPT ![q].at = "rows", ![q].row = 1]
            /\ UNCHANGED lockQueue
    /\ UNCHANGED <<upserts, importsBegun, importRestarts, importFaults>>

\* A row that was accepted before.
skipAccepted(q) ==
    /\ request[q].at = "rows" /\ request[q].row \in saved.acceptedRows
    /\ request' = [request EXCEPT ![q].row = @ + 1]
    /\ UNCHANGED <<saved, lockQueue, upserts, importsBegun, importRestarts, importFaults>>

applied(q) == [upserts EXCEPT ![request[q].file][request[q].row] = @ + 1]

\* The request has sent the statement: whether to do so was decided from the
\* outcomes before it.
sendUpsert(q) ==
    /\ request[q].at = "rows" /\ request[q].row \in Row \ saved.acceptedRows
    /\ request' = [request EXCEPT ![q].at = "upsert"]
    /\ UNCHANGED <<saved, lockQueue, upserts, importsBegun, importRestarts, importFaults>>

upsertRow(q) ==
    /\ request[q].at = "upsert"
    /\ upserts' = applied(q)
    /\ saved' = [saved EXCEPT !.acceptedRows = @ \cup {request[q].row}]
    /\ request' = [request EXCEPT ![q].at = "rows", ![q].row = @ + 1]
    /\ UNCHANGED <<lockQueue, importsBegun, importRestarts, importFaults>>

\* The catch block: the row becomes retryable, applied or not.
upsertFails(q) ==
    /\ request[q].at = "upsert" /\ importFaults < MaxImportFaults
    /\ upserts' \in {upserts, applied(q)}
    /\ saved' = [saved EXCEPT !.acceptedRows = @ \ {request[q].row}]
    /\ request' = [request EXCEPT ![q].at = "rows", ![q].row = @ + 1, ![q].retryable = @ \cup {request[q].row}]
    /\ importFaults' = importFaults + 1
    /\ UNCHANGED <<lockQueue, importsBegun, importRestarts>>

\* The end of execute() and of withLock().
answer(q) ==
    /\ request[q].at = "rows" /\ request[q].row > RowCount
    /\ saved' = [saved EXCEPT !.completed = (request[q].retryable = {})]
    /\ request' = [request EXCEPT ![q] = IdleRequest]
    /\ lockQueue' = passedOn
    /\ UNCHANGED <<upserts, importsBegun, importRestarts, importFaults>>

\* The process restarts: checkpoints, locks and requests are gone, and a
\* statement on its way may still be applied.
processRestarts ==
    /\ importFaults < MaxImportFaults
    /\ upserts' \in {upserts} \cup {applied(q) : q \in {p \in Request : request[p].at = "upsert"}}
    /\ saved' = NoCheckpoint /\ lockQueue' = <<>> /\ request' = [q \in Request |-> IdleRequest]
    /\ importRestarts' = importRestarts + 1 /\ importFaults' = importFaults + 1
    /\ UNCHANGED importsBegun

ImportNext ==
    \/ processRestarts
    \/ \E q \in Request :
          \/ commitImportFile(q) \/ executeCommit(q) \/ skipAccepted(q) \/ sendUpsert(q)
          \/ upsertRow(q) \/ upsertFails(q) \/ answer(q)

ImportSpec == ImportInit /\ [][ImportNext]_importVars

(***************************************************************************)
(* However often an import is retried under its key, a row is applied once *)
(* and once more at most for each fault; without a restart the rows of one *)
(* file only; and an import that reads completed has applied all its rows  *)
(* (execute() under withLock()).                                           *)
(***************************************************************************)
RowsImportedOnce ==
    /\ \A f \in File, n \in Row : upserts[f][n] <= 1 + importFaults
    /\ importRestarts = 0 =>
          \A f, g \in File : f # g => \A m, n \in Row : upserts[f][m] = 0 \/ upserts[g][n] = 0
    /\ saved.completed => \A n \in Row : upserts[saved.file][n] > 0

=============================================================================
