----------------------------- MODULE AuditChain -----------------------------
(***************************************************************************)
(* The hash chain of audit_logs: append() and appendBatch() of             *)
(* PostgresAuditLogsRepository, purgeExpired(), and AuditChainVerifier     *)
(* (jobs/auditChainVerifier.ts).  Hashes do not collide: the row_hash of a *)
(* row is named by the seq of the row, and prev_hash by the seq of the row *)
(* it was copied from.                                                     *)
(***************************************************************************)
EXTENDS Integers, FiniteSets, Sequences

CONSTANTS
    Writer,             \* calls of append() and appendBatch() at a time
    NoWriter,
    MaxRowsWritten,     \* bound: values drawn from audit_logs_seq
    VerifyBatchSize,    \* batchSize of the verifier
    MaxViolations,      \* maxViolations
    MaxAuditFaults      \* bound: statements that fail

ASSUME AuditBounds == VerifyBatchSize \in Nat \ {0} /\ MaxViolations \in Nat \ {0}

VARIABLES
    rows,               \* audit_logs: records with seq and prev
    lastSeq,            \* last value of audit_logs_seq
    appendLock,         \* holder of audit_logs_append_lock
    writer,             \* state of each call
    verifier,           \* state of the verifier
    violations,         \* what the current or last run reported
    appendsOverlapped,  \* history: a statement began while another was open
    purged,             \* history: rows were purged
    auditFaults

auditVars == <<rows, lastSeq, appendLock, writer, verifier, violations, appendsOverlapped, purged, auditFaults>>

Null == 0
Genesis == -1           \* the text 'GENESIS' where append() has NULL

IdleWriter == [at |-> "idle", prev |-> Null, seqs |-> << >>, count |-> 0]
IdleVerifier == [at |-> "idle", todo |-> << >>, lastSeq |-> 0, prevRowHash |-> Null, prevSeq |-> Null]

AuditInit ==
    /\ rows = {} /\ lastSeq = 0 /\ appendLock = NoWriter
    /\ writer = [w \in Writer |-> IdleWriter]
    /\ verifier = IdleVerifier
    /\ violations = << >>
    /\ appendsOverlapped = FALSE /\ purged = FALSE /\ auditFaults = 0

-----------------------------------------------------------------------------
\* Mutant: ORDER BY seq ASC
oldest == IF rows = {} THEN Null ELSE CHOOSE n \in {r.seq : r \in rows} : \A r \in rows : n <= r.seq

\* SELECT row_hash FROM audit_logs ORDER BY seq DESC LIMIT 1
latest == IF rows = {} THEN Null ELSE CHOOSE n \in {r.seq : r \in rows} : \A r \in rows : r.seq <= n

\* The first prev_hash of a statement, in its snapshot, which is taken before
\* the statement waits for the lock.
firstPrev(count) == IF count > 1 /\ latest = Null THEN Genesis ELSE latest

\* One row by append(), which takes the lock, or several by appendBatch().
begin(w, count) ==
    /\ writer[w].at = "idle" /\ lastSeq + count <= MaxRowsWritten
    /\ writer' = [writer EXCEPT ![w] = [at |-> "nextval", prev |-> firstPrev(count), seqs |-> << >>, count |-> count]]
    /\ appendsOverlapped' = (appendsOverlapped \/ \E v \in Writer : writer[v].at # "idle")
    /\ UNCHANGED <<rows, lastSeq, appendLock, verifier, violations, purged, auditFaults>>

nextval(w) ==
    /\ writer[w].at = "nextval"
    /\ lastSeq' = lastSeq + 1
    /\ LET seqs == Append(writer[w].seqs, lastSeq + 1)
           next == IF Len(seqs) < writer[w].count THEN "nextval" ELSE IF writer[w].count = 1 THEN "lock" ELSE "insert"
       IN  writer' = [writer EXCEPT ![w].seqs = seqs, ![w].at = next]
    /\ UNCHANGED <<rows, appendLock, verifier, violations, appendsOverlapped, purged, auditFaults>>

\* pg_advisory_xact_lock(hashtext('audit_logs_append_lock'))
lock(w) ==
    /\ writer[w].at = "lock" /\ appendLock = NoWriter
    /\ appendLock' = w
    /\ writer' = [writer EXCEPT ![w].at = "insert"]
    /\ UNCHANGED <<rows, lastSeq, verifier, violations, appendsOverlapped, purged, auditFaults>>

endStatement(w) ==
    /\ appendLock' = IF appendLock = w THEN NoWriter ELSE appendLock
    /\ writer' = [writer EXCEPT ![w] = IdleWriter]

\* The rows become visible when the statement ends; each one of a batch after
\* the first is linked to the one before it.
insertRows(w) ==
    LET s == writer[w].seqs
    IN  /\ writer[w].at = "insert"
        /\ rows' = rows \cup {[seq |-> s[i], prev |-> IF i = 1 THEN writer[w].prev ELSE s[i - 1]] : i \in DOMAIN s}
        /\ endStatement(w)
        /\ UNCHANGED <<lastSeq, verifier, violations, appendsOverlapped, purged, auditFaults>>

\* A statement that fails has used up the values it drew.
statementFails(w) ==
    /\ writer[w].at # "idle" /\ auditFaults < MaxAuditFaults
    /\ endStatement(w)
    /\ auditFaults' = auditFaults + 1
    /\ UNCHANGED <<rows, lastSeq, verifier, violations, appendsOverlapped, purged>>

\* One DELETE of purgeExpired(), for all tenants or for one: the rows that have
\* expired, a batch of them, or those of the tenant.
purgeExpired ==
    /\ ~purged
    /\ \E S \in SUBSET rows : S # {} /\ rows' = rows \ S
    /\ purged' = TRUE
    /\ UNCHANGED <<lastSeq, appendLock, writer, verifier, violations, appendsOverlapped, auditFaults>>

-----------------------------------------------------------------------------
verify ==
    /\ verifier.at = "idle"
    /\ verifier' = [IdleVerifier EXCEPT !.at = "fetch"]
    /\ violations' = << >>
    /\ UNCHANGED <<rows, lastSeq, appendLock, writer, appendsOverlapped, purged, auditFaults>>

\* WHERE seq > n ORDER BY seq LIMIT VerifyBatchSize
rowsAfter(n, batch) ==
    /\ \A i \in DOMAIN batch : batch[i].seq > n /\ \A j \in DOMAIN batch : i < j => batch[i].seq < batch[j].seq
    /\ \A r \in rows : r.seq > n =>
          \/ \E i \in DOMAIN batch : batch[i] = r
          \/ /\ Len(batch) = VerifyBatchSize
             /\ \A i \in DOMAIN batch : batch[i].seq <= r.seq

fetchBatch ==
    /\ verifier.at = "fetch"
    /\ \E size \in 0..VerifyBatchSize : \E batch \in [1..size -> rows] :
          /\ rowsAfter(verifier.lastSeq, batch)
          /\ verifier' = IF size = 0 THEN IdleVerifier
                         ELSE [verifier EXCEPT !.at = IF size < VerifyBatchSize THEN "lastRows" ELSE "rows",
                                               !.todo = batch]
    /\ UNCHANGED <<rows, lastSeq, appendLock, writer, violations, appendsOverlapped, purged, auditFaults>>

\* The driver returns BIGINT as text: prevSeq + 1 appends the digit 1.
textPlusOne(n) == 10 * n + 1

\* What a row is reported for, in order.  append() hashes NOW()::text, the
\* verifier occurred_at.toISOString(): no row has the hash it computes.
findings(row) ==
    LET gap == verifier.prevSeq # Null /\ row.seq # textPlusOne(verifier.prevSeq)
        mismatch == row.prev # verifier.prevRowHash
    IN  (IF gap THEN <<[seq |-> row.seq, type |-> "deleted_row"]>> ELSE << >>)
        \o (IF mismatch THEN <<[seq |-> row.seq, type |-> "prev_hash_mismatch"]>> ELSE << >>)
        \o <<[seq |-> row.seq, type |-> "row_hash_mismatch"]>>

\* One row of the batch; the run ends with violation number MaxViolations.
checkRow ==
    LET row == Head(verifier.todo)
        rest == Tail(verifier.todo)
        all == violations \o findings(row)
    IN  /\ verifier.at \in {"rows", "lastRows"}
        /\ IF Len(all) >= MaxViolations
           THEN /\ verifier' = IdleVerifier
                /\ violations' = SubSeq(all, 1, MaxViolations)
           ELSE /\ verifier' = [at |-> IF rest # << >> THEN verifier.at
                                       ELSE IF verifier.at = "rows" THEN "fetch" ELSE "idle",
                                todo |-> rest, lastSeq |-> row.seq, prevRowHash |-> row.seq, prevSeq |-> row.seq]
                /\ violations' = all
        /\ UNCHANGED <<rows, lastSeq, appendLock, writer, appendsOverlapped, purged, auditFaults>>

\* The query rejects: verify() throws, and nothing is reported.
fetchFails ==
    /\ verifier.at = "fetch"
    /\ verifier' = IdleVerifier
    /\ violations' = << >>
    /\ UNCHANGED <<rows, lastSeq, appendLock, writer, appendsOverlapped, purged, auditFaults>>

AuditNext ==
    \/ \E w \in Writer :
          \/ \E count \in 1..2 : begin(w, count)
          \/ nextval(w) \/ lock(w) \/ insertRows(w) \/ statementFails(w)
    \/ purgeExpired \/ verify \/ fetchBatch \/ fetchFails \/ checkRow

AuditSpec == AuditInit /\ [][AuditNext]_auditVars

-----------------------------------------------------------------------------
\* The row before r in the order of seq, as prev_hash should name it.
before(r) ==
    LET earlier == {q.seq : q \in {q \in rows : q.seq < r.seq}}
    IN  IF earlier = {} THEN Null ELSE CHOOSE n \in earlier : \A m \in earlier : m <= n

(***************************************************************************)
(* "The CTE-based insert atomically reads the previous hash and inserts    *)
(* the new row, ensuring the chain is always consistent"                   *)
(* (docs/audit-log.md, Concurrency): until rows are purged, the prev_hash  *)
(* that append() and appendBatch() store is the row_hash of the row before.*)
(***************************************************************************)
ChainLinked ==
    ~purged => \A r \in rows : r.prev = before(r) \/ (r.prev = Genesis /\ before(r) = Null)

(***************************************************************************)
(* Rows written by one statement after another form one chain, and the     *)
(* verifier, reading them in batches between the statements, reports no    *)
(* broken link, also where a statement failed and left a gap: as long as no*)
(* two statements overlapped, no row was purged and the table was not      *)
(* started by appendBatch(), whose first prev_hash is the text 'GENESIS'.  *)
(***************************************************************************)
SerialChainVerifies ==
    ~appendsOverlapped /\ ~purged /\ (\A r \in rows : r.prev # Genesis) =>
        /\ ChainLinked
        /\ \A i \in DOMAIN violations : violations[i].type # "prev_hash_mismatch"
=============================================================================
