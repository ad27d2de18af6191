----------------------------- MODULE Reconciler -----------------------------
(***************************************************************************)
(* SettlementReconciler.run() (src/jobs/settlementReconciler.ts): runs     *)
(* that may overlap, over one table of findings with one row per           *)
(* settlement and type.  A run records findings without a run_id, then     *)
(* inserts its summary, then links the findings it recorded, if they are   *)
(* still the ones it wrote.                                                *)
(*                                                                         *)
(* created_at has microseconds and the Date the driver returns for it has  *)
(* milliseconds, so that the comparison created_at = $3 of the link is     *)
(* true only for a finding written on a whole millisecond (exact).         *)
(***************************************************************************)
EXTENDS Naturals, FiniteSets

CONSTANTS
    Row,               \* rows of settlements the runs select
    ReconcileRun,      \* the runs
    NoRun,             \* run_id IS NULL
    MaxQueryFaults     \* bound on failing statements

VARIABLES
    finding,      \* finding[s][t]: the row of settlement_reconciliation_findings
    place,        \* place[r]: where run r is
    unread,       \* unread[r]: selected rows the loop has not come to
    mine,         \* mine[r]: the findings run r holds the id and created_at of
    discrepancies,\* discrepancies[r], a local variable and then a column
    summary,      \* runs whose summary row exists
    errors,       \* errors[r]
    clock,        \* number of findings written, to tell versions apart
    queryFaults

reconcilerVars ==
    <<finding, place, unread, mine, discrepancies, summary, errors, clock, queryFaults>>

FindingType == {"missing_on_chain", "state_mismatch"}
Absent == [version |-> 0, exact |-> TRUE, runId |-> NoRun, by |-> NoRun]

\* by is not a column: it remembers the run that wrote the version.
ReconcilerTypeOK ==
    /\ finding \in [Row -> [FindingType ->
          [version : Nat, exact : BOOLEAN, runId : ReconcileRun \cup {NoRun},
           by : ReconcileRun \cup {NoRun}]]]
    /\ place \in [ReconcileRun -> {"idle", "loop", "persist", "link", "done"}]
    /\ unread \in [ReconcileRun -> SUBSET Row]
    /\ mine \in [ReconcileRun -> SUBSET (Row \X FindingType \X Nat \X BOOLEAN)]
    /\ discrepancies \in [ReconcileRun -> Nat] /\ errors \in [ReconcileRun -> Nat]
    /\ summary \subseteq ReconcileRun /\ clock \in Nat /\ queryFaults \in Nat

ReconcilerInit ==
    /\ finding = [s \in Row |-> [t \in FindingType |-> Absent]]
    /\ place = [r \in ReconcileRun |-> "idle"]
    /\ unread = [r \in ReconcileRun |-> {}]
    /\ mine = [r \in ReconcileRun |-> {}]
    /\ discrepancies = [r \in ReconcileRun |-> 0]
    /\ errors = [r \in ReconcileRun |-> 0]
    /\ summary = {} /\ clock = 0 /\ queryFaults = 0

GoOn(r, where) == place' = [place EXCEPT ![r] = where]
CountError(r) == errors' = [errors EXCEPT ![r] = @ + 1]
QueryFails == queryFaults < MaxQueryFaults /\ queryFaults' = queryFaults + 1

\* The SELECT of the window.  Rows without a hash and recent pending ones
\* are skipped, so that S are the rows the loop checks.
selectWindow(r, S) ==
    /\ place[r] = "idle"
    /\ \/ /\ GoOn(r, "loop") /\ unread' = [unread EXCEPT ![r] = S]
          /\ UNCHANGED <<errors, queryFaults>>
       \/ QueryFails /\ CountError(r) /\ GoOn(r, "persist") /\ UNCHANGED unread
    /\ UNCHANGED <<finding, mine, discrepancies, summary, clock>>

\* Mutant: a finding that is replaced keeps its run_id.
replaceFinding(s, t, r, exact) ==
    [finding EXCEPT ![s][t] =
        [version |-> clock + 1, exact |-> exact, runId |-> finding[s][t].runId, by |-> r]]

\* recordFinding's INSERT ... ON CONFLICT DO UPDATE.
recordFinding(s, t, r, exact) ==
    [finding EXCEPT ![s][t] =
        [version |-> clock + 1, exact |-> exact, runId |-> NoRun, by |-> r]]

\* One turn of the loop: Horizon agrees with the row, cannot be reached, or
\* shows a discrepancy, which is recorded; if the write fails, it may have
\* taken effect, and the run has no id of the finding.
checkRow(r, s) ==
    /\ place[r] = "loop" /\ s \in unread[r]
    /\ unread' = [unread EXCEPT ![r] = @ \ {s}]
    /\ \/ UNCHANGED <<finding, mine, discrepancies, clock, errors, queryFaults>>
       \/ /\ QueryFails /\ CountError(r) /\ UNCHANGED mine
          /\ \/ UNCHANGED <<finding, discrepancies, clock>>
             \/ /\ discrepancies' = [discrepancies EXCEPT ![r] = @ + 1]
                /\ \/ UNCHANGED <<finding, clock>>
                   \/ \E t \in FindingType : finding' = recordFinding(s, t, r, TRUE) /\ clock' = clock + 1
       \/ \E t \in FindingType, exact \in BOOLEAN :
          /\ discrepancies' = [discrepancies EXCEPT ![r] = @ + 1]
          /\ finding' = recordFinding(s, t, r, exact)
          /\ mine' = [mine EXCEPT ![r] = @ \cup {<<s, t, clock + 1, exact>>}]
          /\ clock' = clock + 1
          /\ UNCHANGED <<errors, queryFaults>>
    /\ UNCHANGED <<place, summary>>

\* persistRunSummary, with the counts of the loop.
persistRunSummary(r) ==
    /\ place[r] = "persist" \/ (place[r] = "loop" /\ unread[r] = {})
    /\ \/ /\ summary' = summary \cup {r} /\ UNCHANGED queryFaults
          /\ GoOn(r, IF mine[r] = {} THEN "done" ELSE "link")
       \/ QueryFails /\ GoOn(r, "done") /\ summary' \in {summary, summary \cup {r}}
    /\ UNCHANGED <<finding, unread, mine, discrepancies, errors, clock>>

\* Mutant: a finding is linked by its id alone.
linkById(f) == TRUE

\* WHERE id = $2 AND created_at = $3 AND run_id IS NULL
linkMatches(f) ==
    /\ finding[f[1]][f[2]].version = f[3] /\ f[4]
    /\ finding[f[1]][f[2]].runId = NoRun

linked(r, f) ==
    IF linkMatches(f) THEN [finding EXCEPT ![f[1]][f[2]].runId = r] ELSE finding

\* One UPDATE of linkFindingsToRun; that it matched nothing goes unnoticed.
linkFinding(r, f) ==
    /\ place[r] = "link" /\ f \in mine[r]
    /\ mine' = [mine EXCEPT ![r] = @ \ {f}]
    /\ \/ finding' = linked(r, f) /\ UNCHANGED <<errors, queryFaults>>
       \/ QueryFails /\ CountError(r) /\ finding' \in {finding, linked(r, f)}
    /\ IF mine'[r] = {} THEN GoOn(r, "done") ELSE UNCHANGED place
    /\ UNCHANGED <<unread, discrepancies, summary, clock>>

ReconcilerNext ==
    \E r \in ReconcileRun :
        \/ \E S \in SUBSET Row : selectWindow(r, S)
        \/ \E s \in Row : checkRow(r, s)
        \/ persistRunSummary(r)
        \/ \E f \in mine[r] : linkFinding(r, f)

ReconcilerSpec == ReconcilerInit /\ [][ReconcilerNext]_reconcilerVars

(***************************************************************************)
(* "Only link the version written by this run; never claim another run's   *)
(* observation" (settlementReconciler.ts:215): however runs overlap and    *)
(* replace each other's findings, the run_id of a finding is the run that  *)
(* wrote what the finding says.                                            *)
(***************************************************************************)
LinkedToItsRun ==
    \A s \in Row, t \in FindingType :
        finding[s][t].runId # NoRun => finding[s][t].by = finding[s][t].runId

=============================================================================
