---------------------------- MODULE Settlements ----------------------------
(***************************************************************************)
(* The settlements table, one row per transaction hash, and its writers:   *)
(* BatchPayoutProcessor (src/jobs/batchPayoutProcessor.ts) and             *)
(* SettlementService.upsertSettlementStatus (src/services/                 *)
(* settlementService.ts), with the shadow write of src/services/           *)
(* shadowWrite.ts.  A call stops at every await, so that calls overlap; a  *)
(* store call may throw before or after its statement took effect, and the *)
(* process may crash.                                                      *)
(*                                                                         *)
(* upsertSettlementStatus ends in an error in every case: the cache        *)
(* helpers it calls after the write (settlementService.ts:122) are not     *)
(* imported.  What it writes before that stays.                            *)
(***************************************************************************)
EXTENDS Naturals, Sequences

CONSTANTS
    Hash,           \* transaction hashes
    PayoutCaller,   \* calls that can be in progress at once
    ShadowWrite,    \* shadowWriteMode and newPipeline
    MaxTouches,     \* bound: how many calls name one hash
    MaxPayoutFaults \* bound on failing store calls and crashes

ASSUME PayoutBounds ==
    ShadowWrite \in BOOLEAN /\ MaxTouches \in Nat /\ MaxPayoutFaults \in Nat

VARIABLES
    settlement,   \* settlement[h]: status of the row, "absent" without one
    paid,         \* paid[h]: how often the executor has paid h
    payoutCall,   \* payoutCall[c]: where call c is
    touches,      \* touches[h]: calls that named h so far
    vouched,      \* hashes the service was asked to write as settled
    payoutFaults  \* failing store calls and crashes so far

settlementVars == <<settlement, paid, payoutCall, touches, vouched, payoutFaults>>

SettlementStatus == {"pending", "settled", "failed"}

\* items: what is left of the batch, its head in work; for the service the
\* one hash.  status: what the service will write; seen: the status it has
\* checked that against, if it has.
IdleCall == [step |-> "idle", items |-> <<>>, status |-> "pending", seen |-> "unread"]

\* A call in progress has an item in work, one of the hashes, and the counters
\* count.
SettlementTypeOK ==
    /\ settlement \in [Hash -> SettlementStatus \cup {"absent"}]
    /\ paid \in [Hash -> Nat] /\ touches \in [Hash -> Nat]
    /\ vouched \subseteq Hash /\ payoutFaults \in Nat
    /\ payoutCall \in
          [PayoutCaller -> [step : {"idle", "record", "execute", "fail", "settle",
                                    "look", "write", "shadow"},
                            items : Seq(Hash), status : SettlementStatus,
                            seen : SettlementStatus \cup {"absent", "unread"}]]
    /\ \A c \in PayoutCaller :
          payoutCall[c].step # "idle" => payoutCall[c].items # <<>>

SettlementInit ==
    /\ settlement = [h \in Hash |-> "absent"]
    /\ paid = [h \in Hash |-> 0]
    /\ payoutCall = [c \in PayoutCaller |-> IdleCall]
    /\ touches = [h \in Hash |-> 0]
    /\ vouched = {} /\ payoutFaults = 0

\* SettlementsRepository.upsert of h with status s, or its failure, in which
\* the statement may have taken effect all the same.
upsert(h, s) ==
    /\ settlement' = [settlement EXCEPT ![h] = s]
    /\ UNCHANGED payoutFaults

upsertFails(h, s) ==
    /\ payoutFaults < MaxPayoutFaults
    /\ payoutFaults' = payoutFaults + 1
    /\ settlement' \in {settlement, [settlement EXCEPT ![h] = s]}

At(c, step) == payoutCall[c].step = step
Item(c) == Head(payoutCall[c].items)
GoTo(c, step) == payoutCall' = [payoutCall EXCEPT ![c].step = step]
Return(c) == payoutCall' = [payoutCall EXCEPT ![c] = IdleCall]

\* The loop of process(): the next item, or the summary.
NextItem(c) ==
    LET rest == Tail(payoutCall[c].items)
    IN  IF rest = <<>> THEN Return(c)
        ELSE payoutCall' = [payoutCall EXCEPT ![c].step = "record", ![c].items = rest]

\* validatePayload: no hash twice in one batch.
validatePayload(items) ==
    \A i, j \in DOMAIN items : items[i] = items[j] => i = j

\* process(items); a payload that is not valid is refused as a whole.
process(c, items) ==
    /\ At(c, "idle")
    /\ items # <<>> /\ validatePayload(items)
    /\ \A i \in DOMAIN items : touches[items[i]] < MaxTouches
    /\ touches' = [h \in Hash |-> IF \E i \in DOMAIN items : items[i] = h
                                  THEN touches[h] + 1 ELSE touches[h]]
    /\ payoutCall' = [payoutCall EXCEPT ![c].step = "record", ![c].items = items]
    /\ UNCHANGED <<settlement, paid, vouched, payoutFaults>>

\* Mutant: a row that failed before is executed again.
executeUnlessSettled(c) ==
    /\ At(c, "record")
    /\ \/ /\ upsert(Item(c), "pending")
          /\ IF settlement[Item(c)] = "settled" THEN NextItem(c) ELSE GoTo(c, "execute")
       \/ upsertFails(Item(c), "pending") /\ NextItem(c)
    /\ UNCHANGED <<paid, touches, vouched>>

\* Step 1 of processItem: isDuplicate tells that the row existed.
recordPending(c) ==
    /\ At(c, "record")
    /\ \/ /\ upsert(Item(c), "pending")
          /\ IF settlement[Item(c)] # "absent" THEN NextItem(c) ELSE GoTo(c, "execute")
       \/ upsertFails(Item(c), "pending") /\ NextItem(c)
    /\ UNCHANGED <<paid, touches, vouched>>

\* Step 2: the executor pays, or throws without having paid.
executePayout(c) ==
    /\ At(c, "execute")
    /\ \/ paid' = [paid EXCEPT ![Item(c)] = @ + 1] /\ GoTo(c, "settle")
       \/ UNCHANGED paid /\ GoTo(c, "fail")
    /\ UNCHANGED <<settlement, touches, vouched, payoutFaults>>

\* Mutant: both outcomes are recorded as settled.
markSettled(c) ==
    /\ At(c, "fail") \/ At(c, "settle")
    /\ upsert(Item(c), "settled") \/ upsertFails(Item(c), "settled")
    /\ NextItem(c)
    /\ UNCHANGED <<paid, touches, vouched>>

\* The write that follows the execution: best effort in both cases.
markOutcome(c) ==
    /\ \/ At(c, "fail") /\ (upsert(Item(c), "failed") \/ upsertFails(Item(c), "failed"))
       \/ At(c, "settle") /\ (upsert(Item(c), "settled") \/ upsertFails(Item(c), "settled"))
    /\ NextItem(c)
    /\ UNCHANGED <<paid, touches, vouched>>

\* upsertSettlementStatus; without a status nothing is looked up and the
\* repository writes 'pending'.
upsertSettlementStatus(c, h, asked) ==
    /\ At(c, "idle") /\ touches[h] < MaxTouches
    /\ touches' = [touches EXCEPT ![h] = @ + 1]
    /\ payoutCall' = [payoutCall EXCEPT ![c] =
          [step |-> IF asked = "unset" THEN "write" ELSE "look", items |-> <<h>>,
           status |-> IF asked = "unset" THEN "pending" ELSE asked, seen |-> "unread"]]
    /\ vouched' = IF asked = "settled" THEN vouched \cup {h} ELSE vouched
    /\ UNCHANGED <<settlement, paid, payoutFaults>>

SETTLEMENT_TRANSITIONS ==
    {<<"pending", "settled">>, <<"pending", "failed">>, <<"failed", "pending">>}

validateSettlementTransition(from, to) == <<from, to>> \in SETTLEMENT_TRANSITIONS

\* findByTransactionHash and the check against what it returned.
lookUp(c) ==
    LET existing == settlement[Item(c)]
        target == payoutCall[c].status
    IN  /\ At(c, "look")
        /\ IF \/ existing # "absent" /\ validateSettlementTransition(existing, target)
              \/ existing = "absent" /\ target \in {"pending", "failed"}
           THEN payoutCall' = [payoutCall EXCEPT ![c].step = "write", ![c].seen = existing]
           ELSE Return(c)
        /\ UNCHANGED <<settlement, paid, touches, vouched, payoutFaults>>

\* The unconditional upsert, or with executeShadowWrite two of them: both
\* run, and the call goes on only when both have ended.
writeStatus(c) ==
    /\ At(c, "write") \/ At(c, "shadow")
    /\ \/ upsert(Item(c), payoutCall[c].status)
       \/ upsertFails(Item(c), payoutCall[c].status)
    /\ IF ShadowWrite /\ At(c, "write") THEN GoTo(c, "shadow") ELSE Return(c)
    /\ UNCHANGED <<paid, touches, vouched>>

\* The process of the call ends.
callCrashes(c) ==
    /\ ~At(c, "idle") /\ payoutFaults < MaxPayoutFaults
    /\ payoutFaults' = payoutFaults + 1
    /\ Return(c)
    /\ UNCHANGED <<settlement, paid, touches, vouched>>

SettlementNext ==
    \E c \in PayoutCaller :
        \/ \E h, g \in Hash : process(c, <<h>>) \/ process(c, <<h, g>>)
        \/ recordPending(c) \/ executePayout(c) \/ markOutcome(c)
        \/ \E h \in Hash, s \in SettlementStatus \cup {"unset"} :
              upsertSettlementStatus(c, h, s)
        \/ lookUp(c) \/ writeStatus(c) \/ callCrashes(c)

SettlementSpec == SettlementInit /\ [][SettlementNext]_settlementVars

\* Where h stands as a payout.
PayoutStage(h) ==
    IF paid[h] > 0 THEN "paid"
    ELSE IF settlement[h] = "absent" THEN "new"
    ELSE IF \E c \in PayoutCaller : At(c, "execute") /\ Item(c) = h THEN "claimed"
    ELSE "dropped"

Claims == INSTANCE PayoutClaims WITH stage <- [h \in Hash |-> PayoutStage(h)]

(***************************************************************************)
(* However batches repeat, overlap each other and the payout route, fail   *)
(* in the middle or crash, the processor implements PayoutClaims: it pays  *)
(* a hash at most once, only after its own insert of the row, and a payout *)
(* whose first attempt failed is never paid by a repeated batch, which     *)
(* finds the row and skips it (batchPayoutProcessor.ts:201).               *)
(***************************************************************************)
PaysAsClaimed == Claims!ClaimsSpec

(***************************************************************************)
(* A row says settled only if the payout was paid, or if the payout route  *)
(* was told so by its caller.                                              *)
(***************************************************************************)
SettledIsBacked ==
    \A h \in Hash : settlement[h] = "settled" => paid[h] = 1 \/ h \in vouched

=============================================================================
