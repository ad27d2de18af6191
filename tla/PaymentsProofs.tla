--------------------------- MODULE PaymentsProofs ---------------------------
(***************************************************************************)
(* Payouts, for any number of hashes, callers and faults: the settlements  *)
(* table and its writers implement PayoutClaims.                           *)
(***************************************************************************)
EXTENDS Settlements, Reconciler, Wallets, TLAPS

Steps == {"idle", "record", "execute", "fail", "settle", "look", "write", "shadow"}

\* c is between its own insert of the row of h and the end of that item.
Claimed(c, h) == payoutCall[c].step \in {"execute", "settle", "fail"} /\ Item(c) = h

(***************************************************************************)
(* A row that does not exist is not paid and in nobody's hands; a hash is  *)
(* about to be paid by one call at most, and was not paid before.          *)
(***************************************************************************)
ClaimsHold ==
    \A h \in Hash :
        /\ settlement[h] = "absent" => paid[h] = 0 /\ \A c \in PayoutCaller : ~Claimed(c, h)
        /\ \A c \in PayoutCaller : Claimed(c, h) =>
              /\ \A d \in PayoutCaller : Claimed(d, h) => c = d
              /\ paid[h] = IF At(c, "settle") THEN 1 ELSE 0

\* What the service is about to write as settled it was asked to.
Vouching ==
    \A c \in PayoutCaller :
        payoutCall[c].step \in {"look", "write", "shadow"} /\ payoutCall[c].status = "settled" =>
            Item(c) \in vouched

SettlementInv == SettlementTypeOK /\ ClaimsHold /\ Vouching /\ SettledIsBacked

\* The item in work is one of the hashes.
LEMMA ItemTyped ==
    ASSUME SettlementTypeOK, NEW c \in PayoutCaller, ~At(c, "idle")
    PROVE  /\ Item(c) \in Hash /\ Tail(payoutCall[c].items) \in Seq(Hash)
           /\ payoutCall[c].status \in SettlementStatus
<1>1. payoutCall[c].items \in Seq(Hash) /\ payoutCall[c].items # <<>> /\ payoutCall[c].status \in SettlementStatus
  BY Zenon DEF SettlementTypeOK, At
<1> QED
  BY <1>1 DEF Item

\* An idle call has the type of a call.
LEMMA IdleTyped ==
    /\ IdleCall \in [step : Steps, items : Seq(Hash), status : SettlementStatus,
                     seen : SettlementStatus \cup {"absent", "unread"}]
    /\ IdleCall.step = "idle"
  BY DEF IdleCall, Steps, SettlementStatus

LEMMA SettlementInvInit == SettlementInit => SettlementInv
<1> SUFFICES ASSUME SettlementInit PROVE SettlementInv
  BY Zenon
<1>1. SettlementTypeOK
  BY IdleTyped, Zenon DEF SettlementInit, SettlementTypeOK, Steps
<1>2. ClaimsHold /\ Vouching /\ SettledIsBacked
  BY IdleTyped, Zenon DEF SettlementInit, ClaimsHold, Vouching, SettledIsBacked, Claimed
<1> QED
  BY <1>1, <1>2, Zenon DEF SettlementInv

CallsTyped ==
    /\ payoutCall \in [PayoutCaller -> [step : Steps, items : Seq(Hash), status : SettlementStatus,
                                        seen : SettlementStatus \cup {"absent", "unread"}]]
    /\ \A c \in PayoutCaller : payoutCall[c].step # "idle" => payoutCall[c].items # <<>>

\* A step of call c that leaves the other calls where they are.
OnlyMoves(c) == CallsTyped' /\ \A d \in PayoutCaller \ {c} : payoutCall'[d] = payoutCall[d]

\* The end of an item leads to the next one or ends the call.
LEMMA NextItemMoves ==
    ASSUME SettlementTypeOK, NEW c \in PayoutCaller, ~At(c, "idle"), NextItem(c)
    PROVE  OnlyMoves(c) /\ payoutCall'[c].step \in {"idle", "record"}
<1>1. CallsTyped
  BY Zenon DEF CallsTyped, SettlementTypeOK, Steps
<1>2. Tail(payoutCall[c].items) \in Seq(Hash)
  BY ItemTyped, Zenon
<1>3. CASE Tail(payoutCall[c].items) = <<>>
  BY <1>1, <1>3, IdleTyped, Zenon DEF NextItem, Return, OnlyMoves, CallsTyped
<1>4. CASE Tail(payoutCall[c].items) # <<>>
  BY <1>1, <1>2, <1>4, SMTT(30) DEF NextItem, OnlyMoves, CallsTyped, Steps
<1> QED
  BY <1>3, <1>4, Zenon

LEMMA ReturnMoves ==
    ASSUME SettlementTypeOK, NEW c \in PayoutCaller, Return(c)
    PROVE  OnlyMoves(c) /\ payoutCall'[c].step = "idle"
<1>1. CallsTyped
  BY Zenon DEF CallsTyped, SettlementTypeOK, Steps
<1> QED
  BY <1>1, IdleTyped, Zenon DEF Return, OnlyMoves, CallsTyped

LEMMA GoToMoves ==
    ASSUME SettlementTypeOK, NEW c \in PayoutCaller, ~At(c, "idle"), NEW step \in Steps, GoTo(c, step)
    PROVE  /\ OnlyMoves(c) /\ payoutCall'[c].step = step
           /\ payoutCall'[c].items = payoutCall[c].items /\ payoutCall'[c].status = payoutCall[c].status
<1>1. CallsTyped
  BY Zenon DEF CallsTyped, SettlementTypeOK, Steps
<1> QED
  BY <1>1, Zenon DEF GoTo, OnlyMoves, CallsTyped, At, Steps

\* The table is left alone, or the row of h is given status s.
Wrote(h, s) == settlement' = settlement \/ settlement' = [settlement EXCEPT ![h] = s]

\* Counters and requests go on.
Counted ==
    /\ touches' \in [Hash -> Nat] /\ payoutFaults' \in Nat
    /\ vouched \subseteq vouched' /\ vouched' \subseteq Hash

(***************************************************************************)
(* A step after which its call has claimed nothing, and which writes       *)
(* settled only for what was paid or vouched for, preserves the invariant. *)
(***************************************************************************)
LEMMA UnclaimedStep ==
    ASSUME SettlementInv, NEW c \in PayoutCaller, OnlyMoves(c),
           payoutCall'[c].step \notin {"execute", "settle", "fail"},
           payoutCall'[c].step \in {"look", "write", "shadow"} /\ payoutCall'[c].status = "settled" =>
               Head(payoutCall'[c].items) \in vouched',
           NEW h \in Hash, NEW s \in SettlementStatus, Wrote(h, s),
           s = "settled" => paid[h] = 1 \/ h \in vouched',
           paid' = paid, Counted
    PROVE  SettlementInv'
<1>1. /\ settlement' \in [Hash -> SettlementStatus \cup {"absent"}]
      /\ \A g \in Hash : /\ settlement'[g] = "absent" => settlement[g] = "absent"
                         /\ settlement'[g] = "settled" =>
                               settlement[g] = "settled" \/ paid[g] = 1 \/ g \in vouched'
  BY Zenon DEF SettlementInv, SettlementTypeOK, Wrote, SettlementStatus
<1>2. SettlementTypeOK'
  BY <1>1, Zenon DEF SettlementInv, SettlementTypeOK, OnlyMoves, CallsTyped, Counted, Steps
<1>3. \A d \in PayoutCaller, g \in Hash : Claimed(d, g)' => Claimed(d, g) /\ payoutCall'[d] = payoutCall[d]
  BY Zenon DEF Claimed, Item, OnlyMoves
<1>4. ClaimsHold'
  BY <1>1, <1>3 DEF SettlementInv, ClaimsHold, At
<1>5. Vouching'
  BY Zenon DEF SettlementInv, Vouching, OnlyMoves, Item, Counted
<1>6. SettledIsBacked'
  BY <1>1, Zenon DEF SettlementInv, SettledIsBacked, Counted
<1> QED
  BY <1>2, <1>4, <1>5, <1>6, Zenon DEF SettlementInv

\* What an upsert, failing or not, does.
LEMMA UpsertWrites ==
    ASSUME NEW h \in Hash, NEW s \in SettlementStatus, payoutFaults \in Nat,
           upsert(h, s) \/ upsertFails(h, s)
    PROVE  Wrote(h, s) /\ payoutFaults' \in Nat
  BY DEF upsert, upsertFails, Wrote

stages == [h \in Hash |-> PayoutStage(h)]

\* Where one hash goes on and the others stay, PayoutClaims moves.
LEMMA StageMoves ==
    ASSUME NEW h \in Hash, NEW to,
           PayoutStage(h)' = to, \A g \in Hash \ {h} : PayoutStage(g)' = PayoutStage(g)
    PROVE  Claims!Move(h, PayoutStage(h), to)
<1>1. stages' = [stages EXCEPT ![h] = to]
  <2> SUFFICES ASSUME NEW g \in Hash PROVE PayoutStage(g)' = IF g = h THEN to ELSE PayoutStage(g)
    BY Zenon DEF stages
  <2> QED
    BY Zenon
<1>2. stages[h] = PayoutStage(h)
  BY Zenon DEF stages
<1> QED
  BY <1>1, <1>2, Zenon DEF Claims!Move, stages

\* Where no hash goes on, PayoutClaims stutters.
LEMMA StagesStay ==
    ASSUME \A g \in Hash : PayoutStage(g)' = PayoutStage(g)
    PROVE  stages' = stages
  BY Zenon DEF stages

\* A hash is about to be paid.
Executing(g) == \E c \in PayoutCaller : At(c, "execute") /\ Item(c) = g

(***************************************************************************)
(* A step of a call that has not been about to pay, and is not afterwards, *)
(* at most drops the hash it writes.                                       *)
(***************************************************************************)
LEMMA UnclaimedSimulates ==
    ASSUME SettlementInv, NEW c \in PayoutCaller, OnlyMoves(c), ~At(c, "execute"), ~At(c, "execute")',
           NEW h \in Hash, NEW s \in SettlementStatus, Wrote(h, s), paid' = paid
    PROVE  Claims!ClaimsNext \/ stages' = stages
<1>1. \A g \in Hash : Executing(g)' <=> Executing(g)
  BY Zenon DEF Executing, At, Item, OnlyMoves
<1>2. \A g \in Hash \ {h} : settlement'[g] = settlement[g]
  BY Zenon DEF Wrote, SettlementInv, SettlementTypeOK
<1>3. \A g \in Hash \ {h} : PayoutStage(g)' = PayoutStage(g)
  BY <1>1, <1>2, Zenon DEF PayoutStage, Executing
<1>4. CASE settlement[h] = "absent" /\ settlement'[h] # "absent"
  <2>1. paid[h] = 0 /\ ~Executing(h)
    BY <1>4, Zenon DEF SettlementInv, ClaimsHold, Claimed, Executing, At
  <2>2. PayoutStage(h) = "new" /\ PayoutStage(h)' = "dropped"
    BY <2>1, <1>1, <1>4 DEF PayoutStage, Executing
  <2>3. Claims!Move(h, "new", "dropped")
    BY <2>2, <1>3, StageMoves, Zenon
  <2> QED
    BY <2>3, Zenon DEF Claims!ClaimsNext, Claims!Drop
<1>5. CASE ~(settlement[h] = "absent" /\ settlement'[h] # "absent")
  <2>1. settlement[h] = "absent" <=> settlement'[h] = "absent"
    BY <1>5, Zenon DEF Wrote, SettlementInv, SettlementTypeOK, SettlementStatus
  <2>2. PayoutStage(h)' = PayoutStage(h)
    BY <2>1, <1>1, Zenon DEF PayoutStage, Executing
  <2> QED
    BY <1>3, <2>2, StagesStay, Zenon
<1> QED
  BY <1>4, <1>5, Zenon

\* What is shown of every step.
Simulates == SettlementInv' /\ (Claims!ClaimsNext \/ stages' = stages)

\* The end of an item whose call is not about to pay.
LEMMA EndsItem ==
    ASSUME SettlementInv, NEW c \in PayoutCaller, ~At(c, "idle"), ~At(c, "execute"), NextItem(c),
           NEW s \in SettlementStatus, upsert(Item(c), s) \/ upsertFails(Item(c), s),
           s = "settled" => paid[Item(c)] = 1, UNCHANGED <<paid, touches, vouched>>
    PROVE  Simulates
<1>1. Item(c) \in Hash
  BY ItemTyped, Zenon DEF SettlementInv
<1>2. OnlyMoves(c) /\ payoutCall'[c].step \in {"idle", "record"}
  BY NextItemMoves, Zenon DEF SettlementInv
<1>3. Wrote(Item(c), s) /\ Counted
  BY <1>1, UpsertWrites, Zenon DEF SettlementInv, SettlementTypeOK, Counted
<1>4. SettlementInv'
  BY <1>1, <1>2, <1>3, UnclaimedStep, Zenon
<1>5. Claims!ClaimsNext \/ stages' = stages
  BY <1>1, <1>2, <1>3, UnclaimedSimulates, Zenon DEF At
<1> QED
  BY <1>4, <1>5, Zenon DEF Simulates

\* The insert of a new row claims its hash.
LEMMA RecordSimulates ==
    ASSUME SettlementInv, NEW c \in PayoutCaller, recordPending(c)
    PROVE  Simulates
<1>1. At(c, "record") /\ ~At(c, "idle") /\ ~At(c, "execute") /\ UNCHANGED <<paid, touches, vouched>>
  BY Zenon DEF recordPending, At
<1>2. "pending" \in SettlementStatus
  BY Zenon DEF SettlementStatus
<1>3. CASE NextItem(c) /\ (upsert(Item(c), "pending") \/ upsertFails(Item(c), "pending"))
  BY <1>1, <1>2, <1>3, EndsItem, Zenon
<1>4. CASE upsert(Item(c), "pending") /\ settlement[Item(c)] = "absent" /\ GoTo(c, "execute")
  <2>1. PICK h \in Hash : h = Item(c)
    BY <1>1, ItemTyped, Zenon DEF SettlementInv
  <2>2. /\ OnlyMoves(c) /\ payoutCall'[c].step = "execute"
        /\ payoutCall'[c].items = payoutCall[c].items
    BY <1>1, <1>4, GoToMoves, Zenon DEF SettlementInv, Steps
  <2>3. Item(c)' = h
    BY <2>1, <2>2, Zenon DEF Item
  <2>4. settlement' = [settlement EXCEPT ![h] = "pending"] /\ payoutFaults' = payoutFaults
    BY <1>4, <2>1, Zenon DEF upsert
  <2>5. paid[h] = 0 /\ \A d \in PayoutCaller : ~Claimed(d, h)
    BY <1>4, <2>1, Zenon DEF SettlementInv, ClaimsHold
  <2>6. SettlementTypeOK'
    BY <1>1, <2>1, <2>2, <2>4, Zenon
    DEF SettlementInv, SettlementTypeOK, OnlyMoves, CallsTyped, Steps, SettlementStatus
  <2>7. \A d \in PayoutCaller, g \in Hash : Claimed(d, g)' <=> (d = c /\ g = h) \/ (Claimed(d, g) /\ g # h)
    BY <1>1, <2>2, <2>3, <2>5 DEF Claimed, OnlyMoves, Item, At
  <2>8. ClaimsHold'
    BY <1>1, <2>1, <2>2, <2>4, <2>5, <2>7
    DEF SettlementInv, SettlementTypeOK, ClaimsHold, At, OnlyMoves, Claimed
  <2>9. Vouching' /\ SettledIsBacked'
    BY <1>1, <2>1, <2>2, <2>4, Zenon
    DEF SettlementInv, SettlementTypeOK, Vouching, SettledIsBacked, OnlyMoves, Item
  <2>10. \A g \in Hash : Executing(g)' <=> g = h \/ Executing(g)
    BY <1>1, <2>2, <2>3, Zenon DEF Executing, At, Item, OnlyMoves
  <2>11. \A g \in Hash \ {h} : PayoutStage(g)' = PayoutStage(g)
    BY <1>1, <2>4, <2>10, Zenon DEF PayoutStage, Executing, SettlementInv, SettlementTypeOK
  <2>12. PayoutStage(h) = "new"
    BY <1>4, <2>1, <2>5 DEF PayoutStage
  <2>13. PayoutStage(h)' = "claimed"
    BY <1>1, <2>1, <2>4, <2>5, <2>10 DEF PayoutStage, Executing, SettlementInv, SettlementTypeOK
  <2>14. Claims!Move(h, "new", "claimed")
    BY <2>1, <2>11, <2>12, <2>13, StageMoves, Zenon
  <2>15. Claims!ClaimsNext
    BY <2>1, <2>14, Zenon DEF Claims!ClaimsNext, Claims!Claim
  <2> QED
    BY <2>6, <2>8, <2>9, <2>15, Zenon DEF Simulates, SettlementInv
<1> QED
  BY <1>3, <1>4, Zenon DEF recordPending

\* The executor pays what was claimed, or its hash is dropped.
LEMMA ExecuteSimulates ==
    ASSUME SettlementInv, NEW c \in PayoutCaller, executePayout(c)
    PROVE  Simulates
<1>1. At(c, "execute") /\ ~At(c, "idle") /\ UNCHANGED <<settlement, touches, vouched, payoutFaults>>
  BY Zenon DEF executePayout, At
<1>2. PICK h \in Hash : h = Item(c)
  BY <1>1, ItemTyped, Zenon DEF SettlementInv
<1>3. Claimed(c, h) /\ paid[h] = 0 /\ settlement[h] # "absent"
  BY <1>1, <1>2, Zenon DEF Claimed, At, SettlementInv, ClaimsHold
<1>4. PICK to \in {"settle", "fail"} :
         GoTo(c, to) /\ paid' = IF to = "settle" THEN [paid EXCEPT ![h] = 1] ELSE paid
  <2>1. CASE paid' = [paid EXCEPT ![Item(c)] = @ + 1] /\ GoTo(c, "settle")
    BY <2>1, <1>2, <1>3
  <2>2. CASE UNCHANGED paid /\ GoTo(c, "fail")
    BY <2>2, Zenon
  <2> QED
    BY <2>1, <2>2, Zenon DEF executePayout
<1>5. /\ OnlyMoves(c) /\ payoutCall'[c].step = to
      /\ payoutCall'[c].items = payoutCall[c].items
  BY <1>1, <1>4, GoToMoves, Zenon DEF SettlementInv, Steps
<1>6. paid' \in [Hash -> Nat] /\ \A g \in Hash \ {h} : paid'[g] = paid[g]
  BY <1>4, Zenon DEF SettlementInv, SettlementTypeOK
<1>7. paid'[h] = IF to = "settle" THEN 1 ELSE 0
  BY <1>3, <1>4, Zenon DEF SettlementInv, SettlementTypeOK
<1>8. SettlementTypeOK'
  BY <1>1, <1>5, <1>6, Zenon DEF SettlementInv, SettlementTypeOK, OnlyMoves, CallsTyped, Steps
<1>9. \A d \in PayoutCaller, g \in Hash : Claimed(d, g)' <=> Claimed(d, g)
  BY <1>1, <1>5, Zenon DEF Claimed, OnlyMoves, Item, At
<1>10. ClaimsHold'
  <2> SUFFICES ASSUME NEW g \in Hash
               PROVE  /\ settlement[g] = "absent" => paid'[g] = 0 /\ \A d \in PayoutCaller : ~Claimed(d, g)
                      /\ \A d \in PayoutCaller : Claimed(d, g) =>
                            /\ \A e \in PayoutCaller : Claimed(e, g) => d = e
                            /\ paid'[g] = IF At(d, "settle")' THEN 1 ELSE 0
    BY <1>1, <1>9, Zenon DEF ClaimsHold
  <2>1. CASE g = h
    BY <1>3, <1>4, <1>5, <1>7, <2>1, Zenon DEF SettlementInv, ClaimsHold, At
  <2>2. CASE g # h
    <3>1. ~Claimed(c, g)
      BY <1>2, <2>2, Zenon DEF Claimed
    <3> QED
      BY <1>5, <1>6, <2>2, <3>1 DEF SettlementInv, ClaimsHold, At, OnlyMoves
  <2> QED
    BY <2>1, <2>2, Zenon
<1>11. Vouching' /\ SettledIsBacked'
  <2>1. Vouching'
    BY <1>1, <1>4, <1>5, Zenon DEF SettlementInv, Vouching, OnlyMoves, Item
  <2>2. SettledIsBacked'
    BY <1>1, <1>3, <1>6, <1>7, Zenon DEF SettlementInv, SettledIsBacked
  <2> QED
    BY <2>1, <2>2, Zenon
<1>12. Executing(h) /\ ~Executing(h)' /\ \A g \in Hash \ {h} : Executing(g)' <=> Executing(g)
  BY <1>1, <1>2, <1>3, <1>4, <1>5 DEF Executing, At, Item, OnlyMoves, SettlementInv, ClaimsHold, Claimed
<1>13. \A g \in Hash \ {h} : PayoutStage(g)' = PayoutStage(g)
  BY <1>1, <1>6, <1>12, Zenon DEF PayoutStage, Executing
<1>14. PayoutStage(h) = "claimed"
  BY <1>3, <1>12 DEF PayoutStage, Executing
<1>15. PayoutStage(h)' = IF to = "settle" THEN "paid" ELSE "dropped"
  BY <1>1, <1>3, <1>4, <1>7, <1>12 DEF PayoutStage, Executing
<1>16. Claims!Move(h, "claimed", IF to = "settle" THEN "paid" ELSE "dropped")
  BY <1>13, <1>14, <1>15, StageMoves, Zenon
<1>17. Claims!ClaimsNext
  BY <1>16, Zenon DEF Claims!ClaimsNext, Claims!Pay, Claims!Drop
<1> QED
  BY <1>8, <1>10, <1>11, <1>17, Zenon DEF Simulates, SettlementInv

\* A crash drops what its call was about to pay.
LEMMA CrashSimulates ==
    ASSUME SettlementInv, NEW c \in PayoutCaller, callCrashes(c)
    PROVE  Simulates
<1>1. ~At(c, "idle") /\ UNCHANGED <<settlement, paid, touches, vouched>> /\ payoutFaults' = payoutFaults + 1
  BY Zenon DEF callCrashes
<1>2. OnlyMoves(c) /\ payoutCall'[c].step = "idle"
  BY ReturnMoves, Zenon DEF callCrashes, SettlementInv
<1>3. PICK h \in Hash : h = Item(c)
  BY <1>1, ItemTyped, Zenon DEF SettlementInv
<1>4. Wrote(h, "pending") /\ "pending" \in SettlementStatus /\ Counted
  BY <1>1 DEF Wrote, Counted, SettlementStatus, SettlementInv, SettlementTypeOK
<1>5. SettlementInv'
  BY <1>1, <1>2, <1>4, UnclaimedStep, Zenon
<1>6. CASE ~At(c, "execute")
  BY <1>1, <1>2, <1>4, <1>5, <1>6, UnclaimedSimulates, Zenon DEF At, Simulates
<1>7. CASE At(c, "execute")
  <2>1. paid[h] = 0 /\ settlement[h] # "absent"
    BY <1>3, <1>7, Zenon DEF Claimed, At, SettlementInv, ClaimsHold
  <2>2. Executing(h) /\ ~Executing(h)' /\ \A g \in Hash \ {h} : Executing(g)' <=> Executing(g)
    BY <1>2, <1>3, <1>7 DEF Executing, At, Item, OnlyMoves, SettlementInv, ClaimsHold, Claimed
  <2>3. \A g \in Hash \ {h} : PayoutStage(g)' = PayoutStage(g)
    BY <1>1, <2>2, Zenon DEF PayoutStage, Executing
  <2>4. PayoutStage(h) = "claimed" /\ PayoutStage(h)' = "dropped"
    BY <1>1, <2>1, <2>2 DEF PayoutStage, Executing
  <2>5. Claims!Move(h, "claimed", "dropped")
    BY <2>3, <2>4, StageMoves, Zenon
  <2>6. Claims!ClaimsNext
    BY <2>5, Zenon DEF Claims!ClaimsNext, Claims!Drop
  <2> QED
    BY <1>5, <2>6, Zenon DEF Simulates
<1> QED
  BY <1>6, <1>7, Zenon

\* A step that leaves the table alone, of a call that claims nothing.
LEMMA QuietStep ==
    ASSUME SettlementInv, NEW c \in PayoutCaller, OnlyMoves(c), ~At(c, "execute"),
           payoutCall'[c].step \notin {"execute", "settle", "fail"},
           payoutCall'[c].step \in {"look", "write", "shadow"} /\ payoutCall'[c].status = "settled" =>
               Head(payoutCall'[c].items) \in vouched',
           NEW h \in Hash, UNCHANGED <<settlement, paid>>, Counted
    PROVE  Simulates
<1>1. Wrote(h, "pending") /\ "pending" \in SettlementStatus
  BY Zenon DEF Wrote, SettlementStatus
<1>2. SettlementInv'
  BY <1>1, UnclaimedStep, Zenon
<1>3. Claims!ClaimsNext \/ stages' = stages
  BY <1>1, UnclaimedSimulates, Zenon DEF At
<1> QED
  BY <1>2, <1>3, Zenon DEF Simulates

LEMMA ProcessSimulates ==
    ASSUME SettlementInv, NEW c \in PayoutCaller, NEW items \in Seq(Hash), process(c, items)
    PROVE  Simulates
<1>1. At(c, "idle") /\ items # <<>> /\ UNCHANGED <<settlement, paid, vouched, payoutFaults>>
  BY Zenon DEF process
<1>2. payoutCall' = [payoutCall EXCEPT ![c].step = "record", ![c].items = items]
  BY Zenon DEF process
<1>3. OnlyMoves(c) /\ payoutCall'[c].step = "record"
  BY <1>1, <1>2, ZenonT(40) DEF OnlyMoves, CallsTyped, SettlementInv, SettlementTypeOK, Steps
<1>4. Counted
  BY <1>1 DEF process, Counted, SettlementInv, SettlementTypeOK
<1>5. Head(items) \in Hash
  BY <1>1
<1> QED
  BY <1>1, <1>3, <1>4, <1>5, QuietStep, Zenon DEF At

LEMMA MarkSimulates ==
    ASSUME SettlementInv, NEW c \in PayoutCaller, markOutcome(c)
    PROVE  Simulates
<1>1. NextItem(c) /\ UNCHANGED <<paid, touches, vouched>>
  BY Zenon DEF markOutcome
<1>2. "failed" \in SettlementStatus /\ "settled" \in SettlementStatus
  BY Zenon DEF SettlementStatus
<1>3. CASE At(c, "fail") /\ (upsert(Item(c), "failed") \/ upsertFails(Item(c), "failed"))
  <2>1. ~At(c, "idle") /\ ~At(c, "execute")
    BY <1>3, Zenon DEF At
  <2> QED
    BY <1>1, <1>2, <1>3, <2>1, EndsItem, Zenon
<1>4. CASE At(c, "settle") /\ (upsert(Item(c), "settled") \/ upsertFails(Item(c), "settled"))
  <2>1. ~At(c, "idle") /\ ~At(c, "execute")
    BY <1>4, Zenon DEF At
  <2>2. Item(c) \in Hash
    BY <2>1, ItemTyped, Zenon DEF SettlementInv
  <2>3. paid[Item(c)] = 1
    BY <1>4, <2>2, Zenon DEF SettlementInv, ClaimsHold, Claimed, At
  <2> QED
    BY <1>1, <1>2, <1>4, <2>1, <2>3, EndsItem, Zenon
<1> QED
  BY <1>3, <1>4, Zenon DEF markOutcome

LEMMA AskSimulates ==
    ASSUME SettlementInv, NEW c \in PayoutCaller, NEW h \in Hash,
           NEW asked \in SettlementStatus \cup {"unset"}, upsertSettlementStatus(c, h, asked)
    PROVE  Simulates
<1>1. At(c, "idle") /\ UNCHANGED <<settlement, paid, payoutFaults>>
  BY Zenon DEF upsertSettlementStatus
<1>2. PICK step \in {"look", "write"}, status \in SettlementStatus :
         /\ payoutCall' = [payoutCall EXCEPT ![c] =
                             [step |-> step, items |-> <<h>>, status |-> status, seen |-> "unread"]]
         /\ status = "settled" => asked = "settled"
  BY Zenon DEF upsertSettlementStatus, SettlementStatus
<1>3. <<h>> \in Seq(Hash) /\ <<h>> # <<>> /\ Head(<<h>>) = h
  OBVIOUS
<1>4. OnlyMoves(c)
  BY <1>2, <1>3, Zenon DEF OnlyMoves, CallsTyped, SettlementInv, SettlementTypeOK, Steps
<1>5. payoutCall'[c] = [step |-> step, items |-> <<h>>, status |-> status, seen |-> "unread"]
  BY <1>2, Zenon DEF SettlementInv, SettlementTypeOK
<1>6. Counted /\ (asked = "settled" => h \in vouched')
  BY <1>1 DEF upsertSettlementStatus, Counted, SettlementInv, SettlementTypeOK
<1>7. /\ payoutCall'[c].step \notin {"execute", "settle", "fail"}
      /\ payoutCall'[c].status = "settled" => Head(payoutCall'[c].items) \in vouched'
  BY <1>2, <1>3, <1>5, <1>6
<1> QED
  BY <1>1, <1>4, <1>6, <1>7, QuietStep, Zenon DEF At

LEMMA LookSimulates ==
    ASSUME SettlementInv, NEW c \in PayoutCaller, lookUp(c)
    PROVE  Simulates
<1>1. /\ At(c, "look") /\ ~At(c, "idle") /\ ~At(c, "execute")
      /\ UNCHANGED <<settlement, paid, touches, vouched, payoutFaults>>
  BY Zenon DEF lookUp, At
<1>2. PICK h \in Hash : h = Item(c)
  BY <1>1, ItemTyped, Zenon DEF SettlementInv
<1>3. Counted
  BY <1>1, Zenon DEF Counted, SettlementInv, SettlementTypeOK
<1>4. CASE Return(c)
  BY <1>1, <1>3, <1>4, ReturnMoves, QuietStep, Zenon DEF SettlementInv
<1>5. CASE payoutCall' = [payoutCall EXCEPT ![c].step = "write", ![c].seen = settlement[Item(c)]]
  <2>1. settlement[Item(c)] \in SettlementStatus \cup {"absent"}
    BY <1>2, Zenon DEF SettlementInv, SettlementTypeOK
  <2>2. /\ OnlyMoves(c) /\ payoutCall'[c].step = "write"
        /\ payoutCall'[c].items = payoutCall[c].items /\ payoutCall'[c].status = payoutCall[c].status
    BY <1>1, <1>5, <2>1, ZenonT(40) DEF OnlyMoves, CallsTyped, SettlementInv, SettlementTypeOK, Steps, At
  <2>3. payoutCall'[c].status = "settled" => Head(payoutCall'[c].items) \in vouched'
    BY <1>1, <2>2, Zenon DEF SettlementInv, Vouching, Item, At
  <2> QED
    BY <1>1, <1>3, <2>2, <2>3, QuietStep, Zenon
<1> QED
  BY <1>4, <1>5, Zenon DEF lookUp

LEMMA WriteSimulates ==
    ASSUME SettlementInv, NEW c \in PayoutCaller, writeStatus(c)
    PROVE  Simulates
<1> DEFINE s == payoutCall[c].status
<1>1. /\ ~At(c, "idle") /\ ~At(c, "execute") /\ payoutCall[c].step \in {"write", "shadow"}
      /\ UNCHANGED <<paid, touches, vouched>>
  BY Zenon DEF writeStatus, At
<1>2. Item(c) \in Hash /\ s \in SettlementStatus
  BY <1>1, ItemTyped, Zenon DEF SettlementInv
<1>3. s = "settled" => Item(c) \in vouched
  BY <1>1, Zenon DEF SettlementInv, Vouching
<1>4. Wrote(Item(c), s) /\ Counted
  BY <1>1, <1>2, UpsertWrites, Zenon DEF writeStatus, Counted, SettlementInv, SettlementTypeOK
<1>5. /\ OnlyMoves(c) /\ payoutCall'[c].step \in {"idle", "shadow"}
      /\ payoutCall'[c].step = "shadow" /\ payoutCall'[c].status = "settled" =>
            Head(payoutCall'[c].items) \in vouched'
  <2>1. CASE GoTo(c, "shadow")
    BY <1>1, <1>3, <2>1, GoToMoves, Zenon DEF SettlementInv, Item, Steps
  <2>2. CASE Return(c)
    BY <2>2, ReturnMoves, Zenon DEF SettlementInv
  <2> QED
    BY <2>1, <2>2, Zenon DEF writeStatus
<1>6. SettlementInv'
  BY <1>1, <1>2, <1>3, <1>4, <1>5, UnclaimedStep, Zenon
<1>7. Claims!ClaimsNext \/ stages' = stages
  BY <1>1, <1>2, <1>4, <1>5, UnclaimedSimulates, Zenon DEF At
<1> QED
  BY <1>6, <1>7, Zenon DEF Simulates

LEMMA SettlementStep == SettlementInv /\ [SettlementNext]_settlementVars => Simulates
<1> SUFFICES ASSUME SettlementInv, [SettlementNext]_settlementVars PROVE Simulates
  BY Zenon
<1>1. CASE UNCHANGED settlementVars
  <2>1. SettlementInv'
    BY <1>1
    DEF settlementVars, SettlementInv, SettlementTypeOK, ClaimsHold, Vouching, SettledIsBacked, Claimed, At, Item
  <2>2. \A g \in Hash : PayoutStage(g)' = PayoutStage(g)
    BY <1>1, Zenon DEF settlementVars, PayoutStage, At, Item
  <2> QED
    BY <2>1, <2>2, StagesStay, Zenon DEF Simulates
<1>2. ASSUME NEW c \in PayoutCaller, NEW h \in Hash, NEW g \in Hash,
             process(c, <<h>>) \/ process(c, <<h, g>>)
      PROVE  Simulates
  <2>1. <<h>> \in Seq(Hash) /\ <<h, g>> \in Seq(Hash)
    OBVIOUS
  <2> QED
    BY <1>2, <2>1, ProcessSimulates, Zenon
<1> QED
  BY <1>1, <1>2, RecordSimulates, ExecuteSimulates, CrashSimulates, MarkSimulates, AskSimulates, Zenon,
     LookSimulates, WriteSimulates
  DEF SettlementNext

(***************************************************************************)
(* The settlements table and its writers implement PayoutClaims, for any   *)
(* hashes, any number of overlapping calls, and any faults: each hash is   *)
(* paid at most once, by the call that inserted its row.                   *)
(***************************************************************************)
THEOREM PayoutsRefineClaims == SettlementSpec => PaysAsClaimed
<1>1. SettlementInit => Claims!ClaimsInit
  BY DEF SettlementInit, Claims!ClaimsInit, PayoutStage
<1>2. SettlementInv /\ [SettlementNext]_settlementVars => SettlementInv'
  BY SettlementStep, Zenon DEF Simulates
<1>3. SettlementInv /\ [SettlementNext]_settlementVars =>
         [Claims!ClaimsNext]_[h \in Hash |-> PayoutStage(h)]
  BY SettlementStep, Zenon DEF Simulates, stages
<1> QED
  BY <1>1, <1>2, <1>3, SettlementInvInit, PTL DEF SettlementSpec, PaysAsClaimed, Claims!ClaimsSpec

\* No row says settled that was neither paid nor vouched for.
THEOREM SettledAlwaysBacked == SettlementSpec => []SettledIsBacked
<1>1. SettlementInv /\ [SettlementNext]_settlementVars => SettlementInv'
  BY SettlementStep, Zenon DEF Simulates
<1>2. SettlementInv => SettledIsBacked
  BY Zenon DEF SettlementInv
<1> QED
  BY <1>1, <1>2, SettlementInvInit, PTL DEF SettlementSpec

-----------------------------------------------------------------------------
(***************************************************************************)
(* Reconciliation.  Versions are handed out in order, and a finding that   *)
(* a run still holds the version of is the one which that run wrote.       *)
(***************************************************************************)
HoldsOwn ==
    /\ \A s \in Row, t \in FindingType : finding[s][t].version <= clock
    /\ \A r \in ReconcileRun : \A f \in mine[r] :
          /\ f[3] <= clock
          /\ finding[f[1]][f[2]].version = f[3] => finding[f[1]][f[2]].by = r

ReconcilerInv == ReconcilerTypeOK /\ LinkedToItsRun /\ HoldsOwn

LEMMA ReconcilerInvInit == ReconcilerInit => ReconcilerInv
<1> SUFFICES ASSUME ReconcilerInit PROVE ReconcilerInv
  OBVIOUS
<1>1. ReconcilerTypeOK
  <2>1. Absent \in [version : Nat, exact : BOOLEAN, runId : ReconcileRun \cup {NoRun},
                   by : ReconcileRun \cup {NoRun}]
    BY Zenon DEF Absent
  <2> QED
    BY <2>1, Zenon DEF ReconcilerInit, ReconcilerTypeOK
<1>2. LinkedToItsRun /\ HoldsOwn
  BY DEF ReconcilerInit, LinkedToItsRun, HoldsOwn, Absent
<1> QED
  BY <1>1, <1>2, Zenon DEF ReconcilerInv

\* A finding is written with the next version and without a run.
LEMMA RecordedFinding ==
    ASSUME ReconcilerInv, NEW s \in Row, NEW t \in FindingType, NEW r \in ReconcileRun,
           NEW exact \in BOOLEAN, finding' = recordFinding(s, t, r, exact)
    PROVE  /\ finding'[s][t] = [version |-> clock + 1, exact |-> exact, runId |-> NoRun, by |-> r]
           /\ \A q \in Row, u \in FindingType : <<q, u>> # <<s, t>> => finding'[q][u] = finding[q][u]
           /\ finding' \in [Row -> [FindingType ->
                 [version : Nat, exact : BOOLEAN, runId : ReconcileRun \cup {NoRun},
                  by : ReconcileRun \cup {NoRun}]]]
<1>1. clock + 1 \in Nat
  BY DEF ReconcilerInv, ReconcilerTypeOK
<1>2. finding \in [Row -> [FindingType ->
                 [version : Nat, exact : BOOLEAN, runId : ReconcileRun \cup {NoRun},
                  by : ReconcileRun \cup {NoRun}]]]
  BY Zenon DEF ReconcilerInv, ReconcilerTypeOK
<1>3. [version |-> clock + 1, exact |-> exact, runId |-> NoRun, by |-> r] \in
         [version : Nat, exact : BOOLEAN, runId : ReconcileRun \cup {NoRun}, by : ReconcileRun \cup {NoRun}]
  BY <1>1, Zenon
<1> QED
  BY <1>2, <1>3, Zenon DEF recordFinding

\* What a recorded finding leaves of the invariant, with or without its id.
LEMMA RecordKeeps ==
    ASSUME ReconcilerInv, NEW s \in Row, NEW t \in FindingType, NEW r \in ReconcileRun,
           NEW exact \in BOOLEAN, finding' = recordFinding(s, t, r, exact), clock' = clock + 1,
           \/ mine' = mine
           \/ mine' = [mine EXCEPT ![r] = @ \cup {<<s, t, clock + 1, exact>>}]
    PROVE  LinkedToItsRun' /\ HoldsOwn'
<1>1. /\ finding'[s][t] = [version |-> clock + 1, exact |-> exact, runId |-> NoRun, by |-> r]
      /\ \A q \in Row, u \in FindingType : <<q, u>> # <<s, t>> => finding'[q][u] = finding[q][u]
  BY Zenon DEF recordFinding, ReconcilerInv, ReconcilerTypeOK
<1> USE DEF ReconcilerInv, ReconcilerTypeOK, LinkedToItsRun, HoldsOwn
<1>0. \A q \in Row, u \in FindingType :
        \/ q = s /\ u = t
        \/ finding'[q][u] = finding[q][u]
  BY <1>1
<1>2. ASSUME NEW q \in Row, NEW u \in FindingType, finding'[q][u].runId # NoRun
      PROVE  finding'[q][u].by = finding'[q][u].runId
  <2>1. CASE q = s /\ u = t
    BY <1>1, <1>2, <2>1
  <2>2. CASE finding'[q][u] = finding[q][u]
    BY <1>2, <2>2
  <2> QED
    BY <1>0, <2>1, <2>2
<1>3. ASSUME NEW q \in Row, NEW u \in FindingType PROVE finding'[q][u].version <= clock'
  <2>1. CASE q = s /\ u = t
    BY <1>1, <2>1
  <2>2. CASE finding'[q][u] = finding[q][u]
    BY <2>2
  <2> QED
    BY <1>0, <2>1, <2>2
<1>4. ASSUME NEW k \in ReconcileRun, NEW f \in mine'[k]
      PROVE  f[3] <= clock' /\ (finding'[f[1]][f[2]].version = f[3] => finding'[f[1]][f[2]].by = k)
  <2>1. CASE f \in mine[k]
    <3>1. f \in Row \X FindingType \X Nat \X BOOLEAN
      BY <2>1
    <3>2. f[1] \in Row /\ f[2] \in FindingType /\ f[3] \in Nat
      BY <3>1, Zenon
    <3>3. f[3] <= clock /\ (finding[f[1]][f[2]].version = f[3] => finding[f[1]][f[2]].by = k)
      BY <2>1, Zenon
    <3>4. CASE f[1] = s /\ f[2] = t
      <4>1. finding'[f[1]][f[2]].version = clock + 1
        BY <1>1, <3>4
      <4> QED
        BY <3>2, <3>3, <4>1
    <3>5. CASE finding'[f[1]][f[2]] = finding[f[1]][f[2]]
      BY <3>2, <3>3, <3>5
    <3> QED
      BY <1>0, <3>2, <3>4, <3>5
  <2>2. CASE k = r /\ f = <<s, t, clock + 1, exact>>
    BY <1>1, <2>2
  <2> QED
    BY <1>4, <2>1, <2>2, SMTT(30)
<1> QED
  BY <1>2, <1>3, <1>4, Zenon

LEMMA CheckKeeps ==
    ASSUME ReconcilerInv, NEW r \in ReconcileRun, NEW s \in Row, checkRow(r, s)
    PROVE  ReconcilerInv'
<1> USE DEF checkRow, QueryFails, CountError
<1>1. /\ place' \in [ReconcileRun -> {"idle", "loop", "persist", "link", "done"}]
      /\ unread' \in [ReconcileRun -> SUBSET Row]
      /\ discrepancies' \in [ReconcileRun -> Nat] /\ errors' \in [ReconcileRun -> Nat]
      /\ summary' \subseteq ReconcileRun /\ clock' \in Nat /\ queryFaults' \in Nat
  <2>1. /\ place' = place /\ summary' = summary /\ unread' = [unread EXCEPT ![r] = @ \ {s}]
        /\ discrepancies' = discrepancies \/ discrepancies' = [discrepancies EXCEPT ![r] = @ + 1]
        /\ errors' = errors \/ errors' = [errors EXCEPT ![r] = @ + 1]
        /\ clock' = clock \/ clock' = clock + 1
        /\ queryFaults' = queryFaults \/ queryFaults' = queryFaults + 1
    BY Zenon
  <2> HIDE DEF checkRow
  <2> QED
    BY <2>1, SMTT(30) DEF ReconcilerInv, ReconcilerTypeOK
<1>2. CASE UNCHANGED <<finding, mine, clock>>
  BY <1>1, <1>2 DEF ReconcilerInv, ReconcilerTypeOK, LinkedToItsRun, HoldsOwn
<1>3. CASE \E t \in FindingType : /\ finding' = recordFinding(s, t, r, TRUE)
                                 /\ clock' = clock + 1 /\ mine' = mine
  <2>1. PICK t \in FindingType : /\ finding' = recordFinding(s, t, r, TRUE)
                                /\ clock' = clock + 1 /\ mine' = mine
    BY <1>3, Zenon
  <2>2. LinkedToItsRun' /\ HoldsOwn'
    BY <2>1, RecordKeeps, Zenon
  <2>3. finding' \in [Row -> [FindingType ->
                 [version : Nat, exact : BOOLEAN, runId : ReconcileRun \cup {NoRun},
                  by : ReconcileRun \cup {NoRun}]]]
    BY <2>1, RecordedFinding, Zenon
  <2> QED
    BY <1>1, <2>1, <2>2, <2>3, Zenon DEF ReconcilerInv, ReconcilerTypeOK
<1>4. CASE \E t \in FindingType, exact \in BOOLEAN :
             /\ finding' = recordFinding(s, t, r, exact) /\ clock' = clock + 1
             /\ mine' = [mine EXCEPT ![r] = @ \cup {<<s, t, clock + 1, exact>>}]
  <2>1. PICK t \in FindingType, exact \in BOOLEAN :
             /\ finding' = recordFinding(s, t, r, exact) /\ clock' = clock + 1
             /\ mine' = [mine EXCEPT ![r] = @ \cup {<<s, t, clock + 1, exact>>}]
    BY <1>4, Zenon
  <2>2. LinkedToItsRun' /\ HoldsOwn'
    BY <2>1, RecordKeeps, Zenon
  <2>3. finding' \in [Row -> [FindingType ->
                 [version : Nat, exact : BOOLEAN, runId : ReconcileRun \cup {NoRun},
                  by : ReconcileRun \cup {NoRun}]]]
    BY <2>1, RecordedFinding, Zenon
  <2>4. <<s, t, clock + 1, exact>> \in Row \X FindingType \X Nat \X BOOLEAN
    <3>1. clock + 1 \in Nat
      BY DEF ReconcilerInv, ReconcilerTypeOK
    <3> QED
      BY <3>1, Zenon
  <2>5. mine' \in [ReconcileRun -> SUBSET (Row \X FindingType \X Nat \X BOOLEAN)]
    BY <2>1, <2>4, Zenon DEF ReconcilerInv, ReconcilerTypeOK
  <2> QED
    BY <1>1, <2>2, <2>3, <2>5, Zenon DEF ReconcilerInv, ReconcilerTypeOK
<1> QED
  BY <1>2, <1>3, <1>4, Zenon

\* Setting run_id leaves the rest of a finding, and the other findings.
LEMMA LinkedFinding ==
    ASSUME finding \in [Row -> [FindingType ->
              [version : Nat, exact : BOOLEAN, runId : ReconcileRun \cup {NoRun},
               by : ReconcileRun \cup {NoRun}]]],
           NEW r \in ReconcileRun, NEW a \in Row, NEW b \in FindingType,
           finding' = [finding EXCEPT ![a][b].runId = r]
    PROVE  /\ finding' \in [Row -> [FindingType ->
                 [version : Nat, exact : BOOLEAN, runId : ReconcileRun \cup {NoRun},
                  by : ReconcileRun \cup {NoRun}]]]
           /\ \A s \in Row, t \in FindingType :
                 /\ finding'[s][t].version = finding[s][t].version
                 /\ finding'[s][t].by = finding[s][t].by
                 /\ finding'[s][t].runId = IF s = a /\ t = b THEN r ELSE finding[s][t].runId
<1> DEFINE V == [version : Nat, exact : BOOLEAN, runId : ReconcileRun \cup {NoRun},
                 by : ReconcileRun \cup {NoRun}]
<1>1. PICK e \in V : e = finding[a][b]
  BY Zenon
<1>2. PICK w \in V : w = [e EXCEPT !.runId = r]
  BY Zenon
<1>3. w.version = e.version /\ w.by = e.by /\ w.runId = r
  BY <1>1, <1>2, Zenon
<1>4. finding' = [finding EXCEPT ![a] = [finding[a] EXCEPT ![b] = w]]
  BY <1>1, <1>2, Zenon
<1>5. finding \in [Row -> [FindingType -> V]]
  BY Zenon
<1> HIDE DEF V
<1>6. finding' \in [Row -> [FindingType -> V]]
  <2>1. PICK g \in [FindingType -> V] : g = [finding[a] EXCEPT ![b] = w]
    BY <1>5, Zenon
  <2> QED
    BY <1>4, <1>5, <2>1, Zenon
<1>7. finding'[a][b] = w /\ \A s \in Row, t \in FindingType :
                              ~(s = a /\ t = b) => finding'[s][t] = finding[s][t]
  BY <1>4, <1>5
<1>8. ASSUME NEW s \in Row, NEW t \in FindingType
      PROVE  /\ finding'[s][t].version = finding[s][t].version
             /\ finding'[s][t].by = finding[s][t].by
             /\ finding'[s][t].runId = IF s = a /\ t = b THEN r ELSE finding[s][t].runId
  <2>1. CASE s = a /\ t = b
    BY <1>1, <1>3, <1>7, <2>1
  <2>2. CASE ~(s = a /\ t = b)
    BY <1>7, <2>2
  <2> QED
    BY <2>1, <2>2, Zenon
<1> QED
  BY <1>6, <1>8, Zenon DEF V

LEMMA LinkKeeps ==
    ASSUME ReconcilerInv, NEW r \in ReconcileRun, NEW f \in mine[r], linkFinding(r, f)
    PROVE  ReconcilerInv'
<1> USE DEF linkFinding, QueryFails, CountError, GoOn
<1>1. f[1] \in Row /\ f[2] \in FindingType /\ f[3] \in Nat
  <2>1. f \in Row \X FindingType \X Nat \X BOOLEAN
    BY Zenon DEF ReconcilerInv, ReconcilerTypeOK
  <2> QED
    BY <2>1, Zenon
<1>2. /\ place' \in [ReconcileRun -> {"idle", "loop", "persist", "link", "done"}]
      /\ unread' \in [ReconcileRun -> SUBSET Row]
      /\ mine' \in [ReconcileRun -> SUBSET (Row \X FindingType \X Nat \X BOOLEAN)]
      /\ discrepancies' \in [ReconcileRun -> Nat] /\ errors' \in [ReconcileRun -> Nat]
      /\ summary' \subseteq ReconcileRun /\ clock' = clock /\ clock \in Nat /\ queryFaults' \in Nat
      /\ \A k \in ReconcileRun : mine'[k] \subseteq mine[k]
  <2>1. /\ unread' = unread /\ discrepancies' = discrepancies /\ summary' = summary /\ clock' = clock
        /\ mine' = [mine EXCEPT ![r] = @ \ {f}]
        /\ errors' = errors \/ errors' = [errors EXCEPT ![r] = @ + 1]
        /\ queryFaults' = queryFaults \/ queryFaults' = queryFaults + 1
        /\ place' = place \/ place' = [place EXCEPT ![r] = "done"]
    BY Zenon
  <2> HIDE DEF linkFinding, QueryFails, CountError, GoOn
  <2>2. /\ place \in [ReconcileRun -> {"idle", "loop", "persist", "link", "done"}]
        /\ unread \in [ReconcileRun -> SUBSET Row]
        /\ mine \in [ReconcileRun -> SUBSET (Row \X FindingType \X Nat \X BOOLEAN)]
        /\ discrepancies \in [ReconcileRun -> Nat] /\ errors \in [ReconcileRun -> Nat]
        /\ summary \subseteq ReconcileRun /\ clock \in Nat /\ queryFaults \in Nat
    BY Zenon DEF ReconcilerInv, ReconcilerTypeOK
  <2>3. place' \in [ReconcileRun -> {"idle", "loop", "persist", "link", "done"}]
    BY <2>1, <2>2
  <2>4. /\ mine' \in [ReconcileRun -> SUBSET (Row \X FindingType \X Nat \X BOOLEAN)]
        /\ \A k \in ReconcileRun : mine'[k] \subseteq mine[k]
    BY <2>1, <2>2, Zenon
  <2>5. errors' \in [ReconcileRun -> Nat] /\ queryFaults' \in Nat
    BY <2>1, <2>2, SMTT(30)
  <2> QED
    BY <2>1, <2>2, <2>3, <2>4, <2>5, Zenon
<1>3. CASE finding' = finding
  BY <1>2, <1>3, SMTT(30) DEF ReconcilerInv, ReconcilerTypeOK, LinkedToItsRun, HoldsOwn
<1>4. CASE finding' # finding
  <2>1. linkMatches(f) /\ finding' = [finding EXCEPT ![f[1]][f[2]].runId = r]
    BY <1>4, Zenon DEF linked
  <2>2. finding' \in [Row -> [FindingType ->
                 [version : Nat, exact : BOOLEAN, runId : ReconcileRun \cup {NoRun},
                  by : ReconcileRun \cup {NoRun}]]]
    BY <1>1, <2>1, LinkedFinding, Zenon DEF ReconcilerInv, ReconcilerTypeOK
  <2>3. finding[f[1]][f[2]].by = r
    BY <2>1, Zenon DEF linkMatches, ReconcilerInv, HoldsOwn
  <2>4. \A s \in Row, t \in FindingType :
           /\ finding'[s][t].version = finding[s][t].version
           /\ finding'[s][t].by = finding[s][t].by
           /\ finding'[s][t].runId = IF s = f[1] /\ t = f[2] THEN r ELSE finding[s][t].runId
    <3>1. finding \in [Row -> [FindingType ->
              [version : Nat, exact : BOOLEAN, runId : ReconcileRun \cup {NoRun},
               by : ReconcileRun \cup {NoRun}]]]
      BY Zenon DEF ReconcilerInv, ReconcilerTypeOK
    <3>2. PICK a \in Row, b \in FindingType : a = f[1] /\ b = f[2]
      BY <1>1, Zenon
    <3>3. finding' = [finding EXCEPT ![a][b].runId = r]
      BY <2>1, <3>2, ZenonT(40)
    <3>4. \A s \in Row, t \in FindingType :
             /\ finding'[s][t].version = finding[s][t].version
             /\ finding'[s][t].by = finding[s][t].by
             /\ finding'[s][t].runId = IF s = a /\ t = b THEN r ELSE finding[s][t].runId
      BY <3>1, <3>3, LinkedFinding
    <3> QED
      BY <3>2, <3>4
  <2>5. LinkedToItsRun'
    BY <2>3, <2>4 DEF ReconcilerInv, LinkedToItsRun
  <2>6. ASSUME NEW k \in ReconcileRun, NEW g \in mine'[k]
        PROVE  g[3] <= clock' /\ (finding'[g[1]][g[2]].version = g[3] => finding'[g[1]][g[2]].by = k)
    <3>1. g \in mine[k] /\ g \in Row \X FindingType \X Nat \X BOOLEAN
      BY <1>2, Zenon
    <3>2. g[1] \in Row /\ g[2] \in FindingType
      BY <3>1, Zenon
    <3> QED
      BY <1>2, <2>4, <3>1, <3>2, SMTT(30) DEF ReconcilerInv, HoldsOwn
  <2>7. \A s \in Row, t \in FindingType : finding'[s][t].version <= clock'
    BY <1>2, <2>4 DEF ReconcilerInv, HoldsOwn
  <2> QED
    BY <1>2, <2>2, <2>5, <2>6, <2>7 DEF ReconcilerInv, ReconcilerTypeOK, HoldsOwn
<1> QED
  BY <1>3, <1>4, Zenon

LEMMA ReconcilerInvNext == ReconcilerInv /\ [ReconcilerNext]_reconcilerVars => ReconcilerInv'
<1> SUFFICES ASSUME ReconcilerInv, [ReconcilerNext]_reconcilerVars PROVE ReconcilerInv'
  BY Zenon
<1>1. CASE UNCHANGED reconcilerVars
  BY <1>1, SMTT(30) DEF reconcilerVars, ReconcilerInv, ReconcilerTypeOK, LinkedToItsRun, HoldsOwn
<1>2. ASSUME NEW r \in ReconcileRun, NEW S \in SUBSET Row, selectWindow(r, S) PROVE ReconcilerInv'
  <2>1. /\ UNCHANGED <<finding, mine, discrepancies, summary, clock>>
        /\ unread' = unread \/ unread' = [unread EXCEPT ![r] = S]
        /\ errors' = errors \/ errors' = [errors EXCEPT ![r] = @ + 1]
        /\ queryFaults' = queryFaults \/ queryFaults' = queryFaults + 1
        /\ place' = [place EXCEPT ![r] = "loop"] \/ place' = [place EXCEPT ![r] = "persist"]
    BY <1>2, Zenon DEF selectWindow, QueryFails, CountError, GoOn
  <2>2. /\ unread' \in [ReconcileRun -> SUBSET Row] /\ errors' \in [ReconcileRun -> Nat]
        /\ place' \in [ReconcileRun -> {"idle", "loop", "persist", "link", "done"}]
        /\ queryFaults' \in Nat
    BY <2>1 DEF ReconcilerInv, ReconcilerTypeOK
  <2>3. ReconcilerTypeOK'
    BY <2>1, <2>2, ZenonT(40) DEF ReconcilerInv, ReconcilerTypeOK
  <2> QED
    BY <2>1, <2>3 DEF ReconcilerInv, LinkedToItsRun, HoldsOwn
<1>3. ASSUME NEW r \in ReconcileRun, persistRunSummary(r) PROVE ReconcilerInv'
  BY <1>3, SMTT(30) DEF persistRunSummary, QueryFails, GoOn, ReconcilerInv, ReconcilerTypeOK,
              LinkedToItsRun, HoldsOwn
<1> QED
  BY <1>1, <1>2, <1>3, CheckKeeps, LinkKeeps, Zenon DEF ReconcilerNext

(***************************************************************************)
(* For any number of overlapping runs, rows and failing statements, a      *)
(* finding is never linked to a run other than the one that wrote it: the  *)
(* UPDATE of linkFindingsToRun (settlementReconciler.ts) names the         *)
(* version, and versions are not written twice.                            *)
(***************************************************************************)
THEOREM FindingsLinkTheirRun == ReconcilerSpec => []LinkedToItsRun
<1>1. ReconcilerInv => LinkedToItsRun
  BY Zenon DEF ReconcilerInv
<1> QED
  BY <1>1, ReconcilerInvInit, ReconcilerInvNext, PTL DEF ReconcilerSpec

-----------------------------------------------------------------------------
(***************************************************************************)
(* Wallets.  A transaction that has passed its checks holds the row, and   *)
(* the balance that it read is still the balance of the row.               *)
(***************************************************************************)
ReadsStand ==
    \A c \in Change :
        /\ change[c].at \in {"open", "update"} => change[c].by \in {-1, 1}
        /\ change[c].at = "update" =>
              /\ rowLock = c /\ wallet.row = "here" /\ change[c].balance = wallet.balance
              /\ accepted(change[c].by, change[c].amount, wallet.balance)

NoneYet == wallet.row = "none" => entries = <<>> /\ wallet.version = 0

WalletInv == WalletTypeOK /\ ReadsStand /\ NoneYet /\ LedgerChains /\ ChecksHoldAtUpdate

LEMMA WalletInvInit == WalletInit => WalletInv
<1> SUFFICES ASSUME WalletInit PROVE WalletInv
  OBVIOUS
<1>1. \A c \in Change : change[c].at = "new" /\ change[c] \in Calls
  BY WalletBounds DEF WalletInit, Calls
<1>2. WalletTypeOK
  BY <1>1, WalletBounds DEF WalletInit, WalletTypeOK
<1> QED
  BY <1>1, <1>2, Zenon DEF WalletInit, WalletInv, ReadsStand, NoneYet, LedgerChains, ChecksHoldAtUpdate

\* A transaction that ends leaves the rows of the others as they were.
LEMMA EndKeeps ==
    ASSUME WalletInv, NEW c \in Change, NEW outcome \in Ended \ {"constraint"}, end(c, outcome)
    PROVE  /\ change' \in [Change -> Calls] /\ rowLock' \in Change \cup {NoChange}
           /\ change'[c].at = outcome
           /\ \A d \in Change \ {c} : change'[d] = change[d]
           /\ rowLock # c => rowLock' = rowLock
           /\ ChecksHoldAtUpdate'
  BY ZenonT(40) DEF end, Ended, Calls, WalletInv, WalletTypeOK, ChecksHoldAtUpdate

\* The update of the balance and the ledger entry.
LEMMA AppliedKeeps ==
    ASSUME WalletInv, NEW c \in Change, change[c].at = "update", applied(c)
    PROVE  /\ wallet' \in [row : {"none", "here", "deleted"}, balance : 0 .. MaxBalance, version : Nat]
           /\ wallet'.row = "here"
           /\ entries' \in Seq(Entries) /\ LedgerChains'
<1> DEFINE new == wallet.balance + change[c].by * change[c].amount
<1>1. /\ wallet.balance \in 0 .. MaxBalance /\ wallet.version \in Nat /\ change[c].amount \in Nat
      /\ wallet.row = "here" /\ change[c].balance = wallet.balance
      /\ change[c].by \in {-1, 1} /\ accepted(change[c].by, change[c].amount, wallet.balance)
  BY WalletBounds DEF WalletInv, WalletTypeOK, ReadsStand, Calls, Amount
<1>2. new \in 0 .. MaxBalance
  <2>1. CASE change[c].by = 1
    BY <1>1, <2>1, WalletBounds DEF accepted
  <2>2. CASE change[c].by = -1
    BY <1>1, <2>2, WalletBounds DEF accepted
  <2> QED
    BY <1>1, <2>1, <2>2, Zenon
<1>3. wallet' = [wallet EXCEPT !.balance = new, !.version = @ + 1]
  BY Zenon DEF applied
<1>4. PICK e : e = [change |-> c, previous |-> wallet.balance, new |-> new]
  BY Zenon
<1>5. entries' = Append(entries, e)
  BY <1>1, <1>4, Zenon DEF applied
<1> HIDE DEF new
<1>6. e \in Entries /\ e.new = new /\ e.previous = wallet.balance
  BY <1>1, <1>2, <1>4, WalletBounds DEF Entries
<1>7. /\ wallet' \in [row : {"none", "here", "deleted"}, balance : 0 .. MaxBalance, version : Nat]
      /\ wallet'.row = "here" /\ wallet'.balance = new
  <2>1. wallet \in [row : {"none", "here", "deleted"}, balance : 0 .. MaxBalance, version : Nat]
    BY Zenon DEF WalletInv, WalletTypeOK
  <2>2. wallet.version + 1 \in Nat
    BY <1>1
  <2> HIDE DEF applied
  <2> QED
    BY <1>1, <1>2, <1>3, <2>1, <2>2, Zenon
<1>8. entries \in Seq(Entries) /\ LedgerChains
  BY Zenon DEF WalletInv, WalletTypeOK
<1>9. entries' \in Seq(Entries)
  BY <1>5, <1>6, <1>8
<1>10. Len(entries') = Len(entries) + 1 /\ entries'[Len(entries')] = e
       /\ \A i \in 1 .. Len(entries) : entries'[i] = entries[i]
  BY <1>5, <1>6, <1>8
<1>11. ASSUME NEW i \in 1 .. Len(entries') - 1 PROVE entries'[i].new = entries'[i + 1].previous
  <2>1. i \in 1 .. Len(entries) /\ entries # <<>> /\ Len(entries) \in Nat
    BY <1>8, <1>10
  <2>2. CASE i = Len(entries)
    <3>1. entries[Len(entries)].new = wallet.balance
      BY <1>1, <1>8, <2>1, Zenon DEF LedgerChains
    <3> QED
      BY <1>6, <1>10, <2>1, <2>2, <3>1, Zenon
  <2>3. CASE i # Len(entries)
    <3>1. i \in 1 .. Len(entries) - 1 /\ i + 1 \in 1 .. Len(entries)
      BY <2>1, <2>3
    <3>2. entries[i].new = entries[i + 1].previous
      BY <1>1, <1>8, <2>1, <3>1, SMTT(30) DEF LedgerChains
    <3> QED
      BY <1>10, <2>1, <3>1, <3>2, Zenon
  <2> QED
    BY <2>2, <2>3, Zenon
<1> QED
  BY <1>6, <1>7, <1>9, <1>10, <1>11, Zenon DEF LedgerChains

\* COMMIT, or a failure, of a transaction that holds the row or does not.
LEMMA FinishKeeps ==
    ASSUME WalletInv, NEW c \in Change, change[c].at \in {"open", "update"},
           NEW outcome \in Ended \ {"constraint"}, end(c, outcome),
           \/ UNCHANGED <<wallet, entries>>
           \/ change[c].at = "update" /\ applied(c),
           walletFaults' \in 0 .. MaxWalletFaults
    PROVE  WalletInv'
<1>1. /\ change' \in [Change -> Calls] /\ rowLock' \in Change \cup {NoChange}
      /\ change'[c].at = outcome
      /\ \A d \in Change \ {c} : change'[d] = change[d]
      /\ rowLock # c => rowLock' = rowLock
      /\ ChecksHoldAtUpdate'
  BY EndKeeps, Zenon
<1>2. /\ wallet' \in [row : {"none", "here", "deleted"}, balance : 0 .. MaxBalance, version : Nat]
      /\ entries' \in Seq(Entries) /\ LedgerChains' /\ NoneYet'
  <2>1. CASE UNCHANGED <<wallet, entries>>
    BY <2>1, Zenon DEF WalletInv, WalletTypeOK, LedgerChains, NoneYet
  <2>2. CASE change[c].at = "update" /\ applied(c)
    BY <2>2, AppliedKeeps, Zenon DEF NoneYet
  <2> QED
    BY <2>1, <2>2, Zenon
<1>3. ASSUME NEW d \in Change
      PROVE  /\ change'[d].at \in {"open", "update"} => change'[d].by \in {-1, 1}
             /\ change'[d].at = "update" =>
                   /\ rowLock' = d /\ wallet'.row = "here" /\ change'[d].balance = wallet'.balance
                   /\ accepted(change'[d].by, change'[d].amount, wallet'.balance)
  <2>1. CASE d = c
    BY <1>1, <2>1, Zenon DEF Ended
  <2>2. CASE d # c /\ change[d].at = "update"
    <3>1. rowLock = d /\ change[c].at # "update"
      BY <2>2, Zenon DEF WalletInv, ReadsStand
    <3>2. change'[d] = change[d] /\ rowLock' = d /\ UNCHANGED wallet
      BY <1>1, <2>2, <3>1, ZenonT(40)
    <3> QED
      BY <2>2, <3>2, Zenon DEF WalletInv, ReadsStand
  <2>3. CASE d # c /\ change[d].at # "update"
    BY <1>1, <2>3, Zenon DEF WalletInv, ReadsStand
  <2> QED
    BY <2>1, <2>2, <2>3, Zenon
<1>4. WalletTypeOK'
  BY <1>1, <1>2, Zenon DEF WalletTypeOK
<1> QED
  BY <1>1, <1>2, <1>3, <1>4, Zenon DEF WalletInv, ReadsStand

\* The steps that leave the row, the ledger and the lock alone.
LEMMA MovedKeeps ==
    ASSUME WalletInv, NEW c \in Change, change' \in [Change -> Calls],
           \A d \in Change \ {c} : change'[d] = change[d],
           change'[c].at \notin {"update", "constraint"},
           change'[c].at = "open" => change'[c].by \in {-1, 1},
           change[c].at # "update", UNCHANGED <<wallet, rowLock, entries, walletFaults>>
    PROVE  WalletInv'
<1>1. WalletTypeOK' /\ LedgerChains' /\ NoneYet'
  BY ZenonT(40) DEF WalletInv, WalletTypeOK, LedgerChains, NoneYet
<1>2. ASSUME NEW d \in Change
      PROVE  /\ change'[d].at # "constraint"
             /\ change'[d].at \in {"open", "update"} => change'[d].by \in {-1, 1}
             /\ change'[d].at = "update" =>
                   /\ rowLock' = d /\ wallet'.row = "here" /\ change'[d].balance = wallet'.balance
                   /\ accepted(change'[d].by, change'[d].amount, wallet'.balance)
  <2>1. CASE d = c
    BY <2>1, Zenon
  <2>2. CASE d # c
    BY <2>2 DEF WalletInv, ReadsStand, ChecksHoldAtUpdate
  <2> QED
    BY <2>1, <2>2, Zenon
<1> QED
  BY <1>1, <1>2, Zenon DEF WalletInv, ReadsStand, ChecksHoldAtUpdate

LEMMA BeginKeeps ==
    ASSUME WalletInv, NEW c \in Change, NEW by \in {-1, 1}, NEW amount \in Amount,
           begin(c, by, amount)
    PROVE  WalletInv'
<1>1. PICK v \in Nat : v = IF wallet.row = "here" THEN wallet.version ELSE 0
  BY Zenon DEF WalletInv, WalletTypeOK
<1>2. change' = [change EXCEPT ![c] = [@ EXCEPT !.at = "open", !.by = by, !.amount = amount,
                                                !.snapshot = v]]
  BY <1>1, Zenon DEF begin, WalletInv, WalletTypeOK, Calls
<1>3. change \in [Change -> Calls] /\ change[c].at = "new"
  BY Zenon DEF begin, WalletInv, WalletTypeOK
<1>4. change' \in [Change -> Calls]
  BY <1>2, <1>3, ZenonT(40) DEF Calls
<1> QED
  BY <1>2, <1>3, <1>4, MovedKeeps DEF begin

LEMMA TimeoutKeeps ==
    ASSUME WalletInv, NEW c \in Change, lockTimesOut(c)
    PROVE  WalletInv'
<1>1. change \in [Change -> Calls] /\ MaxRetries \in Nat
  BY WalletBounds, Zenon DEF WalletInv, WalletTypeOK
<1>2. CASE change[c].attempts < MaxRetries
  <2>1. change' = [change EXCEPT ![c].at = "new", ![c].attempts = @ + 1]
    BY <1>2, Zenon DEF lockTimesOut
  <2>2. change' \in [Change -> Calls]
    BY <1>1, <1>2, <2>1 DEF Calls
  <2>3. change'[c].at = "new" /\ \A d \in Change \ {c} : change'[d] = change[d]
    BY <1>1, <2>1 DEF Calls
  <2> QED
    BY <2>2, <2>3, MovedKeeps, Zenon DEF lockTimesOut
<1>3. CASE ~(change[c].attempts < MaxRetries)
  <2>1. change' = [change EXCEPT ![c].at = "lock_timeout"]
    BY <1>3, Zenon DEF lockTimesOut
  <2>2. change' \in [Change -> Calls]
    BY <1>1, <2>1 DEF Calls, Ended
  <2>3. change'[c].at = "lock_timeout" /\ \A d \in Change \ {c} : change'[d] = change[d]
    BY <1>1, <2>1, Zenon DEF Calls
  <2> QED
    BY <2>2, <2>3, MovedKeeps DEF lockTimesOut
<1> QED
  BY <1>2, <1>3, Zenon

LEMMA LockKeeps ==
    ASSUME WalletInv, NEW c \in Change, lockRow(c)
    PROVE  WalletInv'
<1>0. walletFaults' \in 0 .. MaxWalletFaults /\ change \in [Change -> Calls]
  BY Zenon DEF lockRow, WalletInv, WalletTypeOK
<1>1. CASE end(c, "refused")
  BY <1>0, <1>1, FinishKeeps, Zenon DEF lockRow, Ended
<1>2. CASE end(c, "conflict")
  BY <1>0, <1>2, FinishKeeps DEF lockRow, Ended
<1>3. CASE /\ rowLock = NoChange /\ rowLock' = c /\ change[c].snapshot # 0
           /\ wallet.row # "deleted" /\ wallet.version = change[c].snapshot
           /\ accepted(change[c].by, change[c].amount, wallet.balance)
           /\ change' = [change EXCEPT ![c].at = "update", ![c].balance = wallet.balance]
  <2>1. \A d \in Change : change[d].at # "update"
    BY <1>3, WalletBounds, Zenon DEF WalletInv, ReadsStand
  <2>2. wallet.row = "here"
    BY <1>3, Zenon DEF WalletInv, WalletTypeOK, NoneYet
  <2>3. change' \in [Change -> Calls]
    <3>1. PICK n \in Nat : n = wallet.balance
      BY WalletBounds DEF WalletInv, WalletTypeOK
    <3>2. [change[c] EXCEPT !.at = "update", !.balance = n] \in Calls
      BY <1>0, <3>1, Zenon DEF Calls
    <3>3. change' = [change EXCEPT ![c] = [change[c] EXCEPT !.at = "update", !.balance = n]]
      BY <1>0, <1>3, <3>1, Zenon
    <3> QED
      BY <1>0, <3>2, <3>3
  <2>4. /\ change'[c].at = "update" /\ change'[c].balance = wallet.balance
        /\ change'[c].by = change[c].by /\ change'[c].amount = change[c].amount
        /\ \A d \in Change \ {c} : change'[d] = change[d]
    BY <1>0, <1>3 DEF Calls
  <2>5. change[c].by \in {-1, 1} /\ UNCHANGED <<wallet, entries, walletFaults>>
    BY Zenon DEF lockRow, WalletInv, ReadsStand
  <2>6. WalletTypeOK' /\ LedgerChains' /\ NoneYet'
    BY <1>3, <2>3, <2>5, Zenon DEF WalletInv, WalletTypeOK, LedgerChains, NoneYet
  <2>7. ASSUME NEW d \in Change
        PROVE  /\ change'[d].at # "constraint"
               /\ change'[d].at \in {"open", "update"} => change'[d].by \in {-1, 1}
               /\ change'[d].at = "update" =>
                     /\ rowLock' = d /\ wallet'.row = "here" /\ change'[d].balance = wallet'.balance
                     /\ accepted(change'[d].by, change'[d].amount, wallet'.balance)
    <3>1. CASE d = c
      BY <1>3, <2>2, <2>4, <2>5, <3>1, SMTT(30)
    <3>2. CASE d # c
      BY <2>1, <2>4, <3>2 DEF WalletInv, ReadsStand, ChecksHoldAtUpdate
    <3> QED
      BY <3>1, <3>2, Zenon
  <2> QED
    BY <2>6, <2>7, Zenon DEF WalletInv, ReadsStand, ChecksHoldAtUpdate
<1> QED
  BY <1>1, <1>2, <1>3, Zenon DEF lockRow

LEMMA WalletInvNext == WalletInv /\ [WalletNext]_walletVars => WalletInv'
<1> SUFFICES ASSUME WalletInv, [WalletNext]_walletVars PROVE WalletInv'
  OBVIOUS
<1>1. CASE UNCHANGED walletVars
  BY <1>1, Zenon DEF walletVars, WalletInv, WalletTypeOK, ReadsStand, NoneYet, LedgerChains,
              ChecksHoldAtUpdate
<1>2. CASE createWallet
  <2>1. /\ UNCHANGED <<rowLock, change, entries, walletFaults>> /\ entries = <<>>
        /\ \A c \in Change : change[c].at # "update"
    BY <1>2, Zenon DEF createWallet, WalletInv, ReadsStand, NoneYet
  <2>2. wallet'.row = "here" /\ WalletTypeOK'
    BY <1>2, SMTT(30) DEF createWallet, WalletInv, WalletTypeOK
  <2> QED
    BY <2>1, <2>2, Zenon DEF WalletInv, ReadsStand, NoneYet, LedgerChains, ChecksHoldAtUpdate
<1>3. CASE deleteWallet
  <2>1. /\ UNCHANGED <<rowLock, change, walletFaults>> /\ entries' = <<>>
        /\ \A c \in Change : change[c].at # "update"
    BY <1>3, WalletBounds DEF deleteWallet, WalletInv, ReadsStand
  <2>2. wallet'.row = "deleted" /\ WalletTypeOK'
    BY <1>3 DEF deleteWallet, WalletInv, WalletTypeOK
  <2> QED
    BY <2>1, <2>2, Zenon DEF WalletInv, ReadsStand, NoneYet, LedgerChains, ChecksHoldAtUpdate
<1>4. ASSUME NEW c \in Change, commit(c) PROVE WalletInv'
  <2>1. wallet.balance + change[c].by * change[c].amount \in 0 .. MaxBalance
    <3>1. /\ wallet.balance \in 0 .. MaxBalance /\ change[c].amount \in Nat
          /\ change[c].by \in {-1, 1} /\ accepted(change[c].by, change[c].amount, wallet.balance)
      BY <1>4, WalletBounds DEF commit, WalletInv, WalletTypeOK, ReadsStand, Calls, Amount
    <3>2. CASE change[c].by = 1
      BY <3>1, <3>2, WalletBounds DEF accepted
    <3>3. CASE change[c].by = -1
      BY <3>1, <3>3, WalletBounds DEF accepted
    <3> QED
      BY <3>1, <3>2, <3>3, Zenon
  <2>2. /\ change[c].at = "update" /\ applied(c) /\ end(c, "done")
        /\ walletFaults' \in 0 .. MaxWalletFaults
    BY <1>4, <2>1, Zenon DEF commit, WalletInv, WalletTypeOK
  <2> QED
    BY <2>2, FinishKeeps, Zenon DEF Ended
<1>5. ASSUME NEW c \in Change, changeFails(c) PROVE WalletInv'
  <2>1. walletFaults' \in 0 .. MaxWalletFaults
    BY <1>5, WalletBounds DEF changeFails, WalletInv, WalletTypeOK
  <2> QED
    BY <1>5, <2>1, FinishKeeps, Zenon DEF changeFails, thrown, Ended
<1> QED
  BY <1>1, <1>2, <1>3, <1>4, <1>5, BeginKeeps, LockKeeps, TimeoutKeeps, ZenonT(40) DEF WalletNext

(***************************************************************************)
(* For any number of concurrent calls, retries and failures, the ledger of *)
(* a wallet is a chain that ends in its balance: no update is lost         *)
(* (walletsRepository.ts, credit and debit).                               *)
(***************************************************************************)
THEOREM LedgerAlwaysChains == WalletSpec => []LedgerChains
<1>1. WalletInv => LedgerChains
  BY Zenon DEF WalletInv
<1> QED
  BY <1>1, WalletInvInit, WalletInvNext, PTL DEF WalletSpec

(***************************************************************************)
(* No call meets the constraints of the balance column: what was checked   *)
(* under the row lock holds at the UPDATE (walletsRepository.ts:317).      *)
(***************************************************************************)
THEOREM ChecksAlwaysHold == WalletSpec => []ChecksHoldAtUpdate
<1>1. WalletInv => ChecksHoldAtUpdate
  BY Zenon DEF WalletInv
<1> QED
  BY <1>1, WalletInvInit, WalletInvNext, PTL DEF WalletSpec
=============================================================================
