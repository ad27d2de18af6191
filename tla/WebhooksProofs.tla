-------------------------- MODULE WebhooksProofs --------------------------
(***************************************************************************)
(* Webhook deliveries and their dead letters: nothing is closed unsent,    *)
(* nothing is skipped without cover, and every send has a reason; for any  *)
(* number of emits, webhooks, runs and replays by hand.                    *)
(***************************************************************************)
EXTENDS Webhooks, SetFacts, TLAPS

EmitPlace == {"new", "sending", "returned", "threw", "crashed"}
SendPlace == {"none", "reserve", "deliver", "ok", "clear", "clearAgain", "skipped", "failed", "threw"}
DlqState == {"none", "recent", "ripe", "held", "replayed"}
CallPlace == {"idle", "list", "next", "deliver", "mark", "done"}

\* Emits, keys, dead letters and the calls of the processor.
WebhookTypeOK ==
    /\ active \subseteq Webhook /\ reserved \subseteq Webhook
    /\ emitting \in [Emit -> EmitPlace]
    /\ sending \in [Entry -> SendPlace]
    /\ dlq \in [Entry -> DlqState]
    /\ failedAt \in Seq(Entry)
    /\ runFlag \in BOOLEAN
    /\ caller \in [Caller -> CallPlace]
    /\ batch \in [Caller -> Seq(Entry)]
    /\ sent \in [Entry -> Nat]
    /\ storeFaults \in Nat

\* No entry is in a batch twice.
Distinct(s) == \A i, j \in DOMAIN s : s[i] = s[j] => i = j

\* One run at a time has entries; a call that sends one has one.
RunsInv ==
    /\ \A c \in RunCall : caller[c] # "idle" => runFlag /\ \A d \in RunCall : caller[d] # "idle" => d = c
    /\ \A c \in RunCall : caller[c] \in {"idle", "list"} => batch[c] = << >>
    /\ \A c \in Caller : caller[c] \in {"deliver", "mark"} => batch[c] # << >>
    /\ \A c \in Caller : Distinct(batch[c])
    /\ \A c \in Replayer : /\ caller[c] # "list" /\ (caller[c] = "next" => batch[c] = << >>)
                           /\ caller[c] \in {"deliver", "mark"} => Tail(batch[c]) = << >>

\* An entry is pushed once, when its emit ends.
PushedInv ==
    /\ \A p \in Entry : dlq[p] # "none" => emitting[p[1]] \notin {"new", "sending"}
    /\ Distinct(failedAt) /\ \A i \in DOMAIN failedAt : dlq[failedAt[i]] # "none"
    /\ \A c \in Caller : \A i \in DOMAIN batch[c] : dlq[batch[c][i]] # "none"

\* A call marks an entry when it has sent it.
MarkInv == \A c \in Caller : caller[c] = "mark" => sent[Head(batch[c])] > 0

\* A run still has a send of entry p to make, by the state of the table or by
\* the batch it read.
InBatch(p) == \E c \in RunCall : \E i \in DOMAIN batch[c] : batch[c][i] = p
Marking(p) == \E c \in RunCall : caller[c] = "mark" /\ Head(batch[c]) = p
Owed(p) == ~Marking(p) /\ (dlq[p] \in {"none", "recent", "ripe"} \/ InBatch(p))
toSend(p) == IF Owed(p) THEN 1 ELSE 0

\* The replays by hand that have sent, or will not.
spent == {c \in Replayer : caller[c] \notin {"idle", "deliver"}}
SentInv == \A p \in Entry : sent[p] + toSend(p) <= 1 + storeFaults + Cardinality(spent)

\* An emit has sent the event to the webhook of p, or is sending it; or the
\* event is, or is about to be, a dead letter.
Held(p) == sending[p] \in {"deliver", "ok", "clear"}
Covers(p) == Held(p) \/ (sending[p] = "failed" /\ emitting[p[1]] = "sending") \/ dlq[p] # "none"

\* Without faults, the webhook of a row in webhook_delivery_keys has been sent
\* the event or is being sent it, and what an emit skipped is covered.
CoverInv ==
    storeFaults = 0 =>
        /\ \A h \in reserved : \E q \in Entry : q[2] = h /\ Held(q)
        /\ \A p \in Entry :
              /\ sending[p] = "skipped" => \E q \in Entry : q[2] = p[2] /\ Covers(q)
              /\ sending[p] = "failed" => emitting[p[1]] = "sending" \/ dlq[p] # "none"
              /\ sending[p] \in {"reserve", "deliver", "clear"} => emitting[p[1]] = "sending"
              /\ sending[p] # "clearAgain"
              /\ emitting[p[1]] = "new" => sending[p] = "none"

\* The inductive invariant of the replays.
ReplayInv == WebhookTypeOK /\ RunsInv /\ PushedInv /\ MarkInv /\ MarkedWasDelivered /\ SentInv

\* An entry is an emit and a webhook.
LEMMA EntryParts ==
    /\ \A p \in Entry : p[1] \in Emit /\ p[2] \in Webhook /\ p = <<p[1], p[2]>>
    /\ \A e \in Emit, h \in Webhook : <<e, h>> \in Entry /\ <<e, h>>[1] = e /\ <<e, h>>[2] = h
BY DEF Entry

\* What an operator's call does to the number of sends paid for.
LEMMA SpentGrows ==
    ASSUME FiniteSetFacts, spent \subseteq spent'
    PROVE  /\ Cardinality(spent) \in Nat /\ Cardinality(spent') \in Nat
           /\ Cardinality(spent) <= Cardinality(spent')
<1>1. IsFiniteSet(spent) /\ IsFiniteSet(spent')
    <2>1. spent \subseteq Replayer /\ spent' \subseteq Replayer
        BY Zenon DEF spent
    <2> QED BY <2>1, WebhookBounds, Zenon DEF FiniteSetFacts, SubsetFact
<1> QED BY <1>1, Zenon DEF FiniteSetFacts, SubsetFact, CountFact

LEMMA SpentAdds ==
    ASSUME FiniteSetFacts, NEW c, c \notin spent, c \in spent', spent \subseteq spent'
    PROVE  Cardinality(spent) + 1 <= Cardinality(spent')
<1>1. IsFiniteSet(spent) /\ IsFiniteSet(spent')
    <2>1. spent \subseteq Replayer /\ spent' \subseteq Replayer
        BY Zenon DEF spent
    <2> QED BY <2>1, WebhookBounds, Zenon DEF FiniteSetFacts, SubsetFact
<1>2. spent \cup {c} \subseteq spent'
    BY Zenon
<1>3. Cardinality(spent \cup {c}) = Cardinality(spent) + 1 /\ IsFiniteSet(spent \cup {c})
    BY <1>1, Zenon DEF FiniteSetFacts, AddFact
<1>4. Cardinality(spent \cup {c}) <= Cardinality(spent')
    BY <1>1, <1>2, Zenon DEF FiniteSetFacts, SubsetFact
<1> QED BY <1>3, <1>4, Zenon

\* A step that sends nothing leaves no more to send, but after a fault.
LEMMA NothingSent ==
    ASSUME FiniteSetFacts, WebhookTypeOK, SentInv, sent' = sent, spent \subseteq spent',
           storeFaults' \in Nat, storeFaults <= storeFaults',
           \A p \in Entry : Owed(p)' => Owed(p) \/ storeFaults + 1 <= storeFaults'
    PROVE  SentInv'
<1>1. Cardinality(spent) \in Nat /\ Cardinality(spent') \in Nat /\ Cardinality(spent) <= Cardinality(spent')
    BY SpentGrows, Zenon
<1> SUFFICES ASSUME NEW p \in Entry
             PROVE  sent'[p] + toSend(p)' <= 1 + storeFaults' + Cardinality(spent')
    BY Zenon DEF SentInv
<1>2. sent[p] \in Nat /\ storeFaults \in Nat
    BY Zenon DEF WebhookTypeOK
<1>3. sent[p] + toSend(p) <= 1 + storeFaults + Cardinality(spent)
    BY Zenon DEF SentInv
<1>4. CASE Owed(p)' /\ Owed(p)
    BY <1>1, <1>2, <1>3, <1>4 DEF toSend
<1>5. CASE Owed(p)' /\ storeFaults + 1 <= storeFaults'
    BY <1>1, <1>2, <1>3, <1>5 DEF toSend
<1>6. CASE ~Owed(p)'
    BY <1>1, <1>2, <1>3, <1>6 DEF toSend
<1> QED BY <1>4, <1>5, <1>6, Zenon

\* What the emits do of themselves does not concern the dead letters.
EmitOnly ==
    /\ UNCHANGED <<dlqVars, replayVars>>
    /\ active' \subseteq Webhook /\ reserved' \subseteq Webhook
    /\ emitting' \in [Emit -> EmitPlace] /\ sending' \in [Entry -> SendPlace]
    /\ \A e \in Emit : emitting'[e] \in {"new", "sending"} => emitting[e] \in {"new", "sending"}
    /\ storeFaults' \in {storeFaults, storeFaults + 1}

LEMMA EmitOnlyInv == ASSUME FiniteSetFacts, ReplayInv, EmitOnly PROVE ReplayInv'
<1>1. WebhookTypeOK /\ RunsInv /\ PushedInv /\ MarkInv /\ MarkedWasDelivered /\ SentInv
    BY Zenon DEF ReplayInv
<1>2. UNCHANGED <<dlq, failedAt, runFlag, caller, batch, sent>>
    BY Zenon DEF EmitOnly, dlqVars, replayVars
<1>3. storeFaults' \in Nat /\ storeFaults <= storeFaults'
    BY <1>1 DEF EmitOnly, WebhookTypeOK
<1>4. WebhookTypeOK'
    BY <1>1, <1>2, <1>3, Zenon DEF WebhookTypeOK, EmitOnly
<1>5. RunsInv' /\ MarkInv'
    BY <1>1, <1>2, Zenon DEF RunsInv, MarkInv
<1>6. PushedInv'
    <2>1. ASSUME NEW p \in Entry, dlq[p] # "none" PROVE emitting'[p[1]] \notin {"new", "sending"}
        BY <1>1, <2>1, EntryParts, Zenon DEF PushedInv, EmitOnly
    <2> QED BY <1>1, <1>2, <2>1, Zenon DEF PushedInv, Distinct
<1>7. SentInv'
    <2>1. spent' = spent
        BY <1>2, Zenon DEF spent
    <2>2. \A p \in Entry : Owed(p)' => Owed(p)
        BY <1>2, Zenon DEF Owed, Marking, InBatch
    <2> QED BY <1>1, <1>2, <1>3, <2>1, <2>2, NothingSent, Zenon
<1>30. MarkedWasDelivered'
    BY <1>1, <1>2, Zenon DEF MarkedWasDelivered
<1> QED BY <1>30, <1>4, <1>5, <1>6, <1>7, Zenon DEF ReplayInv

LEMMA ThrowsOnly ==
    ASSUME WebhookTypeOK, NEW p \in Entry, throws(p)
    PROVE  /\ emitting' \in [Emit -> EmitPlace] /\ sending' \in [Entry -> SendPlace]
           /\ \A e \in Emit : emitting'[e] \in {"new", "sending"} => emitting[e] \in {"new", "sending"}
BY EntryParts DEF WebhookTypeOK, throws, EmitPlace, SendPlace

LEMMA EmitSteps ==
    /\ \A h \in Webhook : WebhookTypeOK /\ toggle(h) => EmitOnly
    /\ \A e \in Emit : WebhookTypeOK /\ (emit(e) \/ emitCrashes(e)) => EmitOnly
    /\ \A p \in Entry : WebhookTypeOK /\ emitStep(p) => EmitOnly
<1>1. ASSUME WebhookTypeOK, NEW h \in Webhook, toggle(h) PROVE EmitOnly
    BY <1>1, Zenon DEF WebhookTypeOK, toggle, EmitOnly, emitVars
<1>2. ASSUME WebhookTypeOK, NEW e \in Emit, emit(e) PROVE EmitOnly
    BY <1>2, Zenon DEF WebhookTypeOK, emit, EmitOnly, EmitPlace, SendPlace
<1>3. ASSUME WebhookTypeOK, NEW e \in Emit, emitCrashes(e) PROVE EmitOnly
    BY <1>3, Zenon DEF WebhookTypeOK, emitCrashes, storeFails, EmitOnly, EmitPlace, SendPlace
<1>4. ASSUME WebhookTypeOK, NEW p \in Entry, reserveWebhookDelivery(p) PROVE EmitOnly
    BY <1>4, EntryParts DEF WebhookTypeOK, reserveWebhookDelivery, EmitOnly, EmitPlace, SendPlace
<1>5. ASSUME WebhookTypeOK, NEW p \in Entry, reserveFails(p) PROVE EmitOnly
    BY <1>5, EntryParts, ThrowsOnly DEF WebhookTypeOK, reserveFails, storeFails, EmitOnly
<1>6. ASSUME WebhookTypeOK, NEW p \in Entry, deliverWebhook(p) PROVE EmitOnly
    BY <1>6, Zenon DEF WebhookTypeOK, deliverWebhook, EmitOnly, EmitPlace, SendPlace
<1>7. ASSUME WebhookTypeOK, NEW p \in Entry, clearWebhookDeliveryAttempt(p) \/ clearFails(p) PROVE EmitOnly
    <2>1. /\ UNCHANGED <<active, dlqVars, replayVars>> /\ reserved' \in {reserved, reserved \ {p[2]}}
          /\ storeFaults' \in {storeFaults, storeFaults + 1}
          /\ throws(p) \/ (UNCHANGED emitting /\ \E q \in SendPlace : sending' = [sending EXCEPT ![p] = q])
        BY <1>7, Zenon DEF clearWebhookDeliveryAttempt, clearFails, storeFails, SendPlace
    <2>2. reserved' \subseteq Webhook /\ active' \subseteq Webhook
        BY <1>7, <2>1, Zenon DEF WebhookTypeOK
    <2>3. CASE throws(p)
        BY <1>7, <2>1, <2>2, <2>3, ThrowsOnly, Zenon DEF EmitOnly
    <2>4. CASE UNCHANGED emitting /\ \E q \in SendPlace : sending' = [sending EXCEPT ![p] = q]
        BY <1>7, <2>1, <2>2, <2>4 DEF EmitOnly, WebhookTypeOK
    <2> QED BY <2>1, <2>3, <2>4, Zenon
<1> QED BY <1>1, <1>2, <1>3, <1>4, <1>5, <1>6, <1>7, Zenon DEF emitStep

LEMMA DistinctConcat ==
    ASSUME NEW s \in Seq(Entry), NEW t \in Seq(Entry), Distinct(s), Distinct(t),
           \A i \in DOMAIN s, j \in DOMAIN t : s[i] # t[j]
    PROVE  /\ s \o t \in Seq(Entry) /\ Distinct(s \o t)
           /\ \A k \in DOMAIN (s \o t) :
                 \/ \E i \in DOMAIN s : (s \o t)[k] = s[i]
                 \/ \E j \in DOMAIN t : (s \o t)[k] = t[j]
<1>1. /\ s \o t \in Seq(Entry) /\ Len(s) \in Nat /\ Len(t) \in Nat
      /\ DOMAIN (s \o t) = 1..(Len(s) + Len(t)) /\ DOMAIN s = 1..Len(s) /\ DOMAIN t = 1..Len(t)
      /\ \A i \in DOMAIN s : (s \o t)[i] = s[i]
    OBVIOUS
<1>2. ASSUME NEW i \in DOMAIN (s \o t), i \notin DOMAIN s
      PROVE  i \in Nat /\ i - Len(s) \in DOMAIN t /\ (s \o t)[i] = t[i - Len(s)]
    BY <1>1, <1>2
<1>3. ASSUME NEW i \in DOMAIN (s \o t), NEW j \in DOMAIN (s \o t), (s \o t)[i] = (s \o t)[j] PROVE i = j
    <2>1. CASE i \in DOMAIN s /\ j \in DOMAIN s
        BY <1>1, <1>3, <2>1, Zenon DEF Distinct
    <2>2. CASE i \in DOMAIN s /\ j \notin DOMAIN s
        BY <1>1, <1>2, <1>3, <2>2, Zenon
    <2>3. CASE i \notin DOMAIN s /\ j \in DOMAIN s
        BY <1>1, <1>2, <1>3, <2>3, Zenon
    <2>4. CASE i \notin DOMAIN s /\ j \notin DOMAIN s
        <3>1. i - Len(s) = j - Len(s)
            BY <1>2, <1>3, <2>4, Zenon DEF Distinct
        <3> QED BY <1>1, <1>2, <2>4, <3>1
    <2> QED BY <2>1, <2>2, <2>3, <2>4, Zenon
<1> QED BY <1>1, <1>2, <1>3, Zenon DEF Distinct

LEMMA TailFacts ==
    ASSUME NEW s \in Seq(Entry), s # << >>
    PROVE  /\ Head(s) \in Entry /\ Tail(s) \in Seq(Entry) /\ 1 \in DOMAIN s /\ Head(s) = s[1]
           /\ \A i \in DOMAIN Tail(s) : \E j \in DOMAIN s : Tail(s)[i] = s[j]
           /\ Distinct(s) => Distinct(Tail(s)) /\ \A i \in DOMAIN Tail(s) : Tail(s)[i] # Head(s)
<1>1. /\ Head(s) \in Entry /\ Tail(s) \in Seq(Entry) /\ 1 \in DOMAIN s /\ Head(s) = s[1]
      /\ \A i \in DOMAIN Tail(s) : i \in Nat /\ i + 1 \in DOMAIN s /\ i + 1 # 1 /\ Tail(s)[i] = s[i + 1]
    OBVIOUS
<1>2. ASSUME Distinct(s) PROVE Distinct(Tail(s)) /\ \A i \in DOMAIN Tail(s) : Tail(s)[i] # Head(s)
    <2>1. ASSUME NEW i \in DOMAIN Tail(s), NEW j \in DOMAIN Tail(s), Tail(s)[i] = Tail(s)[j] PROVE i = j
        <3>1. i + 1 = j + 1
            BY <1>1, <1>2, <2>1 DEF Distinct
        <3> QED BY <1>1, <3>1
    <2>2. \A i \in DOMAIN Tail(s) : Tail(s)[i] # Head(s)
        BY <1>1, <1>2, Zenon DEF Distinct
    <2> QED BY <2>1, <2>2, Zenon DEF Distinct
<1> QED BY <1>1, <1>2, Zenon

\* The end of emit(): its failures become dead letters.
Pushes(e, S) ==
    /\ emitting[e] = "sending" /\ S \subseteq {p \in Entry : p[1] = e} /\ pushed(S)
    /\ \E q \in {"returned", "threw"} : emitting' = [emitting EXCEPT ![e] = q]
    /\ UNCHANGED <<active, sending, reserved, runFlag, caller, batch, sent>>
    /\ storeFaults' \in {storeFaults, storeFaults + 1}

LEMMA PushesInv == ASSUME FiniteSetFacts, ReplayInv, NEW e \in Emit, NEW S, Pushes(e, S) PROVE ReplayInv'
<1>1. WebhookTypeOK /\ RunsInv /\ PushedInv /\ MarkInv /\ MarkedWasDelivered /\ SentInv
    BY Zenon DEF ReplayInv
<1>2. /\ UNCHANGED <<active, sending, reserved, runFlag, caller, batch, sent>>
      /\ S \subseteq Entry /\ \A p \in S : p[1] = e /\ dlq[p] = "none"
    BY <1>1, Zenon DEF Pushes, PushedInv
<1>3. storeFaults' \in Nat /\ storeFaults <= storeFaults'
    BY <1>1 DEF Pushes, WebhookTypeOK
<1>4. emitting' \in [Emit -> EmitPlace] /\ (\A k \in Emit : k # e => emitting'[k] = emitting[k])
      /\ emitting'[e] \in {"returned", "threw"}
    BY <1>1, Zenon DEF Pushes, WebhookTypeOK, EmitPlace
<1>5. /\ dlq' \in [Entry -> DlqState] /\ \A p \in Entry \ S : dlq'[p] = dlq[p]
      /\ \A p \in S : dlq'[p] \in {"held", "recent"}
    BY <1>1, <1>2 DEF Pushes, pushed, WebhookTypeOK, DlqState
<1>6. PICK order \in [1..Cardinality(S) -> S] :
         (\A i, j \in DOMAIN order : i # j => order[i] # order[j]) /\ failedAt' = failedAt \o order
    BY Zenon DEF Pushes, pushed
<1>7. order \in Seq(Entry) /\ Distinct(order) /\ \A i \in DOMAIN order : order[i] \in S
    <2>1. IsFiniteSet(S)
        BY <1>2, WebhookBounds, Zenon DEF Entry, FiniteSetFacts, ProductFact, SubsetFact
    <2>2. Cardinality(S) \in Nat
        BY <2>1, Zenon DEF FiniteSetFacts, CountFact
    <2>3. order \in [1..Cardinality(S) -> Entry]
        BY <1>2, Zenon
    <2>4. order \in Seq(Entry)
        BY <2>2, <2>3
    <2>5. \A i \in DOMAIN order : order[i] \in S
        BY Zenon
    <2>6. Distinct(order)
        BY <1>6, Zenon DEF Distinct
    <2> QED BY <2>4, <2>5, <2>6, Zenon
<1>8. /\ failedAt' \in Seq(Entry) /\ Distinct(failedAt)'
      /\ \A k \in DOMAIN failedAt' :
            (\E i \in DOMAIN failedAt : failedAt'[k] = failedAt[i]) \/ \E j \in DOMAIN order : failedAt'[k] = order[j]
    <2>1. failedAt \in Seq(Entry) /\ Distinct(failedAt)
        BY <1>1, Zenon DEF WebhookTypeOK, PushedInv
    <2>2. \A i \in DOMAIN failedAt, j \in DOMAIN order : failedAt[i] # order[j]
        BY <1>1, <1>2, <1>7, Zenon DEF PushedInv
    <2>3. failedAt \o order \in Seq(Entry) /\ Distinct(failedAt \o order)
          /\ \A k \in DOMAIN (failedAt \o order) :
                \/ \E i \in DOMAIN failedAt : (failedAt \o order)[k] = failedAt[i]
                \/ \E j \in DOMAIN order : (failedAt \o order)[k] = order[j]
        BY <1>7, <2>1, <2>2, DistinctConcat, Zenon
    <2> QED BY <1>6, <2>3, Zenon DEF Distinct
<1>9. WebhookTypeOK'
    BY <1>1, <1>2, <1>3, <1>4, <1>5, <1>8, Zenon DEF WebhookTypeOK
<1>10. RunsInv' /\ MarkInv'
    BY <1>1, <1>2, Zenon DEF RunsInv, MarkInv
<1>11. PushedInv'
    <2>1. ASSUME NEW p \in Entry, dlq'[p] # "none" PROVE emitting'[p[1]] \notin {"new", "sending"}
        <3>1. CASE p[1] = e
            BY <1>4, <3>1, Zenon
        <3>2. CASE p[1] # e
            BY <1>1, <1>2, <1>4, <1>5, <2>1, <3>2, EntryParts, Zenon DEF PushedInv
        <3> QED BY <3>1, <3>2, Zenon
    <2>2. ASSUME NEW k \in DOMAIN failedAt' PROVE dlq'[failedAt'[k]] # "none"
        <3>1. CASE \E i \in DOMAIN failedAt : failedAt'[k] = failedAt[i]
            <4>1. failedAt'[k] \in Entry /\ dlq[failedAt'[k]] # "none"
                BY <1>1, <3>1 DEF PushedInv, WebhookTypeOK
            <4> QED BY <1>2, <1>5, <4>1, Zenon
        <3>2. CASE \E j \in DOMAIN order : failedAt'[k] = order[j]
            <4>1. failedAt'[k] \in S
                BY <1>7, <3>2, Zenon
            <4> QED BY <1>5, <4>1, Zenon
        <3> QED BY <1>8, <3>1, <3>2, Zenon
    <2>3. ASSUME NEW c \in Caller, NEW i \in DOMAIN batch[c] PROVE dlq'[batch[c][i]] # "none"
        <3>1. batch[c][i] \in Entry /\ dlq[batch[c][i]] # "none"
            BY <1>1 DEF PushedInv, WebhookTypeOK
        <3> QED BY <1>2, <1>5, <3>1, Zenon
    <2> QED BY <1>2, <1>8, <2>1, <2>2, <2>3, Zenon DEF PushedInv
<1>12. SentInv'
    <2>1. spent' = spent
        BY <1>2, Zenon DEF spent
    <2>2. \A p \in Entry : Marking(p)' = Marking(p) /\ InBatch(p)' = InBatch(p)
        BY <1>2, Zenon DEF Marking, InBatch
    <2>3. \A p \in Entry : dlq'[p] \in {"none", "recent", "ripe"} => dlq[p] \in {"none", "recent", "ripe"}
        BY <1>2, <1>5, Zenon
    <2>4. \A p \in Entry : Owed(p)' => Owed(p)
        BY <2>2, <2>3, Zenon DEF Owed
    <2> QED BY <1>1, <1>2, <1>3, <2>1, <2>4, NothingSent, Zenon
<1>30. MarkedWasDelivered'
    BY <1>1, <1>2, <1>5, Zenon DEF MarkedWasDelivered
<1> QED BY <1>30, <1>9, <1>10, <1>11, <1>12, Zenon DEF ReplayInv

LEMMA MinAgePassesInv == ASSUME FiniteSetFacts, ReplayInv, NEW p \in Entry, minAgePasses(p) PROVE ReplayInv'
<1>1. WebhookTypeOK /\ RunsInv /\ PushedInv /\ MarkInv /\ MarkedWasDelivered /\ SentInv
    BY Zenon DEF ReplayInv
<1>2. /\ UNCHANGED <<active, emitting, sending, reserved, failedAt, runFlag, caller, batch, sent, storeFaults>>
      /\ dlq[p] = "recent" /\ dlq' = [dlq EXCEPT ![p] = "ripe"]
    BY Zenon DEF minAgePasses, emitVars, replayVars
<1>3. dlq' \in [Entry -> DlqState] /\ dlq'[p] = "ripe" /\ \A q \in Entry : q # p => dlq'[q] = dlq[q]
    BY <1>1, <1>2, Zenon DEF WebhookTypeOK, DlqState
<1>4. WebhookTypeOK'
    BY <1>1, <1>2, <1>3, Zenon DEF WebhookTypeOK
<1>5. RunsInv' /\ MarkInv'
    BY <1>1, <1>2, Zenon DEF RunsInv, MarkInv
<1>6. PushedInv'
    <2>1. \A i \in DOMAIN failedAt : failedAt[i] \in Entry
        BY <1>1 DEF WebhookTypeOK
    <2>2. \A c \in Caller : \A i \in DOMAIN batch[c] : batch[c][i] \in Entry
        BY <1>1 DEF WebhookTypeOK
    <2>3. \A q \in Entry : dlq'[q] # "none" <=> dlq[q] # "none"
        BY <1>2, <1>3, Zenon
    <2> QED BY <1>1, <1>2, <2>1, <2>2, <2>3, Zenon DEF PushedInv, Distinct
<1>7. SentInv'
    <2>1. spent' = spent
        BY <1>2, Zenon DEF spent
    <2>2. \A q \in Entry : Owed(q)' => Owed(q)
        BY <1>2, <1>3, Zenon DEF Owed, Marking, InBatch
    <2>3. storeFaults' \in Nat /\ storeFaults <= storeFaults'
        BY <1>1, <1>2 DEF WebhookTypeOK
    <2> QED BY <1>1, <1>2, <2>1, <2>2, <2>3, NothingSent, Zenon
<1>30. MarkedWasDelivered'
    BY <1>1, <1>2, <1>3, Zenon DEF MarkedWasDelivered
<1> QED BY <1>30, <1>4, <1>5, <1>6, <1>7, Zenon DEF ReplayInv

\* A call goes from one place to another and leaves its batch alone.
Steps(c, q) ==
    /\ caller' = [caller EXCEPT ![c] = q]
    /\ UNCHANGED <<active, emitVars, dlqVars, batch, sent>>
    /\ storeFaults' \in {storeFaults, storeFaults + 1}

LEMMA StepsInv ==
    ASSUME FiniteSetFacts, ReplayInv, NEW c \in Caller, NEW q \in CallPlace, Steps(c, q),
           caller[c] # "mark", q # "mark", q = "deliver" => batch[c] # << >>,
           runFlag' \in BOOLEAN,
           \/ c \in Replayer /\ caller[c] \in {"idle", "next"} /\ q = "done" /\ runFlag' = runFlag
           \/ c \in RunCall /\ caller[c] = "idle" /\ q = "list" /\ ~runFlag /\ runFlag'
           \/ c \in RunCall /\ caller[c] # "idle" /\ q = "idle" /\ batch[c] = << >> 
           \/ caller[c] = "next" /\ q = "deliver" /\ runFlag' = runFlag
    PROVE  ReplayInv'
<1>1. WebhookTypeOK /\ RunsInv /\ PushedInv /\ MarkInv /\ MarkedWasDelivered /\ SentInv
    BY Zenon DEF ReplayInv
<1>2. /\ UNCHANGED <<active, emitting, sending, reserved, dlq, failedAt, batch, sent>>
      /\ caller'[c] = q /\ \A d \in Caller : d # c => caller'[d] = caller[d]
      /\ caller' \in [Caller -> CallPlace]
    BY <1>1, Zenon DEF Steps, emitVars, dlqVars, WebhookTypeOK
<1>3. storeFaults' \in Nat /\ storeFaults <= storeFaults'
    BY <1>1 DEF Steps, WebhookTypeOK
<1>4. RunCall \subseteq Caller /\ Replayer \subseteq Caller /\ \A r \in RunCall : r \notin Replayer
    BY WebhookBounds, Zenon DEF Caller
<1>5. WebhookTypeOK'
    BY <1>1, <1>2, <1>3, Zenon DEF WebhookTypeOK
<1>6. RunsInv'
    <2>1. ASSUME NEW r \in RunCall, caller'[r] # "idle"
          PROVE  runFlag' /\ \A d \in RunCall : caller'[d] # "idle" => d = r
        BY <1>1, <1>2, <1>4, <2>1 DEF RunsInv
    <2>2. \A r \in RunCall : caller'[r] \in {"idle", "list"} => batch'[r] = << >>
        BY <1>1, <1>2, <1>4, Zenon DEF RunsInv
    <2>3. \A d \in Caller : (caller'[d] \in {"deliver", "mark"} => batch'[d] # << >>)
        BY <1>1, <1>2, Zenon DEF RunsInv
    <2>4. \A d \in Caller : Distinct(batch[d])'
        BY <1>1, <1>2, Zenon DEF RunsInv, Distinct
    <2>5. \A d \in Replayer : /\ caller'[d] # "list" /\ (caller'[d] = "next" => batch'[d] = << >>)
                              /\ caller'[d] \in {"deliver", "mark"} => Tail(batch'[d]) = << >>
        BY <1>1, <1>2, <1>4, Zenon DEF RunsInv
    <2> QED BY <2>1, <2>2, <2>3, <2>4, <2>5, Zenon DEF RunsInv
<1>7. MarkInv'
    BY <1>1, <1>2, Zenon DEF MarkInv
<1>8. PushedInv'
    BY <1>1, <1>2, Zenon DEF PushedInv, Distinct
<1>9. SentInv'
    <2>1. spent \subseteq spent'
        BY <1>1, <1>2, <1>4, Zenon DEF spent, RunsInv
    <2>2. \A p \in Entry : Owed(p)' => Owed(p)
        BY <1>2, <1>4, Zenon DEF Owed, Marking, InBatch
    <2> QED BY <1>1, <1>2, <1>3, <2>1, <2>2, NothingSent, Zenon
<1>30. MarkedWasDelivered'
    BY <1>1, <1>2, Zenon DEF MarkedWasDelivered
<1> QED BY <1>30, <1>5, <1>6, <1>7, <1>8, <1>9, Zenon DEF ReplayInv

\* A call is done with the entry at the head of its batch, which may have been
\* marked.
MovesOn(c) ==
    /\ batch[c] # << >> /\ batch' = [batch EXCEPT ![c] = Tail(@)]
    /\ caller[c] \in {"next", "deliver", "mark"} /\ caller' = [caller EXCEPT ![c] = "next"]
    /\ dlq' = dlq \/ (caller[c] = "mark" /\ dlq' = [dlq EXCEPT ![Head(batch[c])] = "replayed"])
    /\ caller[c] = "mark" /\ dlq' = dlq => storeFaults' = storeFaults + 1 \/ dlq[Head(batch[c])] = "replayed"
    /\ UNCHANGED <<active, emitVars, failedAt, runFlag, sent>>
    /\ storeFaults' \in {storeFaults, storeFaults + 1}

LEMMA MovesOnInv == ASSUME FiniteSetFacts, ReplayInv, NEW c \in Caller, MovesOn(c) PROVE ReplayInv'
<1>1. WebhookTypeOK /\ RunsInv /\ PushedInv /\ MarkInv /\ MarkedWasDelivered /\ SentInv
    BY Zenon DEF ReplayInv
<1> DEFINE head == Head(batch[c])
<1>2. /\ UNCHANGED <<active, emitting, sending, reserved, failedAt, runFlag, sent>>
      /\ caller'[c] = "next" /\ \A d \in Caller : d # c => caller'[d] = caller[d]
      /\ caller' \in [Caller -> CallPlace]
    BY <1>1, Zenon DEF MovesOn, emitVars, WebhookTypeOK, CallPlace
<1>3. storeFaults' \in Nat /\ storeFaults <= storeFaults'
    BY <1>1 DEF MovesOn, WebhookTypeOK
<1>4. RunCall \subseteq Caller /\ Replayer \subseteq Caller /\ \A r \in RunCall : r \notin Replayer
    BY WebhookBounds, Zenon DEF Caller
<1>5. batch[c] \in Seq(Entry) /\ batch[c] # << >> /\ Distinct(batch[c])
    BY <1>1, Zenon DEF WebhookTypeOK, MovesOn, RunsInv
<1>6. /\ head \in Entry /\ Tail(batch[c]) \in Seq(Entry) /\ 1 \in DOMAIN batch[c] /\ head = batch[c][1]
      /\ \A i \in DOMAIN Tail(batch[c]) : \E j \in DOMAIN batch[c] : Tail(batch[c])[i] = batch[c][j]
      /\ Distinct(Tail(batch[c])) /\ \A i \in DOMAIN Tail(batch[c]) : Tail(batch[c])[i] # head
    BY <1>5, TailFacts, Zenon
<1>7. /\ batch' \in [Caller -> Seq(Entry)] /\ batch'[c] = Tail(batch[c])
      /\ \A d \in Caller : d # c => batch'[d] = batch[d]
    BY <1>1, <1>6, Zenon DEF MovesOn, WebhookTypeOK
<1>8. /\ dlq' \in [Entry -> DlqState] /\ \A p \in Entry : p # head => dlq'[p] = dlq[p]
      /\ dlq'[head] = dlq[head] \/ dlq'[head] = "replayed"
    BY <1>1, <1>6, Zenon DEF MovesOn, WebhookTypeOK, DlqState
<1>9. WebhookTypeOK'
    BY <1>1, <1>2, <1>3, <1>7, <1>8, Zenon DEF WebhookTypeOK
<1>10. caller[c] \in {"next", "deliver", "mark"}
    BY Zenon DEF MovesOn
<1>11. RunsInv'
    <2>1. \A r \in RunCall : caller'[r] # "idle" => runFlag' /\ \A d \in RunCall : caller'[d] # "idle" => d = r
        BY <1>1, <1>2, <1>4, <1>10, SMTT(30) DEF RunsInv
    <2>2. \A r \in RunCall : caller'[r] \in {"idle", "list"} => batch'[r] = << >>
        BY <1>1, <1>2, <1>4, <1>7, Zenon DEF RunsInv
    <2>3. \A d \in Caller : (caller'[d] \in {"deliver", "mark"} => batch'[d] # << >>)
        BY <1>1, <1>2, <1>7, Zenon DEF RunsInv
    <2>4. \A d \in Caller : Distinct(batch[d])'
        BY <1>1, <1>6, <1>7, Zenon DEF RunsInv, Distinct
    <2>5. \A d \in Replayer : /\ caller'[d] # "list" /\ (caller'[d] = "next" => batch'[d] = << >>)
                              /\ caller'[d] \in {"deliver", "mark"} => Tail(batch'[d]) = << >>
        BY <1>1, <1>2, <1>4, <1>5, <1>7, <1>10, Zenon DEF RunsInv
    <2> QED BY <2>1, <2>2, <2>3, <2>4, <2>5, Zenon DEF RunsInv
<1>12. MarkInv'
    BY <1>1, <1>2, <1>7, Zenon DEF MarkInv
<1>13. PushedInv'
    <2>1. \A i \in DOMAIN failedAt : failedAt[i] \in Entry
        BY <1>1 DEF WebhookTypeOK
    <2>2. dlq[head] # "none"
        BY <1>1, <1>6, Zenon DEF PushedInv
    <2>3. \A p \in Entry : dlq'[p] # "none" <=> dlq[p] # "none"
        BY <1>8, <2>2, Zenon
    <2>4. \A p \in Entry : dlq'[p] # "none" => emitting'[p[1]] \notin {"new", "sending"}
        BY <1>1, <1>2, <2>3, Zenon DEF PushedInv
    <2>5. Distinct(failedAt)' /\ \A i \in DOMAIN failedAt' : dlq'[failedAt'[i]] # "none"
        BY <1>1, <1>2, <2>1, <2>3, Zenon DEF PushedInv, Distinct
    <2>6. ASSUME NEW d \in Caller, NEW i \in DOMAIN batch'[d] PROVE dlq'[batch'[d][i]] # "none"
        <3>1. \E j \in DOMAIN batch[d] : batch'[d][i] = batch[d][j]
            <4>1. CASE d = c
                BY <1>6, <1>7, <4>1, Zenon
            <4>2. CASE d # c
                BY <1>7, <4>2, Zenon
            <4> QED BY <4>1, <4>2, Zenon
        <3>2. batch'[d][i] \in Entry /\ dlq[batch'[d][i]] # "none"
            BY <1>1, <3>1 DEF PushedInv, WebhookTypeOK
        <3> QED BY <2>3, <3>2, Zenon
    <2> QED BY <2>4, <2>5, <2>6, Zenon DEF PushedInv
<1>14. SentInv'
    <2>1. spent \subseteq spent'
        BY <1>2, <1>4, Zenon DEF spent
    <2>2. ASSUME NEW p \in Entry, Owed(p)' PROVE Owed(p) \/ storeFaults + 1 <= storeFaults'
        <3>1. dlq'[p] \in {"none", "recent", "ripe"} => dlq[p] \in {"none", "recent", "ripe"}
            BY <1>8, Zenon
        <3>2. CASE c \in Replayer
            <4>1. \A r \in RunCall : caller'[r] = caller[r] /\ batch'[r] = batch[r]
                BY <1>2, <1>4, <1>7, <3>2, Zenon
            <4>2. Marking(p)' = Marking(p) /\ InBatch(p)' = InBatch(p)
                BY <4>1, Zenon DEF Marking, InBatch
            <4> QED BY <2>2, <3>1, <4>2, Zenon DEF Owed
        <3>3. CASE c \in RunCall
            <4>1. \A r \in RunCall : r # c => caller[r] = "idle" /\ batch[r] = << >> /\ batch'[r] = << >>
                BY <1>1, <1>4, <1>7, <1>10, <3>3, Zenon DEF RunsInv
            <4>2. InBatch(p)' => p # head /\ InBatch(p)
                <5>1. SUFFICES ASSUME InBatch(p)' PROVE p # head /\ InBatch(p)
                    BY Zenon
                <5>2. PICK r \in RunCall : \E i \in DOMAIN batch'[r] : batch'[r][i] = p
                    BY <5>1, Zenon DEF InBatch
                <5>3. r = c
                    BY <4>1, <5>2
                <5>4. PICK i \in DOMAIN Tail(batch[c]) : Tail(batch[c])[i] = p
                    BY <1>7, <5>2, <5>3, Zenon
                <5> QED BY <1>6, <3>3, <5>4, Zenon DEF InBatch
            <4>3. CASE p # head
                <5>1. ~Marking(p)
                    BY <1>1, <4>1, <4>3, Zenon DEF Marking
                <5> QED BY <2>2, <3>1, <4>2, <5>1, Zenon DEF Owed
            <4>4. CASE p = head /\ caller[c] = "mark"
                <5>1. dlq'[p] = "replayed" \/ storeFaults + 1 <= storeFaults'
                    BY <1>1, <1>3, <1>6, <4>4 DEF MovesOn, WebhookTypeOK
                <5>2. ~InBatch(p)'
                    BY <4>2, <4>4, Zenon
                <5> QED BY <2>2, <5>1, <5>2, Zenon DEF Owed
            <4>5. CASE p = head /\ caller[c] # "mark"
                <5>1. InBatch(p)
                    BY <1>6, <3>3, <4>5, Zenon DEF InBatch
                <5>2. ~Marking(p)
                    BY <4>1, <4>5, Zenon DEF Marking
                <5> QED BY <5>1, <5>2, Zenon DEF Owed
            <4> QED BY <4>3, <4>4, <4>5, Zenon
        <3> QED BY <3>2, <3>3, Zenon DEF Caller
    <2> QED BY <1>1, <1>2, <1>3, <2>1, <2>2, NothingSent, Zenon
<1>30. MarkedWasDelivered'
    <2>1. dlq'[head] = dlq[head] \/ sent[head] > 0
        BY <1>1, Zenon DEF MovesOn, MarkInv
    <2> QED BY <1>1, <1>2, <1>6, <1>8, <2>1 DEF MarkedWasDelivered
<1> QED BY <1>30, <1>9, <1>11, <1>12, <1>13, <1>14, Zenon DEF ReplayInv

\* A run reads its batch, or a replay its entry: entries of the table, no one
\* twice.
Reads(c, q, b) ==
    /\ caller' = [caller EXCEPT ![c] = q] /\ batch' = [batch EXCEPT ![c] = b]
    /\ UNCHANGED <<active, emitVars, dlqVars, runFlag, sent, storeFaults>>
    /\ Distinct(b) /\ \A i \in DOMAIN b : dlq[b[i]] # "none"
    /\ \/ c \in RunCall /\ caller[c] = "list" /\ q = "next" /\ \A i \in DOMAIN b : dlq[b[i]] = "ripe"
       \/ c \in Replayer /\ caller[c] = "idle" /\ q = "deliver" /\ b # << >> /\ Tail(b) = << >>

LEMMA ReadsInv ==
    ASSUME FiniteSetFacts, ReplayInv, NEW c \in Caller, NEW q \in CallPlace, NEW b \in Seq(Entry), Reads(c, q, b)
    PROVE  ReplayInv'
<1>1. WebhookTypeOK /\ RunsInv /\ PushedInv /\ MarkInv /\ MarkedWasDelivered /\ SentInv
    BY Zenon DEF ReplayInv
<1>2. /\ UNCHANGED <<active, emitting, sending, reserved, dlq, failedAt, runFlag, sent, storeFaults>>
      /\ caller'[c] = q /\ \A d \in Caller : d # c => caller'[d] = caller[d]
      /\ caller' \in [Caller -> CallPlace]
    BY <1>1, Zenon DEF Reads, emitVars, dlqVars, WebhookTypeOK
<1>3. storeFaults' \in Nat /\ storeFaults <= storeFaults'
    BY <1>1, <1>2 DEF WebhookTypeOK
<1>4. RunCall \subseteq Caller /\ Replayer \subseteq Caller /\ \A r \in RunCall : r \notin Replayer
    BY WebhookBounds, Zenon DEF Caller
<1>5. /\ batch' \in [Caller -> Seq(Entry)] /\ batch'[c] = b
      /\ \A d \in Caller : d # c => batch'[d] = batch[d]
    BY <1>1, Zenon DEF Reads, WebhookTypeOK
<1>6. \/ c \in RunCall /\ caller[c] = "list" /\ q = "next" /\ \A i \in DOMAIN b : dlq[b[i]] = "ripe"
      \/ c \in Replayer /\ caller[c] = "idle" /\ q = "deliver" /\ b # << >> /\ Tail(b) = << >>
    BY Zenon DEF Reads
<1>7. WebhookTypeOK'
    BY <1>1, <1>2, <1>5, Zenon DEF WebhookTypeOK
<1>8. RunsInv'
    <2>1. \A r \in RunCall : caller'[r] # "idle" => runFlag' /\ \A d \in RunCall : caller'[d] # "idle" => d = r
        BY <1>1, <1>2, <1>4, <1>6, SMTT(30) DEF RunsInv
    <2>2. \A r \in RunCall : caller'[r] \in {"idle", "list"} => batch'[r] = << >>
        BY <1>1, <1>2, <1>4, <1>5, <1>6, Zenon DEF RunsInv
    <2>3. \A d \in Caller : (caller'[d] \in {"deliver", "mark"} => batch'[d] # << >>)
        BY <1>1, <1>2, <1>5, <1>6, Zenon DEF RunsInv
    <2>4. \A d \in Caller : Distinct(batch[d])'
        BY <1>1, <1>5, SMTT(30) DEF RunsInv, Distinct, Reads
    <2>5. \A d \in Replayer : /\ caller'[d] # "list" /\ (caller'[d] = "next" => batch'[d] = << >>)
                              /\ caller'[d] \in {"deliver", "mark"} => Tail(batch'[d]) = << >>
        BY <1>1, <1>2, <1>4, <1>5, <1>6, SMTT(30) DEF RunsInv
    <2> QED BY <2>1, <2>2, <2>3, <2>4, <2>5, Zenon DEF RunsInv
<1>9. MarkInv'
    BY <1>1, <1>2, <1>5, <1>6, Zenon DEF MarkInv
<1>10. PushedInv'
    <2>1. \A d \in Caller : \A i \in DOMAIN batch'[d] : dlq[batch'[d][i]] # "none"
        BY <1>1, <1>5 DEF PushedInv, Reads
    <2> QED BY <1>1, <1>2, <2>1, Zenon DEF PushedInv, Distinct
<1>11. SentInv'
    <2>1. spent \subseteq spent'
        BY <1>2, <1>4, <1>6, Zenon DEF spent
    <2>2. ASSUME NEW p \in Entry, Owed(p)' PROVE Owed(p)
        <3>1. CASE c \in Replayer
            <4>1. \A r \in RunCall : caller'[r] = caller[r] /\ batch'[r] = batch[r]
                BY <1>2, <1>4, <1>5, <3>1, Zenon
            <4>2. Marking(p)' = Marking(p) /\ InBatch(p)' = InBatch(p)
                BY <4>1, Zenon DEF Marking, InBatch
            <4> QED BY <1>2, <2>2, <4>2, Zenon DEF Owed
        <3>2. CASE c \in RunCall
            <4>1. \A r \in RunCall : r # c => caller[r] = "idle" /\ batch'[r] = << >>
                BY <1>1, <1>4, <1>5, <1>6, <3>2, SMTT(30) DEF RunsInv
            <4>2. ~Marking(p)
                BY <1>4, <1>6, <3>2, <4>1, Zenon DEF Marking
            <4>3. InBatch(p)' => dlq[p] = "ripe"
                <5>1. SUFFICES ASSUME InBatch(p)' PROVE dlq[p] = "ripe"
                    BY Zenon
                <5>2. PICK r \in RunCall : \E i \in DOMAIN batch'[r] : batch'[r][i] = p
                    BY <5>1, Zenon DEF InBatch
                <5>3. r = c
                    BY <4>1, <5>2
                <5>4. PICK i \in DOMAIN b : b[i] = p
                    BY <1>5, <5>2, <5>3, Zenon
                <5> QED BY <1>4, <1>6, <3>2, <5>4, Zenon
            <4> QED BY <1>2, <2>2, <4>2, <4>3, Zenon DEF Owed
        <3> QED BY <3>1, <3>2, Zenon DEF Caller
    <2> QED BY <1>1, <1>2, <1>3, <2>1, <2>2, NothingSent, Zenon
<1>30. MarkedWasDelivered'
    BY <1>1, <1>2, Zenon DEF MarkedWasDelivered
<1> QED BY <1>30, <1>7, <1>8, <1>9, <1>10, <1>11, Zenon DEF ReplayInv

\* newestFirst names no entry twice, since failed_at orders the entries.
LEMMA ListInv == ASSUME FiniteSetFacts, ReplayInv, NEW c \in Caller, c \in RunCall, list(c) PROVE ReplayInv'
<1>1. PICK size \in 0..DlqBatchSize : \E todo \in [1..size -> Entry] :
         newestFirst(todo) /\ batch' = [batch EXCEPT ![c] = todo]
    BY Zenon DEF list
<1>2. PICK todo \in [1..size -> Entry] : newestFirst(todo) /\ batch' = [batch EXCEPT ![c] = todo]
    BY <1>1, Zenon
<1>3. size \in Nat
    BY WebhookBounds
<1>4. todo \in Seq(Entry) /\ DOMAIN todo = 1..size
    BY <1>3
<1>5. \A p \in Entry : ~newer(p, p)
    BY DEF newer, ReplayInv, WebhookTypeOK, PushedInv, Distinct
<1>6. Distinct(todo)
    <2> SUFFICES ASSUME NEW i \in DOMAIN todo, NEW j \in DOMAIN todo, todo[i] = todo[j] PROVE i = j
        BY Zenon DEF Distinct
    <2>1. i \in Nat /\ j \in Nat /\ todo[i] \in Entry
        BY <1>4
    <2>2. CASE i < j
        BY <1>2, <1>5, <2>1, <2>2, Zenon DEF newestFirst
    <2>3. CASE j < i
        BY <1>2, <1>5, <2>1, <2>3, Zenon DEF newestFirst
    <2> QED BY <2>1, <2>2, <2>3
<1>7. \A i \in DOMAIN todo : dlq[todo[i]] = "ripe"
    BY <1>2, Zenon DEF newestFirst, eligible
<1>8. Reads(c, "next", todo)
    BY <1>2, <1>6, <1>7, Zenon DEF list, Reads
<1> QED BY <1>4, <1>8, ReadsInv, Zenon DEF CallPlace

LEMMA ReplayEntryInv == ASSUME FiniteSetFacts, ReplayInv, NEW c \in Replayer, NEW p \in Entry, replayEntry(c, p) PROVE ReplayInv'
<1>1. c \in Caller
    BY Zenon DEF Caller
<1>2. CASE caller' = [caller EXCEPT ![c] = "deliver"] /\ batch' = [batch EXCEPT ![c] = <<p>>]
    <2>1. <<p>> \in Seq(Entry) /\ <<p>> # << >> /\ Tail(<<p>>) = << >> /\ DOMAIN <<p>> = {1} /\ <<p>>[1] = p
        OBVIOUS
    <2>2. Distinct(<<p>>)
        BY <2>1, Zenon DEF Distinct
    <2>3. Reads(c, "deliver", <<p>>)
        BY <1>2, <2>1, <2>2, Zenon DEF replayEntry, Reads
    <2> QED BY <1>1, <2>1, <2>3, ReadsInv, Zenon DEF CallPlace
<1>3. CASE caller' = [caller EXCEPT ![c] = "done"] /\ UNCHANGED batch
    <2>1. Steps(c, "done") /\ caller[c] = "idle" /\ runFlag' = runFlag
        BY <1>3, Zenon DEF replayEntry, Steps
    <2> QED BY <1>1, <2>1, StepsInv, Zenon DEF CallPlace, ReplayInv, WebhookTypeOK
<1> QED BY <1>2, <1>3, Zenon DEF replayEntry

\* A replay is acknowledged: a run had this send to make, an operator's replay
\* had not sent yet.
LEMMA AttemptInv ==
    ASSUME FiniteSetFacts, ReplayInv, NEW c \in Caller, caller[c] = "deliver",
           caller' = [caller EXCEPT ![c] = "mark"], sent' = [sent EXCEPT ![Head(batch[c])] = @ + 1],
           UNCHANGED <<active, emitVars, dlqVars, runFlag, batch, storeFaults>>
    PROVE  ReplayInv'
<1> DEFINE head == Head(batch[c])
<1>1. WebhookTypeOK /\ RunsInv /\ PushedInv /\ MarkInv /\ MarkedWasDelivered /\ SentInv
    BY Zenon DEF ReplayInv
<1>2. /\ UNCHANGED <<active, emitting, sending, reserved, dlq, failedAt, runFlag, batch, storeFaults>>
      /\ caller'[c] = "mark" /\ \A d \in Caller : d # c => caller'[d] = caller[d]
      /\ caller' \in [Caller -> CallPlace]
    BY <1>1, Zenon DEF emitVars, dlqVars, WebhookTypeOK, CallPlace
<1>3. storeFaults' \in Nat /\ storeFaults \in Nat
    BY <1>1, <1>2, Zenon DEF WebhookTypeOK
<1>4. RunCall \subseteq Caller /\ Replayer \subseteq Caller /\ \A r \in RunCall : r \notin Replayer
    BY WebhookBounds, Zenon DEF Caller
<1>5. batch[c] \in Seq(Entry) /\ batch[c] # << >>
    BY <1>1, Zenon DEF WebhookTypeOK, RunsInv
<1>6. head \in Entry /\ 1 \in DOMAIN batch[c] /\ head = batch[c][1]
    BY <1>5, TailFacts, Zenon
<1>7. /\ sent' \in [Entry -> Nat] /\ sent'[head] = sent[head] + 1
      /\ \A p \in Entry : p # head => sent'[p] = sent[p]
    BY <1>1, <1>6 DEF WebhookTypeOK
<1>8. WebhookTypeOK'
    BY <1>1, <1>2, <1>7, Zenon DEF WebhookTypeOK
<1>9. RunsInv'
    <2>1. \A r \in RunCall : caller'[r] # "idle" => runFlag' /\ \A d \in RunCall : caller'[d] # "idle" => d = r
        BY <1>1, <1>2, <1>4, SMTT(30) DEF RunsInv
    <2>2. \A r \in RunCall : caller'[r] \in {"idle", "list"} => batch'[r] = << >>
        BY <1>1, <1>2, <1>4, Zenon DEF RunsInv
    <2>3. \A d \in Caller : (caller'[d] \in {"deliver", "mark"} => batch'[d] # << >>)
        BY <1>1, <1>2, <1>5, Zenon DEF RunsInv
    <2>4. \A d \in Caller : Distinct(batch[d])'
        BY <1>1, <1>2, SMTT(30) DEF RunsInv, Distinct
    <2>5. \A d \in Replayer : /\ caller'[d] # "list" /\ (caller'[d] = "next" => batch'[d] = << >>)
                              /\ caller'[d] \in {"deliver", "mark"} => Tail(batch'[d]) = << >>
        BY <1>1, <1>2, <1>4, SMTT(30) DEF RunsInv
    <2> QED BY <2>1, <2>2, <2>3, <2>4, <2>5, Zenon DEF RunsInv
<1>10. MarkInv'
    <2> SUFFICES ASSUME NEW d \in Caller, caller'[d] = "mark" PROVE sent'[Head(batch[d])] > 0
        BY <1>2, Zenon DEF MarkInv
    <2>1. sent[head] \in Nat
        BY <1>1, <1>6, Zenon DEF WebhookTypeOK
    <2>2. CASE Head(batch[d]) = head
        BY <1>7, <2>1, <2>2, SMTT(30)
    <2>3. CASE Head(batch[d]) # head
        <3>1. caller[d] = "mark" /\ batch[d] \in Seq(Entry) /\ batch[d] # << >>
            BY <1>1, <1>2, <2>3, Zenon DEF RunsInv, WebhookTypeOK
        <3>2. Head(batch[d]) \in Entry
            BY <3>1, TailFacts, Zenon
        <3> QED BY <1>1, <1>7, <2>3, <3>1, <3>2, Zenon DEF MarkInv
    <2> QED BY <2>2, <2>3, Zenon
<1>11. PushedInv'
    BY <1>1, <1>2 DEF PushedInv, Distinct
<1>12. SentInv'
    <2>1. spent \subseteq spent' /\ (c \in Replayer => c \notin spent /\ c \in spent')
        BY <1>2, <1>4, Zenon DEF spent
    <2>2. Cardinality(spent) \in Nat /\ Cardinality(spent') \in Nat /\ Cardinality(spent) <= Cardinality(spent')
        BY <2>1, SpentGrows, Zenon
    <2> SUFFICES ASSUME NEW p \in Entry
                 PROVE  sent'[p] + toSend(p)' <= 1 + storeFaults' + Cardinality(spent')
        BY Zenon DEF SentInv
    <2>3. sent[p] + toSend(p) <= 1 + storeFaults + Cardinality(spent) /\ sent[p] \in Nat
        BY <1>1, Zenon DEF SentInv, WebhookTypeOK
    <2>4. CASE c \in Replayer
        <3>1. \A r \in RunCall : caller'[r] = caller[r] /\ batch'[r] = batch[r]
            BY <1>2, <1>4, <2>4, Zenon
        <3>2. Owed(p)' = Owed(p)
            BY <1>2, <3>1 DEF Owed, Marking, InBatch
        <3>3. toSend(p)' = toSend(p)
            BY <3>2, Zenon DEF toSend
        <3>4. Cardinality(spent) + 1 <= Cardinality(spent')
            BY <2>1, <2>4, SpentAdds, Zenon
        <3>5. sent'[p] <= sent[p] + 1 /\ sent'[p] \in Nat
            BY <1>7, <2>3
        <3>6. toSend(p) \in Nat
            BY Zenon DEF toSend
        <3> QED BY <1>2, <1>3, <2>2, <2>3, <3>3, <3>4, <3>5, <3>6, SMTT(30)
    <2>5. CASE c \in RunCall
        <3>1. \A r \in RunCall : r # c => caller[r] = "idle"
            BY <1>1, <1>4, <2>5, Zenon DEF RunsInv
        <3>2. CASE p = head
            <4>1. ~Marking(p)
                BY <3>1, Zenon DEF Marking
            <4>2. InBatch(p)
                BY <1>6, <2>5, <3>2, Zenon DEF InBatch
            <4>3. Owed(p)
                BY <4>1, <4>2, Zenon DEF Owed
            <4>4. Marking(p)'
                BY <1>2, <2>5, <3>2, Zenon DEF Marking
            <4>5. ~Owed(p)'
                BY <4>4, Zenon DEF Owed
            <4>6. toSend(p) = 1 /\ toSend(p)' = 0
                BY <4>3, <4>5, Zenon DEF toSend
            <4> QED BY <1>2, <1>3, <1>7, <2>2, <2>3, <3>2, <4>6, SMTT(30)
        <3>3. CASE p # head
            <4>1. ~Marking(p) /\ InBatch(p)' = InBatch(p)
                BY <1>2, <3>1 DEF Marking, InBatch
            <4>2. Owed(p)' => Owed(p)
                BY <1>2, <4>1, Zenon DEF Owed
            <4>3. toSend(p)' <= toSend(p) /\ toSend(p) \in Nat /\ toSend(p)' \in Nat
                BY <4>2 DEF toSend
            <4> QED BY <1>2, <1>3, <1>7, <2>2, <2>3, <3>3, <4>3, SMTT(30)
        <3> QED BY <3>2, <3>3, Zenon
    <2> QED BY <2>4, <2>5, Zenon DEF Caller
<1>30. MarkedWasDelivered'
    <2>1. \A p \in Entry : sent[p] \in Nat
        BY <1>1, Zenon DEF WebhookTypeOK
    <2> QED BY <1>1, <1>2, <1>7, <2>1 DEF MarkedWasDelivered
<1> QED BY <1>30, <1>8, <1>9, <1>10, <1>11, <1>12, Zenon DEF ReplayInv

LEMMA ProcessorCrashesInv == ASSUME FiniteSetFacts, ReplayInv, processorCrashes PROVE ReplayInv'
<1>1. WebhookTypeOK /\ RunsInv /\ PushedInv /\ MarkInv /\ MarkedWasDelivered /\ SentInv
    BY Zenon DEF ReplayInv
<1>2. UNCHANGED <<active, emitting, sending, reserved, dlq, failedAt, sent>> /\ storeFaults' = storeFaults + 1 /\ ~runFlag'
    BY Zenon DEF processorCrashes, storeFails, emitVars, dlqVars
<1>3. storeFaults \in Nat /\ storeFaults' \in Nat /\ storeFaults <= storeFaults' /\ storeFaults + 1 <= storeFaults'
    BY <1>1, <1>2 DEF WebhookTypeOK
<1>4. RunCall \subseteq Caller /\ Replayer \subseteq Caller /\ \A r \in RunCall : r \notin Replayer
    BY WebhookBounds, Zenon DEF Caller
<1>5. /\ caller' \in [Caller -> CallPlace] /\ \A d \in Caller : caller'[d] \in {"idle", "done"}
      /\ \A r \in RunCall : caller'[r] = "idle"
      /\ \A d \in Replayer : caller[d] # "idle" => caller'[d] = "done"
    BY <1>4, Zenon DEF processorCrashes, CallPlace
<1>6. /\ \A d \in Caller : batch'[d] = << >> /\ DOMAIN batch'[d] = {}
      /\ batch' \in [Caller -> Seq(Entry)]
    BY DEF processorCrashes
<1>7. WebhookTypeOK'
    <2>1. runFlag' \in BOOLEAN
        BY Zenon DEF processorCrashes
    <2> QED BY <1>1, <1>2, <1>3, <1>5, <1>6, <2>1, Zenon DEF WebhookTypeOK
<1>8. RunsInv'
    <2>1. \A r \in RunCall : batch'[r] = << >> /\ caller'[r] = "idle"
        BY <1>4, <1>5, <1>6, Zenon
    <2>2. \A d \in Caller : caller'[d] \notin {"deliver", "mark", "list", "next"}
        BY <1>5, Zenon
    <2>3. \A d \in Caller : Distinct(batch[d])'
        BY <1>6, Zenon DEF Distinct
    <2>4. \A d \in Replayer : /\ caller'[d] # "list" /\ (caller'[d] = "next" => batch'[d] = << >>)
                              /\ caller'[d] \in {"deliver", "mark"} => Tail(batch'[d]) = << >>
        BY <1>4, <2>2, Zenon
    <2> QED BY <2>1, <2>2, <2>3, <2>4, Zenon DEF RunsInv
<1>9. MarkInv'
    BY <1>5, Zenon DEF MarkInv
<1>10. PushedInv'
    BY <1>1, <1>2, <1>6, Zenon DEF PushedInv, Distinct
<1>11. SentInv'
    <2>1. spent \subseteq spent'
        BY <1>4, <1>5, Zenon DEF spent
    <2> QED BY <1>1, <1>2, <1>3, <2>1, NothingSent, Zenon
<1>30. MarkedWasDelivered'
    BY <1>1, <1>2, Zenon DEF MarkedWasDelivered
<1> QED BY <1>30, <1>7, <1>8, <1>9, <1>10, <1>11, Zenon DEF ReplayInv

LEMMA CallInv ==
    ASSUME FiniteSetFacts, ReplayInv, NEW c \in Caller,
           run(c) \/ callStep(c) \/ listFails(c) \/ lookupFails(c) \/ markFails(c)
    PROVE  ReplayInv'
<1>1. WebhookTypeOK /\ RunsInv
    BY Zenon DEF ReplayInv
<1>2. RunCall \subseteq Caller /\ Replayer \subseteq Caller /\ \A r \in RunCall : r \notin Replayer
    BY WebhookBounds, Zenon DEF Caller
<1>3. (caller[c] = "list" => c \in RunCall /\ batch[c] = << >>) /\ (c \in RunCall \/ c \in Replayer)
    BY <1>1, Zenon DEF RunsInv, Caller
<1>4. runFlag \in BOOLEAN
    BY <1>1, Zenon DEF WebhookTypeOK
<1>5. CASE run(c)
    <2>1. Steps(c, "list") /\ runFlag' \in BOOLEAN /\ c \in RunCall /\ caller[c] = "idle" /\ ~runFlag /\ runFlag'
        BY <1>5, Zenon DEF run, Steps
    <2> QED BY <2>1, StepsInv, Zenon DEF CallPlace
<1>6. CASE list(c)
    BY <1>3, <1>6, ListInv, Zenon DEF list
<1>7. CASE listFails(c)
    <2>1. Steps(c, "idle") /\ runFlag' \in BOOLEAN /\ caller[c] = "list"
        BY <1>7, Zenon DEF listFails, storeFails, Steps
    <2> QED BY <1>3, <2>1, StepsInv, Zenon DEF CallPlace
<1>8. CASE finish(c)
    <2>1. caller[c] = "next" /\ batch[c] = << >> /\ runFlag' \in BOOLEAN
        BY <1>4, <1>8, Zenon DEF finish
    <2>2. CASE c \in RunCall
        <3>1. Steps(c, "idle")
            BY <1>8, <2>2, Zenon DEF finish, Steps
        <3> QED BY <2>1, <2>2, <3>1, StepsInv, Zenon DEF CallPlace
    <2>3. CASE c \in Replayer
        <3>1. Steps(c, "done") /\ runFlag' = runFlag
            BY <1>2, <1>4, <1>8, <2>3, Zenon DEF finish, Steps
        <3> QED BY <2>1, <2>3, <3>1, StepsInv, Zenon DEF CallPlace
    <2> QED BY <1>3, <2>2, <2>3, Zenon
<1>9. CASE replayEntryInternal(c)
    <2>1. CASE Head(batch[c])[2] \in active
        <3>1. Steps(c, "deliver") /\ runFlag' = runFlag /\ caller[c] = "next" /\ batch[c] # << >>
            BY <1>9, <2>1, Zenon DEF replayEntryInternal, Steps
        <3> QED BY <1>4, <3>1, StepsInv, Zenon DEF CallPlace
    <2>2. CASE Head(batch[c])[2] \notin active
        <3>1. caller' = caller /\ caller[c] = "next" /\ dlq' = dlq
            BY <1>9, <2>2, Zenon DEF replayEntryInternal, dlqVars
        <3>2. caller' = [caller EXCEPT ![c] = "next"]
            BY <1>1, <3>1, Zenon DEF WebhookTypeOK
        <3>3. MovesOn(c)
            BY <1>9, <2>2, <3>1, <3>2, Zenon DEF replayEntryInternal, dlqVars, MovesOn
        <3> QED BY <3>3, MovesOnInv, Zenon
    <2> QED BY <2>1, <2>2, Zenon
<1>10. CASE lookupFails(c)
    <2>1. caller' = caller /\ caller[c] = "next" /\ dlq' = dlq
        BY <1>10, Zenon DEF lookupFails, dlqVars
    <2>2. caller' = [caller EXCEPT ![c] = "next"]
        BY <1>1, <2>1, Zenon DEF WebhookTypeOK
    <2>3. MovesOn(c)
        BY <1>10, <2>1, <2>2, Zenon DEF lookupFails, storeFails, dlqVars, MovesOn
    <2> QED BY <2>3, MovesOnInv, Zenon
<1>11. CASE attemptDelivery(c)
    <2>1. caller[c] = "deliver" /\ batch[c] # << >>
        BY <1>1, <1>11, Zenon DEF attemptDelivery, RunsInv
    <2>2. CASE caller' = [caller EXCEPT ![c] = "mark"] /\ sent' = [sent EXCEPT ![Head(batch[c])] = @ + 1] /\ UNCHANGED batch
        BY <1>11, <2>1, <2>2, AttemptInv, Zenon DEF attemptDelivery
    <2>3. CASE caller' = [caller EXCEPT ![c] = "next"] /\ batch' = [batch EXCEPT ![c] = Tail(@)] /\ UNCHANGED sent
        <3>1. MovesOn(c)
            BY <1>11, <2>1, <2>3, Zenon DEF attemptDelivery, dlqVars, MovesOn
        <3> QED BY <3>1, MovesOnInv, Zenon
    <2> QED BY <1>11, <2>2, <2>3, Zenon DEF attemptDelivery
<1>12. CASE markReplayed(c) \/ markFails(c)
    <2>1. caller[c] = "mark" /\ batch[c] # << >> /\ batch[c] \in Seq(Entry)
        BY <1>1, <1>12, Zenon DEF markReplayed, markFails, RunsInv, WebhookTypeOK
    <2>2. Head(batch[c]) \in Entry
        BY <2>1, TailFacts, Zenon
    <2>3. dlq' = [dlq EXCEPT ![Head(batch[c])] = "replayed"] /\ dlq' = dlq => dlq[Head(batch[c])] = "replayed"
        BY <1>1, <2>2, Zenon DEF WebhookTypeOK
    <2>4. MovesOn(c)
        BY <1>12, <2>1, <2>3, Zenon DEF markReplayed, markFails, storeFails, MovesOn
    <2> QED BY <2>4, MovesOnInv, Zenon
<1> QED BY <1>5, <1>6, <1>7, <1>8, <1>9, <1>10, <1>11, <1>12 DEF callStep

LEMMA ReplayInitInv == ASSUME FiniteSetFacts, WebhookInit PROVE ReplayInv
<1>1. /\ << >> \in Seq(Entry) /\ DOMAIN << >> = {}
    OBVIOUS
<1>2. RunCall \subseteq Caller /\ Replayer \subseteq Caller
    BY Zenon DEF Caller
<1>3. WebhookTypeOK
    BY <1>1, Zenon DEF WebhookInit, WebhookTypeOK, EmitPlace, SendPlace, DlqState, CallPlace
<1>4. \A c \in Caller : caller[c] = "idle" /\ batch[c] = << >>
    BY Zenon DEF WebhookInit
<1>5. RunsInv
    BY <1>1, <1>2, <1>4, Zenon DEF RunsInv, Distinct
<1>6. PushedInv
    BY <1>1, <1>4, Zenon DEF PushedInv, Distinct, WebhookInit
<1>7. MarkInv
    BY <1>4, Zenon DEF MarkInv
<1>8. SentInv
    <2>1. spent = {}
        BY <1>2, <1>4, Zenon DEF spent
    <2>2. Cardinality(spent) = 0
        BY <2>1, Zenon DEF FiniteSetFacts, EmptyFact
    <2>3. \A p \in Entry : sent[p] = 0 /\ toSend(p) \in {0, 1}
        BY Zenon DEF WebhookInit, toSend
    <2>4. storeFaults = 0
        BY Zenon DEF WebhookInit
    <2> QED BY <2>2, <2>3, <2>4 DEF SentInv
<1>30. MarkedWasDelivered
    BY Zenon DEF MarkedWasDelivered, WebhookInit
<1> QED BY <1>30, <1>3, <1>5, <1>6, <1>7, <1>8, Zenon DEF ReplayInv

LEMMA ReplayStepInv == ASSUME FiniteSetFacts, ReplayInv, [WebhookNext]_webhookVars PROVE ReplayInv'
<1>1. WebhookTypeOK
    BY Zenon DEF ReplayInv
<1>2. ASSUME NEW e \in Emit, pushAll(e) \/ pushFails(e) PROVE ReplayInv'
    <2>1. \E S \in SUBSET exhaustedResults(e) : Pushes(e, S)
        <3>1. CASE pushAll(e)
            BY <3>1, Zenon DEF pushAll, Pushes, exhaustedResults, replayVars
        <3>2. CASE pushFails(e)
            BY <3>2, Zenon DEF pushFails, storeFails, Pushes, exhaustedResults, replayVars
        <3> QED BY <1>2, <3>1, <3>2, Zenon
    <2> QED BY <2>1, PushesInv, Zenon
<1>3. ASSUME NEW p \in Entry, minAgePasses(p) PROVE ReplayInv'
    BY <1>3, MinAgePassesInv, Zenon
<1>4. ASSUME NEW p \in Entry, NEW c \in Replayer, replayEntry(c, p) PROVE ReplayInv'
    BY <1>4, ReplayEntryInv, Zenon
<1>5. CASE UNCHANGED webhookVars
    <2>1. EmitOnly
        BY <1>1, <1>5, Zenon DEF EmitOnly, webhookVars, emitVars, WebhookTypeOK
    <2> QED BY <2>1, EmitOnlyInv, Zenon
<1> QED BY <1>1, <1>2, <1>3, <1>4, <1>5, EmitSteps, EmitOnlyInv, CallInv, ProcessorCrashesInv, Zenon DEF WebhookNext


\* The conjuncts of CoverInv, for a state without faults.
KeysHeld == \A h \in reserved : \E q \in Entry : q[2] = h /\ Held(q)
SkipCovered(p) == sending[p] = "skipped" => \E q \in Entry : q[2] = p[2] /\ Covers(q)
Places(p) ==
    /\ sending[p] = "failed" => emitting[p[1]] = "sending" \/ dlq[p] # "none"
    /\ sending[p] \in {"reserve", "deliver", "clear"} => emitting[p[1]] = "sending"
    /\ sending[p] # "clearAgain"
    /\ emitting[p[1]] = "new" => sending[p] = "none"

LEMMA CoverParts ==
    /\ CoverInv <=> (storeFaults = 0 => KeysHeld /\ \A p \in Entry : SkipCovered(p) /\ Places(p))
    /\ CoverInv' <=> (storeFaults' = 0 => KeysHeld' /\ \A p \in Entry : SkipCovered(p)' /\ Places(p)')
<1>1. CoverInv <=> (storeFaults = 0 => KeysHeld /\ \A p \in Entry : SkipCovered(p) /\ Places(p))
    BY Zenon DEF CoverInv, KeysHeld, SkipCovered, Places
<1>2. CoverInv' <=> (storeFaults' = 0 => KeysHeld' /\ \A p \in Entry : SkipCovered(p)' /\ Places(p)')
    BY Zenon DEF CoverInv, KeysHeld, SkipCovered, Places
<1> QED BY <1>1, <1>2, Zenon

\* What holds a key keeps it, and what covers a skip goes on covering it.
LEMMA CoverKept ==
    ASSUME \A p \in Entry : Covers(p) => Covers(p)'
    PROVE  \A p \in Entry : sending'[p] = sending[p] /\ SkipCovered(p) => SkipCovered(p)'
BY Zenon DEF SkipCovered

LEMMA TableCover ==
    ASSUME CoverInv, UNCHANGED <<emitting, sending, reserved>>, storeFaults' = 0 => storeFaults = 0,
           \A p \in Entry : dlq[p] # "none" => dlq'[p] # "none"
    PROVE  CoverInv'
<1> SUFFICES ASSUME storeFaults' = 0 PROVE KeysHeld' /\ \A p \in Entry : SkipCovered(p)' /\ Places(p)'
    BY CoverParts, Zenon
<1>1. KeysHeld /\ \A p \in Entry : SkipCovered(p) /\ Places(p)
    BY CoverParts, Zenon
<1>2. KeysHeld'
    BY <1>1, Zenon DEF KeysHeld, Held
<1>3. \A p \in Entry : Covers(p) => Covers(p)'
    BY Zenon DEF Covers, Held
<1>4. \A p \in Entry : SkipCovered(p)'
    BY <1>1, <1>3, CoverKept, Zenon
<1>5. \A p \in Entry : Places(p)'
    BY <1>1, Zenon DEF Places
<1> QED BY <1>2, <1>4, <1>5, Zenon

LEMMA EmitCover == ASSUME ReplayInv, CoverInv, NEW e \in Emit, emit(e) PROVE CoverInv'
<1>1. /\ UNCHANGED <<reserved, dlq, storeFaults>> /\ emitting[e] = "new"
      /\ emitting' \in [Emit -> EmitPlace] /\ \A k \in Emit : k # e => emitting'[k] = emitting[k]
      /\ emitting'[e] \in {"sending", "returned"}
      /\ \A p \in Entry : \/ sending'[p] = sending[p]
                          \/ p[1] = e /\ sending'[p] = "reserve" /\ emitting'[e] = "sending"
    BY Zenon DEF emit, dlqVars, ReplayInv, WebhookTypeOK, EmitPlace
<1> SUFFICES ASSUME storeFaults' = 0 PROVE KeysHeld' /\ \A p \in Entry : SkipCovered(p)' /\ Places(p)'
    BY CoverParts, Zenon
<1>2. KeysHeld /\ \A p \in Entry : SkipCovered(p) /\ Places(p)
    BY <1>1, CoverParts, Zenon
<1>3. \A p \in Entry : p[1] = e => sending[p] = "none"
    BY <1>1, <1>2, Zenon DEF Places
<1>4. \A p \in Entry : Held(p) => Held(p)'
    BY <1>1, <1>3, Zenon DEF Held
<1>5. KeysHeld'
    BY <1>1, <1>2, <1>4, Zenon DEF KeysHeld
<1>6. \A p \in Entry : Covers(p) => Covers(p)'
    BY <1>1, <1>3, <1>4, EntryParts, Zenon DEF Covers
<1>7. ASSUME NEW p \in Entry PROVE SkipCovered(p)'
    <2>1. CASE sending'[p] = sending[p]
        BY <1>2, <1>6, <2>1, CoverKept, Zenon
    <2>2. CASE sending'[p] = "reserve"
        BY <2>2, Zenon DEF SkipCovered
    <2> QED BY <1>1, <2>1, <2>2, Zenon
<1>8. ASSUME NEW p \in Entry PROVE Places(p)'
    <2>1. CASE p[1] = e
        BY <1>1, <1>3, <2>1, Zenon DEF Places
    <2>2. CASE p[1] # e
        BY <1>1, <1>2, <2>2, EntryParts DEF Places
    <2> QED BY <2>1, <2>2, Zenon
<1> QED BY <1>5, <1>7, <1>8, Zenon

LEMMA PushAllCover == ASSUME ReplayInv, CoverInv, NEW e \in Emit, pushAll(e) PROVE CoverInv'
<1>1. /\ UNCHANGED <<sending, reserved, storeFaults>> /\ allSettled(e) /\ pushed(exhaustedResults(e))
      /\ emitting' = [emitting EXCEPT ![e] = "returned"] /\ emitting \in [Emit -> EmitPlace]
    BY Zenon DEF pushAll, ReplayInv, WebhookTypeOK
<1>2. /\ \A k \in Emit : k # e => emitting'[k] = emitting[k]
      /\ emitting'[e] = "returned"
    BY <1>1, Zenon
<1>3. \A p \in Entry : p[1] = e /\ sending[p] = "failed" => dlq'[p] # "none"
    BY <1>1, Zenon DEF pushed, exhaustedResults
<1>4. \A p \in Entry : dlq[p] # "none" => dlq'[p] # "none"
    BY <1>1, Zenon DEF pushed
<1> SUFFICES ASSUME storeFaults' = 0 PROVE KeysHeld' /\ \A p \in Entry : SkipCovered(p)' /\ Places(p)'
    BY CoverParts, Zenon
<1>5. KeysHeld /\ \A p \in Entry : SkipCovered(p) /\ Places(p)
    BY <1>1, CoverParts, Zenon
<1>6. KeysHeld'
    BY <1>1, <1>5, Zenon DEF KeysHeld, Held
<1>7. \A p \in Entry : Covers(p) => Covers(p)'
    BY <1>1, <1>2, <1>3, <1>4, EntryParts, Zenon DEF Covers, Held
<1>8. \A p \in Entry : SkipCovered(p)'
    BY <1>1, <1>5, <1>7, CoverKept, Zenon
<1>9. ASSUME NEW p \in Entry PROVE Places(p)'
    <2>1. CASE p[1] = e
        BY <1>1, <1>2, <1>3, <2>1, Zenon DEF Places, allSettled
    <2>2. CASE p[1] # e
        BY <1>1, <1>2, <1>4, <1>5, <2>2, EntryParts, SMTT(30) DEF Places
    <2> QED BY <2>1, <2>2, Zenon
<1> QED BY <1>6, <1>8, <1>9, Zenon

\* One step of the delivery of an emit to a webhook.
LEMMA SendCover ==
    ASSUME ReplayInv, CoverInv, NEW p \in Entry,
           reserveWebhookDelivery(p) \/ deliverWebhook(p) \/ (sending[p] = "clear" /\ clearWebhookDeliveryAttempt(p))
    PROVE  CoverInv'
<1>1. UNCHANGED <<emitting, dlq, storeFaults>> /\ sending \in [Entry -> SendPlace]
    BY Zenon DEF reserveWebhookDelivery, deliverWebhook, clearWebhookDeliveryAttempt, dlqVars, ReplayInv, WebhookTypeOK
<1>2. \/ sending[p] = "reserve" /\ p[2] \notin reserved /\ sending'[p] = "deliver" /\ reserved' = reserved \cup {p[2]}
      \/ sending[p] = "reserve" /\ p[2] \in reserved /\ sending'[p] = "skipped" /\ reserved' = reserved
      \/ sending[p] = "deliver" /\ sending'[p] \in {"ok", "clear"} /\ reserved' = reserved
      \/ sending[p] = "clear" /\ sending'[p] = "failed" /\ reserved' = reserved \ {p[2]}
    BY <1>1 DEF reserveWebhookDelivery, reserves, deliverWebhook, clearWebhookDeliveryAttempt
<1>3. \A q \in Entry : q # p => sending'[q] = sending[q]
    BY <1>1, Zenon DEF reserveWebhookDelivery, deliverWebhook, clearWebhookDeliveryAttempt
<1> SUFFICES ASSUME storeFaults' = 0 PROVE KeysHeld' /\ \A q \in Entry : SkipCovered(q)' /\ Places(q)'
    BY CoverParts, Zenon
<1>4. KeysHeld /\ \A q \in Entry : SkipCovered(q) /\ Places(q)
    BY <1>1, CoverParts, Zenon
<1>5. emitting[p[1]] = "sending"
    BY <1>2, <1>4, Zenon DEF Places
<1>6. \A q \in Entry : Held(q) => Held(q)' \/ (q = p /\ sending'[p] = "failed")
    BY <1>2, <1>3, Zenon DEF Held
<1>7. KeysHeld'
    <2> SUFFICES ASSUME NEW h \in reserved' PROVE \E q \in Entry : q[2] = h /\ Held(q)'
        BY Zenon DEF KeysHeld
    <2>1. CASE h \in reserved
        <3>1. PICK q \in Entry : q[2] = h /\ Held(q)
            BY <1>4, <2>1, Zenon DEF KeysHeld
        <3>2. Held(q)'
            BY <1>2, <1>6, <3>1, Zenon
        <3> QED BY <3>1, <3>2, Zenon
    <2>2. CASE h \notin reserved
        <3>1. h = p[2] /\ sending'[p] = "deliver"
            BY <1>2, <2>2, Zenon
        <3> QED BY <3>1, Zenon DEF Held
    <2> QED BY <2>1, <2>2, Zenon
<1>8. \A q \in Entry : Covers(q) => Covers(q)'
    <2> SUFFICES ASSUME NEW q \in Entry, Covers(q) PROVE Covers(q)'
        BY Zenon
    <2>1. CASE Held(q)
        BY <1>1, <1>5, <1>6, <2>1, Zenon DEF Covers
    <2>2. CASE ~Held(q)
        <3>1. CASE q = p
            BY <1>1, <1>2, <2>2, <3>1, Zenon DEF Covers, Held
        <3>2. CASE q # p
            BY <1>1, <1>3, <2>2, <3>2, Zenon DEF Covers
        <3> QED BY <3>1, <3>2, Zenon
    <2> QED BY <2>1, <2>2, Zenon
<1>9. ASSUME NEW q \in Entry PROVE SkipCovered(q)'
    <2>1. CASE sending'[q] = sending[q]
        BY <1>4, <1>8, <2>1, CoverKept, Zenon
    <2>2. CASE q = p /\ sending'[p] = "skipped"
        <3>1. PICK r \in Entry : r[2] = p[2] /\ Held(r)
            BY <1>2, <1>4, <2>2, Zenon DEF KeysHeld
        <3>2. Covers(r)'
            BY <1>8, <3>1, Zenon DEF Covers
        <3> QED BY <2>2, <3>1, <3>2, Zenon DEF SkipCovered
    <2>3. CASE q = p /\ sending'[p] # "skipped"
        BY <2>3, Zenon DEF SkipCovered
    <2> QED BY <1>3, <2>1, <2>2, <2>3, Zenon
<1>10. ASSUME NEW q \in Entry PROVE Places(q)'
    <2>1. CASE q = p
        BY <1>1, <1>2, <1>5, <2>1, Zenon DEF Places
    <2>2. CASE q # p
        BY <1>1, <1>3, <1>4, <2>2, SMTT(30) DEF Places
    <2> QED BY <2>1, <2>2, Zenon
<1> QED BY <1>7, <1>9, <1>10, Zenon

LEMMA CoverStepInv == ASSUME ReplayInv, CoverInv, [WebhookNext]_webhookVars PROVE CoverInv'
<1>1. WebhookTypeOK /\ RunsInv /\ storeFaults \in Nat
    BY Zenon DEF ReplayInv, WebhookTypeOK
<1>2. storeFails => CoverInv'
    <2>1. storeFails => storeFaults' # 0
        BY <1>1 DEF storeFails
    <2> QED BY <2>1, CoverParts, Zenon
<1>3. ASSUME NEW h \in Webhook, toggle(h) PROVE CoverInv'
    BY <1>3, TableCover, Zenon DEF toggle, emitVars, dlqVars
<1>4. ASSUME NEW e \in Emit, emit(e) \/ pushAll(e) \/ pushFails(e) \/ emitCrashes(e) PROVE CoverInv'
    BY <1>2, <1>4, EmitCover, PushAllCover, Zenon DEF pushFails, emitCrashes
<1>5. ASSUME NEW p \in Entry, emitStep(p) PROVE CoverInv'
    <2>1. CASE reserveWebhookDelivery(p) \/ deliverWebhook(p)
        BY <2>1, SendCover, Zenon
    <2>2. CASE reserveFails(p) \/ clearFails(p)
        BY <1>2, <2>2, Zenon DEF reserveFails, clearFails
    <2>3. CASE clearWebhookDeliveryAttempt(p)
        <3>1. CASE sending[p] = "clear"
            BY <2>3, <3>1, SendCover, Zenon
        <3>2. CASE sending[p] = "clearAgain"
            <4>1. storeFaults' = storeFaults
                BY <2>3, Zenon DEF clearWebhookDeliveryAttempt
            <4>2. storeFaults # 0
                BY <3>2, CoverParts, Zenon DEF Places
            <4> QED BY <4>1, <4>2, CoverParts, Zenon
        <3> QED BY <2>3, <3>1, <3>2, Zenon DEF clearWebhookDeliveryAttempt
    <2> QED BY <1>5, <2>1, <2>2, <2>3, Zenon DEF emitStep
<1>6. ASSUME NEW p \in Entry, minAgePasses(p) PROVE CoverInv'
    BY <1>1, <1>6, TableCover, Zenon DEF minAgePasses, emitVars, WebhookTypeOK
<1>7. ASSUME NEW p \in Entry, NEW c \in Replayer, replayEntry(c, p) PROVE CoverInv'
    BY <1>7, TableCover, Zenon DEF replayEntry, emitVars, dlqVars
<1>8. ASSUME NEW c \in Caller, run(c) \/ list(c) \/ replayEntryInternal(c) \/ finish(c) \/ attemptDelivery(c) PROVE CoverInv'
    BY <1>8, TableCover, Zenon DEF run, list, replayEntryInternal, finish, attemptDelivery, emitVars, dlqVars
<1>9. ASSUME NEW c \in Caller, markReplayed(c) PROVE CoverInv'
    BY <1>1, <1>9, TableCover, Zenon DEF markReplayed, emitVars, WebhookTypeOK
<1>10. ASSUME NEW c \in Caller, listFails(c) \/ lookupFails(c) \/ markFails(c) PROVE CoverInv'
    BY <1>2, <1>10, Zenon DEF listFails, lookupFails, markFails
<1>11. CASE processorCrashes
    BY <1>2, <1>11, Zenon DEF processorCrashes
<1>12. CASE UNCHANGED webhookVars
    BY <1>12, TableCover, Zenon DEF webhookVars, emitVars, dlqVars
<1> QED BY <1>3, <1>4, <1>5, <1>6, <1>7, <1>8, <1>9, <1>10, <1>11, <1>12, Zenon DEF WebhookNext, callStep

-----------------------------------------------------------------------------
INSTANCE FiniteSetTheorems

\* The facts about finite sets that the lemmas assume are the library's.
LEMMA FiniteSetFactsHold == FiniteSetFacts
<1>1. EmptyFact /\ CountFact /\ SingletonFact
    BY FS_EmptySet, FS_CardinalityType, FS_Singleton, Zenon DEF EmptyFact, CountFact, SingletonFact
<1>2. SubsetFact
    BY FS_Subset, Zenon DEF SubsetFact
<1>3. AddFact /\ RemoveFact
    BY FS_AddElement, FS_RemoveElement DEF AddFact, RemoveFact
<1>4. ProductFact
    BY FS_Product, Zenon DEF ProductFact
<1> QED BY <1>1, <1>2, <1>3, <1>4, Zenon DEF FiniteSetFacts

(***************************************************************************)
(* Runs, operators and the route share the dead letters, and emits share   *)
(* the delivery keys (emit, pushAll, run and replayEntry), for any number  *)
(* of each, with failed statements and crashes.                            *)
(***************************************************************************)
THEOREM WebhookInvariant == WebhookSpec => [](ReplayInv /\ CoverInv)
<1>1. WebhookInit => ReplayInv /\ CoverInv
    <2>1. ASSUME WebhookInit PROVE CoverInv
        BY <2>1, Zenon DEF WebhookInit, CoverInv
    <2> QED BY <2>1, ReplayInitInv, FiniteSetFactsHold, Zenon
<1>2. ReplayInv /\ [WebhookNext]_webhookVars => ReplayInv'
    BY ReplayStepInv, FiniteSetFactsHold, Zenon
<1> QED BY <1>1, <1>2, CoverStepInv, PTL DEF WebhookSpec

(***************************************************************************)
(* An entry that is marked replayed has been delivered (markReplayed of    *)
(* webhookDlqProcessor.ts is called after a delivery that succeeded),      *)
(* whoever replays it.                                                     *)
(***************************************************************************)
THEOREM MarkedAfterDelivery == WebhookSpec => []MarkedWasDelivered
<1>1. ReplayInv => MarkedWasDelivered
    BY Zenon DEF ReplayInv
<1> QED BY <1>1, WebhookInvariant, PTL

(***************************************************************************)
(* An emit that skips a webhook for its delivery key leaves it to another  *)
(* emit that delivers, or to a dead letter (delivery.ts:520), as long as   *)
(* no statement fails and no process dies.                                 *)
(***************************************************************************)
THEOREM SkippedIsCovered == WebhookSpec => []SkipsAreCovered
<1>1. ReplayInv /\ CoverInv => SkipsAreCovered
    <2> SUFFICES ASSUME ReplayInv, CoverInv, storeFaults = 0, NEW p \in Entry,
                        emitting[p[1]] = "returned", sending[p] \in {"skipped", "failed"}
                 PROVE  \E e \in Emit :
                           \/ sending[<<e, p[2]>>] \in {"deliver", "ok", "clear"}
                           \/ sending[<<e, p[2]>>] = "failed" /\ emitting[e] = "sending"
                           \/ dlq[<<e, p[2]>>] # "none"
        BY Zenon DEF SkipsAreCovered
    <2>1. PICK q \in Entry : q[2] = p[2] /\ Covers(q)
        BY Zenon DEF CoverInv, Covers
    <2>2. q[1] \in Emit /\ q = <<q[1], p[2]>>
        BY <2>1, EntryParts
    <2> QED BY <2>1, <2>2, Zenon DEF Covers, Held
<1> QED BY <1>1, WebhookInvariant, PTL

(***************************************************************************)
(* An entry is sent once, and once more at most for each failed mark,      *)
(* crash and call by hand (the running flag of webhookDlqProcessor.ts),    *)
(* for any number of callers.                                              *)
(***************************************************************************)
THEOREM OneSendPerReason == WebhookSpec => []SentPerReason
<1>1. ReplayInv => SentPerReason
    <2> SUFFICES ASSUME ReplayInv, NEW p \in Entry
                 PROVE  sent[p] <= 1 + storeFaults + Cardinality({c \in Replayer : caller[c] # "idle"})
        BY Zenon DEF SentPerReason
    <2> DEFINE asked == {c \in Replayer : caller[c] # "idle"}
    <2>1. spent \subseteq asked /\ IsFiniteSet(asked)
        BY WebhookBounds, FS_Subset DEF spent
    <2>2. IsFiniteSet(spent) /\ Cardinality(spent) <= Cardinality(asked)
        BY <2>1, FS_Subset, Zenon
    <2>3. Cardinality(spent) \in Nat /\ Cardinality(asked) \in Nat
        BY <2>1, <2>2, FS_CardinalityType, SMTT(30)
    <2>4. sent[p] + toSend(p) <= 1 + storeFaults + Cardinality(spent) /\ sent[p] \in Nat /\ storeFaults \in Nat
        BY Zenon DEF ReplayInv, SentInv, WebhookTypeOK
    <2>5. toSend(p) \in Nat
        BY Zenon DEF toSend
    <2> HIDE DEF asked
    <2>6. sent[p] <= 1 + storeFaults + Cardinality(asked)
        BY <2>2, <2>3, <2>4, <2>5
    <2> QED BY <2>6, Zenon DEF asked
<1> QED BY <1>1, WebhookInvariant, PTL
=============================================================================
