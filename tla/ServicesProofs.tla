-------------------------- MODULE ServicesProofs --------------------------
(***************************************************************************)
(* Seven of the parts of Services, each for every value of its constants:  *)
(* slash requests, multi-signature proposals, the circuit breaker, the     *)
(* members of an organisation, bond events, disputes and the publisher's   *)
(* leadership.                                                             *)
(***************************************************************************)
EXTENDS SlashingVotes, Multisig, CircuitBreaker, Members, BondEvents, Disputes, OutboxJob, SetFacts, TLAPS

-----------------------------------------------------------------------------
(***************************************************************************)
(* An approved or executed proposal has its quorum of signatures, for any  *)
(* signers, any number of concurrent calls and any interleaving of them.   *)
(***************************************************************************)
\* What is true of the record in Redis and of every copy of it.
Sound(p) ==
    /\ p.signatures \subseteq Signer
    /\ p.status \in {"approved", "executed"} => Cardinality(p.signatures) >= p.required

CallRecord == [method: Method \cup {"none"}, who: Person \cup {NoOne},
               at: {"idle", "get", "decide", "set", "expire"}, copy: Record]

\* A call that signs or votes was begun by a person.
Named(k) == k.method \in {"submitSignature", "addSlashingVote"} => k.who \in Person

(***************************************************************************)
(* The invariant speaks of the copies too: a write replaces the record by  *)
(* the copy of a call, however old it is.                                  *)
(***************************************************************************)
MultisigInv ==
    /\ MultisigTypeOK
    /\ Sound(proposal)
    /\ \A c \in Call : Sound(call[c].copy) /\ Named(call[c])

\* The part of the invariant that concerns one call.
Fits(k) == k \in CallRecord /\ Sound(k.copy) /\ Named(k)

LEMMA NoProposalFits == NoProposal \in Record /\ Sound(NoProposal) /\ Fits(NoCall)
BY Zenon DEF NoProposal, NoCall, Record, Status, Sound, Fits, CallRecord, Named, Method

LEMMA CallFits ==
    ASSUME MultisigInv, NEW c \in Call
    PROVE  /\ Fits(call[c])
           /\ proposal \in Record /\ Sound(proposal)
BY Zenon DEF MultisigInv, MultisigTypeOK, Fits, CallRecord

\* A step that changes one call, and the record to a sound one, keeps the invariant.
LEMMA OneCall ==
    ASSUME MultisigInv, NEW c \in Call, NEW k, Fits(k),
           call' = [call EXCEPT ![c] = k],
           proposal' \in Record, Sound(proposal'),
           late' \in BOOLEAN, begun' \in Nat
    PROVE  MultisigInv'
<1>1. call' \in [Call -> CallRecord]
    BY Zenon DEF MultisigInv, MultisigTypeOK, CallRecord, Fits
<1>2. MultisigTypeOK'
    BY <1>1, Zenon DEF MultisigTypeOK, CallRecord
<1>3. ASSUME NEW d \in Call PROVE Sound(call'[d].copy) /\ Named(call'[d])
    <2>1. CASE d = c
        <3>1. call'[d] = k
            BY <2>1, Zenon DEF MultisigInv, MultisigTypeOK
        <3> QED BY <3>1, Zenon DEF Fits
    <2>2. CASE d # c
        <3>1. call'[d] = call[d]
            BY <2>2, Zenon DEF MultisigInv, MultisigTypeOK
        <3> QED BY <3>1, Zenon DEF MultisigInv
    <2> QED BY <2>1, <2>2, Zenon
<1>4. Sound(proposal)'
    BY Zenon DEF Sound
<1> QED BY <1>2, <1>3, <1>4, Zenon DEF MultisigInv, Sound, Named

\* The variables a call does not touch keep their types.
LEMMA Rest ==
    ASSUME MultisigInv
    PROVE  late \in BOOLEAN /\ begun \in Nat
BY Zenon DEF MultisigInv, MultisigTypeOK

\* The record and the places of a call that goes on with copy p at place a.
LEMMA MovedFits ==
    ASSUME NEW k, Fits(k), NEW a \in {"idle", "get", "decide", "set", "expire"},
           NEW p \in Record, Sound(p)
    PROVE  Fits([k EXCEPT !.at = a, !.copy = p])
BY Zenon DEF Fits, CallRecord, Named

\* The part of a method that works on the copy writes a sound copy or ends.
LEMMA DecideInv ==
    ASSUME MultisigInv, NEW c \in Call, NEW m, Deciding(c, m),
           \/ End(c)
           \/ \E p \in Record : Sound(p) /\ Write(c, "set", p)
    PROVE  MultisigInv'
<1> DEFINE k == call[c]
<1>1. Fits(k) /\ proposal \in Record /\ Sound(proposal)
    BY CallFits, Zenon
<1>2. /\ proposal' = proposal /\ late' = late /\ begun' = begun
    BY Zenon DEF Deciding
<1>3. CASE End(c)
    BY <1>1, <1>2, <1>3, OneCall, Rest, NoProposalFits, Zenon DEF End
<1>4. CASE \E p \in Record : Sound(p) /\ Write(c, "set", p)
    <2>1. PICK p \in Record : Sound(p) /\ Write(c, "set", p)
        BY <1>4, Zenon
    <2> DEFINE n == [k EXCEPT !.at = "set", !.copy = p]
    <2>2. Fits(n)
        BY <1>1, <2>1, MovedFits, Zenon
    <2>3. call' = [call EXCEPT ![c] = n]
        BY <2>1, Zenon DEF Write, MultisigInv, MultisigTypeOK
    <2> HIDE DEF n
    <2> QED BY <1>1, <1>2, <2>2, <2>3, OneCall, Rest, Zenon
<1> QED BY <1>3, <1>4, Zenon

\* A signature by a signer that has not signed: approved only with the quorum.
LEMMA SignSound ==
    ASSUME NEW p \in Record, Sound(p), p.status = "pending", NEW s \in Person, s \in Signer
    PROVE  sign(p, s) \in Record /\ Sound(sign(p, s))
<1> DEFINE signed == [p EXCEPT !.signatures = p.signatures \cup {s}]
<1>1. signed \in Record /\ signed.required = p.required /\ signed.status = "pending"
      /\ signed.signatures = p.signatures \cup {s}
    BY Zenon DEF Record
<1>2. signed.signatures \subseteq Signer
    BY <1>1, Zenon DEF Sound
<1>3. sign(p, s) = IF Cardinality(signed.signatures) >= p.required
                   THEN [signed EXCEPT !.status = "approved"] ELSE signed
    BY Zenon DEF sign
<1> HIDE DEF signed
<1>4. CASE Cardinality(signed.signatures) >= p.required
    <2>1. sign(p, s) = [signed EXCEPT !.status = "approved"]
        BY <1>3, <1>4, Zenon
    <2>2. /\ [signed EXCEPT !.status = "approved"] \in Record
          /\ [signed EXCEPT !.status = "approved"].signatures = signed.signatures
          /\ [signed EXCEPT !.status = "approved"].required = p.required
        BY <1>1, Zenon DEF Record, Status
    <2> QED BY <2>1, <2>2, <1>2, <1>4, Zenon DEF Sound
<1>5. CASE ~(Cardinality(signed.signatures) >= p.required)
    BY <1>1, <1>2, <1>3, <1>5, Zenon DEF Sound
<1> QED BY <1>4, <1>5, Zenon

LEMMA SignInv == ASSUME MultisigInv, NEW c \in Call, submitSignature(c) PROVE MultisigInv'
<1>1. Deciding(c, "submitSignature")
    BY Zenon DEF submitSignature
<1>2. Fits(call[c]) /\ call[c].copy \in Record /\ Sound(call[c].copy) /\ call[c].who \in Person
    BY CallFits, <1>1, Zenon DEF Deciding, Fits, CallRecord, Named
<1>3. \/ End(c)
      \/ \E p \in Record : Sound(p) /\ Write(c, "set", p)
    BY <1>2, SignSound, Zenon DEF submitSignature
<1> QED BY <1>1, <1>3, DecideInv, Zenon

LEMMA SlashVoteInv == ASSUME MultisigInv, NEW c \in Call, addSlashingVote(c) PROVE MultisigInv'
<1>1. Deciding(c, "addSlashingVote")
    BY Zenon DEF addSlashingVote
<1>2. call[c].copy \in Record /\ Sound(call[c].copy) /\ call[c].who \in Person
    BY CallFits, <1>1, Zenon DEF Deciding, Fits, CallRecord, Named
<1> DEFINE q == [call[c].copy EXCEPT !.slashingVotes = call[c].copy.slashingVotes \cup {call[c].who}]
<1>3. q \in Record /\ Sound(q)
    BY <1>2, Zenon DEF Record, Sound
<1>4. End(c) \/ Write(c, "set", q)
    BY Zenon DEF addSlashingVote
<1> HIDE DEF q
<1> QED BY <1>1, <1>3, <1>4, DecideInv, Zenon

LEMMA ExecuteInv == ASSUME MultisigInv, NEW c \in Call, executeProposal(c) PROVE MultisigInv'
<1>1. Deciding(c, "executeProposal")
    BY Zenon DEF executeProposal
<1>2. call[c].copy \in Record /\ Sound(call[c].copy)
    BY CallFits, Zenon DEF Fits, CallRecord
<1> DEFINE q == [call[c].copy EXCEPT !.status = "executed"]
<1>3. canExecute(call[c].copy) => q \in Record /\ Sound(q)
    BY <1>2, Zenon DEF Record, Sound, Status, canExecute
<1>4. End(c) \/ (canExecute(call[c].copy) /\ Write(c, "set", q))
    BY Zenon DEF executeProposal
<1> HIDE DEF q
<1> QED BY <1>1, <1>3, <1>4, DecideInv, Zenon

LEMMA RejectInv == ASSUME MultisigInv, NEW c \in Call, rejectProposal(c) PROVE MultisigInv'
<1>1. Deciding(c, "rejectProposal")
    BY Zenon DEF rejectProposal
<1>2. call[c].copy \in Record /\ Sound(call[c].copy)
    BY CallFits, Zenon DEF Fits, CallRecord
<1> DEFINE q == [call[c].copy EXCEPT !.status = "rejected"]
<1>3. q \in Record /\ Sound(q)
    BY <1>2, Zenon DEF Record, Sound, Status
<1>4. End(c) \/ Write(c, "set", q)
    BY Zenon DEF rejectProposal
<1> HIDE DEF q
<1> QED BY <1>1, <1>3, <1>4, DecideInv, Zenon

LEMMA DeadlineInv == ASSUME MultisigInv, DeadlinePassed PROVE MultisigInv'
BY Zenon DEF DeadlinePassed, MultisigInv, MultisigTypeOK, Sound, Named

LEMMA ProposalCreateInv == ASSUME MultisigInv, NEW r \in 1..Cardinality(Signer), createProposal(r) PROVE MultisigInv'
<1>1. /\ proposal' = [NoProposal EXCEPT !.status = "pending", !.required = r]
      /\ late' = late /\ call' = call /\ begun' = begun
    BY Zenon DEF createProposal
<1>2. r \in Nat
    OBVIOUS
<1>3. proposal' \in Record /\ Sound(proposal')
    BY <1>1, <1>2, Zenon DEF NoProposal, Record, Status, Sound
<1>4. MultisigTypeOK'
    BY <1>1, <1>3, Zenon DEF MultisigInv, MultisigTypeOK
<1>5. \A c \in Call : Sound(call'[c].copy) /\ Named(call'[c])
    BY <1>1, Zenon DEF MultisigInv
<1> QED BY <1>3, <1>4, <1>5, Zenon DEF MultisigInv, Sound, Named

\* A call at its first place, with an argument when the method takes one.
LEMMA StartedFits ==
    ASSUME NEW m \in Method, NEW p \in Person \cup {NoOne},
           m \in {"submitSignature", "addSlashingVote"} => p \in Person
    PROVE  Fits(Started(m, p))
BY NoProposalFits, Zenon DEF Fits, Named, Started, CallRecord

LEMMA BeginInv ==
    ASSUME MultisigInv, NEW c \in Call, NEW m \in Method, NEW p \in Person \cup {NoOne}, Begin(c, m, p)
    PROVE  MultisigInv'
<1>1. m \in {"submitSignature", "addSlashingVote"} => p \in Person
    BY Zenon DEF Begin
<1>2. Fits(Started(m, p))
    BY <1>1, StartedFits, Zenon
<1>3. /\ call' = [call EXCEPT ![c] = Started(m, p)] /\ proposal' = proposal /\ late' = late
      /\ begun' = begun + 1
    BY Zenon DEF Begin
<1>4. begun' \in Nat
    BY <1>3, Rest
<1> QED BY <1>2, <1>3, <1>4, OneCall, Rest, CallFits, Zenon

LEMMA GetInv == ASSUME MultisigInv, NEW c \in Call, getProposalOrThrow(c) PROVE MultisigInv'
<1> DEFINE n == [call[c] EXCEPT !.at = "decide", !.copy = proposal]
<1>1. Fits(n)
    BY CallFits, MovedFits, Zenon
<1>2. call' = [call EXCEPT ![c] = n]
    BY Zenon DEF getProposalOrThrow, MultisigInv, MultisigTypeOK
<1> HIDE DEF n
<1> QED BY <1>1, <1>2, OneCall, Rest, CallFits, Zenon DEF getProposalOrThrow

\* checkExpiration marks a pending copy expired, or writes the marked copy.
LEMMA ExpireInv == ASSUME MultisigInv, NEW c \in Call, checkExpiration(c) PROVE MultisigInv'
<1> DEFINE k == call[c]
<1>1. Fits(k) /\ k.copy \in Record /\ Sound(k.copy) /\ proposal \in Record /\ Sound(proposal)
    BY CallFits, Zenon DEF Fits, CallRecord
<1>2. late' = late /\ begun' = begun
    BY Zenon DEF checkExpiration
<1>3. CASE Write(c, "expire", [k.copy EXCEPT !.status = "expired"]) /\ proposal' = proposal
    <2> DEFINE e == [k.copy EXCEPT !.status = "expired"]
               n == [k EXCEPT !.at = "expire", !.copy = e]
    <2>1. e \in Record /\ Sound(e)
        BY <1>1, Zenon DEF Record, Sound, Status
    <2>2. call' = [call EXCEPT ![c] = n]
        BY <1>3, Zenon DEF Write, MultisigInv, MultisigTypeOK
    <2> HIDE DEF e
    <2>3. Fits(n)
        BY <1>1, <2>1, MovedFits, Zenon
    <2> HIDE DEF n
    <2> QED BY <1>1, <1>2, <1>3, <2>2, <2>3, OneCall, Rest, Zenon
<1>4. CASE proposal' = k.copy /\ call' = [call EXCEPT ![c].at = "decide"]
    <2> DEFINE n == [k EXCEPT !.at = "decide"]
    <2>1. Fits(n)
        BY <1>1, Zenon DEF Fits, CallRecord, Named
    <2>2. call' = [call EXCEPT ![c] = n]
        BY <1>4, Zenon
    <2> HIDE DEF n
    <2> QED BY <1>1, <1>2, <1>4, <2>1, <2>2, OneCall, Rest, Zenon
<1> QED BY <1>3, <1>4, Zenon DEF checkExpiration

\* The last write of a method puts a sound copy in the place of the record.
LEMMA UpdateInv == ASSUME MultisigInv, NEW c \in Call, updateProposal(c) PROVE MultisigInv'
<1>1. /\ proposal' = call[c].copy /\ late' = late /\ begun' = begun
    BY Zenon DEF updateProposal
<1>2. proposal' \in Record /\ Sound(proposal')
    BY <1>1, CallFits, Zenon DEF Fits, CallRecord
<1>3. Fits(Started("rejectProposal", NoOne))
    BY StartedFits, Zenon DEF Method
<1>4. \/ call' = [call EXCEPT ![c] = Started("rejectProposal", NoOne)]
      \/ call' = [call EXCEPT ![c] = NoCall]
    BY Zenon DEF updateProposal, End
<1> QED BY <1>1, <1>2, <1>3, <1>4, NoProposalFits, OneCall, Rest, Zenon

LEMMA MultisigInitInv == MultisigInit => MultisigInv
<1> SUFFICES ASSUME MultisigInit PROVE MultisigInv
    BY Zenon
<1>1. MultisigTypeOK
    BY NoProposalFits, Zenon DEF MultisigInit, MultisigTypeOK, Fits, CallRecord
<1>2. \A c \in Call : call[c] = NoCall
    BY Zenon DEF MultisigInit
<1> QED BY <1>1, <1>2, NoProposalFits, Zenon DEF MultisigInit, MultisigInv, Fits

LEMMA MultisigStepInv == MultisigInv /\ [MultisigNext]_multisigVars => MultisigInv'
<1> SUFFICES ASSUME MultisigInv, [MultisigNext]_multisigVars PROVE MultisigInv'
    BY Zenon
<1>1. CASE UNCHANGED multisigVars
    BY <1>1, Zenon DEF multisigVars, MultisigInv, MultisigTypeOK, Sound, Named
<1>2. ASSUME NEW c \in Call, getProposal(c) PROVE MultisigInv'
    BY <1>2, DecideInv, Zenon DEF getProposal
<1>3. CASE MultisigNext
    BY <1>2, <1>3, ProposalCreateInv, DeadlineInv, BeginInv, GetInv, ExpireInv, SignInv, SlashVoteInv, ExecuteInv,
       RejectInv, UpdateInv, Zenon DEF MultisigNext
<1> QED BY <1>1, <1>3, Zenon

\* Records and calls keep their types, whatever calls run.
THEOREM MultisigTypeCorrect == MultisigSpec => []MultisigTypeOK
<1>1. MultisigInv => MultisigTypeOK
    BY Zenon DEF MultisigInv
<1> QED BY <1>1, MultisigInitInv, MultisigStepInv, PTL DEF MultisigSpec

(***************************************************************************)
(* A proposal that submitSignature approved or executeProposal executed    *)
(* carries its quorum of its signers' signatures, however many calls read  *)
(* and overwrite the record at the same time.                              *)
(***************************************************************************)
THEOREM QuorumAlwaysBehindApproval == MultisigSpec => []QuorumBehindApproval
<1>1. MultisigInv => QuorumBehindApproval
    BY Zenon DEF MultisigInv, Sound, QuorumBehindApproval
<1> QED BY <1>1, MultisigInitInv, MultisigStepInv, PTL DEF MultisigSpec

-----------------------------------------------------------------------------
(***************************************************************************)
(* Circuit breaker.  Probes are in flight only while the breaker is half   *)
(* open, and then hold its one slot.                                       *)
(***************************************************************************)
ProbesHoldSlot ==
    /\ \A c \in RpcCall : rpc[c] = "probe" => breakerState = "HALF_OPEN" /\ activeProbes = 1
    /\ breakerState # "HALF_OPEN" => activeProbes = 0

BreakerInv == BreakerTypeOK /\ ProbesHoldSlot /\ OneProbe /\ ProbeSlotHeld

LEMMA BreakerInvInit == BreakerInit => BreakerInv
<1> SUFFICES ASSUME BreakerInit PROVE BreakerInv
  OBVIOUS
<1>1. BreakerTypeOK
  <2>1. 0 \in 0..FailureThreshold /\ 0 \in 0..1 /\ 0 < FailureThreshold
    BY ThresholdPositive
  <2> QED
    BY <2>1, Zenon DEF BreakerInit, BreakerTypeOK
<1>2. ProbesHoldSlot /\ OneProbe /\ ProbeSlotHeld
  BY Zenon DEF BreakerInit, ProbesHoldSlot, OneProbe, ProbeSlotHeld
<1> QED
  BY <1>1, <1>2, Zenon DEF BreakerInv

\* A change of state by transitionTo() ends the slot and its probe.
LEMMA TransitionKeeps ==
    ASSUME BreakerInv, NEW calls \in [RpcCall -> {"idle", "flying", "probe"}],
           NEW s \in {"CLOSED", "OPEN", "HALF_OPEN"}, transitionTo(s, calls)
    PROVE  BreakerInv'
<1>1. rpc' \in [RpcCall -> {"idle", "flying"}]
  BY Zenon DEF transitionTo, flyOn
<1>2. BreakerTypeOK'
  <2>1. halfOpenDue' \in BOOLEAN
    BY Zenon DEF transitionTo, BreakerInv, BreakerTypeOK
  <2>2. failureCount' \in 0..FailureThreshold /\ (s = "CLOSED" => failureCount' < FailureThreshold)
    BY ThresholdPositive DEF transitionTo, BreakerInv, BreakerTypeOK
  <2>3. activeProbes' = 0 /\ breakerState' = s
    BY Zenon DEF transitionTo
  <2> QED
    BY <1>1, <2>1, <2>2, <2>3 DEF BreakerTypeOK
<1>3. ProbesHoldSlot' /\ OneProbe' /\ ProbeSlotHeld'
  BY <1>1, SMTT(30) DEF transitionTo, ProbesHoldSlot, OneProbe, ProbeSlotHeld
<1> QED
  BY <1>2, <1>3, Zenon DEF BreakerInv

LEMMA BreakerInvStep == BreakerInv /\ [BreakerNext]_breakerVars => BreakerInv'
<1> SUFFICES ASSUME BreakerInv, [BreakerNext]_breakerVars PROVE BreakerInv'
  OBVIOUS
<1> USE ThresholdPositive DEF BreakerInv, BreakerTypeOK, ProbesHoldSlot, OneProbe, ProbeSlotHeld
<1>1. CASE UNCHANGED breakerVars
  BY <1>1, Zenon DEF breakerVars
<1>2. CASE timePasses
  BY <1>2, Zenon DEF timePasses
<1>3. CASE getState
  BY <1>3, TransitionKeeps, Zenon DEF getState
<1>4. ASSUME NEW c \in RpcCall PROVE land(c) \in [RpcCall -> {"idle", "flying", "probe"}]
  BY Zenon DEF land
<1>5. ASSUME NEW c \in RpcCall, execute(c) PROVE BreakerInv'
  <2>1. CASE breakerState = "CLOSED"
    BY <1>5, <2>1, Zenon DEF execute
  <2>2. CASE breakerState # "CLOSED"
    <3>1. /\ breakerState' = "HALF_OPEN" /\ activeProbes' = 1
          /\ rpc' = [rpc EXCEPT ![c] = "probe"] /\ UNCHANGED <<failureCount, halfOpenDue>>
          /\ \A d \in RpcCall : rpc[d] # "probe"
      <4>1. CASE breakerState = "HALF_OPEN"
        <5>1. activeProbes = 0
          BY <1>5, <4>1 DEF execute
        <5> QED
          BY <1>5, <4>1, <5>1, SMTT(30) DEF execute
      <4>2. CASE breakerState = "OPEN" /\ halfOpenDue
        BY <1>5, <4>2 DEF execute
      <4> QED
        BY <1>5, <2>2, <4>1, <4>2, Zenon DEF execute
    <3>2. BreakerTypeOK'
      <4>1. 1 \in 0..1
        OBVIOUS
      <4> QED
        BY <3>1, <4>1, Zenon
    <3>3. ProbesHoldSlot' /\ OneProbe' /\ ProbeSlotHeld'
      BY <3>1, Zenon
    <3> QED
      BY <3>2, <3>3, Zenon
  <2> QED
    BY <2>1, <2>2, Zenon
<1>6. ASSUME NEW c \in RpcCall, breakerState # "HALF_OPEN", rpc' = land(c),
             failureCount' \in 0..FailureThreshold,
             breakerState = "CLOSED" => failureCount' < FailureThreshold,
             UNCHANGED <<breakerState, activeProbes, halfOpenDue>>
      PROVE  BreakerInv'
  BY <1>6, Zenon DEF land
<1>7. ASSUME NEW c \in RpcCall, succeed(c) PROVE BreakerInv'
  <2>1. CASE breakerState = "HALF_OPEN"
    BY <1>7, <2>1, <1>4, TransitionKeeps, Zenon DEF succeed
  <2>2. CASE breakerState # "HALF_OPEN"
    BY <1>7, <2>2, <1>6, SMTT(30) DEF succeed
  <2> QED
    BY <2>1, <2>2, Zenon
<1>8. ASSUME NEW c \in RpcCall, fail(c) PROVE BreakerInv'
  <2>1. CASE breakerState = "HALF_OPEN"
    BY <1>8, <2>1, <1>4, TransitionKeeps, Zenon DEF fail, recordFailure
  <2>2. CASE breakerState = "CLOSED" /\ failureCount + 1 >= FailureThreshold
    <3>1. rpc' \in [RpcCall -> {"idle", "flying"}]
      BY <1>8, <2>2, <1>4, SMTT(30) DEF fail, recordFailure, flyOn
    <3>2. breakerState' = "OPEN" /\ activeProbes' = 0 /\ halfOpenDue' = FALSE /\ failureCount' = failureCount + 1
      BY <1>8, <2>2 DEF fail, recordFailure
    <3>3. failureCount' \in 0..FailureThreshold
      BY <2>2, <3>2
    <3>4. BreakerTypeOK'
      <4>1. 0 \in 0..1
        OBVIOUS
      <4>2. rpc' \in [RpcCall -> {"idle", "flying", "probe"}]
        BY <3>1, Zenon
      <4> QED
        BY <3>2, <3>3, <4>1, <4>2, Zenon
    <3>5. ProbesHoldSlot' /\ OneProbe' /\ ProbeSlotHeld'
      BY <3>1, <3>2, Zenon
    <3> QED
      BY <3>4, <3>5, Zenon
  <2>3. CASE breakerState = "OPEN" \/ (breakerState = "CLOSED" /\ failureCount + 1 < FailureThreshold)
    <3>1. /\ breakerState # "HALF_OPEN" /\ rpc' = land(c)
          /\ failureCount' \in 0..FailureThreshold
          /\ breakerState = "CLOSED" => failureCount' < FailureThreshold
          /\ UNCHANGED <<breakerState, activeProbes, halfOpenDue>>
      BY <1>8, <2>3 DEF fail, recordFailure
    <3> QED
      BY <3>1, <1>6, Zenon
  <2> QED
    BY <2>1, <2>2, <2>3, SMTT(30)
<1> QED
  BY <1>1, <1>2, <1>3, <1>5, <1>7, <1>8, Zenon DEF BreakerNext

(***************************************************************************)
(* One probe at a time, however many calls began before the breaker opened *)
(* and whenever they end.                                                  *)
(***************************************************************************)
THEOREM ProbesExclude == BreakerSpec => []OneProbe
<1>1. BreakerInv => OneProbe
  BY Zenon DEF BreakerInv
<1> QED
  BY <1>1, BreakerInvInit, BreakerInvStep, PTL DEF BreakerSpec

\* A breaker that turns calls away has a call in flight that will free its
\* slot.
THEOREM SlotsAreHeld == BreakerSpec => []ProbeSlotHeld
<1>1. BreakerInv => ProbeSlotHeld
  BY Zenon DEF BreakerInv
<1> QED
  BY <1>1, BreakerInvInit, BreakerInvStep, PTL DEF BreakerSpec

\* An open breaker lets nothing begin before its time and closes only from
\* HALF_OPEN.
THEOREM OpenStays == BreakerSpec => OpenHolds
<1> DEFINE Holds == breakerState = "OPEN" =>
                       /\ breakerState' # "CLOSED"
                       /\ ~halfOpenDue => \A c \in RpcCall : rpc[c] = "idle" => rpc'[c] = "idle"
<1>1. BreakerInv /\ [BreakerNext]_breakerVars => [Holds]_breakerVars
  <2> SUFFICES ASSUME BreakerInv, BreakerNext, breakerState = "OPEN"
               PROVE  /\ breakerState' # "CLOSED"
                      /\ ~halfOpenDue => \A c \in RpcCall : rpc[c] = "idle" => rpc'[c] = "idle"
    BY Zenon
  <2>1. rpc \in [RpcCall -> {"idle", "flying", "probe"}]
    BY Zenon DEF BreakerInv, BreakerTypeOK
  <2>2. CASE timePasses \/ getState
    BY <2>1, <2>2, Zenon DEF timePasses, getState, transitionTo, flyOn
  <2>3. ASSUME NEW c \in RpcCall, execute(c) \/ succeed(c) \/ fail(c)
        PROVE  /\ breakerState' # "CLOSED"
               /\ ~halfOpenDue => \A d \in RpcCall : rpc[d] = "idle" => rpc'[d] = "idle"
    BY <2>1, <2>3, Zenon DEF execute, succeed, fail, recordFailure, land
  <2> QED
    BY <2>2, <2>3, Zenon DEF BreakerNext
<1> QED
  BY <1>1, BreakerInvInit, BreakerInvStep, PTL DEF BreakerSpec, OpenHolds

-----------------------------------------------------------------------------
(***************************************************************************)
(* Bond events.  The cursor never passes an operation that is not          *)
(* accounted for.                                                          *)
(***************************************************************************)

\* An operation that is recorded, or in the DLQ; one that is accounted for may
\* also be in flight.
Settled(e) == e \in ledger \cup quarantined
Busy(h) == handling[h].at # "free"
Accounted(e) == Settled(e) \/ \E h \in Handler : Busy(h) /\ handling[h].event = e

\* Every operation up to n is accounted for, or even settled.
AccountedTo(n) == \A e \in 1..n : Accounted(e)
SettledTo(n) == \A e \in 1..n : Settled(e)

\* Cursors, handlers and faults.
BondTypeOK ==
    /\ position \in 0..MaxEvent /\ cursor \in 0..MaxEvent /\ savedCursor \in 0..MaxEvent
    /\ handling \in [Handler -> [at: {"free", "validate", "begin", "committed", "route"}, event: 0..MaxEvent]]
    /\ bondCrashes \in Nat

(***************************************************************************)
(* Without a crash nothing in flight is ever forgotten, so everything up   *)
(* to any cursor is accounted for.  With handlers that never overlap the   *)
(* operations before the one in flight are settled, and so is everything   *)
(* up to a cursor, which a crash cannot undo.                              *)
(***************************************************************************)
BondInv ==
    /\ BondTypeOK
    /\ \A h \in Handler : handling[h].at = "committed" => handling[h].event \in ledger
    /\ bondCrashes = 0 \/ ~handlersOverlap =>
          /\ AccountedTo(position) /\ AccountedTo(cursor) /\ AccountedTo(savedCursor)
          /\ \A h \in Handler : Busy(h) => AccountedTo(handling[h].event)
    /\ ~handlersOverlap =>
          /\ SettledTo(cursor) /\ SettledTo(savedCursor)
          /\ \A h \in Handler : Busy(h) => SettledTo(handling[h].event - 1)
          /\ \A g, h \in Handler : Busy(g) /\ Busy(h) => g = h

\* Handler h keeps its operation in this step, or has settled it.
Kept(h) ==
    Busy(h) => \/ handling'[h].at # "free" /\ handling'[h].event = handling[h].event
               \/ handling[h].event \in ledger' \cup quarantined'

\* An action that loses no handler's operation loses no account.
LEMMA AccountsStay ==
    ASSUME BondInv,
           ledger \subseteq ledger', quarantined \subseteq quarantined',
           \A h \in Handler : Kept(h)
    PROVE  /\ \A e : Accounted(e) => Accounted(e)'
           /\ \A e : Settled(e) => Settled(e)'
<1>1. \A e : Settled(e) => Settled(e)'
    BY Zenon DEF Settled
<1>2. ASSUME NEW e, NEW h \in Handler, Busy(h), handling[h].event = e PROVE Accounted(e)'
    BY <1>2, Zenon DEF Accounted, Settled, Busy, Kept
<1> QED BY <1>1, <1>2, Zenon DEF Accounted

LEMMA OnmessageInv == ASSUME BondInv, NEW h \in Handler, onmessage(h) PROVE BondInv'
<1> USE BondBounds
<1>1. /\ handling[h].at = "free" /\ position < MaxEvent /\ position' = position + 1
      /\ handling' = [handling EXCEPT ![h] = [at |-> "validate", event |-> position + 1]]
      /\ handlersOverlap' = (handlersOverlap \/ inFlight # {})
      /\ UNCHANGED <<cursor, savedCursor, ledger, quarantined, bondCrashes>>
    BY SMTT(30) DEF onmessage, Free
<1>2. BondTypeOK'
    BY <1>1, SMTT(30) DEF BondInv, BondTypeOK
<1>3. /\ \A g \in Handler \ {h} : handling'[g] = handling[g]
      /\ handling'[h].at = "validate" /\ handling'[h].event = position + 1
    BY <1>1, Zenon DEF BondInv, BondTypeOK
<1>4. (\A e : Accounted(e) => Accounted(e)') /\ (\A e : Settled(e) => Settled(e)')
    <2>1. \A g \in Handler : Kept(g)
        BY <1>1, <1>3, Zenon DEF Busy, Kept
    <2>2. ledger \subseteq ledger' /\ quarantined \subseteq quarantined'
        BY <1>1, Zenon
    <2> QED BY <2>1, <2>2, AccountsStay, Zenon
<1>5. Accounted(position)'
    BY <1>1, <1>3, Zenon DEF Accounted, Busy
<1>6. ~handlersOverlap' => ~handlersOverlap /\ \A g \in Handler : ~Busy(g)
    <2>1. \A g \in Handler : Busy(g) => handling[g].event \in inFlight
        BY Zenon DEF inFlight, Busy
    <2> QED BY <1>1, <2>1, Zenon
<1>7. \A g \in Handler : handling'[g].at = "committed" => handling'[g].event \in ledger'
    <2>1. ledger' = ledger /\ \A g \in Handler : handling[g].at = "committed" => handling[g].event \in ledger
        BY <1>1, Zenon DEF BondInv
    <2> QED BY <1>3, <2>1, Zenon
<1>8. ASSUME bondCrashes' = 0 \/ ~handlersOverlap'
      PROVE  /\ AccountedTo(position)' /\ AccountedTo(cursor)' /\ AccountedTo(savedCursor)'
             /\ \A g \in Handler : Busy(g)' => AccountedTo(handling[g].event)'
    <2>1. /\ AccountedTo(position) /\ AccountedTo(cursor) /\ AccountedTo(savedCursor)
          /\ \A g \in Handler : Busy(g) => AccountedTo(handling[g].event)
        BY <1>1, <1>6, <1>8, Zenon DEF BondInv
    <2>2. AccountedTo(position)' /\ AccountedTo(cursor)' /\ AccountedTo(savedCursor)'
        <3>1. position \in Nat /\ \A e \in 1..(position + 1) : e \in 1..position \/ e = position + 1
            BY SMTT(30) DEF BondInv, BondTypeOK
        <3> QED BY <1>1, <1>4, <1>5, <2>1, <3>1, Zenon DEF AccountedTo
    <2>3. ASSUME NEW g \in Handler, Busy(g)' PROVE AccountedTo(handling[g].event)'
        BY <1>1, <1>3, <1>4, <2>1, <2>2, <2>3, Zenon DEF AccountedTo, Busy
    <2> QED BY <2>2, <2>3, Zenon
<1>9. ASSUME ~handlersOverlap'
      PROVE  /\ SettledTo(cursor)' /\ SettledTo(savedCursor)'
             /\ \A g \in Handler : Busy(g)' => SettledTo(handling[g].event - 1)'
             /\ \A f, g \in Handler : Busy(f)' /\ Busy(g)' => f = g
    <2>1. SettledTo(cursor)' /\ SettledTo(savedCursor)'
        BY <1>1, <1>4, <1>6, <1>9, Zenon DEF BondInv, SettledTo
    <2>2. SettledTo(position)
        BY <1>6, <1>9, Zenon DEF BondInv, AccountedTo, Accounted, SettledTo
    <2>3. \A g \in Handler : Busy(g)' => g = h
        BY <1>3, <1>6, <1>9, Zenon DEF Busy
    <2>4. handling'[h].event - 1 = position
        BY <1>3, SMTT(30) DEF BondInv, BondTypeOK
    <2>5. SettledTo(handling[h].event - 1)'
        BY <1>4, <2>2, <2>4, Zenon DEF SettledTo
    <2> QED BY <2>1, <2>3, <2>5, Zenon
<1> QED BY <1>2, <1>7, <1>8, <1>9, Zenon DEF BondInv

(***************************************************************************)
(* A handler goes on: it keeps its operation, or ends with the operation   *)
(* settled.  The cursors stay or move to the operation of a handler that   *)
(* has committed it.                                                       *)
(***************************************************************************)
MovesTo(c, d, e) == d = c \/ (d = e /\ e \in ledger')

\* A step of a busy handler.
Proceeds(h) ==
    /\ Busy(h)
    /\ ledger \subseteq ledger' /\ quarantined \subseteq quarantined'
    /\ \A g \in Handler \ {h} : handling'[g] = handling[g]
    /\ \/ handling'[h].at # "free" /\ handling'[h].event = handling[h].event
       \/ handling'[h].at = "free" /\ handling[h].event \in ledger' \cup quarantined'
    /\ handling'[h].at = "committed" => handling[h].event \in ledger'
    /\ UNCHANGED <<position, handlersOverlap, bondCrashes>>
    /\ MovesTo(cursor, cursor', handling[h].event)
    /\ MovesTo(savedCursor, savedCursor', handling[h].event)

LEMMA HandlerInv ==
    ASSUME BondInv, BondTypeOK', NEW h \in Handler, Proceeds(h)
    PROVE  BondInv'
<1> USE DEF Proceeds, MovesTo
<1>1. (\A e : Accounted(e) => Accounted(e)') /\ (\A e : Settled(e) => Settled(e)')
    <2>1. \A g \in Handler : Kept(g)
        BY ZenonT(40) DEF Busy, Kept
    <2> QED BY <2>1, AccountsStay, Zenon
<1>2. \A g \in Handler : handling'[g].at = "committed" => handling'[g].event \in ledger'
    BY Zenon DEF BondInv
<1>3. ASSUME bondCrashes' = 0 \/ ~handlersOverlap'
      PROVE  /\ AccountedTo(position)' /\ AccountedTo(cursor)' /\ AccountedTo(savedCursor)'
             /\ \A g \in Handler : Busy(g)' => AccountedTo(handling[g].event)'
    <2>1. /\ AccountedTo(position) /\ AccountedTo(cursor) /\ AccountedTo(savedCursor)
          /\ \A g \in Handler : Busy(g) => AccountedTo(handling[g].event)
        BY <1>3, ZenonT(40) DEF BondInv
    <2>2. AccountedTo(position)' /\ AccountedTo(cursor)' /\ AccountedTo(savedCursor)'
        BY <1>1, <2>1, Zenon DEF AccountedTo
    <2>3. ASSUME NEW g \in Handler, Busy(g)' PROVE AccountedTo(handling[g].event)'
        BY <1>1, <2>1, <2>3, Zenon DEF AccountedTo, Busy
    <2> QED BY <2>2, <2>3, ZenonT(40)
<1>4. ASSUME ~handlersOverlap'
      PROVE  /\ SettledTo(cursor)' /\ SettledTo(savedCursor)'
             /\ \A g \in Handler : Busy(g)' => SettledTo(handling[g].event - 1)'
             /\ \A f, g \in Handler : Busy(f)' /\ Busy(g)' => f = g
    <2>1. /\ SettledTo(cursor) /\ SettledTo(savedCursor)
          /\ \A g \in Handler : Busy(g) => SettledTo(handling[g].event - 1)
          /\ \A f, g \in Handler : Busy(f) /\ Busy(g) => f = g
        BY <1>4, ZenonT(40) DEF BondInv
    <2>2. handling[h].event \in ledger' => \A e \in 1..handling[h].event : Settled(e)'
        <3>1. handling[h].event \in 0..MaxEvent
            BY Zenon DEF BondInv, BondTypeOK
        <3>2. \A e \in 1..(handling[h].event - 1) : Settled(e)'
            BY <1>1, <2>1, ZenonT(40) DEF SettledTo
        <3> QED BY <3>1, <3>2, BondBounds, SMTT(30) DEF Settled
    <2>3. SettledTo(cursor)' /\ SettledTo(savedCursor)'
        BY <1>1, <2>1, <2>2, Zenon DEF SettledTo
    <2>4. ASSUME NEW g \in Handler, Busy(g)' PROVE SettledTo(handling[g].event - 1)' /\ g = h
        BY <1>1, <2>1, <2>4, SMTT(30) DEF SettledTo, Busy
    <2> QED BY <2>3, <2>4, ZenonT(40)
<1> QED BY <1>2, <1>3, <1>4, Zenon DEF BondInv

LEMMA BondStepInv == BondInv /\ [BondNext]_bondVars => BondInv'
<1> SUFFICES ASSUME BondInv, [BondNext]_bondVars PROVE BondInv'
    OBVIOUS
<1> USE BondBounds
<1>1. CASE onerror
    BY <1>1, ZenonT(40) DEF onerror, BondInv, BondTypeOK, AccountedTo, Accounted, SettledTo, Settled, Busy
<1>2. CASE initAndStart
    <2>1. /\ bondCrashes' = bondCrashes + 1 /\ cursor' = savedCursor /\ position' = savedCursor
          /\ handling' = [h \in Handler |-> Free]
          /\ UNCHANGED <<savedCursor, ledger, quarantined, handlersOverlap>>
        BY <1>2, Zenon DEF initAndStart
    <2>2. BondTypeOK' /\ \A h \in Handler : ~Busy(h)' /\ handling'[h].at # "committed"
        BY <2>1, SMTT(30) DEF BondInv, BondTypeOK, Free, Busy
    <2>3. ~handlersOverlap' => SettledTo(savedCursor)'
        BY <2>1, Zenon DEF BondInv, SettledTo, Settled
    <2>4. bondCrashes' # 0
        BY <2>1 DEF BondInv, BondTypeOK
    <2>5. SettledTo(savedCursor)' => AccountedTo(savedCursor)'
        BY Zenon DEF SettledTo, AccountedTo, Accounted
    <2>6. ~handlersOverlap' =>
             /\ SettledTo(cursor)' /\ AccountedTo(cursor)' /\ AccountedTo(position)'
        BY <2>1, <2>3, <2>5, Zenon DEF SettledTo, AccountedTo
    <2> QED BY <2>2, <2>3, <2>4, <2>5, <2>6, Zenon DEF BondInv
<1>3. ASSUME NEW h \in Handler, validateAndRoute(h) PROVE BondInv'
    <2>1. BondTypeOK'
        BY <1>3 DEF validateAndRoute, Free, BondInv, BondTypeOK
    <2>2. Proceeds(h)
        <3>1. CASE handling[h].event \in malformed
            BY <1>3, <3>1 DEF validateAndRoute, Free, BondInv, BondTypeOK, Proceeds, MovesTo, Busy
        <3>2. CASE handling[h].event \notin malformed
            BY <1>3, <3>2 DEF validateAndRoute, Free, BondInv, BondTypeOK, Proceeds, MovesTo, Busy
        <3> QED BY <1>3, <3>1, <3>2, Zenon DEF validateAndRoute
    <2> QED BY <2>1, <2>2, HandlerInv, Zenon
<1>4. ASSUME NEW h \in Handler, commitEvent(h) PROVE BondInv'
    <2>1. BondTypeOK'
        BY <1>4, Zenon DEF commitEvent, committed, BondInv, BondTypeOK
    <2>2. Proceeds(h)
        BY <1>4, Zenon DEF commitEvent, committed, BondInv, BondTypeOK, Proceeds, MovesTo, Busy
    <2> QED BY <2>1, <2>2, HandlerInv, Zenon
<1>5. ASSUME NEW h \in Handler, transactionFails(h) PROVE BondInv'
    <2>1. BondTypeOK'
        BY <1>5 DEF transactionFails, committed, BondInv, BondTypeOK
    <2>2. Proceeds(h)
        <3>1. CASE committed(handling[h].event)
            BY <1>5, <3>1 DEF transactionFails, committed, BondInv, BondTypeOK, Proceeds, MovesTo, Busy
        <3>2. CASE UNCHANGED <<ledger, savedCursor>>
            BY <1>5, <3>2 DEF transactionFails, committed, BondInv, BondTypeOK, Proceeds, MovesTo, Busy
        <3> QED BY <1>5, <3>1, <3>2, Zenon DEF transactionFails
    <2> QED BY <2>1, <2>2, HandlerInv, Zenon
<1>6. ASSUME NEW h \in Handler, advanceCursor(h) PROVE BondInv'
    <2>1. BondTypeOK'
        BY <1>6 DEF advanceCursor, Free, BondInv, BondTypeOK
    <2>2. Proceeds(h)
        BY <1>6, SMTT(30) DEF advanceCursor, Free, BondInv, BondTypeOK, Proceeds, MovesTo, Busy
    <2> QED BY <2>1, <2>2, HandlerInv, Zenon
<1>7. ASSUME NEW h \in Handler, catchError(h) PROVE BondInv'
    <2>1. BondTypeOK'
        BY <1>7, SMTT(30) DEF catchError, routeFailed, Free, BondInv, BondTypeOK
    <2>2. Proceeds(h)
        BY <1>7, Zenon DEF catchError, routeFailed, Free, BondInv, BondTypeOK, Proceeds, MovesTo, Busy
    <2> QED BY <2>1, <2>2, HandlerInv, Zenon
<1>8. CASE UNCHANGED bondVars
    BY <1>8, ZenonT(40) DEF bondVars, BondInv, BondTypeOK, AccountedTo, Accounted, SettledTo, Settled, Busy
<1> QED BY <1>1, <1>2, <1>3, <1>4, <1>5, <1>6, <1>7, <1>8, OnmessageInv, Zenon DEF BondNext

(***************************************************************************)
(* Nothing at or before the saved cursor is missing (saveCursor and the    *)
(* transaction of processOperation in horizonBondEvents.ts), for any       *)
(* number of operations, handlers and faults, as long as no crash met      *)
(* handlers in flight at once.                                             *)
(***************************************************************************)
THEOREM BondEventsAccountedFor == BondSpec => []EventsAccountedFor
<1>1. BondInit => BondInv
    BY BondBounds, SMTT(30) DEF BondInit, BondInv, BondTypeOK, AccountedTo, SettledTo, Busy, Free
<1>2. BondInv => EventsAccountedFor
    <2> SUFFICES ASSUME BondInv, bondCrashes = 0 \/ ~handlersOverlap, NEW e \in BondEvent, e <= savedCursor
                 PROVE  e \in ledger \cup quarantined \cup inFlight
        BY Zenon DEF EventsAccountedFor
    <2>1. Accounted(e)
        BY BondBounds DEF BondInv, BondTypeOK, AccountedTo, BondEvent
    <2> QED BY <2>1, Zenon DEF Accounted, Settled, Busy, inFlight
<1> QED BY <1>1, <1>2, BondStepInv, PTL DEF BondSpec

-----------------------------------------------------------------------------
(***************************************************************************)
(* Disputes.                                                               *)
(***************************************************************************)

\* A text is recorded only with the status that ends the dispute, and such a
\* status is never left but for "expired".
DisputeInv ==
    /\ resolution \in [DisputeId -> Text \cup {NoText}]
    /\ DOMAIN disputeStatus = DisputeId
    /\ \A d \in DisputeId : resolution[d] # NoText => disputeStatus[d] \in {"resolved", "dismissed", "expired"}

\* A step keeps the texts that are recorded.
KeepsOutcomes == \A d \in DisputeId : resolution[d] # NoText => resolution'[d] = resolution[d]

\* The matrix has no way out of a final status.
LEMMA MatrixLeavesOpen ==
    ASSUME NEW from, NEW to, tryTransition(from, to)
    PROVE  from \in {"pending", "under_review"}
BY Zenon DEF tryTransition, DISPUTE_MATRIX

LEMMA DisputeStep == ASSUME DisputeInv, DisputeNext PROVE DisputeInv' /\ KeepsOutcomes
<1>1. ASSUME NEW d \in DisputeId, submitDispute(d) \/ DeadlinePasses(d) \/ markUnderReview(d)
      PROVE  DisputeInv' /\ KeepsOutcomes
    BY <1>1, MatrixLeavesOpen, Zenon DEF submitDispute, DeadlinePasses, markUnderReview, DisputeInv, KeepsOutcomes
<1>2. ASSUME NEW d \in DisputeId, NEW text \in Text \cup {NoText}, resolveDispute(d, text)
      PROVE  DisputeInv' /\ KeepsOutcomes
    <2>1. CASE overdue[d]
        BY <1>2, <2>1, Zenon DEF resolveDispute, DisputeInv, KeepsOutcomes
    <2>2. CASE ~overdue[d]
        <3>1. disputeStatus[d] \in {"pending", "under_review"} /\ resolution[d] = NoText
            BY <1>2, <2>2, MatrixLeavesOpen, Zenon DEF resolveDispute, DisputeInv
        <3> QED BY <1>2, <2>2, <3>1, SMTT(30) DEF resolveDispute, DisputeInv, KeepsOutcomes
    <2> QED BY <2>1, <2>2, Zenon
<1>3. ASSUME NEW d \in DisputeId, NEW text \in Text \cup {NoText}, dismissDispute(d, text)
      PROVE  DisputeInv' /\ KeepsOutcomes
    <2>1. disputeStatus[d] \in {"pending", "under_review"} /\ resolution[d] = NoText
        BY <1>3, MatrixLeavesOpen, Zenon DEF dismissDispute, DisputeInv
    <2> QED BY <1>3, <2>1, Zenon DEF dismissDispute, DisputeInv, KeepsOutcomes
<1> QED BY <1>1, <1>2, <1>3, Zenon DEF DisputeNext

(***************************************************************************)
(* The text of a resolution or dismissal, once recorded, stays             *)
(* (resolveDispute, dismissDispute and tryTransition of the dispute        *)
(* service), for any number of disputes, texts and calls, past the         *)
(* deadline included.                                                      *)
(***************************************************************************)
THEOREM OutcomesAreKept == DisputeSpec => OutcomeKept
<1>1. DisputeInit => DisputeInv
    BY Zenon DEF DisputeInit, DisputeInv
<1>2. DisputeInv /\ [DisputeNext]_disputeVars => DisputeInv' /\ [KeepsOutcomes]_disputeVars
    <2>1. DisputeInv /\ UNCHANGED disputeVars => DisputeInv'
        BY Zenon DEF DisputeInv, disputeVars
    <2> QED BY <2>1, DisputeStep, Zenon
<1> QED BY <1>1, <1>2, PTL DEF DisputeSpec, OutcomeKept, KeepsOutcomes

-----------------------------------------------------------------------------
(***************************************************************************)
(* The outbox job.                                                         *)
(***************************************************************************)

(***************************************************************************)
(* What holds between the publisher that runs and the lease manager when   *)
(* releaseClaims is prompt: the loop that runs is that of this.publisher,  *)
(* and while a releaseClaims is awaited no loop runs, so the line          *)
(* this.publisher = null that follows it cannot forget one.                *)
(***************************************************************************)
JobInv ==
    /\ terms \in 0..MaxTerms
    /\ publisher \in 0..MaxTerms
    /\ DOMAIN loop = Publisher
    /\ releasing \in [Publisher -> {"none", "event", "stop"}]
    /\ \A p \in Publisher : loop[p] => publisher = p /\ leading
    /\ \A p, q \in Publisher : releasing[p] # "none" => ~loop[q]

LEMMA JobStepInv == ASSUME PromptRelease, JobInv, [JobNext]_jobVars PROVE JobInv'
<1> USE BoundsAssumption DEF JobInv, Publisher, null
<1>1. CASE start
    BY <1>1, Zenon DEF start
<1>2. CASE becomeLeader
    <2>1. CASE publisher # null
        BY <1>2, <2>1, SMTT(30) DEF becomeLeader, startPublisher
    <2>2. CASE publisher = null
        <3>1. /\ leading' = TRUE /\ releasing' = releasing /\ terms' = terms + 1
              /\ publisher' = terms + 1 /\ loop' = [loop EXCEPT ![terms + 1] = TRUE]
              /\ terms + 1 \in Publisher /\ \A p \in Publisher : releasing[p] = "none"
            BY <1>2, <2>2 DEF becomeLeader, startPublisher
        <3>2. \A p \in Publisher : ~loop[p]
            BY <2>2, SMTT(30)
        <3> QED BY <3>1, <3>2, SMTT(30)
    <2> QED BY <2>1, <2>2, Zenon
<1>3. CASE loseLeadership
    BY <1>3, SMTT(30) DEF loseLeadership, stopPublisher
<1>4. CASE stop
    BY <1>4, SMTT(30) DEF stop, stopPublisher, stopLease
<1>5. CASE leaseStopped
    BY <1>5, Zenon DEF leaseStopped
<1>6. ASSUME NEW p \in Publisher, released(p) PROVE JobInv'
    BY <1>6, SMTT(30) DEF released, stopLease
<1>7. ASSUME NEW p \in Publisher, releaseFailed(p) PROVE JobInv'
    BY <1>7, Zenon DEF releaseFailed
<1>8. CASE UNCHANGED jobVars
    BY <1>8, Zenon DEF jobVars
<1> QED BY <1>1, <1>2, <1>3, <1>4, <1>5, <1>6, <1>7, <1>8, ZenonT(40) DEF JobNext

(***************************************************************************)
(* No publisher loop outlives leadership, if releaseClaims is answered     *)
(* before leadership is regained (OutboxJob.stopPublisher), however often  *)
(* leadership changes and whether or not releaseClaims fails.              *)
(***************************************************************************)
THEOREM NoLoopWithoutLeadership ==
    ASSUME PromptRelease PROVE JobSpec => []LoopOnlyWhileLeading
<1>1. JobInit => JobInv
    BY BoundsAssumption DEF JobInit, JobInv, Publisher, null
<1>2. JobInv => LoopOnlyWhileLeading
    BY Zenon DEF JobInv, LoopOnlyWhileLeading
<1>3. JobInv /\ [JobNext]_jobVars => JobInv'
    BY JobStepInv, Zenon
<1> QED BY <1>1, <1>2, <1>3, PTL DEF JobSpec

-----------------------------------------------------------------------------
(***************************************************************************)
(* Members.  The row an invitation will insert does not exist before.  And *)
(* until two demotions or deletions have overlapped, there is one of them  *)
(* in flight at most, its row stays active, and when it has passed the     *)
(* count there is another active owner.                                    *)
(***************************************************************************)
InvitesNew ==
    \A c \in AdminCall : adminCall[c].op = "invite" =>
        /\ adminCall[c].at = "write" /\ membership[adminCall[c].row] = "none"
        /\ \A d \in AdminCall : adminCall[d].op = "invite" /\ adminCall[d].row = adminCall[c].row => c = d

Removes(k) == k.op = "delete" \/ k.to # "owner"

GuardedAlone ==
    \A c \in AdminCall : adminCall[c].op \in guarded =>
        /\ \A d \in AdminCall : adminCall[d].op \in guarded => c = d
        /\ membership[adminCall[c].row] = "active"
        /\ (adminCall[c].at = "write" /\ role[adminCall[c].row] = "owner" /\ Removes(adminCall[c])) =>
              \E m \in activeOwners : m # adminCall[c].row

OwnersGuarded == ~callsOverlap => GuardedAlone /\ activeOwners # {}

MemberInv == MemberTypeOK /\ InvitesNew /\ OneActiveMembership /\ OwnersGuarded

\* What every call returns to is a call that is not in flight.
LEMMA NoCallTyped ==
    /\ NoAdminCall \in [op : {"none", "invite", "update", "delete", "restore"}, row : Member,
                        at : {"idle", "count", "conflict", "write"}, to : {"owner", "other"}]
    /\ NoAdminCall.op = "none"
<1>1. (CHOOSE m \in Member : TRUE) \in Member
  BY RowsHaveUsers, Zenon
<1> QED
  BY <1>1, Zenon DEF NoAdminCall

LEMMA MemberInvInit == MemberInit => MemberInv
<1> SUFFICES ASSUME MemberInit PROVE MemberInv
  OBVIOUS
<1>1. MemberTypeOK
  BY NoCallTyped, Zenon DEF MemberInit, MemberTypeOK
<1>2. InvitesNew /\ GuardedAlone
  BY NoCallTyped, Zenon DEF MemberInit, InvitesNew, GuardedAlone, guarded
<1>3. OneActiveMembership
  BY RowsHaveUsers, Zenon DEF MemberInit, OneActiveMembership
<1>4. activeOwners # {}
  BY RowsHaveUsers, Zenon DEF MemberInit, activeOwners
<1> QED
  BY <1>1, <1>2, <1>3, <1>4 DEF MemberInv, OwnersGuarded

\* Every step but the count of the owners keeps the invariant, and the count
\* keeps all of it but the guard of the owners.
LEMMA CallsKeepInv ==
    ASSUME MemberInv, [MemberNext]_memberVars
    PROVE  MemberInv' \/ \E c \in AdminCall : countActiveOwners(c) /\ MemberTypeOK' /\ InvitesNew' /\ OneActiveMembership'
<1>0. MemberTypeOK /\ InvitesNew /\ OneActiveMembership /\ OwnersGuarded
  BY Zenon DEF MemberInv
<1>1. CASE UNCHANGED memberVars
  <2>1. MemberTypeOK' /\ InvitesNew' /\ OneActiveMembership'
    BY <1>0, <1>1, SMTT(30) DEF memberVars, MemberTypeOK, InvitesNew, OneActiveMembership
  <2>2. OwnersGuarded'
    BY <1>0, <1>1, SMTT(30) DEF memberVars, OwnersGuarded, GuardedAlone, Removes, activeOwners
  <2> QED
    BY <2>1, <2>2, Zenon DEF MemberInv
<1>2. ASSUME NEW c \in AdminCall, countActiveOwners(c) PROVE MemberTypeOK' /\ InvitesNew' /\ OneActiveMembership'
  <2>1. MemberTypeOK'
    BY <1>0, <1>2, NoCallTyped, SMTT(30)
    DEF countActiveOwners, endCall, goOn, callAt, MemberTypeOK, guarded
  <2>2. InvitesNew' /\ OneActiveMembership'
    BY <1>0, <1>2, NoCallTyped, RowsHaveUsers, SMTT(30)
    DEF countActiveOwners, endCall, goOn, callAt, MemberTypeOK, InvitesNew, OneActiveMembership, guarded
  <2> QED
    BY <2>1, <2>2, Zenon
<1>3. ASSUME NEW c \in AdminCall, updateRole(c) PROVE MemberInv'
  <2>1. MemberTypeOK'
    BY <1>0, <1>3, NoCallTyped, SMTT(30)
    DEF updateRole, endCall, goOn, callAt, MemberTypeOK, guarded
  <2>2. InvitesNew' /\ OneActiveMembership'
    BY <1>0, <1>3, NoCallTyped, RowsHaveUsers, SMTT(30)
    DEF updateRole, endCall, goOn, callAt, MemberTypeOK, InvitesNew, OneActiveMembership, guarded
  <2>3. OwnersGuarded'
    BY <1>0, <1>3, NoCallTyped, SMTT(30)
    DEF updateRole, endCall, goOn, callAt, MemberTypeOK, InvitesNew, OwnersGuarded, GuardedAlone, Removes, guarded, activeOwners
  <2> QED
    BY <2>1, <2>2, <2>3, Zenon DEF MemberInv
<1>4. ASSUME NEW c \in AdminCall, softDelete(c) PROVE MemberInv'
  <2>1. MemberTypeOK'
    BY <1>0, <1>4, NoCallTyped, SMTT(30)
    DEF softDelete, endCall, goOn, callAt, MemberTypeOK, guarded
  <2>2. InvitesNew' /\ OneActiveMembership'
    BY <1>0, <1>4, NoCallTyped, RowsHaveUsers, SMTT(30)
    DEF softDelete, endCall, goOn, callAt, MemberTypeOK, InvitesNew, OneActiveMembership, guarded
  <2>3. OwnersGuarded'
    BY <1>0, <1>4, NoCallTyped, SMTT(30)
    DEF softDelete, endCall, goOn, callAt, MemberTypeOK, InvitesNew, OwnersGuarded, GuardedAlone, Removes, guarded, activeOwners
  <2> QED
    BY <2>1, <2>2, <2>3, Zenon DEF MemberInv
<1>5. ASSUME NEW c \in AdminCall, insert(c) PROVE MemberInv'
  <2>1. MemberTypeOK'
    BY <1>0, <1>5, NoCallTyped, SMTT(30)
    DEF insert, uniqueActive, activeRows, endCall, goOn, callAt, MemberTypeOK, guarded
  <2>2. InvitesNew' /\ OneActiveMembership'
    BY <1>0, <1>5, NoCallTyped, RowsHaveUsers, SMTT(30)
    DEF insert, uniqueActive, activeRows, endCall, goOn, callAt, MemberTypeOK, InvitesNew, OneActiveMembership, guarded
  <2>3. OwnersGuarded'
    BY <1>0, <1>5, NoCallTyped, SMTT(30)
    DEF insert, uniqueActive, activeRows, endCall, goOn, callAt, MemberTypeOK, InvitesNew, OwnersGuarded, GuardedAlone, Removes, guarded, activeOwners
  <2> QED
    BY <2>1, <2>2, <2>3, Zenon DEF MemberInv
<1>6. ASSUME NEW c \in AdminCall, findConflict(c) PROVE MemberInv'
  <2>1. MemberTypeOK'
    BY <1>0, <1>6, NoCallTyped, SMTT(30)
    DEF findConflict, endCall, goOn, callAt, MemberTypeOK, guarded
  <2>2. InvitesNew' /\ OneActiveMembership'
    BY <1>0, <1>6, NoCallTyped, RowsHaveUsers, SMTT(30)
    DEF findConflict, endCall, goOn, callAt, MemberTypeOK, InvitesNew, OneActiveMembership, guarded
  <2>3. OwnersGuarded'
    BY <1>0, <1>6, NoCallTyped, SMTT(30)
    DEF findConflict, endCall, goOn, callAt, MemberTypeOK, InvitesNew, OwnersGuarded, GuardedAlone, Removes, guarded, activeOwners
  <2> QED
    BY <2>1, <2>2, <2>3, Zenon DEF MemberInv
<1>7. ASSUME NEW c \in AdminCall, restore(c) PROVE MemberInv'
  <2>1. MemberTypeOK'
    BY <1>0, <1>7, NoCallTyped, SMTT(30)
    DEF restore, uniqueActive, activeRows, endCall, goOn, callAt, MemberTypeOK, guarded
  <2>2. InvitesNew' /\ OneActiveMembership'
    BY <1>0, <1>7, NoCallTyped, RowsHaveUsers, SMTT(30)
    DEF restore, uniqueActive, activeRows, endCall, goOn, callAt, MemberTypeOK, InvitesNew, OneActiveMembership, guarded
  <2>3. OwnersGuarded'
    BY <1>0, <1>7, NoCallTyped, SMTT(30)
    DEF restore, uniqueActive, activeRows, endCall, goOn, callAt, MemberTypeOK, InvitesNew, OwnersGuarded, GuardedAlone, Removes, guarded, activeOwners
  <2> QED
    BY <2>1, <2>2, <2>3, Zenon DEF MemberInv
<1>8. ASSUME NEW c \in AdminCall, NEW m \in Member, findDeletedById(c, m) PROVE MemberInv'
  <2>1. MemberTypeOK'
    BY <1>0, <1>8, NoCallTyped, SMTT(30)
    DEF findDeletedById, endCall, goOn, callAt, MemberTypeOK, guarded
  <2>2. InvitesNew' /\ OneActiveMembership'
    BY <1>0, <1>8, NoCallTyped, RowsHaveUsers, SMTT(30)
    DEF findDeletedById, endCall, goOn, callAt, MemberTypeOK, InvitesNew, OneActiveMembership, guarded
  <2>3. OwnersGuarded'
    BY <1>0, <1>8, NoCallTyped, SMTT(30)
    DEF findDeletedById, endCall, goOn, callAt, MemberTypeOK, InvitesNew, OwnersGuarded, GuardedAlone, Removes, guarded, activeOwners
  <2> QED
    BY <2>1, <2>2, <2>3, Zenon DEF MemberInv
<1>9. ASSUME NEW c \in AdminCall, NEW m \in Member, NEW to \in {"owner", "other"}, beginInvite(c, m, to) PROVE MemberInv'
  <2>1. MemberTypeOK'
    BY <1>0, <1>9, NoCallTyped, SMTT(30)
    DEF beginInvite, endCall, goOn, callAt, MemberTypeOK, guarded
  <2>2. InvitesNew' /\ OneActiveMembership'
    BY <1>0, <1>9, NoCallTyped, RowsHaveUsers, SMTT(30)
    DEF beginInvite, endCall, goOn, callAt, MemberTypeOK, InvitesNew, OneActiveMembership, guarded
  <2>3. OwnersGuarded'
    BY <1>0, <1>9, NoCallTyped, SMTT(30)
    DEF beginInvite, endCall, goOn, callAt, MemberTypeOK, InvitesNew, OwnersGuarded, GuardedAlone, Removes, guarded, activeOwners
  <2> QED
    BY <2>1, <2>2, <2>3, Zenon DEF MemberInv
<1>10. ASSUME NEW c \in AdminCall, NEW m \in Member, NEW to \in {"owner", "other"}, NEW op \in guarded,
              findActiveById(c, m, op, to)
       PROVE  MemberInv'
  <2>1. /\ UNCHANGED <<membership, role>> /\ membership[m] = "active"
        /\ callsOverlap' = (callsOverlap \/ \E d \in AdminCall : adminCall[d].op \in guarded)
    BY <1>10 DEF findActiveById, guarded
  <2>2. PICK where \in {"count", "write"} :
           /\ adminCall' = [adminCall EXCEPT ![c] = [op |-> op, row |-> m, to |-> to, at |-> where]]
           /\ where = "write" => role[m] # "owner" \/ (op # "delete" /\ to = "owner")
    BY <1>10, Zenon DEF findActiveById, goOn, callAt, endCall
  <2>3. MemberTypeOK'
    <3>1. callsOverlap' \in BOOLEAN
      BY <1>0, <2>1, Zenon DEF MemberTypeOK
    <3> QED
      BY <1>0, <2>1, <2>2, <3>1, SMTT(30) DEF MemberTypeOK, guarded
  <2>4. InvitesNew' /\ OneActiveMembership'
    BY <1>0, <2>1, <2>2, SMTT(30) DEF MemberTypeOK, InvitesNew, OneActiveMembership, guarded
  <2>5. OwnersGuarded'
    <3> SUFFICES ASSUME ~callsOverlap' PROVE OwnersGuarded'
      BY DEF OwnersGuarded
    <3>1. ~callsOverlap /\ \A d \in AdminCall : adminCall[d].op \notin guarded
      BY <2>1, Zenon
    <3>2. \A d \in AdminCall : adminCall'[d].op \in guarded => d = c
      BY <1>0, <2>2, <3>1, SMTT(30) DEF MemberTypeOK
    <3>3. adminCall'[c] = [op |-> op, row |-> m, to |-> to, at |-> where]
      BY <1>0, <2>2 DEF MemberTypeOK
    <3>4. GuardedAlone'
      BY <2>1, <2>2, <3>2, <3>3, SMTT(30) DEF GuardedAlone, Removes
    <3>5. activeOwners' # {}
      BY <1>0, <2>1, <3>1, Zenon DEF OwnersGuarded, activeOwners
    <3> QED
      BY <3>4, <3>5, Zenon DEF OwnersGuarded
  <2> QED
    BY <2>3, <2>4, <2>5, ZenonT(40) DEF MemberInv
<1>11. ASSUME NEW c \in AdminCall, NEW m \in Member, NEW to \in {"owner", "other"},
              findActiveById(c, m, "update", to) \/ findActiveById(c, m, "delete", "other")
       PROVE  MemberInv'
  <2>1. CASE findActiveById(c, m, "update", to)
    BY <2>1, <1>10, Zenon DEF guarded
  <2>2. CASE findActiveById(c, m, "delete", "other")
    BY <2>2, <1>10, Zenon DEF guarded
  <2> QED
    BY <1>11, <2>1, <2>2
<1> QED
  BY <1>1, <1>2, <1>3, <1>4, <1>5, <1>6, <1>7, <1>8, <1>9, <1>11, Zenon DEF MemberNext

\* Of two or more active owners one is not m.
LEMMA AnotherOwner ==
    ASSUME FiniteSetFacts, NEW m, ~lastOwner
    PROVE  \E n \in activeOwners : n # m
<1>1. IsFiniteSet(activeOwners)
  BY RowsHaveUsers DEF activeOwners, FiniteSetFacts, SubsetFact
<1>2. Cardinality(activeOwners) \in Nat
  BY <1>1, Zenon DEF FiniteSetFacts, CountFact
<1>3. CASE activeOwners \subseteq {m}
  <2>1. Cardinality(activeOwners) <= Cardinality({m}) /\ Cardinality({m}) = 1
    BY <1>3, Zenon DEF FiniteSetFacts, SingletonFact, SubsetFact
  <2> QED
    BY <1>2, <2>1 DEF lastOwner
<1> QED
  BY <1>3

\* A demotion or deletion that passes the count leaves another owner.
LEMMA CountKeepsOwners ==
    ASSUME FiniteSetFacts, MemberInv, NEW c \in AdminCall, countActiveOwners(c)
    PROVE  OwnersGuarded'
<1>1. UNCHANGED <<membership, role, callsOverlap>>
  BY Zenon DEF countActiveOwners
<1>2. activeOwners' = activeOwners
  BY <1>1 DEF activeOwners
<1>3. adminCall \in [AdminCall -> [op : {"none", "invite", "update", "delete", "restore"}, row : Member,
                                  at : {"idle", "count", "conflict", "write"}, to : {"owner", "other"}]]
  BY ZenonT(40) DEF MemberInv, MemberTypeOK
<1>4. CASE lastOwner
  <2>1. adminCall' = [adminCall EXCEPT ![c] = NoAdminCall]
    BY <1>4, Zenon DEF countActiveOwners, endCall
  <2> QED
    BY <1>1, <1>2, <1>3, <2>1, NoCallTyped DEF MemberInv, OwnersGuarded, GuardedAlone, guarded
<1>5. CASE ~lastOwner
  <2>1. adminCall' = [adminCall EXCEPT ![c].at = "write"]
    BY <1>5, Zenon DEF countActiveOwners, goOn
  <2>2. \E n \in activeOwners : n # adminCall[c].row
    BY <1>5, AnotherOwner
  <2> QED
    BY <1>1, <1>2, <1>3, <2>1, <2>2 DEF MemberInv, OwnersGuarded, GuardedAlone, guarded
<1> QED
  BY <1>4, <1>5, Zenon

-----------------------------------------------------------------------------
(***************************************************************************)
(* Voting on slash requests is sound and always decides, for any number of *)
(* requests, voters and signers.                                           *)
(***************************************************************************)
(***************************************************************************)
(* How far the votes of a request can have got.  As long as it is pending  *)
(* the approvals are below the threshold t and the rejections spare it;    *)
(* the vote that decides is the last one, so a decided request has exactly *)
(* t approvals, or exactly one rejection more than n - t.                  *)
(***************************************************************************)
TallyOf(s, t, n, a, r) ==
    /\ s = "none" => a = 0 /\ r = 0 /\ n = 0
    /\ s # "none" => 1 <= t /\ t <= n
    /\ s = "pending" => a < t /\ r <= n - t
    /\ s = "approved" => a = t /\ r <= n - t
    /\ s = "rejected" => a < t /\ r = (n - t) + 1

Tally ==
    \A i \in Id : TallyOf(requestStatus[i], threshold[i], totalSigners[i],
                          Cardinality(approvers[i]), Cardinality(rejecters[i]))

SlashingInv == SlashingTypeOK /\ Tally

\* computeStatus after one more approval of a pending request.
LEMMA ApprovalCounts ==
    ASSUME NEW t \in Nat, NEW n \in Nat, NEW a \in Nat, NEW r \in Nat,
           TallyOf("pending", t, n, a, r)
    PROVE  /\ computeStatus(t, n, a + 1, r) \in {"pending", "approved", "rejected"}
           /\ TallyOf(computeStatus(t, n, a + 1, r), t, n, a + 1, r)
BY SMT DEF TallyOf, computeStatus

\* computeStatus after one more rejection of a pending request.
LEMMA RejectionCounts ==
    ASSUME NEW t \in Nat, NEW n \in Nat, NEW a \in Nat, NEW r \in Nat,
           TallyOf("pending", t, n, a, r)
    PROVE  /\ computeStatus(t, n, a, r + 1) \in {"pending", "approved", "rejected"}
           /\ TallyOf(computeStatus(t, n, a, r + 1), t, n, a, r + 1)
BY SMT DEF TallyOf, computeStatus

\* Creating a request: it starts without votes.
LEMMA CreateInv ==
    ASSUME SlashingInv, NEW i \in Id, NEW t \in Nat, NEW n \in Nat, createSlashRequest(i, t, n)
    PROVE  SlashingInv'
<1> USE DEF SlashingInv, createSlashRequest
<1>1. SlashingTypeOK'
    BY Zenon DEF SlashingTypeOK
<1>2. ASSUME NEW j \in Id
      PROVE  TallyOf(requestStatus'[j], threshold'[j], totalSigners'[j],
                     Cardinality(approvers'[j]), Cardinality(rejecters'[j]))
    <2>1. TallyOf(requestStatus[j], threshold[j], totalSigners[j],
                  Cardinality(approvers[j]), Cardinality(rejecters[j]))
        BY Zenon DEF Tally
    <2>2. CASE j # i
        BY <2>1, <2>2 DEF SlashingTypeOK
    <2>3. CASE j = i
        <3>1. Cardinality(approvers[i]) = 0 /\ Cardinality(rejecters[i]) = 0
            BY <2>1, <2>3 DEF TallyOf
        <3>2. /\ requestStatus'[i] = "pending" /\ threshold'[i] = t /\ totalSigners'[i] = n
              /\ approvers'[i] = approvers[i] /\ rejecters'[i] = rejecters[i]
            BY DEF SlashingTypeOK
        <3>3. 1 <= t /\ t <= n /\ 0 < t /\ 0 <= n - t
            OBVIOUS
        <3>4. TallyOf("pending", t, n, 0, 0)
            BY <3>3 DEF TallyOf
        <3> QED BY <2>3, <3>1, <3>2, <3>4
    <2> QED BY <2>2, <2>3
<1> QED BY <1>1, <1>2 DEF Tally

LEMMA SlashingInitInv == ASSUME FiniteSetFacts, SlashingInit PROVE SlashingInv
<1>1. SlashingTypeOK
    BY DEF SlashingInit, SlashingTypeOK, FiniteSetFacts, EmptyFact
<1>2. Tally
    <2> SUFFICES ASSUME NEW i \in Id
                 PROVE  TallyOf(requestStatus[i], threshold[i], totalSigners[i],
                                Cardinality(approvers[i]), Cardinality(rejecters[i]))
        BY Zenon DEF Tally
    <2>1. /\ requestStatus[i] = "none" /\ totalSigners[i] = 0
          /\ approvers[i] = {} /\ rejecters[i] = {}
        BY Zenon DEF SlashingInit
    <2>2. Cardinality({}) = 0
        BY SMTT(30) DEF FiniteSetFacts, EmptyFact
    <2> QED BY <2>1, <2>2 DEF TallyOf
<1> QED BY <1>1, <1>2, Zenon DEF SlashingInv

\* A vote: one more approval or one more rejection, and the status it gives.
LEMMA VoteInv ==
    ASSUME FiniteSetFacts, SlashingInv, NEW i \in Id, NEW v \in Voter, NEW choice \in {"approve", "reject"},
           submitVote(i, v, choice)
    PROVE  SlashingInv'
<1> DEFINE A == IF choice = "approve" THEN approvers[i] \cup {v} ELSE approvers[i]
           R == IF choice = "reject" THEN rejecters[i] \cup {v} ELSE rejecters[i]
           s == computeStatus(threshold[i], totalSigners[i], Cardinality(A), Cardinality(R))
<1>1. /\ requestStatus[i] = "pending"
      /\ v \notin approvers[i] /\ v \notin rejecters[i]
      /\ approvers' = [approvers EXCEPT ![i] = A]
      /\ rejecters' = [rejecters EXCEPT ![i] = R]
      /\ requestStatus' = [requestStatus EXCEPT ![i] = s]
      /\ threshold' = threshold /\ totalSigners' = totalSigners
    BY Zenon DEF submitVote
<1>2. /\ approvers[i] \subseteq Voter /\ rejecters[i] \subseteq Voter
      /\ IsFiniteSet(approvers[i]) /\ IsFiniteSet(rejecters[i])
      /\ threshold[i] \in Nat /\ totalSigners[i] \in Nat
    BY Zenon DEF SlashingInv, SlashingTypeOK
<1>3. Cardinality(approvers[i]) \in Nat /\ Cardinality(rejecters[i]) \in Nat
    BY <1>2, ZenonT(40) DEF FiniteSetFacts, CountFact
<1>4. TallyOf("pending", threshold[i], totalSigners[i],
              Cardinality(approvers[i]), Cardinality(rejecters[i]))
    BY <1>1 DEF SlashingInv, Tally
<1>5. /\ IsFiniteSet(approvers[i] \cup {v})
      /\ Cardinality(approvers[i] \cup {v}) = Cardinality(approvers[i]) + 1
      /\ IsFiniteSet(rejecters[i] \cup {v})
      /\ Cardinality(rejecters[i] \cup {v}) = Cardinality(rejecters[i]) + 1
    BY <1>1, <1>2, ZenonT(40) DEF FiniteSetFacts, AddFact
<1>6. /\ s \in {"pending", "approved", "rejected"}
      /\ TallyOf(s, threshold[i], totalSigners[i], Cardinality(A), Cardinality(R))
    <2>1. CASE choice = "approve"
        <3>1. Cardinality(A) = Cardinality(approvers[i]) + 1 /\ R = rejecters[i]
            BY <2>1, <1>5, Zenon
        <3>2. LET st == computeStatus(threshold[i], totalSigners[i], Cardinality(approvers[i]) + 1, Cardinality(rejecters[i]))
              IN  /\ st \in {"pending", "approved", "rejected"}
                  /\ TallyOf(st, threshold[i], totalSigners[i], Cardinality(approvers[i]) + 1, Cardinality(rejecters[i]))
            BY <1>2, <1>3, <1>4, ApprovalCounts, Zenon
        <3> HIDE DEF A, R
        <3> QED BY <3>1, <3>2, Zenon
    <2>2. CASE choice = "reject"
        <3>1. Cardinality(R) = Cardinality(rejecters[i]) + 1 /\ A = approvers[i]
            BY <2>2, <1>5
        <3>2. LET st == computeStatus(threshold[i], totalSigners[i], Cardinality(approvers[i]), Cardinality(rejecters[i]) + 1)
              IN  /\ st \in {"pending", "approved", "rejected"}
                  /\ TallyOf(st, threshold[i], totalSigners[i], Cardinality(approvers[i]), Cardinality(rejecters[i]) + 1)
            BY <1>2, <1>3, <1>4, RejectionCounts, Zenon
        <3> HIDE DEF A, R
        <3> QED BY <3>1, <3>2, Zenon
    <2> QED BY <2>1, <2>2
<1>7. A \subseteq Voter /\ R \subseteq Voter /\ IsFiniteSet(A) /\ IsFiniteSet(R)
    BY <1>2, <1>5
<1> HIDE DEF A, R, s
<1>8. SlashingTypeOK'
    BY <1>1, <1>6, <1>7 DEF SlashingInv, SlashingTypeOK
<1>9. ASSUME NEW j \in Id
      PROVE  TallyOf(requestStatus'[j], threshold'[j], totalSigners'[j],
                     Cardinality(approvers'[j]), Cardinality(rejecters'[j]))
    <2>1. CASE j = i
        <3>1. requestStatus'[i] = s /\ approvers'[i] = A /\ rejecters'[i] = R
            BY <1>1 DEF SlashingInv, SlashingTypeOK
        <3> QED BY <2>1, <3>1, <1>1, <1>6
    <2>2. CASE j # i
        <3>1. /\ requestStatus'[j] = requestStatus[j]
              /\ approvers'[j] = approvers[j] /\ rejecters'[j] = rejecters[j]
            BY <1>1, <2>2 DEF SlashingInv, SlashingTypeOK
        <3> QED BY <3>1, <1>1 DEF SlashingInv, Tally
    <2> QED BY <2>1, <2>2
<1> QED BY <1>8, <1>9 DEF SlashingInv, Tally

LEMMA SlashingStepInv == ASSUME FiniteSetFacts, SlashingInv, [SlashingNext]_slashingVars PROVE SlashingInv'
<1>1. CASE SlashingNext
    BY <1>1, CreateInv, VoteInv, Zenon DEF SlashingNext
<1>2. CASE UNCHANGED slashingVars
    BY <1>2 DEF slashingVars, SlashingInv, SlashingTypeOK, Tally
<1> QED BY <1>1, <1>2

\* The counts of a request are natural numbers and tally with its status.
LEMMA Counts ==
    ASSUME FiniteSetFacts, SlashingInv, NEW i \in Id
    PROVE  /\ Cardinality(approvers[i]) \in Nat /\ Cardinality(rejecters[i]) \in Nat
           /\ threshold[i] \in Nat /\ totalSigners[i] \in Nat
           /\ requestStatus[i] \in {"none", "pending", "approved", "rejected"}
           /\ TallyOf(requestStatus[i], threshold[i], totalSigners[i],
                      Cardinality(approvers[i]), Cardinality(rejecters[i]))
BY Zenon DEF SlashingInv, SlashingTypeOK, Tally, FiniteSetFacts, CountFact

LEMMA TalliesDecide == ASSUME FiniteSetFacts, SlashingInv PROVE VotesDecide
<1> SUFFICES ASSUME NEW i \in Id
             PROVE  LET votes == Cardinality(approvers[i]) + Cardinality(rejecters[i])
                    IN  /\ requestStatus[i] = "pending" => votes < totalSigners[i]
                        /\ votes <= totalSigners[i]
    BY Zenon DEF VotesDecide
<1> DEFINE a == Cardinality(approvers[i])
           r == Cardinality(rejecters[i])
<1>1. /\ a \in Nat /\ r \in Nat /\ threshold[i] \in Nat /\ totalSigners[i] \in Nat
      /\ requestStatus[i] \in {"none", "pending", "approved", "rejected"}
      /\ TallyOf(requestStatus[i], threshold[i], totalSigners[i], a, r)
    BY Counts
<1> HIDE DEF a, r
<1>2. (requestStatus[i] = "pending" => a + r < totalSigners[i]) /\ a + r <= totalSigners[i]
    BY <1>1 DEF TallyOf
<1> QED BY <1>2 DEF a, r

LEMMA TalliesAreSound == ASSUME FiniteSetFacts, SlashingInv PROVE DecisionSound
<1> SUFFICES ASSUME NEW i \in Id,
                    NEW more \in 0..(totalSigners[i] - (Cardinality(approvers[i]) + Cardinality(rejecters[i])))
             PROVE  /\ requestStatus[i] = "approved" => Cardinality(approvers[i]) + more >= threshold[i]
                    /\ requestStatus[i] = "rejected" => Cardinality(approvers[i]) + more < threshold[i]
    BY Zenon DEF DecisionSound
<1> DEFINE a == Cardinality(approvers[i])
           r == Cardinality(rejecters[i])
<1>1. /\ a \in Nat /\ r \in Nat /\ threshold[i] \in Nat /\ totalSigners[i] \in Nat
      /\ TallyOf(requestStatus[i], threshold[i], totalSigners[i], a, r)
      /\ more \in 0..(totalSigners[i] - (a + r))
    BY Counts
<1> HIDE DEF a, r
<1>2. /\ requestStatus[i] = "approved" => a + more >= threshold[i]
      /\ requestStatus[i] = "rejected" => a + more < threshold[i]
    BY <1>1 DEF TallyOf
<1> QED BY <1>2 DEF a, r

-----------------------------------------------------------------------------
(***************************************************************************)
(* The library discharges what the lemmas assume of finite sets, and the   *)
(* theorems on votes and owners follow.                                    *)
(***************************************************************************)
INSTANCE FiniteSetTheorems

LEMMA FiniteSetFactsHold == FiniteSetFacts
<1>1. EmptyFact /\ CountFact /\ SingletonFact
    BY FS_EmptySet, FS_CardinalityType, FS_Singleton, Zenon DEF EmptyFact, CountFact, SingletonFact
<1>2. SubsetFact
    BY FS_Subset, Zenon DEF SubsetFact
<1>3. AddFact /\ RemoveFact
    BY FS_AddElement, FS_RemoveElement DEF AddFact, RemoveFact
<1>4. ProductFact
    BY FS_Product, Zenon DEF ProductFact
<1> QED BY <1>1, <1>2, <1>3, <1>4, Zenon DEF FiniteSetFacts

\* Types and tallies are invariant: the basis of the two theorems below.
THEOREM SlashingInvariant == SlashingSpec => []SlashingInv
<1>1. SlashingInit => SlashingInv
    BY SlashingInitInv, FiniteSetFactsHold
<1>2. SlashingInv /\ [SlashingNext]_slashingVars => SlashingInv'
    BY SlashingStepInv, FiniteSetFactsHold
<1> QED BY <1>1, <1>2, PTL DEF SlashingSpec

(***************************************************************************)
(* Voting always comes to a decision (submitVote, computeStatus): no       *)
(* request is pending with all its votes cast, and none collects more      *)
(* votes than it has signers.                                              *)
(***************************************************************************)
THEOREM VotesAlwaysDecide == SlashingSpec => []VotesDecide
<1>1. SlashingInv => VotesDecide
    BY TalliesDecide, FiniteSetFactsHold
<1> QED BY <1>1, SlashingInvariant, PTL

(***************************************************************************)
(* A decision is the one the full vote would have given, whatever the      *)
(* remaining signers would have voted (computeStatus).                     *)
(***************************************************************************)
THEOREM DecisionsAreSound == SlashingSpec => []DecisionSound
<1>1. SlashingInv => DecisionSound
    BY TalliesAreSound, FiniteSetFactsHold, Zenon
<1> QED BY <1>1, SlashingInvariant, PTL

LEMMA MemberInvStep == MemberInv /\ [MemberNext]_memberVars => MemberInv'
  BY CallsKeepInv, CountKeepsOwners, FiniteSetFactsHold, Zenon DEF MemberInv

(***************************************************************************)
(* An organisation of any size keeps an active owner, however the calls of *)
(* its admins interleave, until two demotions or deletions have            *)
(* overlapped.                                                             *)
(***************************************************************************)
THEOREM OwnersRemain == MemberSpec => []OwnerRemains
<1>1. MemberInv => OwnerRemains
  BY DEF MemberInv, OwnersGuarded, OwnerRemains
<1> QED
  BY <1>1, MemberInvInit, MemberInvStep, PTL DEF MemberSpec

\* The unique index keeps every user at one active membership.
THEOREM MembershipsAreUnique == MemberSpec => []OneActiveMembership
<1>1. MemberInv => OneActiveMembership
  BY Zenon DEF MemberInv
<1> QED
  BY <1>1, MemberInvInit, MemberInvStep, PTL DEF MemberSpec
=============================================================================
