------------------------------ MODULE Multisig ------------------------------
(***************************************************************************)
(* One multi-signature proposal, src/services/governance/multisig.ts, kept *)
(* by RedisProposalStorage (redisStorage.ts).  Every method reads the      *)
(* whole record, changes its copy and writes the whole record back, with   *)
(* an await between the read and the write, so calls interleave.           *)
(*                                                                         *)
(* A call goes through "get" (the read), "decide" (what the code does with *)
(* its copy up to the next write) and "set" or "expire" (the write).       *)
(***************************************************************************)
EXTENDS Naturals, FiniteSets

CONSTANTS
    Signer,   \* proposal.signers
    Person,   \* who may call; a superset of Signer
    Call,     \* calls that can be in progress at once
    MaxCalls, \* bound on the number of calls
    NoOne     \* the caller of a method that takes no signer or voter

VARIABLES
    proposal,   \* the record in Redis, status "none" before createProposal
    late,       \* new Date() > expiresAt
    call,       \* call[c]: method, argument, place and copy of the record
    begun       \* how many calls have begun

multisigVars == <<proposal, late, call, begun>>

Status == {"none", "pending", "approved", "rejected", "executed", "expired"}
Method == {"getProposal", "submitSignature", "addSlashingVote",
           "executeProposal", "rejectProposal"}
Record == [status: Status, required: Nat, signatures: SUBSET Person,
           slashingVotes: SUBSET Person]
NoProposal == [status |-> "none", required |-> 0, signatures |-> {}, slashingVotes |-> {}]
NoCall == [method |-> "none", who |-> NoOne, at |-> "idle", copy |-> NoProposal]

\* Records keep their shape, and a call is at one of its places.
MultisigTypeOK ==
    /\ proposal \in Record
    /\ late \in BOOLEAN
    /\ call \in [Call -> [method: Method \cup {"none"}, who: Person \cup {NoOne},
                          at: {"idle", "get", "decide", "set", "expire"}, copy: Record]]
    /\ begun \in Nat

MultisigInit ==
    /\ proposal = NoProposal
    /\ late = FALSE
    /\ call = [c \in Call |-> NoCall]
    /\ begun = 0

createProposal(r) ==
    /\ proposal.status = "none"
    /\ Cardinality(Signer) >= 2
    /\ r >= 1 /\ r <= Cardinality(Signer)
    /\ proposal' = [NoProposal EXCEPT !.status = "pending", !.required = r]
    /\ UNCHANGED <<late, call, begun>>

DeadlinePassed ==
    /\ proposal.status # "none" /\ ~late
    /\ late' = TRUE
    /\ UNCHANGED <<proposal, call, begun>>

\* A call of method m by p that has not read the record yet.
Started(m, p) == [method |-> m, who |-> p, at |-> "get", copy |-> NoProposal]

Begin(c, m, p) ==
    /\ proposal.status # "none"
    /\ call[c].at = "idle"
    /\ begun < MaxCalls /\ begun' = begun + 1
    /\ (p = NoOne) <=> (m \notin {"submitSignature", "addSlashingVote"})
    /\ call' = [call EXCEPT ![c] = Started(m, p)]
    /\ UNCHANGED <<proposal, late>>

getProposalOrThrow(c) ==
    /\ call[c].at = "get"
    /\ call' = [call EXCEPT ![c].at = "decide", ![c].copy = proposal]
    /\ UNCHANGED <<proposal, late, begun>>

\* The call writes record p next, at place at.
Write(c, at, p) == call' = [call EXCEPT ![c].at = at, ![c].copy = p]

\* The call returns or throws.
End(c) == call' = [call EXCEPT ![c] = NoCall]

\* Reject, execute and the second half of a vote do not look at the clock.
MustExpire(c) ==
    /\ call[c].method \in {"getProposal", "submitSignature", "addSlashingVote"}
    /\ call[c].copy.status = "pending"
    /\ late

\* checkExpiration writes the expired record; the method then goes on.
checkExpiration(c) ==
    /\ \/ /\ call[c].at = "decide" /\ MustExpire(c)
          /\ Write(c, "expire", [call[c].copy EXCEPT !.status = "expired"])
          /\ UNCHANGED proposal
       \/ /\ call[c].at = "expire"
          /\ proposal' = call[c].copy
          /\ call' = [call EXCEPT ![c].at = "decide"]
    /\ UNCHANGED <<late, begun>>

Deciding(c, m) ==
    /\ call[c].at = "decide" /\ call[c].method = m
    /\ ~MustExpire(c)
    /\ UNCHANGED <<proposal, late, begun>>

getProposal(c) ==
    /\ Deciding(c, "getProposal")
    /\ End(c)

\* Mutant: the last signature but one already approves.
signEarly(p, s) ==
    LET signed == [p EXCEPT !.signatures = @ \cup {s}]
    IN  IF Cardinality(p.signatures) + 2 >= p.required
        THEN [signed EXCEPT !.status = "approved"] ELSE signed

\* The record p with the signature of s.
sign(p, s) ==
    LET signed == [p EXCEPT !.signatures = @ \cup {s}]
    IN  IF Cardinality(signed.signatures) >= p.required
        THEN [signed EXCEPT !.status = "approved"] ELSE signed

submitSignature(c) ==
    LET p == call[c].copy
        s == call[c].who
    IN  /\ Deciding(c, "submitSignature")
        /\ IF p.status = "pending" /\ s \in Signer /\ s \notin p.signatures
           THEN Write(c, "set", sign(p, s))
           ELSE End(c)

addSlashingVote(c) ==
    LET p == call[c].copy
        v == call[c].who
    IN  /\ Deciding(c, "addSlashingVote")
        /\ IF v \notin p.slashingVotes
           THEN Write(c, "set", [p EXCEPT !.slashingVotes = @ \cup {v}])
           ELSE End(c)

\* The status check of executeProposal.
canExecute(p) == p.status = "approved"

executeProposal(c) ==
    /\ Deciding(c, "executeProposal")
    /\ IF canExecute(call[c].copy)
       THEN Write(c, "set", [call[c].copy EXCEPT !.status = "executed"])
       ELSE End(c)

\* The status check of rejectProposal.
canReject(p) == p.status \in {"pending", "approved"}

rejectProposal(c) ==
    /\ Deciding(c, "rejectProposal")
    /\ IF canReject(call[c].copy)
       THEN Write(c, "set", [call[c].copy EXCEPT !.status = "rejected"])
       ELSE End(c)

\* slashingVotes.size >= Math.ceil(signers.length / 2)
slashThreshold(p) == Cardinality(p.slashingVotes) >= (Cardinality(Signer) + 1) \div 2

\* The last write of a method; a vote that reaches the threshold goes on to
\* call rejectProposal.
updateProposal(c) ==
    /\ call[c].at = "set"
    /\ proposal' = call[c].copy
    /\ IF call[c].method = "addSlashingVote" /\ slashThreshold(call[c].copy)
       THEN call' = [call EXCEPT ![c] = Started("rejectProposal", NoOne)]
       ELSE End(c)
    /\ UNCHANGED <<late, begun>>

MultisigNext ==
    \/ \E r \in 1..Cardinality(Signer) : createProposal(r)
    \/ DeadlinePassed
    \/ \E c \in Call :
          \/ \E m \in Method, p \in Person \cup {NoOne} : Begin(c, m, p)
          \/ getProposalOrThrow(c)
          \/ checkExpiration(c)
          \/ getProposal(c)
          \/ submitSignature(c)
          \/ addSlashingVote(c)
          \/ executeProposal(c)
          \/ rejectProposal(c)
          \/ updateProposal(c)

MultisigSpec == MultisigInit /\ [][MultisigNext]_multisigVars

(***************************************************************************)
(* However calls interleave and overwrite each other's records, a proposal *)
(* that is approved or executed carries the required number of signatures, *)
(* all of them by its signers: the whole record is written at once, so a   *)
(* stale write loses signatures together with the status they earned.      *)
(***************************************************************************)
QuorumBehindApproval ==
    proposal.status \in {"approved", "executed"} =>
        /\ Cardinality(proposal.signatures) >= proposal.required
        /\ proposal.signatures \subseteq Signer

==============================================================================
