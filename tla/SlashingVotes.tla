---------------------------- MODULE SlashingVotes ----------------------------
(***************************************************************************)
(* Votes on slash requests, src/services/governance/slashingVotes.ts.      *)
(* The store lives in one process and its functions are synchronous, so a  *)
(* call is one step.  A call that throws or finds no request changes       *)
(* nothing and is not a step.                                              *)
(***************************************************************************)
EXTENDS Naturals, FiniteSets

CONSTANTS
    Id,         \* slash request ids
    Voter,      \* voter ids; submitVote does not check who is a signer
    MaxSigners  \* bound on totalSigners

VARIABLES
    requestStatus, \* requestStatus[i], "none" before the request exists
    threshold,     \* threshold[i]: approve votes required
    totalSigners,  \* totalSigners[i]: eligible signers
    approvers,     \* approvers[i]: voters whose vote is 'approve'
    rejecters      \* rejecters[i]: voters whose vote is 'reject'

slashingVars == <<requestStatus, threshold, totalSigners, approvers, rejecters>>

\* Every request is unborn, open or decided, and its votes are finite sets of voters.
SlashingTypeOK ==
    /\ requestStatus \in [Id -> {"none", "pending", "approved", "rejected"}]
    /\ threshold \in [Id -> Nat]
    /\ totalSigners \in [Id -> Nat]
    /\ approvers \in [Id -> SUBSET Voter]
    /\ rejecters \in [Id -> SUBSET Voter]
    /\ \A i \in Id : IsFiniteSet(approvers[i]) /\ IsFiniteSet(rejecters[i])

SlashingInit ==
    /\ requestStatus = [i \in Id |-> "none"]
    /\ threshold = [i \in Id |-> 0]
    /\ totalSigners = [i \in Id |-> 0]
    /\ approvers = [i \in Id |-> {}]
    /\ rejecters = [i \in Id |-> {}]

createSlashRequest(i, t, n) ==
    /\ requestStatus[i] = "none"
    /\ t >= 1 /\ n >= t
    /\ requestStatus' = [requestStatus EXCEPT ![i] = "pending"]
    /\ threshold' = [threshold EXCEPT ![i] = t]
    /\ totalSigners' = [totalSigners EXCEPT ![i] = n]
    /\ UNCHANGED <<approvers, rejecters>>

\* Mutant: as many rejections as the signers can spare already reject.
computeStatusEager(t, n, approve, reject) ==
    IF approve >= t THEN "approved"
    ELSE IF reject >= n - t THEN "rejected" ELSE "pending"

\* The outcome when t approvals of n signers are needed.
computeStatus(t, n, approve, reject) ==
    IF approve >= t THEN "approved"
    ELSE IF approve + (n - (approve + reject)) < t \/ reject > n - t THEN "rejected"
    ELSE "pending"

submitVote(i, v, choice) ==
    /\ requestStatus[i] = "pending"
    /\ v \notin approvers[i] \cup rejecters[i]
    /\ LET A == IF choice = "approve" THEN approvers[i] \cup {v} ELSE approvers[i]
           R == IF choice = "reject" THEN rejecters[i] \cup {v} ELSE rejecters[i]
       IN  /\ approvers' = [approvers EXCEPT ![i] = A]
           /\ rejecters' = [rejecters EXCEPT ![i] = R]
           /\ requestStatus' = [requestStatus EXCEPT ![i] =
                 computeStatus(threshold[i], totalSigners[i], Cardinality(A), Cardinality(R))]
    /\ UNCHANGED <<threshold, totalSigners>>

SlashingNext ==
    \E i \in Id :
        \/ \E t, n \in (0..MaxSigners) \cap Nat : createSlashRequest(i, t, n)
        \/ \E v \in Voter, choice \in {"approve", "reject"} : submitVote(i, v, choice)

SlashingSpec == SlashingInit /\ [][SlashingNext]_slashingVars

(***************************************************************************)
(* Voting always comes to a decision.  A request that is still pending has *)
(* a signer left to vote, so it is never stuck with all votes cast; and    *)
(* since submitVote refuses a decided request, no request collects more    *)
(* votes than it has signers, although submitVote never asks whether the   *)
(* voter is one of them.                                                   *)
(***************************************************************************)
VotesDecide ==
    \A i \in Id :
        LET votes == Cardinality(approvers[i]) + Cardinality(rejecters[i])
        IN  /\ requestStatus[i] = "pending" => votes < totalSigners[i]
            /\ votes <= totalSigners[i]

(***************************************************************************)
(* A decision is the one the full vote would have given.  However the      *)
(* signers that have not voted would vote, an approved request ends with   *)
(* its threshold of approvals and a rejected one below it.                 *)
(***************************************************************************)
DecisionSound ==
    \A i \in Id :
        LET a == Cardinality(approvers[i])
            r == Cardinality(rejecters[i])
        IN  \A more \in 0..(totalSigners[i] - (a + r)) :
                /\ requestStatus[i] = "approved" => a + more >= threshold[i]
                /\ requestStatus[i] = "rejected" => a + more < threshold[i]
==============================================================================
