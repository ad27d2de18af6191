------------------------------ MODULE Disputes ------------------------------
(***************************************************************************)
(* Disputes, src/services/governance/disputes.ts, with the transition      *)
(* matrix of disputeStateMachine.ts.  The store lives in one process and   *)
(* its functions are synchronous, so a call is one step; a call that       *)
(* throws without having changed anything is not a step.                   *)
(***************************************************************************)
EXTENDS Naturals

CONSTANTS
    DisputeId,  \* dispute ids
    Text,       \* resolution texts and dismissal reasons
    NoText      \* resolution: null

VARIABLES
    disputeStatus, \* disputeStatus[d], "none" before the dispute is filed
    overdue,       \* overdue[d]: isExpired(d), the deadline has passed
    resolution     \* resolution[d]: the recorded text

disputeVars == <<disputeStatus, overdue, resolution>>

DISPUTE_STATES == {"pending", "under_review", "resolved", "dismissed", "expired"}

DisputeInit ==
    /\ disputeStatus = [d \in DisputeId |-> "none"]
    /\ overdue = [d \in DisputeId |-> FALSE]
    /\ resolution = [d \in DisputeId |-> NoText]

\* Mutant: a closed dispute may be closed again.
matrixReopens ==
    {"pending", "under_review", "resolved"} \X {"under_review", "resolved", "dismissed", "expired"}

DISPUTE_MATRIX ==
    {<<"pending", "under_review">>} \cup
    ({"pending", "under_review"} \X {"resolved", "dismissed", "expired"})

tryTransition(from, to) == <<from, to>> \in DISPUTE_MATRIX

\* The deadline is at least an hour away, validateDisputeInput.
submitDispute(d) ==
    /\ disputeStatus[d] = "none"
    /\ disputeStatus' = [disputeStatus EXCEPT ![d] = "pending"]
    /\ UNCHANGED <<overdue, resolution>>

DeadlinePasses(d) ==
    /\ disputeStatus[d] # "none" /\ ~overdue[d]
    /\ overdue' = [overdue EXCEPT ![d] = TRUE]
    /\ UNCHANGED <<disputeStatus, resolution>>

\* Past the deadline the status is overwritten before the call throws,
\* whatever it was.
resolveDispute(d, text) ==
    /\ disputeStatus[d] # "none"
    /\ \/ /\ overdue[d]
          /\ disputeStatus' = [disputeStatus EXCEPT ![d] = "expired"]
          /\ UNCHANGED resolution
       \/ /\ ~overdue[d]
          /\ text # NoText
          /\ tryTransition(disputeStatus[d], "resolved")
          /\ disputeStatus' = [disputeStatus EXCEPT ![d] = "resolved"]
          /\ resolution' = [resolution EXCEPT ![d] = text]
    /\ UNCHANGED overdue

dismissDispute(d, text) ==
    /\ disputeStatus[d] # "none"
    /\ text # NoText
    /\ tryTransition(disputeStatus[d], "dismissed")
    /\ disputeStatus' = [disputeStatus EXCEPT ![d] = "dismissed"]
    /\ resolution' = [resolution EXCEPT ![d] = text]
    /\ UNCHANGED overdue

markUnderReview(d) ==
    /\ disputeStatus[d] # "none"
    /\ tryTransition(disputeStatus[d], "under_review")
    /\ disputeStatus' = [disputeStatus EXCEPT ![d] = "under_review"]
    /\ UNCHANGED <<overdue, resolution>>

DisputeNext ==
    \E d \in DisputeId :
        \/ submitDispute(d)
        \/ DeadlinePasses(d)
        \/ markUnderReview(d)
        \/ \E text \in Text \cup {NoText} :
              resolveDispute(d, text) \/ dismissDispute(d, text)

DisputeSpec == DisputeInit /\ [][DisputeNext]_disputeVars

(***************************************************************************)
(* An outcome once recorded is the outcome for good: the first resolution  *)
(* or dismissal text stays, whatever is called afterwards, resolveDispute  *)
(* past the deadline included.                                             *)
(***************************************************************************)
OutcomeKept ==
    [][\A d \in DisputeId :
          resolution[d] # NoText => resolution'[d] = resolution[d]]_disputeVars
==============================================================================
