------------------------------ MODULE Services ------------------------------
(***************************************************************************)
(* Components that share no state and never call each other, side by side: *)
(* the outbox job, slash requests, disputes, multi-signature proposals,    *)
(* members, notifications, bond events, the circuit breaker, the chain of *)
(* audit logs and the cache.                                               *)
(* A behaviour of the whole is an interleaving of independent behaviours   *)
(* of the parts, and a property of one part holds of it if it holds while  *)
(* the other parts stand still.  focus is the part that moves.             *)
(***************************************************************************)
EXTENDS OutboxJob, SlashingVotes, Disputes, Multisig,
        Members, Notifications, BondEvents, CircuitBreaker, AuditChain, Cache

VARIABLE focus

governanceVars == <<slashingVars, disputeVars, multisigVars, memberVars>>
connectionVars == <<jobVars, notificationVars, bondVars, breakerVars, auditVars, cacheVars>>

vars == <<governanceVars, connectionVars, focus>>

Init ==
    /\ SlashingInit /\ DisputeInit /\ MultisigInit /\ MemberInit
    /\ JobInit /\ NotificationInit /\ BondInit /\ BreakerInit /\ AuditInit /\ CacheInit
    /\ focus \in {"slashing", "disputes", "multisig", "members", "job", "notifications",
                  "bonds", "breaker", "audit", "cache"}
    /\ focus # "bonds" => malformed = {}

\* The steps of a group's parts, each with the rest of the group unchanged.
GovernanceStep ==
    \/ focus = "slashing" /\ SlashingNext /\ UNCHANGED <<disputeVars, multisigVars, memberVars>>
    \/ focus = "disputes" /\ DisputeNext /\ UNCHANGED <<slashingVars, multisigVars, memberVars>>
    \/ focus = "multisig" /\ MultisigNext /\ UNCHANGED <<slashingVars, disputeVars, memberVars>>
    \/ focus = "members" /\ MemberNext /\ UNCHANGED <<slashingVars, disputeVars, multisigVars>>

ConnectionStep ==
    \/ focus = "job" /\ JobNext /\ UNCHANGED <<notificationVars, bondVars, breakerVars, auditVars, cacheVars>>
    \/ focus = "notifications" /\ NotificationNext /\ UNCHANGED <<jobVars, bondVars, breakerVars, auditVars, cacheVars>>
    \/ focus = "bonds" /\ BondNext /\ UNCHANGED <<jobVars, notificationVars, breakerVars, auditVars, cacheVars>>
    \/ focus = "breaker" /\ BreakerNext /\ UNCHANGED <<jobVars, notificationVars, bondVars, auditVars, cacheVars>>
    \/ focus = "audit" /\ AuditNext /\ UNCHANGED <<jobVars, notificationVars, bondVars, breakerVars, cacheVars>>
    \/ focus = "cache" /\ CacheNext /\ UNCHANGED <<jobVars, notificationVars, bondVars, breakerVars, auditVars>>

Next ==
    \/ GovernanceStep /\ UNCHANGED <<connectionVars, focus>>
    \/ ConnectionStep /\ UNCHANGED <<governanceVars, focus>>

Spec == Init /\ [][Next]_vars
=============================================================================
