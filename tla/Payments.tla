------------------------------ MODULE Payments ------------------------------
(***************************************************************************)
(* What is paid and what is said of it: the outbox, the settlements and    *)
(* their payouts, the reconciliation of settlements, and wallets.  They    *)
(* share no state, so that focus is the part that moves, and a property of *)
(* a part holds of the whole if it holds while the other parts stand still.*)
(***************************************************************************)
EXTENDS Outbox, Settlements, Reconciler, Wallets

VARIABLE focus

PaymentsInit ==
    /\ Init /\ SettlementInit /\ ReconcilerInit /\ WalletInit
    /\ focus \in {"outbox", "settlements", "reconciler", "wallets"}

OutboxStep ==
    /\ focus = "outbox" /\ Next
    /\ UNCHANGED <<settlementVars, reconcilerVars, walletVars, focus>>

SettlementStep ==
    /\ focus = "settlements" /\ SettlementNext
    /\ UNCHANGED <<vars, reconcilerVars, walletVars, focus>>

ReconcilerStep ==
    /\ focus = "reconciler" /\ ReconcilerNext
    /\ UNCHANGED <<vars, settlementVars, walletVars, focus>>

WalletStep ==
    /\ focus = "wallets" /\ WalletNext
    /\ UNCHANGED <<vars, settlementVars, reconcilerVars, focus>>

PaymentsNext == OutboxStep \/ SettlementStep \/ ReconcilerStep \/ WalletStep

PaymentsSpec ==
    PaymentsInit /\ [][PaymentsNext]_<<vars, settlementVars, reconcilerVars, walletVars, focus>>
=============================================================================
