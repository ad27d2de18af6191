------------------------------- MODULE Wallets -------------------------------
(***************************************************************************)
(* Concurrent credits and debits of one wallet                             *)
(* (src/db/repositories/walletsRepository.ts), each a REPEATABLE READ      *)
(* transaction of TransactionManager.withTransaction                       *)
(* (src/db/transaction.ts) that locks the row, checks, updates it and adds *)
(* a ledger entry.  Balances are whole units below the bound that the      *)
(* NUMERIC(36, 18) column stands for.                                      *)
(***************************************************************************)
EXTENDS Integers, Sequences, FiniteSets

CONSTANTS
    Change,           \* calls of credit() and debit()
    NoChange,
    MaxBalance,       \* the largest balance that the column holds
    MaxRetries,       \* maxRetries of withTransaction
    MaxWalletFaults   \* bound on failed transactions and lost answers together

ASSUME WalletBounds ==
    /\ NoChange \notin Change
    /\ MaxBalance \in Nat /\ MaxRetries \in Nat /\ MaxWalletFaults \in Nat

VARIABLES
    wallet,        \* the row: whether it is there, its balance, its version
    rowLock,       \* the transaction that locks the row
    change,        \* change[c]: the call and where it is
    entries,       \* the wallet_transactions of the row
    walletFaults

walletVars == <<wallet, rowLock, change, entries, walletFaults>>

Amount == 1 .. MaxBalance
Ended == {"done", "refused", "constraint", "conflict", "lock_timeout", "failed"}

Calls == [at : {"new", "open", "update"} \cup Ended, by : {-1, 0, 1}, amount : {0} \cup Amount,
          snapshot : Nat, balance : Nat, attempts : 0 .. MaxRetries]

Entries == [change : Change, previous : Int, new : Int]

\* The wallet has its types.
WalletTypeOK ==
    /\ wallet \in [row : {"none", "here", "deleted"}, balance : 0 .. MaxBalance, version : Nat]
    /\ rowLock \in Change \cup {NoChange}
    /\ change \in [Change -> Calls]
    /\ entries \in Seq(Entries)
    /\ walletFaults \in 0 .. MaxWalletFaults

WalletInit ==
    /\ wallet = [row |-> "none", balance |-> 0, version |-> 0]
    /\ rowLock = NoChange
    /\ change = [c \in Change |-> [at |-> "new", by |-> 0, amount |-> 0, snapshot |-> 0,
                                   balance |-> 0, attempts |-> 0]]
    /\ entries = <<>> /\ walletFaults = 0

\* create(): the row begins with its initial balance.
createWallet ==
    /\ wallet.row = "none"
    /\ \E initial \in 0 .. MaxBalance :
          wallet' = [row |-> "here", balance |-> initial, version |-> 1]
    /\ UNCHANGED <<rowLock, change, entries, walletFaults>>

\* BEGIN, and the snapshot of the first statement.
begin(c, by, amount) ==
    /\ change[c].at = "new"
    /\ change[c].by # 0 => by = change[c].by /\ amount = change[c].amount
    /\ change' = [change EXCEPT ![c].at = "open", ![c].by = by, ![c].amount = amount,
                                ![c].snapshot = IF wallet.row = "here" THEN wallet.version ELSE 0]
    /\ UNCHANGED <<wallet, rowLock, entries, walletFaults>>

end(c, outcome) ==
    /\ change' = [change EXCEPT ![c].at = outcome]
    /\ rowLock' = IF rowLock = c THEN NoChange ELSE rowLock

\* The checks between the lock and the update.
accepted(by, amount, balance) ==
    IF by = 1 THEN balance + amount <= MaxBalance ELSE amount <= balance

\* Mutant: SELECT without FOR UPDATE, at READ COMMITTED.
selectRow(c) ==
    /\ change[c].at = "open" /\ wallet.row = "here"
    /\ change' = [change EXCEPT ![c].at = "update", ![c].balance = wallet.balance]
    /\ UNCHANGED <<wallet, rowLock, entries, walletFaults>>

\* SELECT ... FOR UPDATE: no row in the snapshot is "not found"; otherwise
\* it is answered when no other transaction holds the row, with error 40001,
\* which is not retried, if the row changed after the snapshot.
lockRow(c) ==
    /\ change[c].at = "open"
    /\ IF change[c].snapshot = 0 THEN end(c, "refused")
       ELSE /\ rowLock = NoChange
            /\ IF wallet.row = "deleted" \/ wallet.version # change[c].snapshot THEN end(c, "conflict")
               ELSE IF accepted(change[c].by, change[c].amount, wallet.balance)
               THEN /\ change' = [change EXCEPT ![c].at = "update", ![c].balance = wallet.balance]
                    /\ rowLock' = c
               ELSE end(c, "refused")
    /\ UNCHANGED <<wallet, entries, walletFaults>>

\* Error 55P03 while another transaction holds the row: a new transaction,
\* or LockTimeoutError.
lockTimesOut(c) ==
    /\ change[c].at = "open" /\ change[c].snapshot # 0 /\ rowLock \notin {c, NoChange}
    /\ IF change[c].attempts < MaxRetries
       THEN change' = [change EXCEPT ![c].at = "new", ![c].attempts = @ + 1]
       ELSE change' = [change EXCEPT ![c].at = "lock_timeout"]
    /\ UNCHANGED <<wallet, rowLock, entries, walletFaults>>

\* UPDATE and the ledger entry, as COMMIT makes them seen.
applied(c) ==
    LET new == wallet.balance + change[c].by * change[c].amount
    IN  /\ wallet' = [wallet EXCEPT !.balance = new, !.version = @ + 1]
        /\ entries' = Append(entries, [change |-> c, previous |-> change[c].balance, new |-> new])

\* The rest of the transaction; the column and its CHECK refuse a balance
\* that is out of range.
commit(c) ==
    /\ change[c].at = "update"
    /\ IF wallet.balance + change[c].by * change[c].amount \in 0 .. MaxBalance
       THEN applied(c) /\ end(c, "done")
       ELSE end(c, "constraint") /\ UNCHANGED <<wallet, entries>>
    /\ UNCHANGED walletFaults

\* The catch block, for any error but 55P03: the error is thrown.
thrown(c) == end(c, "failed")

\* A query or the time budget fails and the transaction is rolled back; or
\* COMMIT took place and its answer is lost.
changeFails(c) ==
    /\ change[c].at \in {"open", "update"} /\ walletFaults < MaxWalletFaults
    /\ walletFaults' = walletFaults + 1
    /\ thrown(c)
    /\ \/ UNCHANGED <<wallet, entries>>
       \/ change[c].at = "update" /\ applied(c)

\* delete(), which waits for the row: the ledger goes with it
\* (ON DELETE CASCADE).
deleteWallet ==
    /\ wallet.row = "here" /\ rowLock = NoChange
    /\ wallet' = [wallet EXCEPT !.row = "deleted"]
    /\ entries' = <<>>
    /\ UNCHANGED <<rowLock, change, walletFaults>>

WalletNext ==
    \/ createWallet \/ deleteWallet
    \/ \E c \in Change :
          \/ \E by \in {-1, 1}, amount \in Amount : begin(c, by, amount)
          \/ lockRow(c) \/ lockTimesOut(c) \/ commit(c) \/ changeFails(c)

WalletSpec == WalletInit /\ [][WalletNext]_walletVars

(***************************************************************************)
(* No update is lost: each ledger entry of a wallet begins with the        *)
(* balance the one before it ended with, and the last one ends with the    *)
(* balance of the row (the guarantees of walletsRepository.ts:370).        *)
(***************************************************************************)
LedgerChains ==
    wallet.row = "here" /\ entries # <<>> =>
       /\ \A i \in 1 .. Len(entries) - 1 : entries[i].new = entries[i + 1].previous
       /\ entries[Len(entries)].new = wallet.balance

\* No update reaches the constraints of the column: the checks made under the
\* row lock still hold when the UPDATE runs (walletsRepository.ts:317, :426).
ChecksHoldAtUpdate == \A c \in Change : change[c].at # "constraint"

==============================================================================
