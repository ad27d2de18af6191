----------------------------- MODULE BondEvents -----------------------------
(***************************************************************************)
(* subscribeBondCreationEvents() of src/listeners/horizonBondEvents.ts:    *)
(* one Horizon stream of create_bond operations for one address, numbered  *)
(* by their paging tokens.  onmessage is async and the stream does not     *)
(* wait for it, so several handlers may be in flight; the stream may be    *)
(* reopened after an error and the process may crash.                      *)
(***************************************************************************)
EXTENDS Naturals

CONSTANTS
    MaxEvent,       \* operations on the stream
    Handler,        \* handlers that can be in flight at once
    MaxBondFaults   \* bound on failed transactions, reconnects and crashes

ASSUME BondBounds == MaxEvent \in Nat /\ MaxBondFaults \in Nat

VARIABLES
    malformed,      \* operations that fail bondOperationSchema
    position,       \* the last operation the stream has delivered
    cursor,         \* the in-memory cursor a reopened stream begins after
    savedCursor,    \* the row of horizon_cursors
    ledger,         \* horizon_events: operations whose state was committed
    quarantined,    \* operations routed to the DLQ
    handling,       \* handling[h]: where the handler is, and its operation
    handlersOverlap,\* some two handlers have been in flight at once
    bondCrashes, bondFaults

bondVars == <<malformed, position, cursor, savedCursor, ledger, quarantined,
              handling, handlersOverlap, bondCrashes, bondFaults>>

BondEvent == 1..MaxEvent
Free == [at |-> "free", event |-> 0]

BondInit ==
    /\ malformed \in SUBSET BondEvent
    /\ position = 0 /\ cursor = 0 /\ savedCursor = 0
    /\ ledger = {} /\ quarantined = {}
    /\ handling = [h \in Handler |-> Free]
    /\ handlersOverlap = FALSE /\ bondCrashes = 0 /\ bondFaults = 0

inFlight == {handling[h].event : h \in {g \in Handler : handling[g].at # "free"}}

\* The stream delivers its next operation.
onmessage(h) ==
    /\ handling[h] = Free /\ position < MaxEvent
    /\ position' = position + 1
    /\ handling' = [handling EXCEPT ![h] = [at |-> "validate", event |-> position + 1]]
    /\ handlersOverlap' = (handlersOverlap \/ inFlight # {})
    /\ UNCHANGED <<malformed, cursor, savedCursor, ledger, quarantined, bondCrashes, bondFaults>>

\* validateAndRoute(): a malformed operation goes to the DLQ and the handler
\* returns, without moving the cursor.
validateAndRoute(h) ==
    /\ handling[h].at = "validate"
    /\ IF handling[h].event \in malformed
       THEN /\ quarantined' = quarantined \cup {handling[h].event}
            /\ handling' = [handling EXCEPT ![h] = Free]
       ELSE /\ handling' = [handling EXCEPT ![h].at = "begin"]
            /\ UNCHANGED quarantined
    /\ UNCHANGED <<malformed, position, cursor, savedCursor, ledger, handlersOverlap, bondCrashes, bondFaults>>

\* The transaction: identity and bond, the ledger record, the checkpoint.
committed(e) ==
    ledger' = ledger \cup {e} /\ savedCursor' = e

commitEvent(h) ==
    /\ handling[h].at = "begin"
    /\ committed(handling[h].event)
    /\ handling' = [handling EXCEPT ![h].at = "committed"]
    /\ UNCHANGED <<malformed, position, cursor, quarantined, handlersOverlap, bondCrashes, bondFaults>>

\* A statement or the COMMIT fails; in the latter case it may have taken effect.
transactionFails(h) ==
    /\ handling[h].at = "begin" /\ bondFaults < MaxBondFaults
    /\ committed(handling[h].event) \/ UNCHANGED <<ledger, savedCursor>>
    /\ handling' = [handling EXCEPT ![h].at = "route"]
    /\ bondFaults' = bondFaults + 1
    /\ UNCHANGED <<malformed, position, cursor, quarantined, handlersOverlap, bondCrashes>>

\* The handler resumes after its COMMIT; if onEvent() throws, the operation is
\* routed to the DLQ as well.
advanceCursor(h) ==
    /\ handling[h].at = "committed"
    /\ cursor' = handling[h].event
    /\ \/ handling' = [handling EXCEPT ![h] = Free]
       \/ handling' = [handling EXCEPT ![h].at = "route"]
    /\ UNCHANGED <<malformed, position, savedCursor, ledger, quarantined, handlersOverlap, bondCrashes, bondFaults>>

\* Mutant: an operation that could not be processed is only logged.
logOnly(e) == UNCHANGED quarantined

\* dlqRouter.route() with PROCESSING_ERROR.
routeFailed(e) == quarantined' = quarantined \cup {e}

catchError(h) ==
    /\ handling[h].at = "route"
    /\ routeFailed(handling[h].event)
    /\ handling' = [handling EXCEPT ![h] = Free]
    /\ UNCHANGED <<malformed, position, cursor, savedCursor, ledger, handlersOverlap, bondCrashes, bondFaults>>

\* onerror: the stream is reopened after the in-memory cursor, while handlers
\* of the old one may be in flight.
onerror ==
    /\ bondFaults < MaxBondFaults /\ bondFaults' = bondFaults + 1
    /\ position' = cursor
    /\ UNCHANGED <<malformed, cursor, savedCursor, ledger, quarantined, handling, handlersOverlap, bondCrashes>>

\* The process crashes, and initAndStart() resumes from the saved cursor.
initAndStart ==
    /\ bondFaults < MaxBondFaults
    /\ bondFaults' = bondFaults + 1 /\ bondCrashes' = bondCrashes + 1
    /\ cursor' = savedCursor /\ position' = savedCursor
    /\ handling' = [h \in Handler |-> Free]
    /\ UNCHANGED <<malformed, savedCursor, ledger, quarantined, handlersOverlap>>

BondNext ==
    \/ onerror \/ initAndStart
    \/ \E h \in Handler :
          \/ onmessage(h) \/ validateAndRoute(h) \/ commitEvent(h) \/ transactionFails(h)
          \/ advanceCursor(h) \/ catchError(h)

BondSpec == BondInit /\ [][BondNext]_bondVars

(***************************************************************************)
(* "if a process crashes before COMMIT, the next owner replays the event   *)
(* from the previous cursor" (horizonBondEvents.ts:101): an operation at   *)
(* or before the saved cursor is recorded, in the DLQ or in flight, if no  *)
(* crash has happened or no two handlers have been in flight at once.      *)
(* With both, the checkpoint of a later operation may have passed one that *)
(* the crash undid.                                                        *)
(***************************************************************************)
EventsAccountedFor ==
    bondCrashes = 0 \/ ~handlersOverlap =>
        \A e \in BondEvent : e <= savedCursor => e \in ledger \cup quarantined \cup inFlight

=============================================================================
