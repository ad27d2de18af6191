--------------------------- MODULE CircuitBreaker ---------------------------
(***************************************************************************)
(* The circuit breaker of one Soroban host (src/clients/circuitBreaker.ts) *)
(* and the calls that execute() passes through it.  A call is awaited, so  *)
(* it may end long after the breaker has left the state it began in.       *)
(***************************************************************************)
EXTENDS Naturals

CONSTANTS
    RpcCall,           \* calls that can be in flight at once
    FailureThreshold   \* failureThreshold

ASSUME ThresholdPositive == FailureThreshold \in Nat \ {0}

VARIABLES
    breakerState,   \* "CLOSED", "OPEN" or "HALF_OPEN"
    failureCount,
    activeProbes,
    halfOpenDue,    \* halfOpenAfterMs have passed since openedAt
    rpc             \* rpc[c]: "idle", "flying", or "probe" while the breaker has
                    \* been HALF_OPEN ever since the call began

breakerVars == <<breakerState, failureCount, activeProbes, halfOpenDue, rpc>>

\* Counters and states have their types; the count stays below the threshold
\* while the breaker is closed.
BreakerTypeOK ==
    /\ breakerState \in {"CLOSED", "OPEN", "HALF_OPEN"}
    /\ failureCount \in 0..FailureThreshold /\ activeProbes \in 0..1
    /\ breakerState = "CLOSED" => failureCount < FailureThreshold
    /\ halfOpenDue \in BOOLEAN /\ rpc \in [RpcCall -> {"idle", "flying", "probe"}]

BreakerInit ==
    /\ breakerState = "CLOSED" /\ failureCount = 0 /\ activeProbes = 0
    /\ halfOpenDue = FALSE /\ rpc = [c \in RpcCall |-> "idle"]

\* A call that goes on past a change of state is no longer its probe.
flyOn(calls) == [c \in RpcCall |-> IF calls[c] = "probe" THEN "flying" ELSE calls[c]]

\* transitionTo()
transitionTo(newState, calls) ==
    /\ breakerState' = newState /\ activeProbes' = 0
    /\ failureCount' = IF newState = "CLOSED" THEN 0 ELSE failureCount
    /\ halfOpenDue' = IF newState = "OPEN" THEN FALSE ELSE halfOpenDue
    /\ rpc' = flyOn(calls)

timePasses ==
    /\ breakerState = "OPEN" /\ ~halfOpenDue /\ halfOpenDue' = TRUE
    /\ UNCHANGED <<breakerState, failureCount, activeProbes, rpc>>

\* checkTimers() by getState().
getState ==
    /\ breakerState = "OPEN" /\ halfOpenDue
    /\ transitionTo("HALF_OPEN", rpc)

\* Mutant: a probe that is let through is not counted.
executeUncounted(c) ==
    LET halfOpen == breakerState = "HALF_OPEN" \/ (breakerState = "OPEN" /\ halfOpenDue)
    IN  /\ rpc[c] = "idle" /\ (breakerState = "CLOSED" \/ halfOpen)
        /\ breakerState' = IF halfOpen THEN "HALF_OPEN" ELSE "CLOSED"
        /\ rpc' = [rpc EXCEPT ![c] = IF halfOpen THEN "probe" ELSE "flying"]
        /\ UNCHANGED <<activeProbes, failureCount, halfOpenDue>>

\* execute(), up to its await: checkTimers(), fail fast, or let the call pass.
execute(c) ==
    LET opens == breakerState = "OPEN" /\ halfOpenDue
        halfOpen == breakerState = "HALF_OPEN" \/ opens
        probes == IF opens THEN 0 ELSE activeProbes
    IN  /\ rpc[c] = "idle"
        /\ breakerState = "CLOSED" \/ (halfOpen /\ probes < 1)
        /\ breakerState' = IF halfOpen THEN "HALF_OPEN" ELSE "CLOSED"
        /\ activeProbes' = IF halfOpen THEN probes + 1 ELSE activeProbes
        /\ rpc' = [rpc EXCEPT ![c] = IF halfOpen THEN "probe" ELSE "flying"]
        /\ UNCHANGED <<failureCount, halfOpenDue>>

land(c) == [rpc EXCEPT ![c] = "idle"]

\* fn() resolves.
succeed(c) ==
    /\ rpc[c] # "idle"
    /\ \/ breakerState = "HALF_OPEN" /\ transitionTo("CLOSED", land(c))
       \/ /\ breakerState # "HALF_OPEN" /\ rpc' = land(c)
          /\ failureCount' = IF breakerState = "CLOSED" THEN 0 ELSE failureCount
          /\ UNCHANGED <<breakerState, activeProbes, halfOpenDue>>

\* recordFailure()
recordFailure(c) ==
    \/ /\ breakerState = "CLOSED" /\ failureCount + 1 < FailureThreshold
       /\ failureCount' = failureCount + 1 /\ rpc' = land(c)
       /\ UNCHANGED <<breakerState, activeProbes, halfOpenDue>>
    \/ /\ breakerState = "CLOSED" /\ failureCount + 1 >= FailureThreshold
       /\ breakerState' = "OPEN" /\ activeProbes' = 0 /\ halfOpenDue' = FALSE
       /\ failureCount' = failureCount + 1 /\ rpc' = flyOn(land(c))
    \/ breakerState = "HALF_OPEN" /\ transitionTo("OPEN", land(c))
    \/ /\ breakerState = "OPEN" /\ rpc' = land(c)
       /\ UNCHANGED <<breakerState, failureCount, activeProbes, halfOpenDue>>

\* fn() rejects.
fail(c) == rpc[c] # "idle" /\ recordFailure(c)

BreakerNext ==
    \/ timePasses \/ getState
    \/ \E c \in RpcCall : execute(c) \/ succeed(c) \/ fail(c)

BreakerSpec == BreakerInit /\ [][BreakerNext]_breakerVars

(***************************************************************************)
(* "HALF_OPEN → allow exactly one concurrent probe; others fail fast"      *)
(* (circuitBreaker.ts:165): of the calls begun since the breaker became    *)
(* half open one at most is in flight.  Calls begun earlier may be, and    *)
(* their outcome decides for the probe.                                    *)
(***************************************************************************)
OneProbe == \A c, d \in RpcCall : rpc[c] = "probe" /\ rpc[d] = "probe" => c = d

(***************************************************************************)
(* A half-open breaker that turns calls away has its probe in flight: the  *)
(* slot is never left taken by a call that has ended, which would reject   *)
(* every call for good, as no timer leaves HALF_OPEN (circuitBreaker.ts:   *)
(* 178).                                                                   *)
(***************************************************************************)
ProbeSlotHeld ==
    breakerState = "HALF_OPEN" /\ activeProbes >= 1 => \E c \in RpcCall : rpc[c] = "probe"

(***************************************************************************)
(* Once open, the breaker lets no call begin before halfOpenAfterMs have   *)
(* passed, and closes only from HALF_OPEN, also when calls that began      *)
(* before it opened end late.                                              *)
(***************************************************************************)
OpenHolds ==
    [][breakerState = "OPEN" =>
          /\ breakerState' # "CLOSED"
          /\ ~halfOpenDue => \A c \in RpcCall : rpc[c] = "idle" => rpc'[c] = "idle"]_breakerVars
=============================================================================
