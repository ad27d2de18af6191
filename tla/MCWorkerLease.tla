--------------------------- MODULE MCWorkerLease ---------------------------
(***************************************************************************)
(* Two replicas, each with a pool of up to two connections.                *)
(***************************************************************************)
EXTENDS WorkerLease, TLC

CONSTANTS w1, w2, a1, a2, b1, b2

MCPoolOf == [c \in Conn |-> IF c \in {a1, a2} THEN w1 ELSE w2]

\* Swapping the connections of a pool, or the replicas with their pools.
SwapPool(x, y, f) == [f EXCEPT ![x] = f[y], ![y] = f[x]]
Identity == [m \in Worker \cup Conn |-> m]
SwapWorkers == w1 :> w2 @@ w2 :> w1 @@ a1 :> b1 @@ a2 :> b2 @@ b1 :> a1 @@ b2 :> a2
SwapReplicas == {Identity, SwapWorkers}
SwapFirstPool == SwapReplicas \cup {SwapPool(a1, a2, f) : f \in SwapReplicas}
Symmetry == SwapFirstPool \cup {SwapPool(b1, b2, f) : f \in SwapFirstPool}
=============================================================================
