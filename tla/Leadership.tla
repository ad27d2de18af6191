----------------------------- MODULE Leadership -----------------------------
(***************************************************************************)
(* What the lease managers of all replicas promise together.  The advisory *)
(* lock has one owner at a time and passes from one replica to another     *)
(* only by becoming free.  A replica comes to lead only while it owns the  *)
(* lock, and whoever frees the lock no longer leads from then on.          *)
(***************************************************************************)
CONSTANTS
    Worker,  \* the replicas
    Nobody   \* the lock is free

VARIABLES
    owner,   \* the replica that owns the lock, or Nobody
    leaders  \* the replicas that lead

LeadershipInit == owner = Nobody /\ leaders = {}

Acquire(w) == owner = Nobody /\ owner' = w /\ UNCHANGED leaders

Elect(w) == owner = w /\ leaders' = leaders \cup {w} /\ UNCHANGED owner

Revoke(w) == leaders' = leaders \ {w} /\ UNCHANGED owner

\* An unlock of a replica that has stopped leading, or the end of its session.
Free(w) == owner = w /\ owner' = Nobody /\ leaders' = leaders \ {w}

LeadershipNext == \E w \in Worker : Acquire(w) \/ Elect(w) \/ Revoke(w) \/ Free(w)

LeadershipSpec == LeadershipInit /\ [][LeadershipNext]_<<owner, leaders>>
=============================================================================
