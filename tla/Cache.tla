-------------------------------- MODULE Cache --------------------------------
(***************************************************************************)
(* One key of CacheService (src/cache/redis.ts) in one process: the LRU    *)
(* map in memory (L1), Redis (L2), getOrFetch() with the SingleFlight that *)
(* coalesces fetches, and callers that write the origin and then           *)
(* invalidate.  A command takes effect in Redis and is answered in two     *)
(* steps; a read may time out and be answered later, and a command may     *)
(* fail with or without its effect.  A value is a version of the origin.   *)
(***************************************************************************)
EXTENDS Naturals

CONSTANTS
    Caller,          \* callers of getOrFetch() and of the mutations
    NoCaller,
    MaxVersion,      \* bound on the versions of the origin
    MaxCacheFaults   \* bound on timeouts, failed commands and failed fetches

ASSUME NoCallerApart == NoCaller \notin Caller /\ MaxCacheFaults \in Nat

VARIABLES
    l1, l2,       \* what the key holds in l1Cache and in Redis
    origin,       \* the version of the origin
    lookup,       \* lookup[c]: where its call is, the value it has, and the
                  \* version that was invalidated when its read began
    lateRead,     \* lateRead[c]: a GET of c that timed out and is still out
    setter,       \* setter[c]: the set() that a fetch of c left behind
    flight,       \* the caller that leads the flight of the singleflight key
    sameGeneration, \* operations whose captured generation is l1Generation
    invalidated,  \* the latest version whose delete() has returned
    ranOut,       \* values that ran out in Redis since its last mutation
    excused,      \* a flight, or the set() it left, has met an update, or a failed
                  \* delete has left its value in Redis: reads may be stale
    staleAnswer,  \* before that, some read was answered by a version older than
                  \* the one that was invalidated when it began
    cacheFaults

ghosts == <<invalidated, excused, staleAnswer>>

cacheVars == <<l1, l2, origin, lookup, lateRead, setter, flight, sameGeneration,
               ranOut, ghosts, cacheFaults>>

Missing == 0
IdleCaller == [pc |-> "idle", val |-> Missing, floor |-> 0]
NoCommand == [pc |-> "none", val |-> Missing]

CacheInit ==
    /\ l1 = Missing /\ l2 = Missing /\ origin = 1
    /\ lookup = [c \in Caller |-> IdleCaller]
    /\ lateRead = [c \in Caller |-> NoCommand] /\ setter = [c \in Caller |-> NoCommand]
    /\ flight = NoCaller /\ sameGeneration = {}
    /\ invalidated = 0 /\ ranOut = {} /\ excused = FALSE
    /\ staleAnswer = FALSE /\ cacheFaults = 0

\* this.l1Generation++ and the eviction of the key.
invalidateL1 == l1' = Missing /\ sameGeneration' = {}

\* val is the answer to these callers: to c, and to those that wait for its
\* flight.
answered(c) == {c} \cup {k \in Caller : flight = c /\ lookup[k].pc = "wait"}
respond(callers, val) ==
    /\ lookup' = [k \in Caller |-> IF k \in callers THEN IdleCaller ELSE lookup[k]]
    /\ staleAnswer' = (staleAnswer \/ (~excused /\ \E k \in callers : val < lookup[k].floor))

\* Some update is written and not yet invalidated.
Updating == \E c \in Caller : lookup[c].pc \in {"written", "del", "mutated"} /\ lookup[c].val # Missing

\* get() up to its first await; leads: it is the second look, under the
\* singleflight key.
get(c, leads, floor) ==
    /\ IF l1 # Missing
       THEN /\ lookup' = [lookup EXCEPT ![c] = IdleCaller]
            /\ staleAnswer' = (staleAnswer \/ (~excused /\ l1 < floor))
            /\ UNCHANGED <<flight, excused, sameGeneration>>
       ELSE /\ lookup' = [lookup EXCEPT ![c] = [pc |-> "get", val |-> Missing, floor |-> floor]]
            /\ flight' = IF leads THEN c ELSE flight
            /\ excused' = (excused \/ (leads /\ Updating))
            /\ sameGeneration' = sameGeneration \cup {<<"get", c>>}
            /\ UNCHANGED staleAnswer
    /\ UNCHANGED <<l1, l2, origin, lateRead, setter, ranOut, cacheFaults, invalidated>>

getOrFetch(c) == lookup[c].pc = "idle" /\ get(c, FALSE, IF excused THEN 0 ELSE invalidated)

\* Redis executes the GET, for its caller or for nobody any more.
redisGet(c) ==
    /\ \/ /\ lookup[c].pc = "get"
          /\ lookup' = [lookup EXCEPT ![c].pc = "reply", ![c].val = l2]
          /\ UNCHANGED lateRead
       \/ /\ lateRead[c].pc = "get"
          /\ lateRead' = [lateRead EXCEPT ![c] = [pc |-> "reply", val |-> l2]]
          /\ UNCHANGED lookup
    /\ UNCHANGED <<l1, l2, origin, setter, flight, sameGeneration, ranOut, cacheFaults, ghosts>>

\* Mutant: a reply always fills L1.
filledAlways(captured, val) == IF val # Missing THEN val ELSE l1

\* "if (generation === this.l1Generation)"
filled(captured, val) == IF val # Missing /\ captured \in sameGeneration THEN val ELSE l1

\* What follows a get() that returned null.
afterMiss(c) == IF flight = c THEN "fetch" ELSE "miss"

getReply(c) ==
    LET val == lookup[c].val
    IN  /\ lookup[c].pc = "reply"
        /\ l1' = filled(<<"get", c>>, val)
        /\ IF val # Missing
           THEN /\ respond(answered(c), val)
                /\ flight' = IF flight = c THEN NoCaller ELSE flight
           ELSE lookup' = [lookup EXCEPT ![c].pc = afterMiss(c)] /\ UNCHANGED <<flight, staleAnswer>>
        /\ sameGeneration' = sameGeneration \ {<<"get", c>>}
        /\ UNCHANGED <<l2, origin, lateRead, setter, ranOut, cacheFaults, invalidated, excused>>

lateReply(c) ==
    /\ lateRead[c].pc = "reply"
    /\ l1' = filled(<<"late", c>>, lateRead[c].val)
    /\ lateRead' = [lateRead EXCEPT ![c] = NoCommand]
    /\ sameGeneration' = sameGeneration \ {<<"late", c>>}
    /\ UNCHANGED <<l2, origin, lookup, setter, flight, ranOut, cacheFaults, ghosts>>

\* The GET fails or times out; one that timed out stays out.  The catch
\* invalidates L1 and returns null.
getFails(c) ==
    /\ lookup[c].pc \in {"get", "reply"} /\ cacheFaults < MaxCacheFaults
    /\ lateRead' \in {lateRead, [lateRead EXCEPT ![c] = [pc |-> lookup[c].pc, val |-> lookup[c].val]]}
    /\ lookup' = [lookup EXCEPT ![c].pc = afterMiss(c), ![c].val = Missing]
    /\ invalidateL1
    /\ cacheFaults' = cacheFaults + 1
    /\ UNCHANGED <<l2, origin, setter, flight, ranOut, ghosts>>

\* singleflight.do(): wait for the flight, or lead one and look again.
singleflightDo(c) ==
    /\ lookup[c].pc = "miss"
    /\ \/ /\ flight = NoCaller
          /\ get(c, TRUE, lookup[c].floor)
       \/ /\ flight # NoCaller
          /\ lookup' = [lookup EXCEPT ![c].pc = "wait"]
          /\ UNCHANGED <<l1, l2, origin, lateRead, setter, flight, sameGeneration, ranOut, cacheFaults, ghosts>>

\* fetchFn() reads the origin.
fetchFn(c) ==
    /\ lookup[c].pc = "fetch"
    /\ lookup' = [lookup EXCEPT ![c].pc = "fetched", ![c].val = origin]
    /\ UNCHANGED <<l1, l2, origin, lateRead, setter, flight, sameGeneration, ranOut, cacheFaults, ghosts>>

\* The fetch returns: set() runs up to its first await and is left behind,
\* and the flight ends.  One set() per caller is out at a time.
fetched(c) ==
    /\ lookup[c].pc = "fetched" /\ setter[c] = NoCommand
    /\ setter' = [setter EXCEPT ![c] = [pc |-> "set", val |-> lookup[c].val]]
    /\ l1' = Missing /\ sameGeneration' = {<<"set", c>>}
    /\ respond(answered(c), lookup[c].val)
    /\ flight' = NoCaller
    /\ UNCHANGED <<l2, origin, lateRead, ranOut, cacheFaults, invalidated, excused>>

\* The fetch throws: so does every waiter.
fetchFnFails(c) ==
    /\ lookup[c].pc = "fetch" /\ cacheFaults < MaxCacheFaults
    /\ lookup' = [k \in Caller |-> IF k = c \/ lookup[k].pc = "wait" THEN IdleCaller ELSE lookup[k]]
    /\ flight' = NoCaller
    /\ cacheFaults' = cacheFaults + 1
    /\ UNCHANGED <<l1, l2, origin, lateRead, setter, sameGeneration, ranOut, ghosts>>

redisSet(c) ==
    /\ setter[c].pc = "set"
    /\ l2' = setter[c].val /\ ranOut' = {}
    /\ setter' = [setter EXCEPT ![c].pc = "reply"]
    /\ UNCHANGED <<l1, origin, lookup, lateRead, flight, sameGeneration, cacheFaults, ghosts>>

\* "const canPopulate = generation === this.l1Generation"
setReply(c) ==
    /\ setter[c].pc = "reply"
    /\ l1' = IF <<"set", c>> \in sameGeneration THEN setter[c].val ELSE Missing
    /\ sameGeneration' = {}
    /\ setter' = [setter EXCEPT ![c] = NoCommand]
    /\ UNCHANGED <<l2, origin, lookup, lateRead, flight, ranOut, cacheFaults, ghosts>>

setFails(c) ==
    /\ setter[c].pc \in {"set", "reply"} /\ cacheFaults < MaxCacheFaults
    /\ setter' = [setter EXCEPT ![c] = NoCommand]
    /\ invalidateL1
    /\ cacheFaults' = cacheFaults + 1
    /\ UNCHANGED <<l2, origin, lookup, lateRead, flight, ranOut, ghosts>>

\* A service writes the origin, and then calls invalidateCache().
update(c) ==
    /\ lookup[c].pc = "idle" /\ origin < MaxVersion
    /\ origin' = origin + 1
    /\ lookup' = [lookup EXCEPT ![c] = [pc |-> "written", val |-> origin + 1, floor |-> 0]]
    /\ excused' = (excused \/ flight # NoCaller \/ \E k \in Caller : setter[k].pc = "set")
    /\ UNCHANGED <<l1, l2, lateRead, setter, flight, sameGeneration, ranOut, cacheFaults, invalidated, staleAnswer>>

\* Mutant: an update evicts L1 and leaves Redis alone.
deleteL1Only(c) ==
    /\ \/ lookup[c].pc = "written" /\ lookup' = [lookup EXCEPT ![c].pc = "mutated"]
       \/ /\ lookup[c].pc = "idle"
          /\ \E pc \in {"keys", "expire"} : lookup' = [lookup EXCEPT ![c].pc = pc]
    /\ invalidateL1
    /\ UNCHANGED <<l2, origin, lateRead, setter, flight, ranOut, cacheFaults, ghosts>>

\* The first step of delete(), of clearNamespace() and of expire(), of which
\* the last two may be called at any time.
mutationBegins(c) ==
    /\ \/ lookup[c].pc = "written" /\ lookup' = [lookup EXCEPT ![c].pc = "del"]
       \/ /\ lookup[c].pc = "idle"
          /\ \E pc \in {"keys", "expire"} : lookup' = [lookup EXCEPT ![c].pc = pc]
    /\ invalidateL1
    /\ UNCHANGED <<l2, origin, lateRead, setter, flight, ranOut, cacheFaults, ghosts>>

\* KEYS finds the key, or clearNamespace() returns.
redisKeys(c) ==
    /\ lookup[c].pc = "keys"
    /\ lookup' = [lookup EXCEPT ![c].pc = IF l2 # Missing THEN "del" ELSE "mutated"]
    /\ UNCHANGED <<l1, l2, origin, lateRead, setter, flight, sameGeneration, ranOut, cacheFaults, ghosts>>

\* DEL, and EXPIRE with a lifetime that keeps the key or deletes it.
redisDelete(c) ==
    /\ \/ lookup[c].pc = "del" /\ l2' = Missing
       \/ lookup[c].pc = "expire" /\ l2' \in {l2, Missing}
    /\ lookup' = [lookup EXCEPT ![c].pc = "mutated"]
    /\ ranOut' = {}
    /\ UNCHANGED <<l1, origin, lateRead, setter, flight, sameGeneration, cacheFaults, ghosts>>

laterUpdate(v) == IF v > invalidated THEN v ELSE invalidated

\* The finally block.
mutationReturns(c) ==
    /\ lookup[c].pc = "mutated"
    /\ lookup' = [lookup EXCEPT ![c] = IdleCaller]
    /\ invalidateL1
    /\ invalidated' = IF excused THEN 0 ELSE laterUpdate(lookup[c].val)
    /\ UNCHANGED <<l2, origin, lateRead, setter, flight, ranOut, cacheFaults, excused, staleAnswer>>

\* A command fails before Redis has executed it.
mutationFails(c) ==
    /\ lookup[c].pc \in {"keys", "del", "expire"} /\ cacheFaults < MaxCacheFaults
    /\ lookup' = [lookup EXCEPT ![c].pc = "mutated"]
    /\ excused' = (excused \/ lookup[c].pc = "del")
    /\ cacheFaults' = cacheFaults + 1
    /\ UNCHANGED <<l1, l2, origin, lateRead, setter, flight, sameGeneration, ranOut, invalidated, staleAnswer>>

\* A value runs out in Redis, or L1 drops one.
l2Expires ==
    /\ l2 # Missing
    /\ l2' = Missing /\ ranOut' = ranOut \cup {l2}
    /\ UNCHANGED <<l1, origin, lookup, lateRead, setter, flight, sameGeneration, cacheFaults, ghosts>>

l1Evicts ==
    /\ l1 # Missing /\ l1' = Missing
    /\ UNCHANGED <<l2, origin, lookup, lateRead, setter, flight, sameGeneration, ranOut, cacheFaults, ghosts>>

CacheNext ==
    \/ l2Expires \/ l1Evicts
    \/ \E c \in Caller :
          \/ getOrFetch(c) \/ redisGet(c) \/ getReply(c) \/ lateReply(c) \/ getFails(c)
          \/ singleflightDo(c) \/ fetchFn(c) \/ fetched(c) \/ fetchFnFails(c)
          \/ redisSet(c) \/ setReply(c) \/ setFails(c)
          \/ update(c) \/ mutationBegins(c) \/ redisKeys(c) \/ redisDelete(c)
          \/ mutationReturns(c) \/ mutationFails(c)

CacheSpec == CacheInit /\ [][CacheNext]_cacheVars

(***************************************************************************)
(* L1 holds what Redis holds: the generation fence keeps a delayed reply   *)
(* of get() or set() from filling L1 with a value that Redis has lost      *)
(* meanwhile.  The exceptions are a mutation of this process that has not  *)
(* returned yet, which evicts L1 when it does, and a value that ran out in *)
(* Redis: L1 keeps it for a lifetime of its own.                           *)
(***************************************************************************)
Mutating ==
    \E c \in Caller : lookup[c].pc \in {"keys", "del", "expire", "mutated"} \/ setter[c].pc # "none"

L1FollowsRedis == l1 = Missing \/ l1 = l2 \/ Mutating \/ (l2 = Missing /\ l1 \in ranOut)

(***************************************************************************)
(* Read after write: a getOrFetch() that begins when an update has been    *)
(* invalidated never answers with an older version, whether it hits L1 or  *)
(* Redis, joins a flight or fetches itself.  The exceptions are an update  *)
(* that raced a flight, which others may join later and whose set()        *)
(* may store the old value behind the delete, and a delete that failed.    *)
(***************************************************************************)
ReadAfterWrite == ~staleAnswer

=============================================================================
