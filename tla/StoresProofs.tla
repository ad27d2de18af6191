--------------------------- MODULE StoresProofs ---------------------------
(***************************************************************************)
(* The read cache, the idempotency middleware, the signing keys and        *)
(* backfills, for any number of callers, versions, requests, keys, tokens, *)
(* rows, restarts and faults.                                              *)
(***************************************************************************)
EXTENDS Cache, Idempotency, Keys, Backfill, TLAPS

(***************************************************************************)
(* The read cache.                                                         *)
(***************************************************************************)

LookupPc == {"idle", "get", "reply", "miss", "wait", "fetch", "fetched", "written", "keys", "del", "expire", "mutated"}

LookupType == [Caller -> [pc: LookupPc, val: Nat, floor: Nat]]

\* Both levels, the origin and what callers hold; Missing is 0.
CacheTypeOK ==
    /\ l1 \in Nat /\ l2 \in Nat /\ origin \in Nat
    /\ lookup \in LookupType
    /\ lateRead \in [Caller -> [pc: {"none", "get", "reply"}, val: Nat]]
    /\ setter \in [Caller -> [pc: {"none", "set", "reply"}, val: Nat]]
    /\ invalidated \in Nat

\* A value that L1 may hold: that of Redis, or one of the exceptions of
\* L1FollowsRedis.
Follows(v, mutating) == v = l2 \/ mutating \/ (l2 = Missing /\ v \in ranOut)

\* A mutation other than the set() of c has not returned.
MutatingBut(c) ==
    \E k \in Caller : lookup[k].pc \in {"keys", "del", "expire", "mutated"} \/ (k # c /\ setter[k].pc # "none")

\* A value that the fence still lets into L1 is one that Redis holds.
ReplyFenced(c) ==
    <<"get", c>> \in sameGeneration /\ lookup[c].pc = "reply" /\ lookup[c].val # Missing =>
        Follows(lookup[c].val, Mutating)
SetFenced(c) ==
    <<"set", c>> \in sameGeneration /\ setter[c].pc = "reply" => Follows(setter[c].val, MutatingBut(c))

\* What L1 holds, and whatever the fence would let in, follows Redis; a late
\* reply is always fenced off.
Fenced ==
    /\ l1 = Missing \/ Follows(l1, Mutating)
    /\ \A c \in Caller : <<"late", c>> \notin sameGeneration /\ ReplyFenced(c) /\ SetFenced(c)

\* A version that does not precede the last invalidated update.
Fresh(v) == v = Missing \/ v >= invalidated

\* The flight belongs to the caller that fetches; a caller holds the version it
\* wrote until its update is invalidated.
Flights ==
    /\ invalidated <= origin
    /\ \A c \in Caller :
          /\ lookup[c].pc \in {"written", "del", "mutated"} => lookup[c].val <= origin
          /\ lookup[c].pc \in {"fetch", "fetched"} => flight = c
          /\ flight = c => lookup[c].pc \in {"get", "reply", "fetch", "fetched"}
          /\ lookup[c].pc \in {"idle", "keys", "expire"} => lookup[c].val = Missing

\* What caller c may still answer, share or leave in Redis is fresh.
CallerFresh(c) ==
    /\ lookup[c].floor <= invalidated
    /\ lookup[c].pc = "reply" =>
          /\ lookup[c].val = Missing \/ lookup[c].val >= lookup[c].floor
          /\ flight = c \/ <<"get", c>> \in sameGeneration => Fresh(lookup[c].val)
    /\ lookup[c].pc = "fetched" => lookup[c].val = origin
    /\ lookup[c].pc = "mutated" => l2 = Missing \/ l2 >= lookup[c].val

\* What the set() of c may still store is fresh.
SetterFresh(c) ==
    /\ setter[c].pc = "set" => setter[c].val = origin
    /\ <<"set", c>> \in sameGeneration => Fresh(setter[c].val)

\* Until an update races a flight or a delete fails, both levels are fresh.
ReadsFresh ==
    /\ Fresh(l1) /\ Fresh(l2)
    /\ flight # NoCaller => ~Updating
    /\ \A c \in Caller : CallerFresh(c) /\ SetterFresh(c)

\* The inductive invariant of the cache.
CacheInv == CacheTypeOK /\ Fenced /\ Flights /\ (~excused => ReadsFresh) /\ ~staleAnswer

MutatingPc == {"keys", "del", "expire", "mutated"}

\* L1 is empty and no reply may fill it.
LEMMA EmptyIsFenced == ASSUME l1' = Missing, sameGeneration' = {} PROVE Fenced'
BY Zenon DEF Fenced, ReplyFenced, SetFenced

\* A step that leaves Redis and the sets alone and lets no mutation return.
KeepsReply(k) ==
    lookup'[k].pc = "reply" =>
        \/ lookup'[k].val = l2
        \/ /\ lookup[k].pc = "reply" /\ lookup'[k].val = lookup[k].val
           /\ <<"get", k>> \in sameGeneration' => <<"get", k>> \in sameGeneration

\* A step that leaves Redis and the sets alone keeps the fence.
LEMMA QuietIsFenced ==
    ASSUME Fenced, UNCHANGED <<l2, ranOut, setter>>,
           l1' = l1 \/ l1' = Missing \/ Follows(l1', Mutating),
           \A k \in Caller :
              /\ <<"late", k>> \notin sameGeneration'
              /\ <<"set", k>> \in sameGeneration' => <<"set", k>> \in sameGeneration
              /\ lookup[k].pc \in MutatingPc => lookup'[k].pc \in MutatingPc
              /\ KeepsReply(k)
    PROVE  Fenced'
<1>1. Mutating => Mutating'
    BY Zenon DEF Mutating, MutatingPc
<1>2. ASSUME NEW c \in Caller, MutatingBut(c) PROVE MutatingBut(c)'
    BY <1>2, Zenon DEF MutatingBut, MutatingPc
<1>3. l1' = Missing \/ Follows(l1, Mutating)'
    BY <1>1, Zenon DEF Fenced, Follows
<1>4. ASSUME NEW c \in Caller PROVE ReplyFenced(c)'
    BY <1>1, Zenon DEF Fenced, ReplyFenced, Follows, KeepsReply
<1>5. ASSUME NEW c \in Caller PROVE SetFenced(c)'
    BY <1>2, Zenon DEF Fenced, SetFenced, Follows
<1> QED BY <1>3, <1>4, <1>5, Zenon DEF Fenced

\* What the updates of lookup in the actions come to.
OthersStay(c) == \A k \in Caller \ {c} : lookup'[k] = lookup[k]

LEMMA PcUpdate ==
    ASSUME lookup \in LookupType, NEW c \in Caller, NEW p \in LookupPc, lookup' = [lookup EXCEPT ![c].pc = p]
    PROVE  /\ lookup' \in LookupType /\ OthersStay(c)
           /\ lookup'[c].pc = p /\ lookup'[c].val = lookup[c].val /\ lookup'[c].floor = lookup[c].floor
BY Zenon DEF LookupType, OthersStay

LEMMA ValUpdate ==
    ASSUME lookup \in LookupType, NEW c \in Caller, NEW p \in LookupPc, NEW v \in Nat,
           lookup' = [lookup EXCEPT ![c].pc = p, ![c].val = v]
    PROVE  /\ lookup' \in LookupType /\ OthersStay(c)
           /\ lookup'[c].pc = p /\ lookup'[c].val = v /\ lookup'[c].floor = lookup[c].floor
BY Zenon DEF LookupType, OthersStay

LEMMA CallUpdate ==
    ASSUME lookup \in LookupType, NEW c \in Caller, NEW p \in LookupPc, NEW v \in Nat, NEW f \in Nat,
           lookup' = [lookup EXCEPT ![c] = [pc |-> p, val |-> v, floor |-> f]]
    PROVE  /\ lookup' \in LookupType /\ OthersStay(c)
           /\ lookup'[c].pc = p /\ lookup'[c].val = v /\ lookup'[c].floor = f
BY Zenon DEF LookupType, OthersStay

\* respond(): its callers are idle again and the others stay.
LEMMA Responded ==
    ASSUME lookup \in LookupType, NEW S,
           lookup' = [k \in Caller |-> IF k \in S THEN IdleCaller ELSE lookup[k]]
    PROVE  /\ lookup' \in LookupType
           /\ \A k \in Caller : k \notin S => lookup'[k] = lookup[k]
           /\ \A k \in Caller : k \in S => lookup'[k].pc = "idle" /\ lookup'[k].val = 0 /\ lookup'[k].floor = 0
BY Zenon DEF LookupType, IdleCaller, LookupPc, Missing

\* Caller c has written an update that it has not yet invalidated.
Updates(l, c) == l[c].pc \in {"written", "del", "mutated"} /\ l[c].val # Missing

\* Caller k is where it was, or idle again.
Rests(k) ==
    \/ lookup'[k] = lookup[k]
    \/ lookup'[k].pc = "idle" /\ lookup'[k].val = 0 /\ lookup'[k].floor = 0

\* A step of caller c, after which others may be idle, that leaves the origin
\* and the sets alone.
LEMMA QuietIsFresh ==
    ASSUME ReadsFresh, CacheTypeOK, NEW c \in Caller, UNCHANGED <<origin, invalidated, setter>>,
           l2' = l2 \/ l2' = Missing,
           \A k \in Caller \ {c} : Rests(k),
           Fresh(l1'), flight' \in {flight, NoCaller} \/ (flight' = c /\ ~Updating),
           \A k \in Caller : <<"set", k>> \in sameGeneration' => <<"set", k>> \in sameGeneration,
           \A k \in Caller \ {c} : <<"get", k>> \in sameGeneration' => <<"get", k>> \in sameGeneration,
           Updates(lookup', c) => Updates(lookup, c) \/ flight' = NoCaller,
           CallerFresh(c)'
    PROVE  ReadsFresh'
<1> USE NoCallerApart
<1>1. ASSUME NEW k \in Caller PROVE CallerFresh(k)'
    <2>1. CASE k = c
        BY <2>1, Zenon
    <2>2. CASE k # c
        <3>1. CallerFresh(k) /\ Rests(k) /\ (flight' = k => flight = k) /\ invalidated \in Nat
            BY <2>2, Zenon DEF ReadsFresh, CacheTypeOK
        <3>2. CASE lookup'[k] = lookup[k]
            BY <2>2, <3>1, <3>2, Zenon DEF CallerFresh, Fresh
        <3>3. CASE lookup'[k].pc = "idle" /\ lookup'[k].val = 0 /\ lookup'[k].floor = 0
            BY <3>1, <3>3 DEF CallerFresh
        <3> QED BY <3>1, <3>2, <3>3, Zenon DEF Rests
    <2> QED BY <2>1, <2>2, Zenon
<1>2. ASSUME NEW k \in Caller PROVE SetterFresh(k)'
    BY Zenon DEF ReadsFresh, SetterFresh, Fresh
<1>3. flight' # NoCaller => ~Updating'
    <2>1. Updating' /\ flight' # NoCaller => Updating
        <3> SUFFICES ASSUME NEW k \in Caller, Updates(lookup', k), flight' # NoCaller PROVE Updates(lookup, k)
            BY Zenon DEF Updating, Updates
        <3> QED BY Zenon DEF Updates, Rests
    <2> QED BY <2>1, Zenon DEF ReadsFresh
<1>4. Fresh(l1)' /\ Fresh(l2)'
    BY Zenon DEF ReadsFresh, Fresh
<1> QED BY <1>1, <1>2, <1>3, <1>4, Zenon DEF ReadsFresh

LEMMA GetInv ==
    ASSUME CacheInv, NEW c \in Caller, NEW leads \in BOOLEAN, NEW floor \in Nat,
           (lookup[c].pc = "idle" /\ ~leads) \/ (lookup[c].pc = "miss" /\ leads /\ flight = NoCaller),
           ~excused => floor <= invalidated, get(c, leads, floor)
    PROVE  CacheInv'
<1> USE NoCallerApart
<1>1. UNCHANGED <<l1, l2, origin, lateRead, setter, ranOut, invalidated>>
    BY Zenon DEF get
<1>2. lookup \in LookupType /\ flight # c
    BY Zenon DEF CacheInv, CacheTypeOK, Flights
<1>3. CASE l1 # Missing
    <2>1. /\ lookup' = [lookup EXCEPT ![c] = [pc |-> "idle", val |-> 0, floor |-> 0]]
          /\ staleAnswer' = (staleAnswer \/ (~excused /\ l1 < floor))
          /\ UNCHANGED <<flight, excused, sameGeneration>>
        BY <1>3, Zenon DEF get, IdleCaller, Missing
    <2>2. /\ lookup' \in LookupType /\ OthersStay(c)
          /\ lookup'[c].pc = "idle" /\ lookup'[c].val = 0 /\ lookup'[c].floor = 0
        BY <1>2, <2>1, CallUpdate, Zenon DEF LookupPc
    <2>3. CacheTypeOK'
        BY <1>1, <2>2, Zenon DEF CacheInv, CacheTypeOK
    <2>4. Fenced'
        BY <1>1, <2>1, <2>2, QuietIsFenced, Zenon DEF CacheInv, Fenced, OthersStay, KeepsReply, MutatingPc
    <2>5. Flights'
        BY <1>1, <1>2, <2>1, <2>2 DEF CacheInv, CacheTypeOK, Flights, OthersStay, Missing
    <2>6. ~excused' => ReadsFresh'
        <3> SUFFICES ASSUME ~excused' PROVE ReadsFresh'
            BY Zenon
        <3>1. ReadsFresh /\ Fresh(l1)
            BY <2>1, Zenon DEF CacheInv, ReadsFresh
        <3>2. CallerFresh(c)'
            BY <1>1, <2>1, <2>2 DEF CacheInv, CacheTypeOK, CallerFresh
        <3>3. ~Updates(lookup', c)
            BY <2>2, Zenon DEF Updates
        <3>4. \A k \in Caller \ {c} : Rests(k)
            BY <2>2, Zenon DEF OthersStay, Rests
        <3> QED BY <1>1, <2>1, <3>1, <3>2, <3>3, <3>4, QuietIsFresh, Zenon DEF CacheInv
    <2>7. ~staleAnswer'
        <3>1. ~(~excused /\ l1 < floor)
            BY <1>3 DEF CacheInv, CacheTypeOK, ReadsFresh, Fresh
        <3> QED BY <2>1, <3>1, Zenon DEF CacheInv
    <2> QED BY <2>3, <2>4, <2>5, <2>6, <2>7, Zenon DEF CacheInv
<1>4. CASE l1 = Missing
    <2>1. /\ lookup' = [lookup EXCEPT ![c] = [pc |-> "get", val |-> 0, floor |-> floor]]
          /\ flight' = IF leads THEN c ELSE flight
          /\ excused' = (excused \/ (leads /\ Updating))
          /\ sameGeneration' = sameGeneration \cup {<<"get", c>>}
          /\ UNCHANGED staleAnswer
        BY <1>4, Zenon DEF get, Missing
    <2>2. /\ lookup' \in LookupType /\ OthersStay(c)
          /\ lookup'[c].pc = "get" /\ lookup'[c].val = 0 /\ lookup'[c].floor = floor
        BY <1>2, <2>1, CallUpdate, Zenon DEF LookupPc
    <2>3. CacheTypeOK'
        BY <1>1, <2>2, Zenon DEF CacheInv, CacheTypeOK
    <2>4. Fenced'
        BY <1>1, <2>1, <2>2, QuietIsFenced, Zenon DEF CacheInv, Fenced, OthersStay, KeepsReply, MutatingPc
    <2>5. Flights'
        BY <1>1, <1>2, <2>1, <2>2 DEF CacheInv, CacheTypeOK, Flights, OthersStay, Missing
    <2>6. ~excused' => ReadsFresh'
        <3> SUFFICES ASSUME ~excused' PROVE ReadsFresh'
            OBVIOUS
        <3>1. ReadsFresh /\ Fresh(l1)
            BY <2>1, Zenon DEF CacheInv, ReadsFresh
        <3>2. CallerFresh(c)'
            BY <1>1, <2>1, <2>2, Zenon DEF CacheInv, CacheTypeOK, CallerFresh
        <3>3. ~Updates(lookup', c)
            BY <2>2, Zenon DEF Updates
        <3>4. \A k \in Caller \ {c} : Rests(k)
            BY <2>2, Zenon DEF OthersStay, Rests
        <3> QED BY <1>1, <2>1, <3>1, <3>2, <3>3, <3>4, QuietIsFresh, Zenon DEF CacheInv
    <2> QED BY <2>1, <2>3, <2>4, <2>5, <2>6, Zenon DEF CacheInv
<1> QED BY <1>3, <1>4, Zenon

\* A GET that nobody waits for changes nothing that the invariant relates, and
\* L1 may drop its value at any time.
LEMMA LateOnly ==
    ASSUME CacheInv, lateRead' \in [Caller -> [pc: {"none", "get", "reply"}, val: Nat]], l1' \in {l1, Missing},
           UNCHANGED <<l2, origin, lookup, setter, flight, sameGeneration, ranOut, ghosts>>
    PROVE  CacheInv'
<1>1. CacheTypeOK'
    BY SMTT(30) DEF CacheInv, CacheTypeOK, ghosts, Missing
<1>2. Fenced' /\ Flights'
    BY Zenon DEF CacheInv, Fenced, ReplyFenced, SetFenced, Follows, Mutating, MutatingBut, Flights, ghosts
<1>3. ~excused' => ReadsFresh'
    BY Zenon DEF CacheInv, ReadsFresh, CallerFresh, SetterFresh, Fresh, Updating, ghosts
<1> QED BY <1>1, <1>2, <1>3, Zenon DEF CacheInv, ghosts

LEMMA RedisGetInv == ASSUME CacheInv, NEW c \in Caller, redisGet(c) PROVE CacheInv'
<1>1. CASE lateRead[c].pc = "get" /\ lateRead' = [lateRead EXCEPT ![c] = [pc |-> "reply", val |-> l2]] /\ UNCHANGED lookup
    <2>1. lateRead' \in [Caller -> [pc: {"none", "get", "reply"}, val: Nat]]
        BY <1>1, Zenon DEF CacheInv, CacheTypeOK
    <2> QED BY <1>1, <2>1, LateOnly, Zenon DEF redisGet
<1>2. CASE lookup[c].pc = "get" /\ lookup' = [lookup EXCEPT ![c].pc = "reply", ![c].val = l2] /\ UNCHANGED lateRead
    <2>1. UNCHANGED <<l1, l2, origin, lateRead, setter, flight, sameGeneration, ranOut, invalidated, excused, staleAnswer>>
        BY <1>2, Zenon DEF redisGet, ghosts
    <2>2. /\ lookup' \in LookupType /\ OthersStay(c)
          /\ lookup'[c].pc = "reply" /\ lookup'[c].val = l2 /\ lookup'[c].floor = lookup[c].floor
        BY <1>2, ValUpdate, Zenon DEF CacheInv, CacheTypeOK, LookupPc
    <2>3. CacheTypeOK'
        BY <2>1, <2>2, Zenon DEF CacheInv, CacheTypeOK
    <2>4. Fenced'
        BY <1>2, <2>1, <2>2, QuietIsFenced, Zenon DEF CacheInv, Fenced, OthersStay, KeepsReply, MutatingPc
    <2>5. Flights'
        BY <1>2, <2>1, <2>2, ZenonT(40) DEF CacheInv, Flights, OthersStay
    <2>6. ASSUME ~excused' PROVE ReadsFresh'
        <3>1. ReadsFresh /\ Fresh(l1)
            BY <2>1, <2>6, Zenon DEF CacheInv, ReadsFresh
        <3>2. CallerFresh(c)'
            BY <2>1, <2>2, <3>1 DEF CacheInv, CacheTypeOK, LookupType, ReadsFresh, CallerFresh, Fresh
        <3>3. ~Updates(lookup', c) /\ \A k \in Caller \ {c} : Rests(k)
            BY <2>2, Zenon DEF Updates, OthersStay, Rests
        <3> QED BY <2>1, <3>1, <3>2, <3>3, QuietIsFresh, Zenon DEF CacheInv
    <2> QED BY <2>1, <2>3, <2>4, <2>5, <2>6, Zenon DEF CacheInv
<1> QED BY <1>1, <1>2, Zenon DEF redisGet

\* A reply with a value: the caller is answered, and so are those that wait for
\* its flight.
LEMMA HitInv == ASSUME CacheInv, NEW c \in Caller, getReply(c), lookup[c].val # Missing PROVE CacheInv'
<1> USE NoCallerApart
<1> DEFINE S == answered(c)
<1>1. /\ lookup[c].pc = "reply"
      /\ l1' = IF <<"get", c>> \in sameGeneration THEN lookup[c].val ELSE l1
      /\ lookup' = [k \in Caller |-> IF k \in S THEN IdleCaller ELSE lookup[k]]
      /\ staleAnswer' = (staleAnswer \/ (~excused /\ \E k \in S : lookup[c].val < lookup[k].floor))
      /\ flight' = IF flight = c THEN NoCaller ELSE flight
      /\ sameGeneration' = sameGeneration \ {<<"get", c>>}
      /\ UNCHANGED <<l2, origin, lateRead, setter, ranOut, invalidated, excused>>
    BY Zenon DEF getReply, respond, filled
<1>2. lookup \in LookupType /\ lookup[c].val \in Nat
    BY Zenon DEF CacheInv, CacheTypeOK, LookupType
<1>3. c \in S /\ \A k \in S : k \in Caller /\ (k = c \/ (flight = c /\ lookup[k].pc = "wait"))
    BY Zenon DEF answered
<1> HIDE DEF S
<1>4. /\ lookup' \in LookupType
      /\ \A k \in Caller : k \notin S => lookup'[k] = lookup[k]
      /\ \A k \in Caller : k \in S => lookup'[k].pc = "idle" /\ lookup'[k].val = 0 /\ lookup'[k].floor = 0
    BY <1>1, <1>2, Responded, Zenon
<1>5. CacheTypeOK'
    BY <1>1, <1>2, <1>4, Zenon DEF CacheInv, CacheTypeOK
<1>6. Fenced'
    <2>1. l1' = l1 \/ Follows(l1', Mutating)
        BY <1>1, Zenon DEF CacheInv, Fenced, ReplyFenced
    <2>2. ASSUME NEW k \in Caller
          PROVE  /\ <<"late", k>> \notin sameGeneration'
                 /\ <<"set", k>> \in sameGeneration' => <<"set", k>> \in sameGeneration
                 /\ lookup[k].pc \in MutatingPc => lookup'[k].pc \in MutatingPc
                 /\ KeepsReply(k)
        BY <1>1, <1>3, <1>4, Zenon DEF CacheInv, Fenced, KeepsReply, MutatingPc
    <2> QED BY <1>1, <2>1, <2>2, QuietIsFenced, Zenon DEF CacheInv
<1>7. Flights'
    <2>1. ASSUME NEW k \in Caller
          PROVE  /\ lookup'[k].pc \in {"written", "del", "mutated"} => lookup'[k].val <= origin
                 /\ lookup'[k].pc \in {"fetch", "fetched"} => flight' = k
                 /\ flight' = k => lookup'[k].pc \in {"get", "reply", "fetch", "fetched"}
                 /\ lookup'[k].pc \in {"idle", "keys", "expire"} => lookup'[k].val = Missing
        BY <1>1, <1>3, <1>4 DEF CacheInv, Flights, Missing
    <2> QED BY <1>1, <2>1, Zenon DEF CacheInv, Flights
<1>8. ASSUME ~excused' PROVE ReadsFresh' /\ \A k \in S : ~(lookup[c].val < lookup[k].floor)
    <2>1. ReadsFresh
        BY <1>1, <1>8, Zenon DEF CacheInv
    <2>2. Fresh(l1')
        BY <1>1, <2>1, Zenon DEF ReadsFresh, CallerFresh
    <2>3. CallerFresh(c)' /\ ~Updates(lookup', c)
        BY <1>1, <1>3, <1>4 DEF CallerFresh, Updates, CacheInv, CacheTypeOK
    <2>4. \A k \in Caller \ {c} : Rests(k)
        BY <1>4, Zenon DEF Rests
    <2>5. ReadsFresh'
        <3>1. /\ flight' \in {flight, NoCaller}
              /\ \A k \in Caller : <<"set", k>> \in sameGeneration' => <<"set", k>> \in sameGeneration
              /\ \A k \in Caller \ {c} : <<"get", k>> \in sameGeneration' => <<"get", k>> \in sameGeneration
            BY <1>1, Zenon
        <3>2. UNCHANGED <<origin, invalidated, setter>> /\ l2' = l2 /\ CacheTypeOK
            BY <1>1, Zenon DEF CacheInv
        <3> QED BY <2>1, <2>2, <2>3, <2>4, <3>1, <3>2, QuietIsFresh, Zenon
    <2>6. ASSUME NEW k \in S PROVE ~(lookup[c].val < lookup[k].floor)
        <3>1. k \in Caller /\ lookup[k].floor \in Nat /\ invalidated \in Nat
            BY <1>2, <1>3, Zenon DEF CacheInv, CacheTypeOK, LookupType
        <3>2. CASE k = c
            BY <1>1, <1>2, <2>1, <3>1, <3>2 DEF ReadsFresh, CallerFresh
        <3>3. CASE flight = c
            <4>1. lookup[c].pc = "reply" /\ lookup[k].floor <= invalidated
                BY <1>1, <2>1, <3>1, Zenon DEF ReadsFresh, CallerFresh
            <4>2. Fresh(lookup[c].val)
                BY <2>1, <3>3, <4>1, Zenon DEF ReadsFresh, CallerFresh
            <4> QED BY <1>2, <3>1, <4>1, <4>2 DEF Fresh
        <3> QED BY <1>3, <3>2, <3>3, Zenon
    <2> QED BY <2>5, <2>6, Zenon
<1>9. ~staleAnswer'
    BY <1>1, <1>8, Zenon DEF CacheInv
<1> QED BY <1>5, <1>6, <1>7, <1>8, <1>9, Zenon DEF CacheInv

\* A step of caller c to another place, which asks Redis for nothing and
\* answers nobody.
MovesOn(c) ==
    /\ lookup' \in LookupType /\ OthersStay(c) /\ lookup'[c].floor = lookup[c].floor
    /\ UNCHANGED <<l2, origin, setter, flight, ranOut, invalidated, staleAnswer>>
    /\ lateRead' \in [Caller -> [pc: {"none", "get", "reply"}, val: Nat]]
    /\ l1' \in {l1, Missing} /\ sameGeneration' \subseteq sameGeneration
    /\ lookup[c].pc \in MutatingPc => lookup'[c].pc \in MutatingPc
    /\ lookup'[c].pc # "reply"
    /\ lookup'[c].pc \in {"written", "del", "mutated"} => lookup'[c].val <= origin
    /\ lookup'[c].pc \in {"fetch", "fetched"} => flight = c
    /\ flight = c => lookup'[c].pc \in {"get", "reply", "fetch", "fetched"}
    /\ lookup'[c].pc \in {"idle", "keys", "expire"} => lookup'[c].val = Missing
    /\ ~excused' =>
          /\ ~excused
          /\ lookup'[c].pc = "fetched" => lookup'[c].val = origin
          /\ lookup'[c].pc = "mutated" => l2 = Missing \/ l2 >= lookup'[c].val
          /\ Updates(lookup', c) => Updates(lookup, c)

LEMMA MovesOnInv == ASSUME CacheInv, NEW c \in Caller, MovesOn(c) PROVE CacheInv'
<1>1. CacheTypeOK'
    BY SMTT(30) DEF CacheInv, CacheTypeOK, MovesOn, Missing
<1>2. Fenced'
    <2>1. ASSUME NEW k \in Caller
          PROVE  /\ <<"late", k>> \notin sameGeneration'
                 /\ <<"set", k>> \in sameGeneration' => <<"set", k>> \in sameGeneration
                 /\ lookup[k].pc \in MutatingPc => lookup'[k].pc \in MutatingPc
                 /\ KeepsReply(k)
        BY Zenon DEF CacheInv, Fenced, MovesOn, OthersStay, KeepsReply
    <2> QED BY <2>1, QuietIsFenced, Zenon DEF CacheInv, MovesOn
<1>3. Flights'
    BY Zenon DEF CacheInv, Flights, MovesOn, OthersStay
<1>4. ASSUME ~excused' PROVE ReadsFresh'
    <2>1. ReadsFresh /\ CallerFresh(c)
        BY <1>4, Zenon DEF CacheInv, MovesOn, ReadsFresh
    <2>2. Fresh(l1')
        BY <2>1, Zenon DEF ReadsFresh, MovesOn, Fresh
    <2>3. CallerFresh(c)'
        BY <1>4, <2>1, Zenon DEF MovesOn, CallerFresh
    <2>4. \A k \in Caller \ {c} : Rests(k)
        BY Zenon DEF MovesOn, OthersStay, Rests
    <2>5. /\ UNCHANGED <<origin, invalidated, setter, flight, l2>> /\ CacheTypeOK
          /\ \A k \in Caller : <<"set", k>> \in sameGeneration' => <<"set", k>> \in sameGeneration
          /\ \A k \in Caller \ {c} : <<"get", k>> \in sameGeneration' => <<"get", k>> \in sameGeneration
          /\ Updates(lookup', c) => Updates(lookup, c)
        BY <1>4, Zenon DEF CacheInv, MovesOn
    <2> QED BY <2>1, <2>2, <2>3, <2>4, <2>5, QuietIsFresh, Zenon
<1> QED BY <1>1, <1>2, <1>3, <1>4, Zenon DEF CacheInv, MovesOn

LEMMA MissInv == ASSUME CacheInv, NEW c \in Caller, getReply(c), lookup[c].val = Missing PROVE CacheInv'
<1>1. afterMiss(c) \in LookupPc /\ lookup' = [lookup EXCEPT ![c].pc = afterMiss(c)]
    BY Zenon DEF getReply, afterMiss, LookupPc
<1>2. /\ lookup' \in LookupType /\ OthersStay(c)
      /\ lookup'[c].pc = afterMiss(c) /\ lookup'[c].val = lookup[c].val /\ lookup'[c].floor = lookup[c].floor
    BY <1>1, PcUpdate, Zenon DEF CacheInv, CacheTypeOK
<1>3. /\ UNCHANGED <<l1, l2, origin, lateRead, setter, flight, ranOut, invalidated, excused, staleAnswer>>
      /\ lookup[c].pc = "reply" /\ sameGeneration' \subseteq sameGeneration
    BY Zenon DEF getReply, filled
<1>4. MovesOn(c)
    BY <1>2, <1>3, Zenon DEF CacheInv, CacheTypeOK, MovesOn, afterMiss, MutatingPc, Updates
<1> QED BY <1>4, MovesOnInv, Zenon

LEMMA GetFailsInv == ASSUME CacheInv, NEW c \in Caller, getFails(c) PROVE CacheInv'
<1>1. afterMiss(c) \in LookupPc /\ lookup' = [lookup EXCEPT ![c].pc = afterMiss(c), ![c].val = 0]
    BY Zenon DEF getFails, afterMiss, LookupPc, Missing
<1>2. /\ lookup' \in LookupType /\ OthersStay(c)
      /\ lookup'[c].pc = afterMiss(c) /\ lookup'[c].val = 0 /\ lookup'[c].floor = lookup[c].floor
    BY <1>1, ValUpdate, Zenon DEF CacheInv, CacheTypeOK
<1>3. /\ UNCHANGED <<l2, origin, setter, flight, ranOut, invalidated, excused, staleAnswer>>
      /\ lookup[c].pc \in {"get", "reply"} /\ sameGeneration' \subseteq sameGeneration /\ l1' = Missing
    BY Zenon DEF getFails, invalidateL1, ghosts
<1>4. lateRead' \in [Caller -> [pc: {"none", "get", "reply"}, val: Nat]]
    BY <1>3, SMTT(30) DEF getFails, CacheInv, CacheTypeOK, LookupType
<1>5. MovesOn(c)
    BY <1>2, <1>3, <1>4, Zenon DEF MovesOn, afterMiss, MutatingPc, Updates
<1> QED BY <1>5, MovesOnInv, Zenon

LEMMA SingleflightInv == ASSUME CacheInv, NEW c \in Caller, singleflightDo(c) PROVE CacheInv'
<1>1. lookup[c].pc = "miss" /\ lookup[c].floor \in Nat /\ (~excused => lookup[c].floor <= invalidated)
    BY Zenon DEF singleflightDo, CacheInv, CacheTypeOK, LookupType, ReadsFresh, CallerFresh
<1>2. CASE flight = NoCaller
    <2>1. get(c, TRUE, lookup[c].floor)
        BY <1>2, Zenon DEF singleflightDo
    <2> QED BY <1>1, <1>2, <2>1, GetInv, Zenon
<1>3. CASE flight # NoCaller
    <2>1. /\ lookup' = [lookup EXCEPT ![c].pc = "wait"]
          /\ UNCHANGED <<l1, l2, origin, lateRead, setter, flight, sameGeneration, ranOut, invalidated, excused, staleAnswer>>
        BY <1>3, Zenon DEF singleflightDo, ghosts
    <2>2. /\ lookup' \in LookupType /\ OthersStay(c)
          /\ lookup'[c].pc = "wait" /\ lookup'[c].val = lookup[c].val /\ lookup'[c].floor = lookup[c].floor
        BY <2>1, PcUpdate, Zenon DEF CacheInv, CacheTypeOK, LookupPc
    <2>3. MovesOn(c)
        BY <1>1, <2>1, <2>2, Zenon DEF CacheInv, CacheTypeOK, Flights, MovesOn, MutatingPc, Updates
    <2> QED BY <2>3, MovesOnInv, Zenon
<1> QED BY <1>2, <1>3, Zenon

LEMMA FetchFnInv == ASSUME CacheInv, NEW c \in Caller, fetchFn(c) PROVE CacheInv'
<1>1. /\ lookup[c].pc = "fetch" /\ lookup' = [lookup EXCEPT ![c].pc = "fetched", ![c].val = origin]
      /\ UNCHANGED <<l1, l2, origin, lateRead, setter, flight, sameGeneration, ranOut, invalidated, excused, staleAnswer>>
    BY Zenon DEF fetchFn, ghosts
<1>2. /\ lookup' \in LookupType /\ OthersStay(c)
      /\ lookup'[c].pc = "fetched" /\ lookup'[c].val = origin /\ lookup'[c].floor = lookup[c].floor
    BY <1>1, ValUpdate, Zenon DEF CacheInv, CacheTypeOK, LookupPc
<1>3. MovesOn(c)
    BY <1>1, <1>2, Zenon DEF CacheInv, CacheTypeOK, Flights, MovesOn, MutatingPc, Updates
<1> QED BY <1>3, MovesOnInv, Zenon

LEMMA LateReplyInv == ASSUME CacheInv, NEW c \in Caller, lateReply(c) PROVE CacheInv'
<1>1. <<"late", c>> \notin sameGeneration
    BY Zenon DEF CacheInv, Fenced
<1>2. l1' = l1 /\ sameGeneration' = sameGeneration
    BY <1>1, Zenon DEF lateReply, filled
<1>3. lateRead' \in [Caller -> [pc: {"none", "get", "reply"}, val: Nat]]
    BY Zenon DEF lateReply, NoCommand, Missing, CacheInv, CacheTypeOK
<1> QED BY <1>2, <1>3, LateOnly, Zenon DEF lateReply

LEMMA MutationBeginsInv == ASSUME CacheInv, NEW c \in Caller, mutationBegins(c) PROVE CacheInv'
<1>1. PICK p \in {"del", "keys", "expire"} :
         /\ lookup' = [lookup EXCEPT ![c].pc = p]
         /\ (lookup[c].pc = "written" /\ p = "del") \/ (lookup[c].pc = "idle" /\ p # "del")
    <2>1. CASE lookup[c].pc = "written" /\ lookup' = [lookup EXCEPT ![c].pc = "del"]
        <3> WITNESS "del" \in {"del", "keys", "expire"}
        <3> QED BY <2>1, Zenon
    <2>2. CASE lookup[c].pc = "idle" /\ \E pc \in {"keys", "expire"} : lookup' = [lookup EXCEPT ![c].pc = pc]
        <3>1. PICK pc \in {"keys", "expire"} : lookup' = [lookup EXCEPT ![c].pc = pc]
            BY <2>2, Zenon
        <3>2. pc \in {"del", "keys", "expire"} /\ pc # "del"
            BY Zenon
        <3> QED BY <2>2, <3>1, <3>2, Zenon
    <2> QED BY <2>1, <2>2, Zenon DEF mutationBegins
<1>2. /\ UNCHANGED <<l2, origin, lateRead, setter, flight, ranOut, invalidated, excused, staleAnswer>>
      /\ l1' = Missing /\ sameGeneration' = {}
    BY Zenon DEF mutationBegins, invalidateL1, ghosts
<1>3. /\ lookup' \in LookupType /\ OthersStay(c)
      /\ lookup'[c].pc = p /\ lookup'[c].val = lookup[c].val /\ lookup'[c].floor = lookup[c].floor
    BY <1>1, PcUpdate, Zenon DEF CacheInv, CacheTypeOK, LookupPc
<1>4. MovesOn(c)
    BY <1>1, <1>2, <1>3, Zenon DEF CacheInv, CacheTypeOK, Flights, MovesOn, MutatingPc, Updates
<1> QED BY <1>4, MovesOnInv, Zenon

LEMMA RedisKeysInv == ASSUME CacheInv, NEW c \in Caller, redisKeys(c) PROVE CacheInv'
<1>1. PICK p \in {"del", "mutated"} : lookup' = [lookup EXCEPT ![c].pc = p]
    BY Zenon DEF redisKeys
<1>2. /\ UNCHANGED <<l1, l2, origin, lateRead, setter, flight, sameGeneration, ranOut, invalidated, excused, staleAnswer>>
      /\ lookup[c].pc = "keys"
    BY Zenon DEF redisKeys, ghosts
<1>3. /\ lookup' \in LookupType /\ OthersStay(c)
      /\ lookup'[c].pc = p /\ lookup'[c].val = lookup[c].val /\ lookup'[c].floor = lookup[c].floor
    BY <1>1, PcUpdate, Zenon DEF CacheInv, CacheTypeOK, LookupPc
<1>4. MovesOn(c)
    BY <1>2, <1>3, SMTT(30) DEF CacheInv, CacheTypeOK, Flights, MovesOn, MutatingPc, Updates, Missing
<1> QED BY <1>4, MovesOnInv, Zenon

LEMMA MutationFailsInv == ASSUME CacheInv, NEW c \in Caller, mutationFails(c) PROVE CacheInv'
<1>1. /\ lookup' = [lookup EXCEPT ![c].pc = "mutated"] /\ lookup[c].pc \in {"keys", "del", "expire"}
      /\ ~excused' => ~excused /\ lookup[c].pc # "del"
      /\ UNCHANGED <<l1, l2, origin, lateRead, setter, flight, sameGeneration, ranOut, invalidated, staleAnswer>>
    BY Zenon DEF mutationFails
<1>2. /\ lookup' \in LookupType /\ OthersStay(c)
      /\ lookup'[c].pc = "mutated" /\ lookup'[c].val = lookup[c].val /\ lookup'[c].floor = lookup[c].floor
    BY <1>1, PcUpdate, Zenon DEF CacheInv, CacheTypeOK, LookupPc
<1>3. lookup[c].val <= origin
    BY <1>1 DEF CacheInv, CacheTypeOK, Flights, Missing
<1>4. MovesOn(c)
    BY <1>1, <1>2, <1>3 DEF CacheInv, CacheTypeOK, Flights, MovesOn, MutatingPc, Updates, Missing
<1> QED BY <1>4, MovesOnInv, Zenon

\* A value that runs out in Redis is one that L1 may keep.
LEMMA L2ExpiresInv == ASSUME CacheInv, l2Expires PROVE CacheInv'
<1>1. /\ l2 # Missing /\ l2' = Missing /\ ranOut' = ranOut \cup {l2}
      /\ UNCHANGED <<l1, origin, lookup, lateRead, setter, flight, sameGeneration, invalidated, excused, staleAnswer>>
    BY Zenon DEF l2Expires, ghosts
<1>2. CacheTypeOK' /\ Flights'
    BY <1>1, Zenon DEF CacheInv, CacheTypeOK, Flights, Missing
<1>3. Fenced'
    BY <1>1, Zenon DEF CacheInv, Fenced, ReplyFenced, SetFenced, Follows, Mutating, MutatingBut
<1>4. ~excused' => ReadsFresh'
    BY <1>1, Zenon DEF CacheInv, ReadsFresh, CallerFresh, SetterFresh, Fresh, Updating
<1> QED BY <1>1, <1>2, <1>3, <1>4, Zenon DEF CacheInv

\* The fetch returns: its value is the origin's, as the set() it leaves behind.
LEMMA FetchedInv == ASSUME CacheInv, NEW c \in Caller, fetched(c) PROVE CacheInv'
<1> USE NoCallerApart
<1> DEFINE S == answered(c)
<1>1. /\ lookup[c].pc = "fetched" /\ l1' = Missing /\ sameGeneration' = {<<"set", c>>} /\ flight' = NoCaller
      /\ setter' = [setter EXCEPT ![c] = [pc |-> "set", val |-> lookup[c].val]]
      /\ lookup' = [k \in Caller |-> IF k \in S THEN IdleCaller ELSE lookup[k]]
      /\ staleAnswer' = (staleAnswer \/ (~excused /\ \E k \in S : lookup[c].val < lookup[k].floor))
      /\ UNCHANGED <<l2, origin, lateRead, ranOut, invalidated, excused>>
    BY Zenon DEF fetched, respond
<1>2. lookup \in LookupType /\ lookup[c].val \in Nat
    BY Zenon DEF CacheInv, CacheTypeOK, LookupType
<1>3. c \in S /\ \A k \in S : k \in Caller
    BY Zenon DEF answered
<1> HIDE DEF S
<1>4. /\ lookup' \in LookupType
      /\ \A k \in Caller : k \notin S => lookup'[k] = lookup[k]
      /\ \A k \in Caller : k \in S => lookup'[k].pc = "idle" /\ lookup'[k].val = 0 /\ lookup'[k].floor = 0
    BY <1>1, <1>2, Responded, Zenon
<1>5. /\ setter' \in [Caller -> [pc: {"none", "set", "reply"}, val: Nat]]
      /\ setter'[c].pc = "set" /\ setter'[c].val = lookup[c].val
      /\ \A k \in Caller \ {c} : setter'[k] = setter[k]
    BY <1>1, <1>2, Zenon DEF CacheInv, CacheTypeOK
<1>6. CacheTypeOK'
    BY <1>1, <1>4, <1>5, Zenon DEF CacheInv, CacheTypeOK, Missing
<1>7. Fenced'
    BY <1>1, <1>5, Zenon DEF Fenced, ReplyFenced, SetFenced
<1>8. Flights'
    BY <1>1, <1>3, <1>4, SMTT(30) DEF CacheInv, Flights, Missing
<1>9. ASSUME ~excused' PROVE ReadsFresh' /\ \A k \in S : ~(lookup[c].val < lookup[k].floor)
    <2>1. ReadsFresh /\ lookup[c].val = origin
        BY <1>1, <1>9, Zenon DEF CacheInv, ReadsFresh, CallerFresh
    <2>2. ASSUME NEW k \in Caller PROVE CallerFresh(k)'
        <3>1. /\ <<"get", k>> \notin sameGeneration' /\ flight' # k /\ invalidated \in Nat
              /\ UNCHANGED <<l2, origin, invalidated>>
            BY <1>1, Zenon DEF CacheInv, CacheTypeOK
        <3>2. CASE k \in S
            BY <1>4, <3>1, <3>2 DEF CallerFresh
        <3>3. CASE k \notin S
            BY <1>4, <2>1, <3>1, <3>3, Zenon DEF ReadsFresh, CallerFresh
        <3> QED BY <3>2, <3>3, Zenon
    <2>3. ASSUME NEW k \in Caller PROVE SetterFresh(k)'
        BY <1>1, <1>5, <2>1, Zenon DEF CacheInv, CacheTypeOK, ReadsFresh, SetterFresh, Flights, Fresh
    <2>4. Fresh(l1)' /\ Fresh(l2)'
        BY <1>1, <2>1, Zenon DEF ReadsFresh, Fresh
    <2>5. ASSUME NEW k \in S PROVE ~(lookup[c].val < lookup[k].floor)
        <3>1. k \in Caller /\ lookup[k].floor \in Nat /\ lookup[k].floor <= invalidated
            BY <1>2, <1>3, <2>1, Zenon DEF ReadsFresh, CallerFresh, LookupType
        <3> QED BY <2>1, <3>1 DEF CacheInv, CacheTypeOK, Flights
    <2> QED BY <1>1, <2>2, <2>3, <2>4, <2>5, Zenon DEF ReadsFresh
<1>10. ~staleAnswer'
    BY <1>1, <1>9, Zenon DEF CacheInv
<1> QED BY <1>6, <1>7, <1>8, <1>9, <1>10, Zenon DEF CacheInv

LEMMA FetchFnFailsInv == ASSUME CacheInv, NEW c \in Caller, fetchFnFails(c) PROVE CacheInv'
<1> USE NoCallerApart
<1> DEFINE S == {k \in Caller : k = c \/ lookup[k].pc = "wait"}
<1>1. /\ lookup[c].pc = "fetch" /\ flight' = NoCaller
      /\ UNCHANGED <<l1, l2, origin, lateRead, setter, sameGeneration, ranOut, invalidated, excused, staleAnswer>>
    BY Zenon DEF fetchFnFails, ghosts
<1>2. lookup' = [k \in Caller |-> IF k \in S THEN IdleCaller ELSE lookup[k]]
    BY Zenon DEF fetchFnFails
<1>3. c \in S /\ \A k \in S : k = c \/ lookup[k].pc = "wait"
    BY Zenon
<1> HIDE DEF S
<1>4. /\ lookup' \in LookupType
      /\ \A k \in Caller : k \notin S => lookup'[k] = lookup[k]
      /\ \A k \in Caller : k \in S => lookup'[k].pc = "idle" /\ lookup'[k].val = 0 /\ lookup'[k].floor = 0
    BY <1>2, Responded, Zenon DEF CacheInv, CacheTypeOK
<1>5. CacheTypeOK'
    BY <1>1, <1>4, Zenon DEF CacheInv, CacheTypeOK
<1>6. Fenced'
    <2>1. ASSUME NEW k \in Caller
          PROVE  /\ <<"late", k>> \notin sameGeneration'
                 /\ <<"set", k>> \in sameGeneration' => <<"set", k>> \in sameGeneration
                 /\ lookup[k].pc \in MutatingPc => lookup'[k].pc \in MutatingPc
                 /\ KeepsReply(k)
        BY <1>1, <1>3, <1>4, Zenon DEF CacheInv, Fenced, KeepsReply, MutatingPc
    <2> QED BY <1>1, <2>1, QuietIsFenced, Zenon DEF CacheInv
<1>7. Flights'
    BY <1>1, <1>3, <1>4 DEF CacheInv, Flights, Missing
<1>8. ASSUME ~excused' PROVE ReadsFresh'
    <2>1. ReadsFresh /\ Fresh(l1)
        BY <1>1, <1>8, Zenon DEF CacheInv, ReadsFresh
    <2>2. CallerFresh(c)' /\ ~Updates(lookup', c)
        BY <1>1, <1>3, <1>4 DEF CallerFresh, Updates, CacheInv, CacheTypeOK
    <2>3. \A k \in Caller \ {c} : Rests(k)
        BY <1>4, Zenon DEF Rests
    <2>4. UNCHANGED <<l1, l2, origin, invalidated, setter, sameGeneration>> /\ flight' = NoCaller /\ CacheTypeOK
        BY <1>1, Zenon DEF CacheInv
    <2> QED BY <2>1, <2>2, <2>3, <2>4, QuietIsFresh, Zenon
<1> QED BY <1>1, <1>5, <1>6, <1>7, <1>8, ZenonT(40) DEF CacheInv

\* Redis executes the SET of a value that is the origin's unless an update met it.
LEMMA RedisSetInv == ASSUME CacheInv, NEW c \in Caller, redisSet(c) PROVE CacheInv'
<1>1. /\ setter[c].pc = "set" /\ l2' = setter[c].val /\ setter' = [setter EXCEPT ![c].pc = "reply"]
      /\ UNCHANGED <<l1, origin, lookup, lateRead, flight, sameGeneration, invalidated, excused, staleAnswer>>
    BY Zenon DEF redisSet, ghosts
<1>2. /\ setter' \in [Caller -> [pc: {"none", "set", "reply"}, val: Nat]]
      /\ setter'[c].pc = "reply" /\ setter'[c].val = setter[c].val /\ setter[c].val \in Nat
      /\ \A k \in Caller \ {c} : setter'[k] = setter[k]
    BY <1>1, Zenon DEF CacheInv, CacheTypeOK
<1>3. CacheTypeOK' /\ Flights'
    BY <1>1, <1>2, Zenon DEF CacheInv, CacheTypeOK, Flights
<1>4. Mutating' /\ \A k \in Caller \ {c} : MutatingBut(k)'
    BY <1>2, Zenon DEF Mutating, MutatingBut
<1>5. Fenced'
    BY <1>1, <1>2, <1>4, Zenon DEF CacheInv, Fenced, ReplyFenced, SetFenced, Follows
<1>6. ASSUME ~excused' PROVE ReadsFresh'
    <2>1. ReadsFresh /\ setter[c].val = origin
        BY <1>1, <1>6, Zenon DEF CacheInv, ReadsFresh, SetterFresh
    <2>2. origin \in Nat /\ invalidated \in Nat /\ invalidated <= origin /\ l2' = origin
        BY <1>1, <2>1, Zenon DEF CacheInv, CacheTypeOK, Flights
    <2>3. ASSUME NEW k \in Caller PROVE CallerFresh(k)'
        BY <1>1, <2>1, <2>2, Zenon DEF CacheInv, Flights, ReadsFresh, CallerFresh, Fresh
    <2>4. ASSUME NEW k \in Caller PROVE SetterFresh(k)'
        BY <1>1, <1>2, <2>1, Zenon DEF ReadsFresh, SetterFresh, Fresh
    <2>5. Fresh(l1)' /\ Fresh(l2)' /\ (flight' # NoCaller => ~Updating')
        BY <1>1, <2>1, <2>2, Zenon DEF ReadsFresh, Fresh, Updating
    <2> QED BY <2>3, <2>4, <2>5, Zenon DEF ReadsFresh
<1> QED BY <1>1, <1>3, <1>5, <1>6, Zenon DEF CacheInv

\* The set() that comes back, or fails, is no longer out.
LEMMA SetterLeaves ==
    ASSUME CacheInv, NEW c \in Caller, setter' = [setter EXCEPT ![c] = NoCommand], sameGeneration' = {},
           l1' = Missing \/ (<<"set", c>> \in sameGeneration /\ setter[c].pc = "reply" /\ l1' = setter[c].val),
           UNCHANGED <<l2, origin, lookup, lateRead, flight, ranOut, ghosts>>
    PROVE  CacheInv'
<1>1. UNCHANGED <<l2, origin, lookup, lateRead, flight, ranOut, invalidated, excused, staleAnswer>>
    BY Zenon DEF ghosts
<1>2. /\ setter' \in [Caller -> [pc: {"none", "set", "reply"}, val: Nat]]
      /\ setter'[c].pc = "none" /\ l1' \in Nat
      /\ \A k \in Caller \ {c} : setter'[k] = setter[k]
    BY SMTT(30) DEF CacheInv, CacheTypeOK, NoCommand, Missing
<1>3. CacheTypeOK' /\ Flights'
    BY <1>1, <1>2, SMTT(30) DEF CacheInv, CacheTypeOK, Flights
<1>4. MutatingBut(c) => Mutating'
    BY <1>1, <1>2, Zenon DEF Mutating, MutatingBut
<1>5. Fenced'
    <2>1. l1' = Missing \/ Follows(l1', MutatingBut(c))
        BY Zenon DEF CacheInv, Fenced, SetFenced
    <2>2. l1' = Missing \/ Follows(l1, Mutating)'
        BY <1>1, <1>4, <2>1, Zenon DEF Follows
    <2> QED BY <2>2, Zenon DEF Fenced, ReplyFenced, SetFenced
<1>6. ASSUME ~excused' PROVE ReadsFresh'
    <2>1. ReadsFresh
        BY <1>1, <1>6, Zenon DEF CacheInv
    <2>2. ASSUME NEW k \in Caller PROVE CallerFresh(k)'
        BY <1>1, <2>1, Zenon DEF ReadsFresh, CallerFresh, Fresh
    <2>3. ASSUME NEW k \in Caller PROVE SetterFresh(k)'
        BY <1>1, <1>2, <2>1, Zenon DEF ReadsFresh, SetterFresh
    <2>4. Fresh(l1)' /\ Fresh(l2)' /\ (flight' # NoCaller => ~Updating')
        BY <1>1, <2>1, Zenon DEF ReadsFresh, SetterFresh, Fresh, Updating
    <2> QED BY <2>2, <2>3, <2>4, Zenon DEF ReadsFresh
<1> QED BY <1>1, <1>3, <1>5, <1>6, Zenon DEF CacheInv

\* A service writes the origin while no flight is on and no set() is out.
LEMMA UpdateInv == ASSUME CacheInv, NEW c \in Caller, update(c) PROVE CacheInv'
<1>1. /\ lookup[c].pc = "idle" /\ origin' = origin + 1
      /\ lookup' = [lookup EXCEPT ![c] = [pc |-> "written", val |-> origin + 1, floor |-> 0]]
      /\ ~excused' => ~excused /\ flight = NoCaller /\ \A k \in Caller : setter[k].pc # "set"
      /\ UNCHANGED <<l1, l2, lateRead, setter, flight, sameGeneration, ranOut, invalidated, staleAnswer>>
    BY Zenon DEF update
<1>2. origin \in Nat /\ origin + 1 \in Nat /\ invalidated \in Nat
    BY DEF CacheInv, CacheTypeOK
<1>3. /\ lookup' \in LookupType /\ OthersStay(c)
      /\ lookup'[c].pc = "written" /\ lookup'[c].val = origin + 1 /\ lookup'[c].floor = 0
    BY <1>1, <1>2, CallUpdate, Zenon DEF CacheInv, CacheTypeOK, LookupPc
<1>4. CacheTypeOK'
    BY <1>1, <1>2, <1>3, Zenon DEF CacheInv, CacheTypeOK
<1>5. Fenced'
    <2>1. ASSUME NEW k \in Caller
          PROVE  /\ <<"late", k>> \notin sameGeneration'
                 /\ <<"set", k>> \in sameGeneration' => <<"set", k>> \in sameGeneration
                 /\ lookup[k].pc \in MutatingPc => lookup'[k].pc \in MutatingPc
                 /\ KeepsReply(k)
        BY <1>1, <1>3, ZenonT(40) DEF CacheInv, Fenced, KeepsReply, MutatingPc, OthersStay
    <2> QED BY <1>1, <2>1, QuietIsFenced, Zenon DEF CacheInv
<1>6. Flights'
    <2>1. ASSUME NEW k \in Caller \ {c} PROVE lookup'[k] = lookup[k] /\ lookup[k].val \in Nat
        BY <1>3, Zenon DEF OthersStay, CacheInv, CacheTypeOK, LookupType
    <2>2. flight # c
        BY <1>1, Zenon DEF CacheInv, Flights
    <2> QED BY <1>1, <1>2, <1>3, <2>1, <2>2 DEF CacheInv, Flights
<1>7. ASSUME ~excused' PROVE ReadsFresh'
    <2>1. ReadsFresh /\ flight = NoCaller /\ (\A k \in Caller : setter[k].pc # "set")
        BY <1>1, <1>7, Zenon DEF CacheInv
    <2>2. ASSUME NEW k \in Caller PROVE CallerFresh(k)'
        <3>1. CASE k = c
            BY <1>1, <1>2, <1>3, <3>1, SMTT(30) DEF CallerFresh
        <3>2. CASE k # c
            <4>1. CallerFresh(k) /\ lookup'[k] = lookup[k] /\ lookup[k].pc # "fetched"
                BY <1>3, <2>1, <3>2, NoCallerApart, ZenonT(40) DEF ReadsFresh, OthersStay, CacheInv, Flights
            <4> QED BY <1>1, <4>1, ZenonT(40) DEF CallerFresh, Fresh
        <3> QED BY <3>1, <3>2, ZenonT(40)
    <2>3. ASSUME NEW k \in Caller PROVE SetterFresh(k)'
        BY <1>1, <2>1, Zenon DEF ReadsFresh, SetterFresh, Fresh
    <2>4. Fresh(l1)' /\ Fresh(l2)' /\ flight' = NoCaller
        BY <1>1, <2>1, Zenon DEF ReadsFresh, Fresh
    <2> QED BY <2>2, <2>3, <2>4, Zenon DEF ReadsFresh
<1> QED BY <1>1, <1>4, <1>5, <1>6, <1>7, Zenon DEF CacheInv

\* DEL and EXPIRE: the mutation is under way, so L1 may still differ.
LEMMA RedisDeleteInv == ASSUME CacheInv, NEW c \in Caller, redisDelete(c) PROVE CacheInv'
<1>1. /\ (lookup[c].pc = "del" /\ l2' = Missing) \/ (lookup[c].pc = "expire" /\ l2' \in {l2, Missing})
      /\ lookup' = [lookup EXCEPT ![c].pc = "mutated"]
      /\ UNCHANGED <<l1, origin, lateRead, setter, flight, sameGeneration, invalidated, excused, staleAnswer>>
    BY Zenon DEF redisDelete, ghosts
<1>2. /\ lookup' \in LookupType /\ OthersStay(c)
      /\ lookup'[c].pc = "mutated" /\ lookup'[c].val = lookup[c].val /\ lookup'[c].floor = lookup[c].floor
    BY <1>1, PcUpdate, Zenon DEF CacheInv, CacheTypeOK, LookupPc
<1>3. lookup[c].val \in Nat /\ lookup[c].val <= origin /\ (lookup[c].pc = "expire" => lookup[c].val = 0) /\ l2 \in Nat
    BY <1>1 DEF CacheInv, CacheTypeOK, LookupType, Flights, Missing
<1>4. CacheTypeOK'
    BY <1>1, <1>2 DEF CacheInv, CacheTypeOK, Missing
<1>5. Fenced'
    <2>1. Mutating' /\ \A k \in Caller : MutatingBut(k)'
        BY <1>2, Zenon DEF Mutating, MutatingBut
    <2>2. \A k \in Caller : <<"late", k>> \notin sameGeneration'
        BY <1>1, Zenon DEF CacheInv, Fenced
    <2> QED BY <2>1, <2>2, Zenon DEF Fenced, ReplyFenced, SetFenced, Follows
<1>6. Flights'
    BY <1>1, <1>2, <1>3, ZenonT(40) DEF CacheInv, Flights, OthersStay
<1>7. ASSUME ~excused' PROVE ReadsFresh'
    <2>1. ReadsFresh /\ Fresh(l1) /\ CallerFresh(c)
        BY <1>1, <1>7, Zenon DEF CacheInv, ReadsFresh
    <2>2. CallerFresh(c)'
        <3>1. l2' = Missing \/ l2' >= lookup'[c].val
            BY <1>1, <1>2, <1>3
        <3> QED BY <1>1, <1>2, <2>1, <3>1, Zenon DEF CallerFresh
    <2>3. \A k \in Caller \ {c} : Rests(k)
        BY <1>2, Zenon DEF OthersStay, Rests
    <2>4. Updates(lookup', c) => Updates(lookup, c)
        BY <1>1, <1>2, <1>3, Zenon DEF Updates, Missing
    <2>5. /\ UNCHANGED <<l1, origin, invalidated, setter, flight, sameGeneration>> /\ CacheTypeOK
          /\ l2' = l2 \/ l2' = Missing
        BY <1>1, Zenon DEF CacheInv
    <2> QED BY <2>1, <2>2, <2>3, <2>4, <2>5, QuietIsFresh, Zenon
<1> QED BY <1>1, <1>4, <1>5, <1>6, <1>7, Zenon DEF CacheInv

\* A mutation returns: what it has invalidated is nowhere to be read.
LEMMA MutationReturnsInv == ASSUME CacheInv, NEW c \in Caller, mutationReturns(c) PROVE CacheInv'
<1>1. /\ lookup[c].pc = "mutated" /\ l1' = Missing /\ sameGeneration' = {}
      /\ lookup' = [lookup EXCEPT ![c] = [pc |-> "idle", val |-> 0, floor |-> 0]]
      /\ invalidated' = IF excused THEN 0 ELSE laterUpdate(lookup[c].val)
      /\ UNCHANGED <<l2, origin, lateRead, setter, flight, ranOut, excused, staleAnswer>>
    BY Zenon DEF mutationReturns, invalidateL1, IdleCaller, Missing
<1>2. /\ lookup' \in LookupType /\ OthersStay(c)
      /\ lookup'[c].pc = "idle" /\ lookup'[c].val = 0 /\ lookup'[c].floor = 0
    BY <1>1, CallUpdate, Zenon DEF CacheInv, CacheTypeOK, LookupPc
<1>3. /\ origin \in Nat /\ invalidated \in Nat /\ lookup[c].val \in Nat /\ l2 \in Nat
      /\ invalidated <= origin /\ lookup[c].val <= origin /\ flight # c
    BY <1>1, Zenon DEF CacheInv, CacheTypeOK, LookupType, Flights
<1>4. /\ invalidated' \in Nat /\ invalidated' <= origin
      /\ ~excused => invalidated' >= invalidated
      /\ ~excused /\ lookup[c].val = 0 => invalidated' = invalidated
      /\ ~excused => invalidated' = invalidated \/ invalidated' = lookup[c].val
    BY <1>1, <1>3, SMTT(30) DEF laterUpdate
<1>5. CacheTypeOK'
    BY <1>1, <1>2, <1>4, Zenon DEF CacheInv, CacheTypeOK, Missing
<1>6. Fenced'
    BY <1>1, EmptyIsFenced, Zenon
<1>7. Flights'
    BY <1>1, <1>2, <1>3, <1>4, ZenonT(40) DEF CacheInv, Flights, OthersStay, Missing
<1>8. ASSUME ~excused' PROVE ReadsFresh'
    <2>1. ReadsFresh /\ CallerFresh(c) /\ ~excused
        BY <1>1, <1>8, Zenon DEF CacheInv, ReadsFresh
    <2>2. Fresh(l1)' /\ Fresh(l2)'
        BY <1>1, <1>3, <1>4, <2>1, Zenon DEF ReadsFresh, CallerFresh, Fresh, Missing
    <2>3. ASSUME NEW k \in Caller, flight = k PROVE invalidated' = invalidated
        <3>1. lookup[c].val = Missing
            BY <1>1, <2>1, <2>3, NoCallerApart, Zenon DEF ReadsFresh, Updating
        <3> QED BY <1>4, <2>1, <3>1, Zenon DEF Missing
    <2>4. ASSUME NEW k \in Caller PROVE CallerFresh(k)'
        <3>1. CASE k = c
            BY <1>1, <1>2, <1>4, <3>1 DEF CallerFresh
        <3>2. CASE k # c
            <4>1. CallerFresh(k) /\ lookup'[k] = lookup[k] /\ lookup[k].floor \in Nat
                BY <1>2, <2>1, <3>2, ZenonT(40) DEF ReadsFresh, OthersStay, CacheInv, CacheTypeOK, LookupType
            <4>2. lookup'[k].floor <= invalidated'
                BY <1>3, <1>4, <2>1, <4>1 DEF CallerFresh
            <4>3. <<"get", k>> \notin sameGeneration' /\ flight' = flight /\ l2' = l2 /\ origin' = origin
                BY <1>1, Zenon
            <4> QED BY <2>3, <4>1, <4>2, <4>3, Zenon DEF CallerFresh, Fresh
        <3> QED BY <3>1, <3>2, Zenon
    <2>5. ASSUME NEW k \in Caller PROVE SetterFresh(k)'
        BY <1>1, <2>1, Zenon DEF ReadsFresh, SetterFresh
    <2>6. flight' # NoCaller => ~Updating'
        <3>1. Updating' => Updating
            BY <1>2, Zenon DEF Updating, OthersStay
        <3> QED BY <1>1, <2>1, <3>1, Zenon DEF ReadsFresh
    <2> QED BY <2>2, <2>4, <2>5, <2>6, Zenon DEF ReadsFresh
<1> QED BY <1>1, <1>5, <1>6, <1>7, <1>8, Zenon DEF CacheInv

LEMMA CacheInitInv == ASSUME CacheInit PROVE CacheInv
<1>1. CacheTypeOK
    BY Zenon DEF CacheInit, CacheTypeOK, LookupType, LookupPc, IdleCaller, NoCommand, Missing
<1>2. /\ \A c \in Caller : /\ lookup[c].pc = "idle" /\ lookup[c].val = 0 /\ lookup[c].floor = 0
                           /\ setter[c].pc = "none"
      /\ sameGeneration = {} /\ l1 = Missing /\ l2 = Missing /\ invalidated = 0 /\ origin = 1
      /\ flight = NoCaller /\ ~staleAnswer
    BY Zenon DEF CacheInit, IdleCaller, NoCommand, Missing
<1>3. Fenced
    BY <1>2, Zenon DEF Fenced, ReplyFenced, SetFenced
<1>4. Flights
    BY <1>2, NoCallerApart, SMTT(30) DEF Flights, Missing
<1>5. ReadsFresh
    BY <1>2 DEF ReadsFresh, Fresh, CallerFresh, SetterFresh, Updating
<1> QED BY <1>1, <1>2, <1>3, <1>4, <1>5, Zenon DEF CacheInv

LEMMA CacheStepInv == ASSUME CacheInv, [CacheNext]_cacheVars PROVE CacheInv'
<1>1. CASE UNCHANGED cacheVars
    <2>1. UNCHANGED <<l1, l2, origin, lookup, lateRead, setter, flight, sameGeneration, ranOut, ghosts>>
        BY <1>1, Zenon DEF cacheVars
    <2> QED BY <2>1, LateOnly, Zenon DEF CacheInv, CacheTypeOK
<1>2. CASE l1Evicts
    BY <1>2, LateOnly, Zenon DEF l1Evicts, CacheInv, CacheTypeOK
<1>3. CASE l2Expires
    BY <1>3, L2ExpiresInv, Zenon
<1>4. ASSUME NEW c \in Caller, getOrFetch(c) PROVE CacheInv'
    <2>1. (IF excused THEN 0 ELSE invalidated) \in Nat
        BY Zenon DEF CacheInv, CacheTypeOK
    <2>2. ~excused => (IF excused THEN 0 ELSE invalidated) <= invalidated
        BY DEF CacheInv, CacheTypeOK
    <2> QED BY <1>4, <2>1, <2>2, GetInv, Zenon DEF getOrFetch
<1>5. ASSUME NEW c \in Caller, getReply(c) PROVE CacheInv'
    BY <1>5, HitInv, MissInv, Zenon
<1>6. ASSUME NEW c \in Caller, setReply(c) \/ setFails(c) PROVE CacheInv'
    BY <1>6, SetterLeaves, Zenon DEF setReply, setFails, invalidateL1
<1>7. ASSUME NEW c \in Caller,
             \/ redisGet(c) \/ lateReply(c) \/ getFails(c) \/ singleflightDo(c) \/ fetchFn(c) \/ fetched(c)
             \/ fetchFnFails(c) \/ redisSet(c) \/ update(c)
      PROVE  CacheInv'
    BY <1>7, RedisGetInv, LateReplyInv, GetFailsInv, SingleflightInv, FetchFnInv, FetchedInv, FetchFnFailsInv,
       RedisSetInv, UpdateInv, Zenon
<1>8. ASSUME NEW c \in Caller,
             mutationBegins(c) \/ redisKeys(c) \/ redisDelete(c) \/ mutationReturns(c) \/ mutationFails(c)
      PROVE  CacheInv'
    BY <1>8, MutationBeginsInv, RedisKeysInv, RedisDeleteInv, MutationReturnsInv, MutationFailsInv, Zenon
<1> QED BY <1>1, <1>2, <1>3, <1>4, <1>5, <1>6, <1>7, <1>8, Zenon DEF CacheNext

(***************************************************************************)
(* The fence of the generations and the flight (get, set, delete,          *)
(* getOrFetch of the cache service), whatever the order of replies,        *)
(* timeouts, expiries and mutations, for any number of callers.            *)
(***************************************************************************)
THEOREM CacheInvariant == CacheSpec => []CacheInv
BY CacheInitInv, CacheStepInv, PTL DEF CacheSpec

(***************************************************************************)
(* L1 holds the value of Redis, but for a mutation that has not returned   *)
(* and a value that ran out in Redis (the generation checks of get and     *)
(* set).                                                                   *)
(***************************************************************************)
THEOREM L1HoldsWhatRedisHolds == CacheSpec => []L1FollowsRedis
<1>1. CacheInv => L1FollowsRedis
    BY Zenon DEF CacheInv, Fenced, Follows, L1FollowsRedis
<1> QED BY <1>1, CacheInvariant, PTL

(***************************************************************************)
(* A getOrFetch that begins after an update was invalidated never answers  *)
(* with an older version, unless an update raced a flight or a delete      *)
(* failed.                                                                 *)
(***************************************************************************)
THEOREM ReadsSeeInvalidatedWrites == CacheSpec => []ReadAfterWrite
<1>1. CacheInv => ReadAfterWrite
    BY Zenon DEF CacheInv, ReadAfterWrite
<1> QED BY <1>1, CacheInvariant, PTL

(***************************************************************************)
(* The idempotency middleware.                                             *)
(***************************************************************************)

\* The effect that answers request r: r's own, or that of the same request
\* sent before.
Effect(r) == \E q \in executed : BoundKeyHash[q] = BoundKeyHash[r]

(***************************************************************************)
(* Every answer that a lookup may find and every answer that a save may    *)
(* still store goes back to an effect: the stored record has one, and a    *)
(* save that is in progress stores the answer of a request that has one.   *)
(***************************************************************************)
IdempotencyInv ==
    /\ record \in Request \cup {Nobody}
    /\ \A s \in saves : s[1] \in Request
    /\ code \in [Request -> Code \cup {"none"}]
    /\ record # Nobody => Effect(record)
    /\ SuccessIsOwn

\* What res.json does to answers and saves (json).
LEMMA JsonAnswers ==
    ASSUME IdempotencyInv, NEW r \in Request, NEW k \in Code, NEW l, NEW S, json(r, k, l, S)
    PROVE  /\ \A s \in saves' : s[1] \in Request
           /\ code' = [code EXCEPT ![r] = k]
<1> USE DEF json
<1>1. code' = [code EXCEPT ![r] = k]
    BY Zenon
<1>2. \A s \in saves' : s \in saves \/ s[1] = r
    BY Zenon
<1> QED BY <1>1, <1>2, Zenon DEF IdempotencyInv

LEMMA IdempotencyStepInv == IdempotencyInv /\ [IdempotencyNext]_idempotencyVars => IdempotencyInv'
<1> SUFFICES ASSUME IdempotencyInv, [IdempotencyNext]_idempotencyVars PROVE IdempotencyInv'
    BY Zenon
<1> USE DEF IdempotencyInv, SuccessIsOwn, Effect
<1>1. ASSUME NEW r \in Request, arrive(r) PROVE IdempotencyInv'
    BY <1>1, ZenonT(40) DEF arrive
<1>2. ASSUME NEW r \in Request, findByKey(r) PROVE IdempotencyInv'
    <2>1. CASE record = Nobody
        BY <1>2, <2>1, ZenonT(40) DEF findByKey
    <2>2. CASE record # Nobody
        <3> DEFINE k == IF constantTimeEquals(r) THEN "success" ELSE "client_error"
        <3>1. json(r, k, layer[r] - 1, {<<r, layer[r]>>}) /\ UNCHANGED <<record, executed>>
            BY <1>2, <2>2, ZenonT(40) DEF findByKey
        <3>2. k \in Code
            BY ZenonT(40) DEF Code
        <3>3. (\A s \in saves' : s[1] \in Request) /\ code' = [code EXCEPT ![r] = k]
            BY <3>1, <3>2, JsonAnswers, Zenon
        <3>4. k = "success" => Effect(r)
            BY <2>2, Zenon DEF constantTimeEquals
        <3> QED BY <3>1, <3>2, <3>3, <3>4, ZenonT(40)
    <2> QED BY <2>1, <2>2, Zenon
<1>3. ASSUME NEW r \in Request, findByKeyFails(r) PROVE IdempotencyInv'
    <2>1. json(r, "server_error", layer[r] - 1, {<<r, layer[r]>>}) /\ UNCHANGED <<record, executed>>
        BY <1>3, Zenon DEF findByKeyFails
    <2>2. (\A s \in saves' : s[1] \in Request) /\ code' = [code EXCEPT ![r] = "server_error"]
        BY <2>1, JsonAnswers, ZenonT(40) DEF Code
    <2> QED BY <2>1, <2>2, Zenon DEF Code
<1>4. ASSUME NEW r \in Request, close(r) PROVE IdempotencyInv'
    BY <1>4, Zenon DEF close
<1>5. ASSUME NEW r \in Request, NEW k \in Code, handler(r, k) PROVE IdempotencyInv'
    <2>1. /\ json(r, k, Layers, {}) /\ UNCHANGED record
          /\ executed' = IF k = "success" THEN executed \cup {r} ELSE executed
        BY <1>5, Zenon DEF handler
    <2>2. (\A s \in saves' : s[1] \in Request) /\ code' = [code EXCEPT ![r] = k]
        BY <2>1, JsonAnswers, Zenon
    <2> QED BY <2>1, <2>2, ZenonT(40)
<1>6. ASSUME NEW s \in saves, save(s) PROVE IdempotencyInv'
    BY <1>6, Zenon DEF save, savedRecord
<1>7. CASE UNCHANGED idempotencyVars
    BY <1>7, Zenon DEF idempotencyVars
<1> QED BY <1>1, <1>2, <1>3, <1>4, <1>5, <1>6, <1>7, Zenon DEF IdempotencyNext

(***************************************************************************)
(* A request is told of success only if it, or the same request sent       *)
(* before, had its effect (findByKey, constantTimeEquals and save of the   *)
(* idempotency middleware): for any number of requests and of layers,      *)
(* failing saves and lookups and clients that hang up early included.      *)
(***************************************************************************)
THEOREM SuccessIsAlwaysOwn == IdempotencySpec => []SuccessIsOwn
<1>1. IdempotencyInit => IdempotencyInv
    BY Zenon DEF IdempotencyInit, IdempotencyInv, SuccessIsOwn
<1>2. IdempotencyInv => SuccessIsOwn
    BY Zenon DEF IdempotencyInv
<1> QED BY <1>1, <1>2, IdempotencyStepInv, PTL DEF IdempotencySpec

(***************************************************************************)
(* Retries of a route that mounts the middleware once, as long as every    *)
(* request so far was answered with success and no lookup or save failed.  *)
(***************************************************************************)
AllSucceeded == saveFailures = 0 /\ \A r \in Request : code[r] \in {"none", "success"}

ReqPlace == {"new", "await", "lookup", "handler", "answered"}

\* Where the requests are; one that is not answered yet has no code.
RequestsOK ==
    /\ saveFailures \in Nat /\ reqAt \in [Request -> ReqPlace]
    /\ code \in [Request -> Code \cup {"none"}] /\ layer \in [Request -> Nat]
    /\ DOMAIN waitsFor = Request
    /\ \A r \in Request : (reqAt[r] # "new" => layer[r] = 1) /\ (reqAt[r] # "answered" => code[r] = "none")

\* Nobody has come.
Untouched ==
    /\ record = Nobody /\ inFlightKeys = Nobody /\ heldSlots = {} /\ saves = {} /\ executed = {}
    /\ \A r \in Request : reqAt[r] = "new"

\* The request r has the slot, and all others wait for it.
Begun(r) ==
    /\ record = Nobody /\ inFlightKeys = <<r, 1>> /\ heldSlots = {<<r, 1>>}
    /\ \A q \in Request \ {r} : reqAt[q] # "new" => reqAt[q] = "await" /\ waitsFor[q] = <<r, 1>>
    /\ \/ reqAt[r] \in {"lookup", "handler"} /\ saves = {} /\ executed = {}
       \/ /\ reqAt[r] = "answered" /\ code[r] = "success" /\ executed = {r}
          /\ saves = {<<r, 1, 1>>, <<r, 1, 2>>}

\* The answer of r is stored: whoever looks from now on finds it.
Stored(r) ==
    /\ executed = {r} /\ code[r] = "success" /\ record = r
    /\ \A q \in Request : reqAt[q] # "handler"
    /\ \A s \in saves : s[1] = r

Stages == Untouched \/ \E r \in Request : Begun(r) \/ Stored(r)

RetryInv == RequestsOK /\ (AllSucceeded => Stages)

\* A release moves only requests that wait, and those to their lookup.
LEMMA ReleaseMoves ==
    ASSUME NEW S, NEW where \in [Request -> ReqPlace], ReleaseAll(S, where)
    PROVE  /\ reqAt' \in [Request -> ReqPlace]
           /\ \A q \in Request : reqAt'[q] = where[q] \/ (where[q] = "await" /\ reqAt'[q] = "lookup")
<1> DEFINE woken == {r \in Request : where[r] = "await" /\ waitsFor[r] \in S \cap heldSlots}
<1>1. reqAt' = [r \in Request |-> IF r \in woken THEN "lookup" ELSE where[r]]
    BY Zenon DEF ReleaseAll
<1>2. \A r \in Request : r \in woken => where[r] = "await"
    BY Zenon
<1> HIDE DEF woken
<1>3. "lookup" \in ReqPlace
    BY Zenon DEF ReqPlace
<1> QED BY <1>1, <1>2, <1>3, Zenon

\* A release of nothing.
LEMMA ReleaseNothing ==
    ASSUME NEW where \in [Request -> ReqPlace], ReleaseAll({}, where)
    PROVE  reqAt' = where /\ heldSlots' = heldSlots /\ inFlightKeys' = inFlightKeys
<1> DEFINE woken == {r \in Request : where[r] = "await" /\ waitsFor[r] \in {} \cap heldSlots}
           mine == {<<r, layer[r]>> : r \in woken}
<1>1. woken = {} BY Zenon
<1>2. mine = {} BY <1>1, Zenon
<1>3. /\ heldSlots' = (heldSlots \ {}) \cup mine
      /\ reqAt' = [r \in Request |-> IF r \in woken THEN "lookup" ELSE where[r]]
      /\ IF mine = {} THEN inFlightKeys' = IF inFlightKeys \in {} THEN Nobody ELSE inFlightKeys
                      ELSE \E s \in mine : inFlightKeys' = s
    BY Zenon DEF ReleaseAll
<1> HIDE DEF woken, mine
<1>4. heldSlots' = heldSlots /\ inFlightKeys' = inFlightKeys BY <1>2, <1>3, Zenon
<1>5. reqAt' = [r \in Request |-> where[r]] BY <1>1, <1>3, Zenon
<1>6. where = [r \in Request |-> where[r]] BY Zenon
<1> QED BY <1>4, <1>5, <1>6, Zenon

\* An answer is given once, so that answers that are all successes now were before.
LEMMA AnsweredTyped ==
    ASSUME RequestsOK, NEW r \in Request, NEW k \in Code, NEW l, NEW S, json(r, k, l, S),
           reqAt[r] \in {"lookup", "handler"}, UNCHANGED <<layer, waitsFor>>, saveFailures' \in Nat
    PROVE  /\ RequestsOK'
           /\ saveFailures' = saveFailures => (AllSucceeded' => AllSucceeded)
           /\ AllSucceeded' => k = "success"
           /\ \A q \in Request : reqAt'[q] = "handler" => reqAt[q] = "handler" /\ q # r
<1> DEFINE where == [reqAt EXCEPT ![r] = "answered"]
<1>1. /\ reqAt \in [Request -> ReqPlace] /\ layer \in [Request -> Nat] /\ DOMAIN waitsFor = Request
      /\ code \in [Request -> Code \cup {"none"}]
      /\ \A q \in Request : (reqAt[q] # "new" => layer[q] = 1) /\ (reqAt[q] # "answered" => code[q] = "none")
    BY Zenon DEF RequestsOK
<1>2. "answered" \in ReqPlace BY Zenon DEF ReqPlace
<1>3. where \in [Request -> ReqPlace] /\ where[r] = "answered" /\ \A q \in Request \ {r} : where[q] = reqAt[q]
    BY <1>1, <1>2, Zenon
<1>4. (\E T : ReleaseAll(T, where)) /\ code' = [code EXCEPT ![r] = k]
    BY Zenon DEF json
<1> HIDE DEF where
<1>5. /\ reqAt' \in [Request -> ReqPlace]
      /\ \A q \in Request : reqAt'[q] = where[q] \/ (where[q] = "await" /\ reqAt'[q] = "lookup")
    BY <1>3, <1>4, ReleaseMoves, Zenon
<1>6. /\ "answered" \notin {"await", "handler"} /\ "lookup" \notin {"new", "answered", "handler"}
      /\ "handler" \notin {"new", "answered", "await"} /\ "await" \notin {"new", "answered"}
    BY Zenon
<1>7. reqAt'[r] = "answered" BY <1>3, <1>5, <1>6, Zenon
<1>8. code' \in [Request -> Code \cup {"none"}] /\ code'[r] = k /\ \A q \in Request \ {r} : code'[q] = code[q]
    BY <1>1, <1>4, Zenon
<1>9. reqAt[r] # "new" /\ code[r] = "none" BY <1>1, <1>6, Zenon
<1>10. ASSUME NEW q \in Request
       PROVE  (reqAt'[q] # "new" => layer'[q] = 1) /\ (reqAt'[q] # "answered" => code'[q] = "none")
    <2>1. CASE q = r
        BY <1>1, <1>7, <1>9, <2>1, Zenon
    <2>2. CASE q # r
        <3>1. reqAt'[q] = reqAt[q] \/ (reqAt[q] = "await" /\ reqAt'[q] = "lookup") BY <1>3, <1>5, <2>2, Zenon
        <3>2. code'[q] = code[q] /\ layer'[q] = layer[q] BY <1>8, <2>2, Zenon
        <3> QED BY <1>1, <1>6, <3>1, <3>2, Zenon
    <2> QED BY <2>1, <2>2, Zenon
<1>11. RequestsOK' BY <1>1, <1>5, <1>8, <1>10, Zenon DEF RequestsOK
<1>12. AllSucceeded' => k = "success"
    <2>1. k # "none" BY Zenon DEF Code
    <2> QED BY <1>8, <2>1, Zenon DEF AllSucceeded
<1>13. saveFailures' = saveFailures => (AllSucceeded' => AllSucceeded)
    BY <1>8, <1>9, Zenon DEF AllSucceeded
<1>14. \A q \in Request : reqAt'[q] = "handler" => reqAt[q] = "handler" /\ q # r
    BY <1>3, <1>5, <1>6, <1>7, Zenon
<1> QED BY <1>11, <1>12, <1>13, <1>14, Zenon

\* A release without an answer (save, close).
LEMMA ReleasedTyped ==
    ASSUME RequestsOK, NEW S, ReleaseAll(S, reqAt), UNCHANGED <<layer, waitsFor, code>>, saveFailures' \in Nat
    PROVE  RequestsOK' /\ \A q \in Request : reqAt'[q] = "handler" => reqAt[q] = "handler"
<1>1. /\ reqAt \in [Request -> ReqPlace]
      /\ \A q \in Request : (reqAt[q] # "new" => layer[q] = 1) /\ (reqAt[q] # "answered" => code[q] = "none")
    BY Zenon DEF RequestsOK
<1>2. /\ reqAt' \in [Request -> ReqPlace]
      /\ \A q \in Request : reqAt'[q] = reqAt[q] \/ (reqAt[q] = "await" /\ reqAt'[q] = "lookup")
    BY <1>1, ReleaseMoves, Zenon
<1>3. "lookup" \notin {"new", "answered", "handler"} /\ "await" \notin {"new", "answered"}
    BY Zenon
<1>4. \A q \in Request : (reqAt'[q] # "new" => layer'[q] = 1) /\ (reqAt'[q] # "answered" => code'[q] = "none")
    BY <1>1, <1>2, <1>3, Zenon
<1> QED BY <1>2, <1>3, <1>4, Zenon DEF RequestsOK

\* A request arrives: what it finds in the map, and what it leaves alone.
LEMMA ArriveTyped ==
    ASSUME RequestsOK, NEW r \in Request, arrive(r)
    PROVE  /\ RequestsOK' /\ reqAt[r] = "new" /\ UNCHANGED <<record, saves, code, executed, saveFailures>>
           /\ \A q \in Request \ {r} : reqAt'[q] = reqAt[q] /\ waitsFor'[q] = waitsFor[q]
           /\ \/ /\ inFlightKeys # Nobody /\ UNCHANGED <<inFlightKeys, heldSlots>>
                 /\ reqAt'[r] = "await" /\ waitsFor'[r] = inFlightKeys
              \/ /\ inFlightKeys = Nobody /\ inFlightKeys' = <<r, 1>> /\ heldSlots' = heldSlots \cup {<<r, 1>>}
                 /\ reqAt'[r] = "lookup"
<1>1. /\ reqAt[r] = "new" /\ layer' = [layer EXCEPT ![r] = 1]
      /\ UNCHANGED <<record, saves, code, executed, saveFailures>>
      /\ \/ /\ inFlightKeys # Nobody /\ waitsFor' = [waitsFor EXCEPT ![r] = inFlightKeys]
            /\ reqAt' = [reqAt EXCEPT ![r] = "await"] /\ UNCHANGED <<inFlightKeys, heldSlots>>
         \/ /\ inFlightKeys = Nobody /\ inFlightKeys' = <<r, 1>> /\ heldSlots' = heldSlots \cup {<<r, 1>>}
            /\ reqAt' = [reqAt EXCEPT ![r] = "lookup"] /\ UNCHANGED waitsFor
    BY Zenon DEF arrive, waitForInFlight
<1>2. /\ reqAt \in [Request -> ReqPlace] /\ layer \in [Request -> Nat] /\ DOMAIN waitsFor = Request
      /\ \A q \in Request : (reqAt[q] # "new" => layer[q] = 1) /\ (reqAt[q] # "answered" => code[q] = "none")
    BY Zenon DEF RequestsOK
<1>3. /\ "await" \in ReqPlace /\ "lookup" \in ReqPlace /\ "await" \notin {"handler", "answered", "lookup", "new"}
      /\ "lookup" \notin {"handler", "answered", "new"}
      /\ "new" \notin {"lookup", "handler", "answered"}
    BY Zenon DEF ReqPlace
<1>4. /\ reqAt' \in [Request -> ReqPlace] /\ reqAt'[r] \in {"await", "lookup"}
      /\ \A q \in Request \ {r} : reqAt'[q] = reqAt[q]
    BY <1>1, <1>2, <1>3, ZenonT(40)
<1>5. layer'[r] = 1 /\ (\A q \in Request \ {r} : layer'[q] = layer[q]) /\ layer' \in [Request -> Nat]
    <2>1. 1 \in Nat OBVIOUS
    <2> QED BY <1>1, <1>2, <2>1, Zenon
<1>6. DOMAIN waitsFor' = Request /\ \A q \in Request \ {r} : waitsFor'[q] = waitsFor[q]
    BY <1>1, <1>2, Zenon
<1>7. ASSUME NEW q \in Request
      PROVE  (reqAt'[q] # "new" => layer'[q] = 1) /\ (reqAt'[q] # "answered" => code'[q] = "none")
    <2>1. CASE q = r
        <3>1. code'[r] = "none" BY <1>1, <1>2, <1>3, Zenon
        <3> QED BY <1>5, <2>1, <3>1, Zenon
    <2>2. CASE q # r
        <3>1. reqAt'[q] = reqAt[q] /\ layer'[q] = layer[q] /\ code' = code BY <1>1, <1>4, <1>5, <2>2, Zenon
        <3> QED BY <1>2, <3>1, Zenon
    <2> QED BY <2>1, <2>2, Zenon
<1>8. RequestsOK'
    BY <1>1, <1>4, <1>5, <1>6, <1>7, Zenon DEF RequestsOK
<1>9. /\ reqAt' = [reqAt EXCEPT ![r] = "await"] => reqAt'[r] = "await"
      /\ reqAt' = [reqAt EXCEPT ![r] = "lookup"] => reqAt'[r] = "lookup"
      /\ waitsFor' = [waitsFor EXCEPT ![r] = inFlightKeys] => waitsFor'[r] = inFlightKeys
    BY <1>2, Zenon
<1> QED BY <1>1, <1>4, <1>6, <1>8, <1>9, Zenon

\* The first to come takes the slot; the others wait for it.
LEMMA ArriveOnce == ASSUME Layers = 1, RetryInv, NEW r \in Request, arrive(r) PROVE RetryInv'
<1>0. RequestsOK BY Zenon DEF RetryInv
<1>1. /\ RequestsOK' /\ reqAt[r] = "new" /\ UNCHANGED <<record, saves, code, executed, saveFailures>>
      /\ \A q \in Request \ {r} : reqAt'[q] = reqAt[q] /\ waitsFor'[q] = waitsFor[q]
      /\ \/ /\ inFlightKeys # Nobody /\ UNCHANGED <<inFlightKeys, heldSlots>>
            /\ reqAt'[r] = "await" /\ waitsFor'[r] = inFlightKeys
         \/ /\ inFlightKeys = Nobody /\ inFlightKeys' = <<r, 1>> /\ heldSlots' = heldSlots \cup {<<r, 1>>}
            /\ reqAt'[r] = "lookup"
    BY <1>0, ArriveTyped, Zenon
<1>2. /\ "await" \notin {"handler", "new"} /\ "lookup" \notin {"handler", "new"}
      /\ "new" \notin {"lookup", "handler", "answered"}
    BY Zenon
<1>3. AllSucceeded' => AllSucceeded
    BY <1>1, Zenon DEF AllSucceeded
<1>4. CASE Untouched
    <2>1. inFlightKeys' = <<r, 1>> /\ heldSlots' = {<<r, 1>>} /\ reqAt'[r] = "lookup"
        BY <1>1, <1>4, Zenon DEF Untouched
    <2>2. \A q \in Request \ {r} : reqAt'[q] = "new"
        BY <1>1, <1>4, Zenon DEF Untouched
    <2>3. Begun(r)' BY <1>1, <1>4, <2>1, <2>2, Zenon DEF Untouched, Begun
    <2> QED BY <1>1, <2>3, Zenon DEF RetryInv, Stages
<1>5. ASSUME NEW p \in Request, Begun(p) PROVE Begun(p)'
    <2>1. p # r BY <1>1, <1>2, <1>5, Zenon DEF Begun
    <2>2. <<p, 1>> # Nobody BY NobodyApart DEF Slot
    <2>3. reqAt'[r] = "await" /\ waitsFor'[r] = <<p, 1>> /\ UNCHANGED <<inFlightKeys, heldSlots>>
        BY <1>1, <1>5, <2>2, Zenon DEF Begun
    <2>4. \A q \in Request \ {p} : reqAt'[q] # "new" => reqAt'[q] = "await" /\ waitsFor'[q] = <<p, 1>>
        BY <1>1, <1>5, <2>3, Zenon DEF Begun
    <2> QED BY <1>1, <1>5, <2>1, <2>3, <2>4, Zenon DEF Begun
<1>6. ASSUME NEW p \in Request, Stored(p) PROVE Stored(p)'
    BY <1>1, <1>2, <1>6, Zenon DEF Stored
<1> QED BY <1>1, <1>3, <1>4, <1>5, <1>6, Zenon DEF RetryInv, Stages

\* A lookup that finds nothing is that of the only request that has begun.
LEMMA FindOnce ==
    ASSUME Layers = 1, RetryInv, NEW r \in Request, findByKey(r)
    PROVE  RetryInv'
<1>0. RequestsOK /\ saveFailures' = saveFailures /\ saveFailures' \in Nat /\ reqAt[r] = "lookup"
    BY Zenon DEF RetryInv, RequestsOK, findByKey
<1>1. /\ reqAt \in [Request -> ReqPlace] /\ layer[r] = 1
      /\ \A q \in Request : (reqAt[q] # "new" => layer[q] = 1) /\ (reqAt[q] # "answered" => code[q] = "none")
    <2>1. "lookup" # "new" BY Zenon
    <2> QED BY <1>0, <2>1, Zenon DEF RequestsOK
<1>2. /\ "handler" \in ReqPlace /\ "handler" \notin {"new", "answered", "await", "lookup"}
      /\ "lookup" \notin {"new", "answered", "await"}
    BY Zenon DEF ReqPlace
<1>3. CASE record # Nobody
    <2> DEFINE k == IF constantTimeEquals(r) THEN "success" ELSE "client_error"
    <2>1. /\ json(r, k, layer[r] - 1, {<<r, layer[r]>>})
          /\ UNCHANGED <<waitsFor, layer, record, executed>>
        BY <1>3, Zenon DEF findByKey
    <2>2. k \in Code BY Zenon DEF Code
    <2>3. layer[r] - 1 = 0 /\ 1..0 = {} BY <1>1
    <2>4. saves' = saves /\ code' = [code EXCEPT ![r] = k]
        <3>1. (\E T : saves' = saves \cup ({r} \X (1..0) \X T)) /\ code' = [code EXCEPT ![r] = k]
            BY <2>1, <2>3, Zenon DEF json
        <3>2. \A T : {r} \X (1..0) \X T = {} BY <2>3, Zenon
        <3> QED BY <3>1, <3>2, Zenon
    <2> HIDE DEF k
    <2>5. /\ RequestsOK' /\ (AllSucceeded' => AllSucceeded)
          /\ \A q \in Request : reqAt'[q] = "handler" => reqAt[q] = "handler" /\ q # r
        BY <1>0, <2>1, <2>2, AnsweredTyped, Zenon
    <2>6. ASSUME AllSucceeded' PROVE Stages'
        <3>1. ~Untouched /\ \A p \in Request : ~Begun(p) BY <1>3, Zenon DEF Untouched, Begun
        <3>2. PICK p \in Request : Stored(p) BY <2>5, <2>6, <3>1, Zenon DEF RetryInv, Stages
        <3>3. p # r
            <4>1. "success" # "none" BY Zenon
            <4> QED BY <1>0, <1>1, <1>2, <3>2, <4>1, Zenon DEF Stored
        <3>4. code'[p] = "success"
            BY <1>0, <2>4, <3>2, <3>3, Zenon DEF Stored, RequestsOK
        <3>5. \A q \in Request : reqAt'[q] # "handler" BY <2>5, <3>2, Zenon DEF Stored
        <3>6. Stored(p)' BY <2>1, <2>4, <3>2, <3>4, <3>5, Zenon DEF Stored
        <3> QED BY <3>6, Zenon DEF Stages
    <2> QED BY <2>5, <2>6, Zenon DEF RetryInv
<1>4. CASE record = Nobody
    <2>1. /\ reqAt' = [reqAt EXCEPT ![r] = "handler"]
          /\ UNCHANGED <<inFlightKeys, heldSlots, waitsFor, layer, saves, code, record, executed>>
        <3>1. ~(layer[r] < Layers) BY <1>1
        <3> QED BY <1>4, <3>1, Zenon DEF findByKey
    <2>2. /\ reqAt' \in [Request -> ReqPlace] /\ reqAt'[r] = "handler"
          /\ \A q \in Request \ {r} : reqAt'[q] = reqAt[q]
        BY <1>1, <1>2, <2>1, Zenon
    <2>3. ASSUME NEW q \in Request
          PROVE  (reqAt'[q] # "new" => layer'[q] = 1) /\ (reqAt'[q] # "answered" => code'[q] = "none")
        <3>1. CASE q = r BY <1>0, <1>1, <1>2, <2>1, <3>1, Zenon
        <3>2. CASE q # r BY <1>1, <2>1, <2>2, <3>2, Zenon
        <3> QED BY <3>1, <3>2, Zenon
    <2>4. RequestsOK' BY <1>0, <2>1, <2>2, <2>3, Zenon DEF RequestsOK
    <2>5. ASSUME AllSucceeded' PROVE Stages'
        <3>1. AllSucceeded BY <1>0, <2>1, <2>5, Zenon DEF AllSucceeded
        <3>2. ~Untouched BY <1>0, <1>2, Zenon DEF Untouched
        <3>3. \A p \in Request : ~Stored(p) BY <1>4, NobodyApart, Zenon DEF Stored
        <3>4. PICK p \in Request : Begun(p) BY <3>1, <3>2, <3>3, Zenon DEF RetryInv, Stages
        <3>5. p = r BY <1>0, <1>2, <3>4, Zenon DEF Begun
        <3>6. saves = {} /\ executed = {} BY <1>0, <1>2, <3>4, <3>5, Zenon DEF Begun
        <3>7. Begun(r)' BY <2>1, <2>2, <3>4, <3>5, <3>6, Zenon DEF Begun
        <3> QED BY <3>7, Zenon DEF Stages
    <2> QED BY <2>4, <2>5, Zenon DEF RetryInv
<1> QED BY <1>3, <1>4, Zenon

\* Only the request that has begun is in the handler; its slot is kept until the save.
LEMMA HandlerOnce ==
    ASSUME Layers = 1, RetryInv, NEW r \in Request, NEW k \in Code, handler(r, k)
    PROVE  RetryInv'
<1>0. /\ RequestsOK /\ UNCHANGED <<waitsFor, layer, record, saveFailures>> /\ saveFailures' \in Nat
      /\ reqAt[r] = "handler" /\ json(r, k, 1, {})
      /\ executed' = IF k = "success" THEN executed \cup {r} ELSE executed
    BY Zenon DEF RetryInv, RequestsOK, handler
<1>1. RequestsOK' /\ (AllSucceeded' => AllSucceeded /\ k = "success")
    BY <1>0, AnsweredTyped, Zenon
<1>2. ASSUME AllSucceeded' PROVE Stages'
    <2>0. /\ "handler" \notin {"new", "await", "answered"} /\ "answered" # "await"
          /\ "success" \notin {"auth_error", "server_error"}
        BY Zenon
    <2>1. ~Untouched /\ \A p \in Request : ~Stored(p)
        BY <1>0, <2>0, Zenon DEF Untouched, Stored
    <2>2. PICK p \in Request : Begun(p) BY <1>1, <1>2, <2>1, Zenon DEF RetryInv, Stages
    <2>3. p = r BY <1>0, <2>0, <2>2, Zenon DEF Begun
    <2>4. saves = {} /\ executed = {} BY <1>0, <2>0, <2>2, <2>3, Zenon DEF Begun
    <2>5. k = "success" BY <1>1, <1>2, Zenon
    <2>6. /\ code' = [code EXCEPT ![r] = "success"]
          /\ saves' = saves \cup ({r} \X (1..1) \X {1, 2})
          /\ ReleaseAll({}, [reqAt EXCEPT ![r] = "answered"])
        <3>1. {} \cup {} = {} BY Zenon
        <3> QED BY <1>0, <2>0, <2>5, <3>1, Zenon DEF json
    <2>7. saves' = {<<r, 1, 1>>, <<r, 1, 2>>}
        <3>1. 1..1 = {1} OBVIOUS
        <3>2. {r} \X {1} \X {1, 2} = {<<r, 1, 1>>, <<r, 1, 2>>} OBVIOUS
        <3> QED BY <2>4, <2>6, <3>1, <3>2, Zenon
    <2>8. [reqAt EXCEPT ![r] = "answered"] \in [Request -> ReqPlace]
        BY <1>0, Zenon DEF RequestsOK, ReqPlace
    <2>9. reqAt' = [reqAt EXCEPT ![r] = "answered"] /\ UNCHANGED <<heldSlots, inFlightKeys>>
        BY <2>6, <2>8, ReleaseNothing, Zenon
    <2>10. reqAt'[r] = "answered" /\ code'[r] = "success" /\ \A q \in Request \ {r} : reqAt'[q] = reqAt[q]
        BY <1>0, <2>6, <2>9, Zenon DEF RequestsOK
    <2>11. executed' = {r} BY <1>0, <2>4, <2>5, Zenon
    <2>12. Begun(r)' BY <1>0, <2>2, <2>3, <2>7, <2>9, <2>10, <2>11, Zenon DEF Begun
    <2> QED BY <2>12, Zenon DEF Stages
<1> QED BY <1>1, <1>2, Zenon DEF RetryInv

\* The first save stores the answer before anyone is let in, the second stores it again.
LEMMA SaveOnce ==
    ASSUME RetryInv, NEW s \in saves, save(s)
    PROVE  RetryInv'
<1>0. /\ RequestsOK /\ UNCHANGED <<waitsFor, layer, code, executed>> /\ saves' \subseteq saves
      /\ ReleaseAll({<<s[1], s[2]>>}, reqAt)
      /\ \/ record' = savedRecord(s[1]) /\ saveFailures' = saveFailures
         \/ saveFailures' = saveFailures + 1
    BY Zenon DEF RetryInv, save
<1>1. saveFailures \in Nat BY <1>0, Zenon DEF RequestsOK
<1>2. saveFailures' \in Nat /\ (saveFailures' = saveFailures + 1 => saveFailures' # 0)
    <2>1. \A n \in Nat : n + 1 \in Nat /\ n + 1 # 0 OBVIOUS
    <2> QED BY <1>0, <1>1, <2>1, Zenon
<1>3. RequestsOK' /\ \A q \in Request : reqAt'[q] = "handler" => reqAt[q] = "handler"
    BY <1>0, <1>2, ReleasedTyped, Zenon
<1>4. ASSUME AllSucceeded' PROVE Stages'
    <2>1. record' = savedRecord(s[1]) /\ AllSucceeded
        BY <1>0, <1>2, <1>4, Zenon DEF AllSucceeded
    <2>2. ~Untouched BY Zenon DEF Untouched
    <2>3. ASSUME NEW p \in Request, Begun(p) PROVE Stored(p)'
        <3>1. /\ reqAt[p] = "answered" /\ code[p] = "success" /\ executed = {p}
              /\ saves = {<<p, 1, 1>>, <<p, 1, 2>>}
            BY <2>3, Zenon DEF Begun
        <3>2. \A x \in saves : x[1] = p BY <3>1
        <3>3. record' = p BY <2>1, <3>1, <3>2, Zenon DEF savedRecord
        <3>4. \A q \in Request : reqAt[q] # "handler"
            <4>1. "handler" \notin {"new", "await", "answered"} BY Zenon
            <4> QED BY <2>3, <3>1, <4>1, Zenon DEF Begun
        <3> QED BY <1>0, <1>3, <3>1, <3>2, <3>3, <3>4, Zenon DEF Stored
    <2>4. ASSUME NEW p \in Request, Stored(p) PROVE Stored(p)'
        <3>1. record' = p BY <2>1, <2>4, Zenon DEF savedRecord, Stored
        <3> QED BY <1>0, <1>3, <2>4, <3>1, Zenon DEF Stored
    <2> QED BY <2>1, <2>2, <2>3, <2>4, Zenon DEF RetryInv, Stages
<1> QED BY <1>3, <1>4, Zenon DEF RetryInv

\* A response that closes after its saves frees a slot that is no longer needed.
LEMMA CloseOnce ==
    ASSUME PromptSave, RetryInv, NEW r \in Request, close(r)
    PROVE  RetryInv'
<1>0. /\ RequestsOK /\ UNCHANGED <<waitsFor, layer, record, saves, code, executed, saveFailures>>
      /\ reqAt[r] = "answered" /\ (\A s \in saves : s[1] # r)
      /\ ReleaseAll({s \in heldSlots : s[1] = r}, reqAt)
    BY Zenon DEF RetryInv, close
<1>1. saveFailures' \in Nat BY <1>0, Zenon DEF RequestsOK
<1>2. RequestsOK' /\ \A q \in Request : reqAt'[q] = "handler" => reqAt[q] = "handler"
    BY <1>0, <1>1, ReleasedTyped, Zenon
<1>3. ASSUME AllSucceeded' PROVE Stages'
    <2>0. "answered" \notin {"new", "await", "lookup", "handler"} BY Zenon
    <2>1. AllSucceeded BY <1>0, <1>3, Zenon DEF AllSucceeded
    <2>2. ~Untouched BY <1>0, <2>0, Zenon DEF Untouched
    <2>3. \A p \in Request : ~Begun(p)
        <3> SUFFICES ASSUME NEW p \in Request, Begun(p) PROVE FALSE BY Zenon
        <3>1. p = r BY <1>0, <2>0, Zenon DEF Begun
        <3>2. <<r, 1, 1>> \in saves BY <1>0, <2>0, <3>1, Zenon DEF Begun
        <3>3. <<r, 1, 1>>[1] = r BY Zenon
        <3> QED BY <1>0, <3>2, <3>3, Zenon
    <2>4. ASSUME NEW p \in Request, Stored(p) PROVE Stored(p)'
        BY <1>0, <1>2, <2>4, Zenon DEF Stored
    <2> QED BY <2>1, <2>2, <2>3, <2>4, Zenon DEF RetryInv, Stages
<1> QED BY <1>2, <1>3, Zenon DEF RetryInv

\* A failed lookup ends what the invariant is about.
LEMMA FindFailsOnce ==
    ASSUME RetryInv, NEW r \in Request, findByKeyFails(r)
    PROVE  RetryInv'
<1>1. /\ RequestsOK /\ reqAt[r] = "lookup" /\ UNCHANGED <<waitsFor, layer>>
      /\ saveFailures' = saveFailures + 1 /\ saveFailures \in Nat
      /\ json(r, "server_error", layer[r] - 1, {<<r, layer[r]>>})
    BY Zenon DEF RetryInv, RequestsOK, findByKeyFails
<1>2. saveFailures' \in Nat /\ saveFailures' # 0
    <2>1. \A n \in Nat : n + 1 \in Nat /\ n + 1 # 0 OBVIOUS
    <2> QED BY <1>1, <2>1, Zenon
<1>3. "server_error" \in Code BY Zenon DEF Code
<1>4. RequestsOK' BY <1>1, <1>2, <1>3, AnsweredTyped, Zenon
<1> QED BY <1>2, <1>4, Zenon DEF RetryInv, AllSucceeded

(***************************************************************************)
(* "a concurrent retry waits for the durable record rather than executing  *)
(* the payout again" (idempotency.ts:240-242) is true of any number of     *)
(* requests with one key, on a route that mounts the middleware once, if   *)
(* no response closes before its saves have ended, and as long as no save  *)
(* or lookup failed and no request was answered with an error: the handler *)
(* has its effect once.  Without the first condition                       *)
(* idempotency_early_close is a counterexample.                            *)
(***************************************************************************)
THEOREM RetriesExecuteOnce ==
    ASSUME PromptSave, Layers = 1
    PROVE  IdempotencySpec => [](AllSucceeded => ExecutedOnce)
<1>1. IdempotencyInit => RetryInv
    <2> SUFFICES ASSUME IdempotencyInit PROVE RetryInv BY Zenon
    <2>1. 0 \in Nat OBVIOUS
    <2>2. DOMAIN waitsFor = Request BY Zenon DEF IdempotencyInit
    <2>3. RequestsOK BY <2>1, <2>2, Zenon DEF IdempotencyInit, RequestsOK, ReqPlace
    <2>4. Untouched BY Zenon DEF IdempotencyInit, Untouched
    <2> QED BY <2>3, <2>4, Zenon DEF RetryInv, Stages
<1>2. ASSUME RetryInv, [IdempotencyNext]_idempotencyVars PROVE RetryInv'
    <2>1. CASE UNCHANGED idempotencyVars
        BY <1>2, <2>1, ZenonT(40) DEF idempotencyVars, RetryInv, RequestsOK, AllSucceeded, Stages,
           Untouched, Begun, Stored
    <2>2. ASSUME NEW r \in Request,
                 \/ arrive(r) \/ findByKey(r) \/ findByKeyFails(r) \/ close(r)
                 \/ \E k \in Code : handler(r, k)
          PROVE  RetryInv'
        BY <1>2, <2>2, ArriveOnce, FindOnce, FindFailsOnce, CloseOnce, HandlerOnce, Zenon
    <2>3. ASSUME NEW s \in saves, save(s) PROVE RetryInv'
        BY <1>2, <2>3, SaveOnce, Zenon
    <2> QED BY <1>2, <2>1, <2>2, <2>3, Zenon DEF IdempotencyNext
<1>3. RetryInv => (AllSucceeded => ExecutedOnce)
    <2> SUFFICES ASSUME RetryInv, AllSucceeded PROVE ExecutedOnce BY Zenon
    <2>1. executed = {} \/ \E p \in Request : executed = {p}
        BY Zenon DEF RetryInv, Stages, Untouched, Begun, Stored
    <2> QED BY <2>1, Zenon DEF ExecutedOnce
<1> QED BY <1>1, <1>2, <1>3, PTL DEF IdempotencySpec

(***************************************************************************)
(* Who waits, waits for somebody.  The request still has something to do   *)
(* that ends with the release of its slot.                                 *)
(***************************************************************************)
Working(q) == reqAt[q] \in {"lookup", "handler"} \/ \E s \in saves : s[1] = q

\* On a route that mounts the middleware once: every request that waits for a slot
\* waits for that of another request, which has not been released and will be.
WaitsForWorking ==
    \A r \in Request : reqAt[r] = "await" =>
        \E q \in Request \ {r} :
            waitsFor[r] = <<q, 1>> /\ <<q, 1>> \in heldSlots /\ reqAt[q] # "await" /\ Working(q)

\* The slots: their owners work, and the one in the map is one of them.
SlotsServed ==
    /\ \A s \in heldSlots : \E q \in Request : s = <<q, 1>> /\ Working(q)
    /\ inFlightKeys # Nobody => inFlightKeys \in heldSlots
    /\ \A r \in Request : reqAt[r] = "await" => waitsFor[r] \in heldSlots /\ waitsFor[r] # <<r, 1>>
    /\ \A r \in Request : reqAt[r] \in {"new", "await"} => <<r, 1>> \notin heldSlots

SavesOK == \A s \in saves : s[1] \in Request /\ s[2] = 1

ServedInv == RequestsOK /\ SavesOK /\ SlotsServed

\* A release wakes everyone who waits for what it releases.
LEMMA ReleaseServes ==
    ASSUME RequestsOK, SlotsServed, UNCHANGED <<layer, waitsFor>>,
           NEW S, NEW where \in [Request -> ReqPlace], ReleaseAll(S, where),
           \A q \in Request : where[q] \in {"new", "await"} => reqAt[q] = where[q],
           \A q \in Request : <<q, 1>> \in heldSlots \ S =>
               where[q] \in {"lookup", "handler"} \/ \E s \in saves' : s[1] = q
    PROVE  SlotsServed'
<1> DEFINE woken == {r \in Request : where[r] = "await" /\ waitsFor[r] \in S \cap heldSlots}
           mine == {<<r, layer[r]>> : r \in woken}
<1>1. /\ heldSlots' = (heldSlots \ S) \cup mine
      /\ reqAt' = [r \in Request |-> IF r \in woken THEN "lookup" ELSE where[r]]
      /\ \/ mine = {} /\ inFlightKeys' = IF inFlightKeys \in S THEN Nobody ELSE inFlightKeys
         \/ \E s \in mine : inFlightKeys' = s
    BY Zenon DEF ReleaseAll
<1>2. /\ "await" \notin {"new", "lookup", "handler"} /\ "lookup" \notin {"new", "await"}
      /\ "handler" \notin {"new", "await"}
    BY Zenon
<1>3. \A r \in woken : r \in Request /\ where[r] = "await" /\ layer[r] = 1
    <2>1. \A r \in Request : reqAt[r] # "new" => layer[r] = 1 BY Zenon DEF RequestsOK
    <2> QED BY <1>2, <2>1, Zenon
<1>4. \A s \in mine : \E r \in woken : s = <<r, 1>> BY <1>3, Zenon
<1>5. \A r \in Request \ woken : where[r] = "await" => waitsFor[r] \notin S \cap heldSlots
    BY Zenon
<1>6. \A r \in woken : <<r, 1>> \in mine BY <1>3, Zenon
<1> HIDE DEF woken, mine
<1>7. \A r \in Request : (r \in woken => reqAt'[r] = "lookup") /\ (r \notin woken => reqAt'[r] = where[r])
    BY <1>1, Zenon
<1>8. ASSUME NEW s \in heldSlots' PROVE \E q \in Request : s = <<q, 1>> /\ Working(q)'
    <2>1. CASE s \in mine
        BY <1>3, <1>4, <1>7, <2>1, Zenon DEF Working
    <2>2. CASE s \in heldSlots \ S
        <3>1. PICK q \in Request : s = <<q, 1>> BY <2>2, Zenon DEF SlotsServed
        <3>2. where[q] \in {"lookup", "handler"} \/ \E x \in saves' : x[1] = q BY <2>2, <3>1, Zenon
        <3>3. q \notin woken => reqAt'[q] = where[q] BY <1>7, Zenon
        <3>4. q \in woken => reqAt'[q] = "lookup" BY <1>7, Zenon
        <3> QED BY <3>1, <3>2, <3>3, <3>4, Zenon DEF Working
    <2> QED BY <1>1, <2>1, <2>2, Zenon
<1>9. inFlightKeys' # Nobody => inFlightKeys' \in heldSlots'
    BY <1>1, Zenon DEF SlotsServed
<1>10. ASSUME NEW r \in Request, reqAt'[r] = "await"
       PROVE  waitsFor'[r] \in heldSlots' /\ waitsFor'[r] # <<r, 1>>
    <2>1. r \notin woken /\ where[r] = "await" BY <1>2, <1>7, <1>10, Zenon
    <2>2. reqAt[r] = "await" BY <2>1, Zenon
    <2> QED BY <1>1, <1>5, <2>1, <2>2, Zenon DEF SlotsServed
<1>11. ASSUME NEW r \in Request, reqAt'[r] \in {"new", "await"}
       PROVE  <<r, 1>> \notin heldSlots'
    <2>1. r \notin woken BY <1>2, <1>7, <1>11, Zenon
    <2>2. where[r] \in {"new", "await"} /\ reqAt[r] = where[r] BY <1>7, <1>11, <2>1, Zenon
    <2>3. <<r, 1>> \notin heldSlots BY <2>2, Zenon DEF SlotsServed
    <2>4. <<r, 1>> \notin mine
        <3>1. \A q : <<q, 1>> = <<r, 1>> => q = r BY Zenon
        <3> QED BY <1>4, <2>1, <3>1, Zenon
    <2> QED BY <1>1, <2>3, <2>4, Zenon
<1> QED BY <1>8, <1>9, <1>10, <1>11, Zenon DEF SlotsServed

\* Whose slot is held works.
LEMMA OwnerWorks == ASSUME SlotsServed, NEW q \in Request, <<q, 1>> \in heldSlots PROVE Working(q)
<1>1. PICK p \in Request : <<q, 1>> = <<p, 1>> /\ Working(p) BY Zenon DEF SlotsServed
<1>2. p = q BY <1>1, Zenon
<1> QED BY <1>1, <1>2, Zenon

\* An answer releases the slot, or is being saved.
LEMMA AnswerServes ==
    ASSUME ServedInv, NEW r \in Request, NEW k \in Code, NEW l \in {0, 1}, NEW S, json(r, k, l, S),
           reqAt[r] \in {"lookup", "handler"}, UNCHANGED <<layer, waitsFor>>, saveFailures' \in Nat,
           l = 0 => <<r, 1>> \in S
    PROVE  ServedInv'
<1>0. RequestsOK /\ SavesOK /\ SlotsServed BY Zenon DEF ServedInv
<1>1. RequestsOK' BY <1>0, AnsweredTyped, Zenon
<1> DEFINE freed == IF k \in {"auth_error", "server_error"} THEN {r} \X (1..l) ELSE {}
           times == [success |-> {1, 2}, client_error |-> {1, 2}, auth_error |-> {1}, server_error |-> {}]
           where == [reqAt EXCEPT ![r] = "answered"]
<1>2. saves' = saves \cup ({r} \X (1..l) \X times[k]) /\ ReleaseAll(S \cup freed, where)
    BY Zenon DEF json
<1>3. (l = 1 => 1 \in 1..l) /\ \A i \in 1..l : i = 1 OBVIOUS
<1>4. k \in {"success", "client_error"} => 1 \in times[k]
    BY SMTT(30)
<1>5. k \in {"success", "client_error", "auth_error", "server_error"} BY Zenon DEF Code
<1>6. k \in {"auth_error", "server_error"} /\ l = 1 => <<r, 1>> \in freed BY <1>3, Zenon
<1>7. reqAt \in [Request -> ReqPlace] BY <1>0, Zenon DEF RequestsOK
<1>8. where \in [Request -> ReqPlace] /\ where[r] = "answered" /\ \A q \in Request \ {r} : where[q] = reqAt[q]
    BY <1>7, Zenon DEF ReqPlace
<1> HIDE DEF freed, times, where
<1>9. SavesOK'
    <2> SUFFICES ASSUME NEW s \in saves' PROVE s[1] \in Request /\ s[2] = 1 BY Zenon DEF SavesOK
    <2>1. CASE s \in saves BY <1>0, <2>1, Zenon DEF SavesOK
    <2>2. CASE s \in {r} \X (1..l) \X times[k]
        <3>1. s[1] = r /\ s[2] \in 1..l BY <2>2, Zenon
        <3> QED BY <1>3, <3>1, Zenon
    <2> QED BY <1>2, <2>1, <2>2, Zenon
<1>10. \A q \in Request : where[q] \in {"new", "await"} => reqAt[q] = where[q]
    <2>1. "answered" \notin {"new", "await"} BY Zenon
    <2> QED BY <1>8, <2>1, Zenon
<1>11. ASSUME NEW q \in Request, <<q, 1>> \in heldSlots \ (S \cup freed)
       PROVE  where[q] \in {"lookup", "handler"} \/ \E s \in saves' : s[1] = q
    <2>1. CASE q = r
        <3>1. l = 1 /\ k \in {"success", "client_error"} BY <1>5, <1>6, <1>11, <2>1, Zenon
        <3>2. <<r, 1, 1>> \in saves' BY <1>2, <1>3, <1>4, <3>1, Zenon
        <3>3. <<r, 1, 1>>[1] = r BY Zenon
        <3> QED BY <2>1, <3>2, <3>3, Zenon
    <2>2. CASE q # r
        <3>1. Working(q) BY <1>0, <1>11, OwnerWorks, ZenonT(40)
        <3> QED BY <1>2, <1>8, <2>2, <3>1, Zenon DEF Working
    <2> QED BY <2>1, <2>2, Zenon
<1>12. SlotsServed' BY <1>0, <1>2, <1>8, <1>10, <1>11, ReleaseServes, SMT
<1> QED BY <1>1, <1>9, <1>12, Zenon DEF ServedInv

LEMMA ArriveServed == ASSUME Layers = 1, ServedInv, NEW r \in Request, arrive(r) PROVE ServedInv'
<1>0. RequestsOK /\ SavesOK /\ SlotsServed BY Zenon DEF ServedInv
<1>1. /\ RequestsOK' /\ reqAt[r] = "new" /\ saves' = saves
      /\ \A q \in Request \ {r} : reqAt'[q] = reqAt[q] /\ waitsFor'[q] = waitsFor[q]
      /\ \/ /\ inFlightKeys # Nobody /\ UNCHANGED <<inFlightKeys, heldSlots>>
            /\ reqAt'[r] = "await" /\ waitsFor'[r] = inFlightKeys
         \/ /\ inFlightKeys = Nobody /\ inFlightKeys' = <<r, 1>> /\ heldSlots' = heldSlots \cup {<<r, 1>>}
            /\ reqAt'[r] = "lookup"
    BY <1>0, ArriveTyped, Zenon
<1>2. "new" \notin {"lookup", "handler"} /\ "lookup" \notin {"new", "await"} BY Zenon
<1>3. <<r, 1>> \notin heldSlots BY <1>0, <1>1, Zenon DEF SlotsServed
<1>4. \A q, p : <<q, 1>> = <<p, 1>> => q = p BY Zenon
<1>5. ASSUME NEW s \in heldSlots PROVE \E q \in Request : s = <<q, 1>> /\ Working(q)'
    <2>1. PICK q \in Request : s = <<q, 1>> /\ Working(q) BY <1>0, Zenon DEF SlotsServed
    <2>2. q # r BY <1>3, <2>1, Zenon
    <2> QED BY <1>1, <2>1, <2>2, Zenon DEF Working
<1>6. SlotsServed'
    <2>1. CASE inFlightKeys # Nobody /\ reqAt'[r] = "await" /\ waitsFor'[r] = inFlightKeys
                 /\ UNCHANGED <<inFlightKeys, heldSlots>>
        <3>1. waitsFor'[r] \in heldSlots' /\ waitsFor'[r] # <<r, 1>>
            BY <1>0, <1>3, <2>1, Zenon DEF SlotsServed
        <3>2. \A q \in Request : reqAt'[q] = "await" => waitsFor'[q] \in heldSlots' /\ waitsFor'[q] # <<q, 1>>
            BY <1>0, <1>1, <2>1, <3>1, Zenon DEF SlotsServed
        <3>3. \A q \in Request : reqAt'[q] \in {"new", "await"} => <<q, 1>> \notin heldSlots'
            BY <1>0, <1>1, <1>3, <2>1, Zenon DEF SlotsServed
        <3> QED BY <1>0, <1>5, <2>1, <3>2, <3>3, Zenon DEF SlotsServed
    <2>2. CASE /\ inFlightKeys' = <<r, 1>> /\ heldSlots' = heldSlots \cup {<<r, 1>>}
               /\ reqAt'[r] = "lookup"
        <3>1. Working(r)' BY <2>2, Zenon DEF Working
        <3>2. \A q \in Request : reqAt'[q] = "await" => waitsFor'[q] \in heldSlots' /\ waitsFor'[q] # <<q, 1>>
            BY <1>0, <1>1, <1>2, <2>2, Zenon DEF SlotsServed
        <3>3. ASSUME NEW q \in Request, reqAt'[q] \in {"new", "await"} PROVE <<q, 1>> \notin heldSlots'
            <4>1. q # r BY <1>2, <2>2, <3>3, Zenon
            <4> QED BY <1>0, <1>1, <1>4, <2>2, <3>3, <4>1, Zenon DEF SlotsServed
        <3> QED BY <1>5, <2>2, <3>1, <3>2, <3>3, Zenon DEF SlotsServed
    <2> QED BY <1>1, <2>1, <2>2, Zenon
<1>7. SavesOK' BY <1>0, <1>1, Zenon DEF SavesOK
<1> QED BY <1>1, <1>6, <1>7, Zenon DEF ServedInv

LEMMA FindServed == ASSUME Layers = 1, ServedInv, NEW r \in Request, findByKey(r) PROVE ServedInv'
<1>0. /\ RequestsOK /\ SavesOK /\ SlotsServed /\ saveFailures' \in Nat /\ reqAt[r] = "lookup"
    BY Zenon DEF ServedInv, RequestsOK, findByKey
<1>1. reqAt \in [Request -> ReqPlace] /\ layer[r] = 1
    <2>1. "lookup" # "new" BY Zenon
    <2> QED BY <1>0, <2>1, Zenon DEF RequestsOK
<1>2. CASE record # Nobody
    <2> DEFINE k == IF constantTimeEquals(r) THEN "success" ELSE "client_error"
    <2>1. json(r, k, layer[r] - 1, {<<r, layer[r]>>}) /\ UNCHANGED <<layer, waitsFor>>
        BY <1>2, Zenon DEF findByKey
    <2>2. k \in Code BY Zenon DEF Code
    <2>3. layer[r] - 1 = 0 BY <1>1
    <2> HIDE DEF k
    <2>4. 0 \in {0, 1} /\ <<r, 1>> \in {<<r, layer[r]>>} BY <1>1, Zenon
    <2> QED BY <1>0, <2>1, <2>2, <2>3, <2>4, AnswerServes, Zenon
<1>3. CASE record = Nobody
    <2>1. ~(layer[r] < Layers) BY <1>1
    <2>2. reqAt' = [reqAt EXCEPT ![r] = "handler"]
          /\ UNCHANGED <<inFlightKeys, heldSlots, waitsFor, layer, saves, code, record, executed, saveFailures>>
        BY <1>3, <2>1, Zenon DEF findByKey
    <2>3. reqAt'[r] = "handler" /\ reqAt' \in [Request -> ReqPlace] /\ \A q \in Request \ {r} : reqAt'[q] = reqAt[q]
        BY <1>1, <2>2, Zenon DEF ReqPlace
    <2>4. "handler" \notin {"new", "answered", "await"} /\ "lookup" \notin {"new", "answered"} BY Zenon
    <2>5. RequestsOK' BY <1>0, <2>2, <2>3, <2>4, Zenon DEF RequestsOK
    <2>6. \A q \in Request : Working(q) => Working(q)' BY <2>2, <2>3, Zenon DEF Working
    <2>7. SlotsServed' BY <1>0, <2>2, <2>3, <2>4, <2>6, Zenon DEF SlotsServed
    <2>8. SavesOK' BY <1>0, <2>2, Zenon DEF SavesOK
    <2> QED BY <2>5, <2>7, <2>8, Zenon DEF ServedInv
<1> QED BY <1>2, <1>3, Zenon

LEMMA FindFailsServed == ASSUME ServedInv, NEW r \in Request, findByKeyFails(r) PROVE ServedInv'
<1>0. /\ RequestsOK /\ reqAt[r] = "lookup" /\ UNCHANGED <<layer, waitsFor>>
      /\ saveFailures' = saveFailures + 1
      /\ json(r, "server_error", layer[r] - 1, {<<r, layer[r]>>})
    BY Zenon DEF ServedInv, findByKeyFails
<1>1. layer[r] = 1 /\ saveFailures \in Nat
    <2>1. "lookup" # "new" BY Zenon
    <2> QED BY <1>0, <2>1, Zenon DEF RequestsOK
<1>2. layer[r] - 1 = 0 /\ saveFailures' \in Nat BY <1>0, <1>1
<1>3. 0 \in {0, 1} /\ <<r, 1>> \in {<<r, layer[r]>>} /\ "server_error" \in Code BY <1>1, Zenon DEF Code
<1> QED BY <1>0, <1>2, <1>3, AnswerServes, Zenon

LEMMA HandlerServed ==
    ASSUME Layers = 1, ServedInv, NEW r \in Request, NEW k \in Code, handler(r, k)
    PROVE  ServedInv'
<1>0. /\ RequestsOK /\ reqAt[r] = "handler" /\ UNCHANGED <<layer, waitsFor, saveFailures>>
      /\ json(r, k, 1, {})
    BY Zenon DEF ServedInv, handler
<1>1. saveFailures' \in Nat BY <1>0, Zenon DEF RequestsOK
<1>2. 1 \in {0, 1} /\ 1 # 0 OBVIOUS
<1> QED BY <1>0, <1>1, <1>2, AnswerServes, Zenon

\* Releases that touch no request but those they wake.
LEMMA ReleaseOnlyServes ==
    ASSUME ServedInv, NEW S, ReleaseAll(S, reqAt), UNCHANGED <<layer, waitsFor, code, executed>>,
           saveFailures' \in Nat, saves' \subseteq saves,
           \A q \in Request, s \in saves \ saves' : s[1] = q => <<q, 1>> \in S
    PROVE  ServedInv'
<1>0. RequestsOK /\ SavesOK /\ SlotsServed BY Zenon DEF ServedInv
<1>1. RequestsOK' BY <1>0, ReleasedTyped, Zenon
<1>2. SavesOK' BY <1>0, Zenon DEF SavesOK
<1>3. reqAt \in [Request -> ReqPlace] BY <1>0, Zenon DEF RequestsOK
<1>4. ASSUME NEW q \in Request, <<q, 1>> \in heldSlots \ S
      PROVE  reqAt[q] \in {"lookup", "handler"} \/ \E s \in saves' : s[1] = q
    <2>1. Working(q) BY <1>0, <1>4, OwnerWorks, Zenon
    <2> QED BY <1>4, <2>1, Zenon DEF Working
<1>5. SlotsServed' BY <1>0, <1>3, <1>4, ReleaseServes, Zenon
<1> QED BY <1>1, <1>2, <1>5, Zenon DEF ServedInv

LEMMA SaveServed == ASSUME ServedInv, NEW s \in saves, save(s) PROVE ServedInv'
<1>0. /\ RequestsOK /\ SavesOK /\ UNCHANGED <<waitsFor, layer, code, executed>> /\ saves' = saves \ {s}
      /\ ReleaseAll({<<s[1], s[2]>>}, reqAt)
      /\ saveFailures' = saveFailures \/ saveFailures' = saveFailures + 1
    BY Zenon DEF ServedInv, save
<1>1. saveFailures \in Nat BY <1>0, Zenon DEF RequestsOK
<1>2. saveFailures' \in Nat
    <2>1. \A n \in Nat : n + 1 \in Nat OBVIOUS
    <2> QED BY <1>0, <1>1, <2>1, Zenon
<1>3. s[2] = 1 BY <1>0, Zenon DEF SavesOK
<1>4. \A q \in Request, x \in saves \ saves' : x[1] = q => <<q, 1>> \in {<<s[1], s[2]>>}
    BY <1>0, <1>3, Zenon
<1> QED BY <1>0, <1>2, <1>4, ReleaseOnlyServes, Zenon

LEMMA CloseServed == ASSUME ServedInv, NEW r \in Request, close(r) PROVE ServedInv'
<1>1. /\ UNCHANGED <<waitsFor, layer, saves, code, executed, saveFailures>>
      /\ ReleaseAll({s \in heldSlots : s[1] = r}, reqAt)
    BY Zenon DEF close
<1>2. saveFailures' \in Nat BY <1>1, Zenon DEF ServedInv, RequestsOK
<1>3. saves' \subseteq saves /\ saves \ saves' = {} BY <1>1, Zenon
<1> QED BY <1>1, <1>2, <1>3, ReleaseOnlyServes, Zenon

(***************************************************************************)
(* waitForInFlight (idempotency.ts) leaves nobody behind on a route that   *)
(* mounts the middleware once: whatever fails, and whichever clients hang  *)
(* up early, a request that waits does so for a slot of another request    *)
(* that is still held, and whose owner does not wait itself: it looks up,  *)
(* runs its handler or saves, each of which leads to the slot's release.   *)
(* So requests never wait in a circle; with two layers                     *)
(* idempotency_two_layers shows one that waits for itself.                 *)
(***************************************************************************)
THEOREM WaitersAreServed ==
    ASSUME Layers = 1
    PROVE  IdempotencySpec => []WaitsForWorking
<1>1. IdempotencyInit => ServedInv
    <2> SUFFICES ASSUME IdempotencyInit PROVE ServedInv BY Zenon
    <2>1. 0 \in Nat OBVIOUS
    <2>2. DOMAIN waitsFor = Request BY Zenon DEF IdempotencyInit
    <2>3. RequestsOK BY <2>1, <2>2, Zenon DEF IdempotencyInit, RequestsOK, ReqPlace
    <2>4. "new" # "await" BY Zenon
    <2>5. SlotsServed BY <2>4, Zenon DEF IdempotencyInit, SlotsServed
    <2>6. SavesOK BY Zenon DEF IdempotencyInit, SavesOK
    <2> QED BY <2>3, <2>5, <2>6, Zenon DEF ServedInv
<1>2. ASSUME ServedInv, [IdempotencyNext]_idempotencyVars PROVE ServedInv'
    <2>1. CASE UNCHANGED idempotencyVars
        BY <1>2, <2>1, ZenonT(40) DEF idempotencyVars, ServedInv, RequestsOK, SavesOK, SlotsServed, Working
    <2>2. ASSUME NEW r \in Request,
                 \/ arrive(r) \/ findByKey(r) \/ findByKeyFails(r) \/ close(r)
                 \/ \E k \in Code : handler(r, k)
          PROVE  ServedInv'
        BY <1>2, <2>2, ArriveServed, FindServed, FindFailsServed, CloseServed, HandlerServed, Zenon
    <2>3. ASSUME NEW s \in saves, save(s) PROVE ServedInv'
        BY <1>2, <2>3, SaveServed, Zenon
    <2> QED BY <1>2, <2>1, <2>2, <2>3, Zenon DEF IdempotencyNext
<1>3. ASSUME ServedInv PROVE WaitsForWorking
    <2>1. SlotsServed BY <1>3, Zenon DEF ServedInv
    <2>2. ASSUME NEW r \in Request, reqAt[r] = "await"
          PROVE  \E q \in Request \ {r} :
                     waitsFor[r] = <<q, 1>> /\ <<q, 1>> \in heldSlots /\ reqAt[q] # "await" /\ Working(q)
        <3>1. waitsFor[r] \in heldSlots /\ waitsFor[r] # <<r, 1>> BY <2>1, <2>2, Zenon DEF SlotsServed
        <3>2. PICK q \in Request : waitsFor[r] = <<q, 1>> /\ Working(q) BY <2>1, <3>1, Zenon DEF SlotsServed
        <3>3. q # r BY <3>1, <3>2, Zenon
        <3>4. reqAt[q] # "await" BY <2>1, <3>1, <3>2, Zenon DEF SlotsServed
        <3> QED BY <3>1, <3>2, <3>3, <3>4, Zenon
    <2> QED BY <2>2, Zenon DEF WaitsForWorking
<1> QED BY <1>1, <1>2, <1>3, PTL DEF IdempotencySpec

(***************************************************************************)
(* Keys.  The key of a token is kept for as long as the token can be live. *)
(***************************************************************************)

KeySet == [keys: SUBSET Kid, expires: Nat, raced: BOOLEAN]

\* Keys, cached and exported sets, and the token.
KeyTypeOK ==
    /\ now \in Nat /\ activeKid \in 0..MaxKeys
    /\ keyState \in [Kid -> {"unused", "active", "retired", "pruned"}]
    /\ retiredAt \in [Kid -> Nat]
    /\ jwksCache \in KeySet /\ exporting \in KeySet
    /\ token \in [kid: 0..MaxKeys, at: Nat, byActive: BOOLEAN]

\* The key of the token was in use when it signed, cannot have been retired
\* before, and is deleted only when the token has left every verifier's window.
TokenKeyKept ==
    token.byActive =>
        /\ token.kid \in Kid /\ token.at <= now
        /\ keyState[token.kid] # "unused"
        /\ keyState[token.kid] = "retired" => token.at <= retiredAt[token.kid]
        /\ keyState[token.kid] = "pruned" => token.at + Grace + Skew <= now

\* A collected set that no change of the keys has overtaken lists the current key.
ListsSigner(c) ==
    \/ c = NoSet
    \/ c.raced
    \/ activeKid # 0 /\ keyState[activeKid] = "active" => activeKid \in c.keys

\* The inductive invariant of the key manager.
KeyInv == KeyTypeOK /\ TokenKeyKept /\ ListsSigner(jwksCache) /\ ListsSigner(exporting)

\* Dropping the cached set leaves none that misses the current key.
LEMMA InvalidateListsSigner ==
    ASSUME KeyTypeOK, _invalidateJwksCache
    PROVE  /\ jwksCache' \in KeySet /\ exporting' \in KeySet
           /\ jwksCache' = NoSet
           /\ exporting' = NoSet \/ exporting'.raced
<1>0. exporting \in KeySet
    BY Zenon DEF KeyTypeOK
<1>1. jwksCache' = NoSet /\ NoSet \in KeySet
    BY Zenon DEF _invalidateJwksCache, NoSet, KeySet
<1>2. CASE exporting = NoSet
    <2>1. exporting' = [NoSet EXCEPT !.raced = FALSE]
        BY <1>2, Zenon DEF _invalidateJwksCache
    <2>2. exporting' = NoSet
        BY <2>1, Zenon DEF NoSet
    <2> QED BY <2>2, <1>1, Zenon
<1>3. CASE exporting # NoSet
    <2>1. exporting' = [exporting EXCEPT !.raced = TRUE]
        BY <1>3, Zenon DEF _invalidateJwksCache
    <2>2. exporting' \in KeySet /\ exporting'.raced = TRUE
        BY <1>0, <2>1, Zenon DEF KeySet
    <2> QED BY <2>2, <1>1, Zenon
<1> QED BY <1>1, <1>2, <1>3, Zenon

LEMMA PrunedKeys ==
    ASSUME NEW states \in [Kid -> {"unused", "active", "retired", "pruned"}]
    PROVE  /\ pruned(states) \in [Kid -> {"unused", "active", "retired", "pruned"}]
           /\ \A k \in Kid : pruned(states)[k] # states[k] =>
                  pruned(states)[k] = "pruned" /\ states[k] = "retired" /\ ~withinWindow(k)
BY ZenonT(40) DEF pruned, expired

LEMMA KeyStepInv == KeyInv /\ [KeyNext]_keyVars => KeyInv'
<1> SUFFICES ASSUME KeyInv, [KeyNext]_keyVars PROVE KeyInv'
    OBVIOUS
<1> USE TokenFitsGrace DEF KeyInv
<1>1. CASE clockTicks
    BY <1>1 DEF clockTicks, tableVars, setVars, KeyTypeOK, TokenKeyKept, ListsSigner
<1>2. CASE pruneSafely
    <2>1. /\ keyState' = pruned(keyState) /\ _invalidateJwksCache
          /\ UNCHANGED <<now, retiredAt, activeKid, token>>
        BY <1>2, Zenon DEF pruneSafely
    <2>2. /\ keyState' \in [Kid -> {"unused", "active", "retired", "pruned"}]
          /\ \A k \in Kid : keyState'[k] # keyState[k] =>
                 keyState'[k] = "pruned" /\ keyState[k] = "retired" /\ ~withinWindow(k)
        BY <2>1, PrunedKeys, Zenon DEF KeyTypeOK
    <2>3. KeyTypeOK' /\ ListsSigner(jwksCache)' /\ ListsSigner(exporting)'
        BY <2>1, <2>2, InvalidateListsSigner, Zenon DEF KeyTypeOK, ListsSigner
    <2>4. TokenKeyKept'
        BY <2>1, <2>2, SMTT(30) DEF TokenKeyKept, KeyTypeOK, withinWindow
    <2> QED BY <2>3, <2>4, Zenon
<1>3. CASE stopScheduler
    BY <1>3, Zenon DEF stopScheduler, tableVars, setVars, KeyTypeOK, TokenKeyKept, ListsSigner
<1>4. CASE signToken
    <2>1. KeyTypeOK'
        BY <1>4, ZenonT(40) DEF signToken, tableVars, setVars, KeyTypeOK
    <2>2. TokenKeyKept'
        <3>1. /\ token'.kid = activeKid /\ token'.at = now
              /\ token'.byActive <=> keyState[activeKid] = "active"
            BY <1>4, Zenon DEF signToken
        <3>2. activeKid \in Kid /\ now \in Nat
            BY <1>4 DEF signToken, KeyTypeOK, Kid
        <3>3. UNCHANGED <<now, keyState, retiredAt>>
            BY <1>4, Zenon DEF signToken, tableVars
        <3> QED BY <3>1, <3>2, <3>3 DEF TokenKeyKept
    <2>3. ListsSigner(jwksCache)' /\ ListsSigner(exporting)'
        BY <1>4, Zenon DEF signToken, tableVars, setVars, ListsSigner
    <2> QED BY <2>1, <2>2, <2>3, Zenon
<1>5. CASE collectJwks
    <2>1. getAllVerificationKeys \in SUBSET Kid /\ now + CacheLife \in Nat
        BY DEF getAllVerificationKeys, KeyTypeOK
    <2>2. exporting' \in KeySet
        BY <1>5, <2>1, Zenon DEF collectJwks, KeySet
    <2>3. KeyTypeOK' /\ TokenKeyKept' /\ ListsSigner(jwksCache)'
        BY <1>5, <2>2, Zenon DEF collectJwks, tableVars, KeyTypeOK, TokenKeyKept, ListsSigner
    <2>4. ListsSigner(exporting)'
        BY <1>5, SMTT(30) DEF collectJwks, tableVars, ListsSigner, getAllVerificationKeys, KeyTypeOK, Kid
    <2> QED BY <2>3, <2>4, Zenon
<1>6. CASE storeJwks
    <2>1. NoSet \in KeySet
        BY Zenon DEF NoSet, KeySet
    <2> QED BY <1>6, <2>1, Zenon DEF storeJwks, tableVars, KeyTypeOK, TokenKeyKept, ListsSigner
<1>7. ASSUME NEW g \in Generation, initialize(g) PROVE KeyInv'
    BY <1>7, Zenon DEF initialize, tableVars, setVars, KeyTypeOK, TokenKeyKept, ListsSigner
<1>8. ASSUME NEW g \in Generation, rotateSafely(g) PROVE KeyInv'
    BY <1>8, ZenonT(40) DEF rotateSafely, rotate, setVars, KeyTypeOK, TokenKeyKept, ListsSigner
<1>9. ASSUME NEW g \in Generation, generationFails(g) PROVE KeyInv'
    BY <1>9, Zenon DEF generationFails, tableVars, setVars, KeyTypeOK, TokenKeyKept, ListsSigner
<1>10. ASSUME NEW g \in Generation, NEW k \in Kid, generated(g, k) PROVE KeyInv'
    <2> DEFINE stored == [keyState EXCEPT ![k] = "active"]
    <2>1. /\ keyState[k] = "unused"
          /\ keyState' = stored \/ keyState' = pruned(stored)
          /\ activeKid' = k /\ _invalidateJwksCache
          /\ UNCHANGED <<now, retiredAt, token>>
        BY <1>10, Zenon DEF generated, becomesCurrent
    <2>2. stored \in [Kid -> {"unused", "active", "retired", "pruned"}]
        BY Zenon DEF KeyTypeOK
    <2>3. /\ keyState' \in [Kid -> {"unused", "active", "retired", "pruned"}]
          /\ \A j \in Kid : keyState'[j] # stored[j] =>
                 keyState'[j] = "pruned" /\ stored[j] = "retired" /\ ~withinWindow(j)
        <3> HIDE DEF stored
        <3> QED BY <2>1, <2>2, PrunedKeys, SMTT(30)
    <2>4. KeyTypeOK'
        BY <2>1, <2>3, InvalidateListsSigner, SMTT(30) DEF KeyTypeOK, Kid
    <2>5. ListsSigner(jwksCache)' /\ ListsSigner(exporting)'
        BY <2>1, InvalidateListsSigner, Zenon DEF ListsSigner
    <2>6. TokenKeyKept'
        BY <2>1, <2>3, SMTT(30) DEF TokenKeyKept, KeyTypeOK, withinWindow
    <2> QED BY <2>4, <2>5, <2>6, Zenon
<1>11. CASE UNCHANGED keyVars
    BY <1>11, Zenon DEF keyVars, KeyTypeOK, TokenKeyKept, ListsSigner
<1> QED BY <1>1, <1>2, <1>3, <1>4, <1>5, <1>6, <1>7, <1>8, <1>9, <1>10, <1>11, SMTT(30) DEF KeyNext

LEMMA KeyInitInv == KeyInit => KeyInv
<1> SUFFICES ASSUME KeyInit PROVE KeyInv
    BY Zenon
<1>1. NoSet \in KeySet
    BY Zenon DEF NoSet, KeySet
<1>2. token \in [kid: 0..MaxKeys, at: Nat, byActive: BOOLEAN] /\ token.byActive = FALSE
    <2>1. 0 \in 0..MaxKeys /\ 0 \in Nat
        BY TokenFitsGrace
    <2> QED BY <2>1, Zenon DEF KeyInit, NoToken
<1> QED BY <1>1, <1>2, TokenFitsGrace DEF KeyInit, KeyInv, KeyTypeOK, TokenKeyKept, ListsSigner

(***************************************************************************)
(* Through rotations, pruning, failed generations and exports that overlap *)
(* them (rotate, pruneExpiredKeys, getPublicJwks), the key of the token    *)
(* outlives its window and a set that was not overtaken lists the current  *)
(* key.                                                                    *)
(***************************************************************************)
THEOREM KeyInvariant == KeySpec => []KeyInv
BY KeyInitInv, KeyStepInv, PTL DEF KeySpec

(***************************************************************************)
(* A token signed by an active key can be verified for as long as its      *)
(* expiry is accepted (rotate, pruneExpiredKeys and withinWindow of        *)
(* KeyManager), for any periods in which a token's life is at most the     *)
(* grace period.                                                           *)
(***************************************************************************)
THEOREM TokensVerify == KeySpec => []LiveTokensVerify
<1>1. KeyInv => LiveTokensVerify
    <2> SUFFICES ASSUME KeyInv, token.byActive, now < token.at + TokenLife + Skew
                 PROVE  token.kid \in getAllVerificationKeys
        BY Zenon DEF LiveTokensVerify
    <2>1. /\ token.kid \in Kid /\ token.at \in Nat
          /\ keyState[token.kid] \in {"unused", "active", "retired", "pruned"}
          /\ retiredAt[token.kid] \in Nat /\ now \in Nat
        BY Zenon DEF KeyInv, KeyTypeOK, TokenKeyKept
    <2>2. keyState[token.kid] # "pruned" /\ keyState[token.kid] # "unused"
        BY <2>1, TokenFitsGrace, SMTT(30) DEF KeyInv, TokenKeyKept
    <2>3. keyState[token.kid] = "retired" => withinWindow(token.kid)
        BY <2>1, TokenFitsGrace, SMTT(30) DEF KeyInv, TokenKeyKept, withinWindow
    <2> QED BY <2>1, <2>2, <2>3, Zenon DEF getAllVerificationKeys
<1> QED BY <1>1, KeyInvariant, PTL

(***************************************************************************)
(* The JWK set that is served lists the key that signs                     *)
(* (_invalidateJwksCache, getPublicJwks), unless a change of the keys      *)
(* overtook its export.                                                    *)
(***************************************************************************)
THEOREM SignerIsListed == KeySpec => []JwksHasSigner
<1>1. KeyInv => JwksHasSigner
    BY SMTT(30) DEF KeyInv, KeyTypeOK, ListsSigner, JwksHasSigner, NoSet
<1> QED BY <1>1, KeyInvariant, PTL

(***************************************************************************)
(* Backfill.  Whatever a run holds has been applied: its cursor, and the   *)
(* marker it has read and may put back.  A run that has yet to reset the   *)
(* marker holds nothing else, and one whose loop has ended is at the last  *)
(* row.  A forced restart empties doneRows, so that all this is said only  *)
(* while no restart has met another run.                                   *)
(***************************************************************************)
Status == {"none", "pending", "running", "completed", "failed"}
Marker == [cursor : Nat, status : Status]
RunState ==
    {"idle", "reset", "readRunning", "markRunning", "batch", "checkpoint", "lastCheckpoint",
     "readCompleted", "markCompleted", "readFailed", "markFailed"}

BackfillTypeOK ==
    /\ progress \in Marker
    /\ runner \in [Runner -> [pc : RunState, cursor : Nat, seen : Marker]]
    /\ restartedAmidRuns \in BOOLEAN

RunnerOK ==
    \A r \in Runner :
        /\ runner[r].pc = "idle" => runner[r] = IdleRunner
        /\ runner[r].pc = "reset" => runner[r].seen = Absent
        /\ runner[r].pc \in {"lastCheckpoint", "readCompleted", "markCompleted"} => runner[r].cursor = LastRow

AllApplied ==
    /\ Applied(progress.cursor)
    /\ progress.status = "completed" => Applied(LastRow)
    /\ \A r \in Runner : Applied(runner[r].cursor) /\ Applied(runner[r].seen.cursor)

BackfillInv == BackfillTypeOK /\ RunnerOK /\ (restartedAmidRuns \/ AllApplied)

\* A backfill begins without a marker and without a run.
LEMMA BackfillInvInit == BackfillInit => BackfillInv
<1> SUFFICES ASSUME BackfillInit PROVE BackfillInv
  OBVIOUS
<1> USE BackfillAssumption DEF BackfillInit, IdleRunner, Absent
<1>1. BackfillTypeOK
  <2>1. Absent \in Marker
    BY Zenon DEF Marker, Status
  <2>2. IdleRunner \in [pc : RunState, cursor : Nat, seen : Marker]
    BY <2>1, Zenon DEF RunState
  <2> QED
    BY <2>1, <2>2, Zenon DEF BackfillTypeOK, RunState, Status
<1>2. RunnerOK
  BY Zenon DEF RunnerOK
<1>3. AllApplied
  BY DEF AllApplied, Applied
<1> QED
  BY <1>1, <1>2, <1>3, Zenon DEF BackfillInv

\* Rows stay applied when more are, and a batch applies the rows between the
\* cursor before it and the cursor after it.
LEMMA AppliedGrows ==
    ASSUME NEW c, doneRows \subseteq doneRows', Applied(c)
    PROVE  Applied(c)'
BY Zenon DEF Applied

LEMMA BatchApplies ==
    ASSUME NEW r \in Runner, BackfillTypeOK, Applied(runner[r].cursor),
           doneRows' = doneRows \cup rowsAfterCursor(r), NEW c \in Nat, c <= LastRow,
           c <= runner[r].cursor + batchSize
    PROVE  initialCursor + 1 .. c \subseteq doneRows'
<1>1. runner[r].cursor \in Nat
  BY Zenon DEF BackfillTypeOK, RunState, Status
<1> QED
  BY <1>1, BackfillAssumption DEF Applied, rowsAfterCursor

LEMMA BackfillInvStep == BackfillInv /\ [BackfillNext]_backfillVars => BackfillInv'
<1> SUFFICES ASSUME BackfillInv, [BackfillNext]_backfillVars PROVE BackfillInv'
  OBVIOUS
<1>1. CASE UNCHANGED backfillVars
  BY <1>1, Zenon DEF backfillVars, BackfillInv, BackfillTypeOK, RunnerOK, AllApplied, Applied
<1>2. ASSUME NEW r \in Runner, findByJobName(r) PROVE BackfillInv'
  <2>1. PICK next \in {"reset", "readRunning"}, c \in {initialCursor, progress.cursor} :
           /\ runner' = [runner EXCEPT ![r] = [IdleRunner EXCEPT !.pc = next, !.cursor = c]]
           /\ UNCHANGED <<progress, doneRows, restartedAmidRuns>>
    BY <1>2, Zenon DEF findByJobName
  <2>2. c \in Nat
    BY BackfillAssumption DEF BackfillInv, BackfillTypeOK, Marker, Status, RunState
  <2>3. BackfillTypeOK'
    BY <2>1, <2>2, Zenon DEF BackfillInv, BackfillTypeOK, IdleRunner, Absent, Marker, RunState, Status
  <2>4. RunnerOK'
    BY <2>1, Zenon DEF BackfillInv, BackfillTypeOK, RunnerOK, IdleRunner
  <2>5. AllApplied => AllApplied'
    BY <2>1, BackfillAssumption
    DEF BackfillInv, BackfillTypeOK, AllApplied, Applied, IdleRunner, Absent
  <2> QED
    BY <2>1, <2>3, <2>4, <2>5 DEF BackfillInv
<1>3. ASSUME NEW r \in Runner, resetProgress(r) PROVE BackfillInv'
  <2>1. BackfillTypeOK'
    <3>1. progress' \in Marker
      BY <1>3, BackfillAssumption DEF resetProgress, Marker, Status
    <3>2. runner' \in [Runner -> [pc : RunState, cursor : Nat, seen : Marker]]
      <4>1. runner' = [runner EXCEPT ![r].pc = "readRunning", ![r].cursor = initialCursor]
        BY <1>3, Zenon DEF resetProgress
      <4>2. runner \in [Runner -> [pc : RunState, cursor : Nat, seen : Marker]] /\ initialCursor \in Nat
        BY BackfillAssumption DEF BackfillInv, BackfillTypeOK
      <4> QED
        BY <4>1, <4>2, ZenonT(40) DEF RunState
    <3>3. restartedAmidRuns' \in BOOLEAN
      BY <1>3, Zenon DEF resetProgress
    <3> QED
      BY <3>1, <3>2, <3>3, Zenon DEF BackfillTypeOK
  <2>2. RunnerOK'
    BY <1>3, SMTT(30) DEF resetProgress, BackfillInv, BackfillTypeOK, RunnerOK, IdleRunner
  <2>3. ASSUME ~restartedAmidRuns' PROVE AllApplied'
    <3>1. \A q \in Runner \ {r} : runner'[q] = IdleRunner
      BY <1>3, <2>3, Zenon DEF resetProgress, BackfillInv, BackfillTypeOK, RunnerOK
    <3>2. runner'[r].cursor = initialCursor /\ runner'[r].seen = Absent
      BY <1>3 DEF resetProgress, BackfillInv, BackfillTypeOK, RunnerOK
    <3>3. \A c \in {0, initialCursor} : initialCursor + 1 .. c \subseteq doneRows'
      BY BackfillAssumption
    <3>4. progress' = [cursor |-> initialCursor, status |-> "pending"]
      BY <1>3, ZenonT(40) DEF resetProgress
    <3>5. \A q \in Runner : /\ runner'[q].cursor \in {0, initialCursor}
                           /\ runner'[q].seen.cursor \in {0, initialCursor}
      BY <3>1, <3>2 DEF IdleRunner, Absent
    <3> QED
      BY <3>3, <3>4, <3>5, Zenon DEF AllApplied, Applied
  <2> QED
    BY <2>1, <2>2, <2>3, Zenon DEF BackfillInv
<1>4. ASSUME NEW r \in Runner, readProgress(r) PROVE BackfillInv'
  <2>1. PICK next \in {"markRunning", "markCompleted", "markFailed"} :
           /\ runner' = [runner EXCEPT ![r].seen = progress, ![r].pc = next]
           /\ next = "markCompleted" => runner[r].pc = "readCompleted"
           /\ next = "markFailed" => runner[r].pc = "readFailed"
           /\ next = "markRunning" => runner[r].pc = "readRunning"
    BY <1>4, Zenon DEF readProgress, BackfillInv, BackfillTypeOK, RunState, Status
  <2>2. UNCHANGED <<progress, doneRows, restartedAmidRuns>>
    BY <1>4, Zenon DEF readProgress
  <2>3. BackfillTypeOK'
    BY <2>1, <2>2 DEF BackfillInv, BackfillTypeOK, RunState, Status
  <2>4. RunnerOK'
    BY <2>1 DEF BackfillInv, BackfillTypeOK, RunnerOK, IdleRunner
  <2>5. AllApplied => AllApplied'
    BY <2>1, <2>2 DEF BackfillInv, BackfillTypeOK, AllApplied, Applied
  <2> QED
    BY <2>2, <2>3, <2>4, <2>5, ZenonT(40) DEF BackfillInv
<1>5. ASSUME NEW r \in Runner, markRunning(r) PROVE BackfillInv'
  <2>1. BackfillTypeOK'
    <3>1. progress' \in Marker
      BY <1>5, Zenon DEF markRunning, BackfillInv, BackfillTypeOK, Marker, Status
    <3>2. runner' \in [Runner -> [pc : RunState, cursor : Nat, seen : Marker]]
      <4>1. runner' = [runner EXCEPT ![r].pc = "batch", ![r].seen = Absent]
        BY <1>5, Zenon DEF markRunning
      <4>2. runner \in [Runner -> [pc : RunState, cursor : Nat, seen : Marker]] /\ Absent \in Marker
        BY Zenon DEF BackfillInv, BackfillTypeOK, Absent, Marker, Status
      <4> QED
        BY <4>1, <4>2, ZenonT(40) DEF RunState
    <3> QED
      BY <1>5, <3>1, <3>2, Zenon DEF markRunning, BackfillInv, BackfillTypeOK
  <2>2. RunnerOK'
    BY <1>5 DEF markRunning, BackfillInv, BackfillTypeOK, RunnerOK, IdleRunner
  <2>3. AllApplied => AllApplied'
    BY <1>5, BackfillAssumption
    DEF markRunning, BackfillInv, BackfillTypeOK, Marker, Status, RunState, AllApplied, Applied, Absent
  <2> QED
    BY <1>5, <2>1, <2>2, <2>3, Zenon DEF markRunning, BackfillInv
<1>6. ASSUME NEW r \in Runner, processBatch(r) PROVE BackfillInv'
  <2> DEFINE d == IF runner[r].cursor + batchSize <= LastRow THEN runner[r].cursor + batchSize ELSE LastRow
             next == IF runner[r].cursor + batchSize > LastRow THEN "lastCheckpoint" ELSE "checkpoint"
  <2>1. /\ runner[r].pc = "batch" /\ doneRows' = doneRows \cup rowsAfterCursor(r)
        /\ runner' = [runner EXCEPT ![r].pc = next, ![r].cursor = d]
        /\ UNCHANGED <<progress, restartedAmidRuns>>
    BY <1>6, ZenonT(40) DEF processBatch
  <2>2. /\ d \in Nat /\ d <= LastRow /\ d <= runner[r].cursor + batchSize
        /\ next \in {"checkpoint", "lastCheckpoint"} /\ (next = "lastCheckpoint" => d = LastRow)
    BY BackfillAssumption DEF BackfillInv, BackfillTypeOK, RunState, Status
  <2> HIDE DEF d, next
  <2>3. BackfillTypeOK'
    BY <2>1, <2>2, ZenonT(40) DEF BackfillInv, BackfillTypeOK, RunState, Status
  <2>4. RunnerOK'
    BY <2>1, <2>2 DEF BackfillInv, BackfillTypeOK, RunnerOK, IdleRunner
  <2>5. ASSUME AllApplied PROVE AllApplied'
    <3>1. initialCursor + 1 .. d \subseteq doneRows'
      BY <2>1, <2>2, <2>5, BatchApplies, Zenon DEF BackfillInv, AllApplied
    <3> QED
      BY <2>1, <2>5, <3>1 DEF BackfillInv, BackfillTypeOK, AllApplied, Applied
  <2> QED
    BY <2>1, <2>3, <2>4, <2>5, Zenon DEF BackfillInv
<1>7. ASSUME NEW r \in Runner, batchFails(r) PROVE BackfillInv'
  <2>1. /\ runner[r].pc = "batch" /\ doneRows \subseteq doneRows'
        /\ runner' = [runner EXCEPT ![r].pc = "readFailed"]
        /\ UNCHANGED <<progress, restartedAmidRuns>>
    BY <1>7, Zenon DEF batchFails
  <2>2. BackfillTypeOK'
    BY <2>1 DEF BackfillInv, BackfillTypeOK, RunState, Status
  <2>3. RunnerOK'
    BY <2>1 DEF BackfillInv, BackfillTypeOK, RunnerOK, IdleRunner
  <2>4. AllApplied => AllApplied'
    BY <2>1 DEF BackfillInv, BackfillTypeOK, AllApplied, Applied
  <2> QED
    BY <2>1, <2>2, <2>3, <2>4 DEF BackfillInv
<1>8. ASSUME NEW r \in Runner, checkpoint(r) PROVE BackfillInv'
  <2>1. BackfillTypeOK'
    BY <1>8 DEF checkpoint, BackfillInv, BackfillTypeOK, Marker, Status, RunState
  <2>2. RunnerOK'
    BY <1>8 DEF checkpoint, BackfillInv, BackfillTypeOK, RunnerOK, IdleRunner
  <2>3. AllApplied => AllApplied'
    BY <1>8 DEF checkpoint, BackfillInv, BackfillTypeOK, AllApplied, Applied
  <2> QED
    BY <1>8, <2>1, <2>2, <2>3, Zenon DEF checkpoint, BackfillInv
<1>9. ASSUME NEW r \in Runner, markCompleted(r) PROVE BackfillInv'
  <2>1. BackfillTypeOK'
    BY <1>9, Zenon DEF markCompleted, BackfillInv, BackfillTypeOK, Marker, Status, RunState, IdleRunner, Absent
  <2>2. RunnerOK'
    BY <1>9, Zenon DEF markCompleted, BackfillInv, BackfillTypeOK, RunnerOK, IdleRunner
  <2>3. runner[r].cursor = LastRow
    BY <1>9, ZenonT(40) DEF markCompleted, BackfillInv, RunnerOK
  <2>4. AllApplied => AllApplied'
    BY <1>9, <2>3, BackfillAssumption
    DEF markCompleted, BackfillInv, BackfillTypeOK, AllApplied, Applied, IdleRunner, Absent
  <2> QED
    BY <1>9, <2>1, <2>2, <2>4, Zenon DEF markCompleted, BackfillInv
<1>10. ASSUME NEW r \in Runner, markFailed(r) PROVE BackfillInv'
  <2>1. BackfillTypeOK'
    BY <1>10, Zenon DEF markFailed, BackfillInv, BackfillTypeOK, Marker, Status, RunState, IdleRunner, Absent
  <2>2. RunnerOK'
    BY <1>10, Zenon DEF markFailed, BackfillInv, BackfillTypeOK, RunnerOK, IdleRunner
  <2>3. AllApplied => AllApplied'
    BY <1>10, BackfillAssumption
    DEF markFailed, BackfillInv, BackfillTypeOK, Marker, Status, RunState, AllApplied, Applied, IdleRunner, Absent
  <2> QED
    BY <1>10, <2>1, <2>2, <2>3, Zenon DEF markFailed, BackfillInv
<1>11. ASSUME NEW r \in Runner, statementThrows(r) PROVE BackfillInv'
  <2>1. BackfillTypeOK'
    BY <1>11 DEF statementThrows, BackfillInv, BackfillTypeOK, RunState, Status
  <2>2. RunnerOK'
    BY <1>11 DEF statementThrows, BackfillInv, BackfillTypeOK, RunnerOK, IdleRunner
  <2>3. AllApplied => AllApplied'
    BY <1>11 DEF statementThrows, BackfillInv, BackfillTypeOK, AllApplied, Applied
  <2> QED
    BY <1>11, <2>1, <2>2, <2>3, Zenon DEF statementThrows, BackfillInv
<1>12. ASSUME NEW r \in Runner, runCrashes(r) PROVE BackfillInv'
  <2>1. BackfillTypeOK'
    BY <1>12, Zenon DEF runCrashes, BackfillInv, BackfillTypeOK, IdleRunner, Absent, Marker, RunState, Status
  <2>2. RunnerOK'
    BY <1>12, ZenonT(40) DEF runCrashes, BackfillInv, BackfillTypeOK, RunnerOK, IdleRunner
  <2>3. AllApplied => AllApplied'
    BY <1>12, BackfillAssumption
    DEF runCrashes, BackfillInv, BackfillTypeOK, AllApplied, Applied, IdleRunner, Absent
  <2> QED
    BY <1>12, <2>1, <2>2, <2>3, Zenon DEF runCrashes, BackfillInv
<1> QED
  BY <1>1, <1>2, <1>3, <1>4, <1>5, <1>6, <1>7, <1>8, <1>9, <1>10, <1>11, <1>12, ZenonT(40) DEF BackfillNext

(***************************************************************************)
(* A backfill resumes without a gap, for any number of callers, rows, runs *)
(* and faults, any batch size and any first cursor.                        *)
(***************************************************************************)
THEOREM ResumesSkipNothing == BackfillSpec => []ResumeSkipsNothing
<1>1. BackfillInv => ResumeSkipsNothing
  BY Zenon DEF BackfillInv, AllApplied, ResumeSkipsNothing
<1> QED
  BY <1>1, BackfillInvInit, BackfillInvStep, PTL DEF BackfillSpec
=============================================================================
