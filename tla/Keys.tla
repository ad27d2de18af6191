-------------------------------- MODULE Keys --------------------------------
(***************************************************************************)
(* The signing keys of one process: KeyManager (src/services/keyManager/   *)
(* index.ts) and the ticks of KeyRotationScheduler (src/jobs/              *)
(* keyRotationScheduler.ts), which runRotationTick() and runPruneTick()    *)
(* may run at any time.  The generation of a key pair and the export of    *)
(* the JWK set are awaited, so that other calls run in between.  Time is a *)
(* counter in units of the periods below.                                  *)
(***************************************************************************)
EXTENDS Naturals, FiniteSets

CONSTANTS
    MaxKeys,        \* bound on the keys that are generated
    Generation,     \* generations of a key pair that can be awaited at once
    Grace,          \* gracePeriodSeconds
    Skew,           \* clockSkewSeconds
    TokenLife,      \* expiresIn of a token
    CacheLife,      \* JWKS_CACHE_TTL_MS
    MaxTime,        \* bound on the clock
    MaxGenFailures  \* bound on generations that fail

\* The default life of a token, '1h', is the default grace period, 3600 s.
ASSUME TokenFitsGrace ==
    /\ MaxKeys \in Nat /\ Grace \in Nat /\ Skew \in Nat
    /\ TokenLife \in Nat /\ CacheLife \in Nat /\ MaxTime \in Nat
    /\ TokenLife <= Grace

VARIABLES
    now,
    keyState,     \* keyState[k]: "unused", "active", "retired" or "pruned"
    retiredAt,    \* retiredAt[k]
    activeKid,    \* 0 stands for null
    generating,   \* generating[g]: who awaits generation g
    jwksCache,    \* the cached set: its keys, its expiry, how it was made
    exporting,    \* the set an awaited getPublicJwks() has collected (one call
                  \* at a time)
    rotating,     \* the scheduler's guard
    token,        \* one token, any of those signed: its key, when, and whether
                  \* the key was then active
    genFailures

keyVars == <<now, keyState, retiredAt, activeKid, generating, jwksCache, exporting,
             rotating, token, genFailures>>

Kid == 1..MaxKeys
NoToken == [kid |-> 0, at |-> 0, byActive |-> FALSE]
NoSet == [keys |-> {}, expires |-> 0, raced |-> FALSE]

KeyInit ==
    /\ now = 0 /\ activeKid = 0
    /\ keyState = [k \in Kid |-> "unused"]
    /\ retiredAt = [k \in Kid |-> 0] /\ token = NoToken
    /\ generating = [g \in Generation |-> "idle"]
    /\ jwksCache = NoSet /\ exporting = NoSet
    /\ rotating = FALSE /\ genFailures = 0

tableVars == <<keyState, retiredAt, activeKid>>
setVars == <<jwksCache, exporting>>

clockTicks ==
    /\ now < MaxTime /\ now' = now + 1
    /\ UNCHANGED <<tableVars, generating, setVars, rotating, token, genFailures>>

\* Mutant: the clock skew is left out of the window.
withinGrace(k) == now < retiredAt[k] + Grace

\* A retired key is still within its grace and skew window.
withinWindow(k) == now < retiredAt[k] + Grace + Skew

getAllVerificationKeys ==
    {k \in Kid : keyState[k] = "active" \/ (keyState[k] = "retired" /\ withinWindow(k))}

\* initialize(), up to its await.
initialize(g) ==
    /\ generating[g] = "idle" /\ activeKid = 0
    /\ generating' = [generating EXCEPT ![g] = "initialize"]
    /\ UNCHANGED <<now, tableVars, setVars, rotating, token, genFailures>>

\* rotate(), up to its await: the state machine refuses a key that is not
\* active, and one that is pruned is undefined.
rotate(g) ==
    /\ activeKid # 0 /\ keyState[activeKid] = "active"
    /\ keyState' = [keyState EXCEPT ![activeKid] = "retired"]
    /\ retiredAt' = [retiredAt EXCEPT ![activeKid] = now]
    /\ generating' = [generating EXCEPT ![g] = "rotate"]

\* rotateSafely(): a rotate() that throws at once leaves the guard as it was.
rotateSafely(g) ==
    /\ generating[g] = "idle" /\ ~rotating
    /\ rotate(g)
    /\ rotating' = TRUE
    /\ UNCHANGED <<now, activeKid, setVars, token, genFailures>>

\* Mutant: a change of the keys leaves the cached set alone.
keepJwksCache == UNCHANGED jwksCache /\ exporting' = [exporting EXCEPT !.raced = exporting # NoSet]

\* _invalidateJwksCache(); an export in progress is now out of date.
_invalidateJwksCache ==
    /\ jwksCache' = NoSet
    /\ exporting' = [exporting EXCEPT !.raced = exporting # NoSet]

\* Mutant: every retired key is deleted.
retired(states) == {k \in Kid : states[k] = "retired"}

\* What pruneExpiredKeys() deletes.
expired(states) == {k \in Kid : states[k] = "retired" /\ ~withinWindow(k)}

pruned(states) == [k \in Kid |-> IF k \in expired(states) THEN "pruned" ELSE states[k]]

becomesCurrent(k) == activeKid' = k

\* _generateKey() resolves with the next key: it is stored and becomes the
\* current one, and the call that awaited it ends; rotate() prunes as well.
\* (The call resumes in the microtask after the one that stores the key.)
generated(g, k) ==
    LET stored == [keyState EXCEPT ![k] = "active"]
        first == generating[g] = "initialize"
    IN  /\ generating[g] # "idle"
        /\ keyState[k] = "unused" /\ \A j \in 1..(k - 1) : keyState[j] # "unused"
        /\ keyState' = IF first THEN stored ELSE pruned(stored)
        /\ becomesCurrent(k)
        /\ _invalidateJwksCache
        /\ generating' = [generating EXCEPT ![g] = "idle"]
        /\ rotating' = (rotating /\ first)
        /\ UNCHANGED <<now, retiredAt, token, genFailures>>

\* It rejects: the call throws, and rotateSafely() resets its guard.
generationFails(g) ==
    /\ generating[g] # "idle" /\ genFailures < MaxGenFailures
    /\ genFailures' = genFailures + 1
    /\ generating' = [generating EXCEPT ![g] = "idle"]
    /\ rotating' = (rotating /\ generating[g] = "initialize")
    /\ UNCHANGED <<now, tableVars, setVars, token>>

\* pruneSafely(), which is synchronous.
pruneSafely ==
    /\ expired(keyState) # {}
    /\ keyState' = pruned(keyState)
    /\ _invalidateJwksCache
    /\ UNCHANGED <<now, retiredAt, activeKid, generating, rotating, token, genFailures>>

\* stop() of the scheduler resets the guard of a rotation still in flight.
stopScheduler ==
    /\ rotating /\ rotating' = FALSE
    /\ UNCHANGED <<now, tableVars, generating, setVars, token, genFailures>>

\* signToken() with the key that activeKid names: it does not look at that
\* key's state, and throws only if there is none.
signToken ==
    /\ activeKid # 0 /\ keyState[activeKid] # "pruned" /\ token = NoToken
    /\ token' = [kid |-> activeKid, at |-> now, byActive |-> keyState[activeKid] = "active"]
    /\ UNCHANGED <<now, tableVars, generating, setVars, rotating, genFailures>>

\* getPublicJwks(), up to its await and after it.
collectJwks ==
    /\ now >= jwksCache.expires /\ exporting = NoSet
    /\ exporting' = [keys |-> getAllVerificationKeys, expires |-> now + CacheLife, raced |-> FALSE]
    /\ UNCHANGED <<now, tableVars, generating, jwksCache, rotating, token, genFailures>>

storeJwks ==
    /\ exporting # NoSet
    /\ jwksCache' = exporting /\ exporting' = NoSet
    /\ UNCHANGED <<now, tableVars, generating, rotating, token, genFailures>>

KeyNext ==
    \/ clockTicks \/ pruneSafely \/ stopScheduler \/ signToken \/ collectJwks \/ storeJwks
    \/ \E g \in Generation :
          \/ initialize(g) \/ rotateSafely(g) \/ generationFails(g)
          \/ \E k \in Kid : generated(g, k)

KeySpec == KeyInit /\ [][KeyNext]_keyVars

(***************************************************************************)
(* "a key is never pruned while tokens it signed could still be within the *)
(* tolerance window of any verifier" (keyManager/index.ts:33): a token     *)
(* signed while its key was active has a verification key for as long as   *)
(* jwtVerify accepts its expiry, through rotations, pruning and failures.  *)
(* A token signed after the retirement, while the new key is awaited or    *)
(* after its generation has failed, has no such guarantee.                 *)
(***************************************************************************)
LiveTokensVerify ==
    token.byActive /\ now < token.at + TokenLife + Skew => token.kid \in getAllVerificationKeys

(***************************************************************************)
(* A cached JWK set that is served lists the current key, if that is       *)
(* active, unless the set was collected before a change of the keys and    *)
(* stored after it (keyManager/index.ts:208).                              *)
(***************************************************************************)
JwksHasSigner ==
    (/\ activeKid # 0 /\ keyState[activeKid] = "active"
     /\ now < jwksCache.expires /\ ~jwksCache.raced) => activeKid \in jwksCache.keys
=============================================================================
