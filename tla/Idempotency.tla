----------------------------- MODULE Idempotency -----------------------------
(***************************************************************************)
(* Requests that carry one Idempotency-Key, in one process:                *)
(* src/middleware/idempotency.ts over                                      *)
(* src/db/repositories/idempotencyRepository.ts.  The middleware is on a   *)
(* request's path Layers times: once for every route under /api (app.ts)   *)
(* and once more on the routes that mount it themselves, POST /api/payouts *)
(* among them.  All layers share the map inFlightKeys.                     *)
(*                                                                         *)
(* A slot is the promise that one layer of one request puts in the map.    *)
(* The key's record outlives the behaviours considered (24 hours).         *)
(***************************************************************************)
EXTENDS Naturals

CONSTANTS
    Request,         \* the requests
    BoundKeyHash,    \* BoundKeyHash[r]: hash of the actor and the payload of r
    Layers,          \* how often the middleware is mounted on the route
    PromptSave,      \* a response closes only after its saves have finished
    MaxSaveFailures, \* bound on failing saves and lookups
    Nobody           \* no request, no record, no slot

VARIABLES
    inFlightKeys, \* the slot in the map, or Nobody
    heldSlots,    \* the slots not yet released
    waitsFor,     \* waitsFor[r]: the slot r awaits
    reqAt,        \* reqAt[r]: where request r is
    layer,        \* layer[r]: the layer r is in
    record,       \* the request whose response is stored, or Nobody
    saves,        \* saves in progress: <<request, layer, which of the two>>
    code,         \* code[r]: how r was answered
    closed,       \* requests whose response has closed
    executed,     \* requests whose handler had its effect
    saveFailures

idempotencyVars ==
    <<inFlightKeys, heldSlots, waitsFor, reqAt, layer, record, saves, code, closed, executed, saveFailures>>

Slot == Request \X (1..Layers)
Code == {"success", "client_error", "auth_error", "server_error"}

ASSUME NobodyApart == Nobody \notin Request /\ Nobody \notin Slot

IdempotencyInit ==
    /\ inFlightKeys = Nobody /\ heldSlots = {} /\ record = Nobody
    /\ saves = {} /\ closed = {} /\ executed = {} /\ saveFailures = 0
    /\ waitsFor = [r \in Request |-> Nobody]
    /\ reqAt = [r \in Request |-> "new"]
    /\ layer = [r \in Request |-> 0]
    /\ code = [r \in Request |-> "none"]

\* The slots S are released.  A request that waits for one of them goes on
\* at once (its continuation is a microtask) and puts a slot of its own in
\* the map without looking again; the last to do so is left in the map.
ReleaseAll(S, where) ==
    LET woken == {r \in Request : where[r] = "await" /\ waitsFor[r] \in S \cap heldSlots}
        mine == {<<r, layer[r]>> : r \in woken}
    IN  /\ heldSlots' = (heldSlots \ S) \cup mine
        /\ reqAt' = [r \in Request |-> IF r \in woken THEN "lookup" ELSE where[r]]
        /\ IF mine = {}
           THEN inFlightKeys' = IF inFlightKeys \in S THEN Nobody ELSE inFlightKeys
           ELSE \E s \in mine : inFlightKeys' = s

\* Layer l of request r calls waitForInFlight.
waitForInFlight(r, l) ==
    /\ layer' = [layer EXCEPT ![r] = l]
    /\ IF inFlightKeys # Nobody
       THEN /\ waitsFor' = [waitsFor EXCEPT ![r] = inFlightKeys]
            /\ reqAt' = [reqAt EXCEPT ![r] = "await"]
            /\ UNCHANGED <<inFlightKeys, heldSlots>>
       ELSE /\ inFlightKeys' = <<r, l>> /\ heldSlots' = heldSlots \cup {<<r, l>>}
            /\ reqAt' = [reqAt EXCEPT ![r] = "lookup"]
            /\ UNCHANGED waitsFor

arrive(r) ==
    /\ reqAt[r] = "new"
    /\ waitForInFlight(r, 1)
    /\ UNCHANGED <<record, saves, code, closed, executed, saveFailures>>

\* Mutant: a response that is not cached frees no slot.
jsonKeeps(r, k, l, S) ==
    LET times == [success |-> {1, 2}, client_error |-> {1, 2}, auth_error |-> {1}, server_error |-> {}]
    IN  /\ code' = [code EXCEPT ![r] = k]
        /\ saves' = saves \cup ({r} \X (1..l) \X times[k])
        /\ ReleaseAll(S, [reqAt EXCEPT ![r] = "answered"])

\* res.json with status k, through the overrides of layers 1..l, that also
\* releases the slots S.  A layer saves a response below 500, and saves it
\* again unless it is 401 or 403; a response it will not cache frees its slot.
json(r, k, l, S) ==
    LET freed == IF k \in {"auth_error", "server_error"} THEN {r} \X (1..l) ELSE {}
        times == [success |-> {1, 2}, client_error |-> {1, 2}, auth_error |-> {1}, server_error |-> {}]
    IN  /\ code' = [code EXCEPT ![r] = k]
        /\ saves' = saves \cup ({r} \X (1..l) \X times[k])
        /\ ReleaseAll(S \cup freed, [reqAt EXCEPT ![r] = "answered"])

\* Mutant: a stored response is replayed to whoever sends the key.
boundToKey(r) == TRUE

\* constantTimeEquals(boundKeyHash, storedBoundHash)
constantTimeEquals(r) == BoundKeyHash[r] = BoundKeyHash[record]

\* findByKey and what follows up to the next wait.
findByKey(r) ==
    LET own == <<r, layer[r]>>
    IN  /\ reqAt[r] = "lookup"
        /\ IF record # Nobody
           THEN /\ json(r, IF constantTimeEquals(r) THEN "success" ELSE "client_error",
                        layer[r] - 1, {own})
                /\ UNCHANGED <<waitsFor, layer>>
           ELSE /\ IF layer[r] < Layers
                   THEN waitForInFlight(r, layer[r] + 1)
                   ELSE /\ reqAt' = [reqAt EXCEPT ![r] = "handler"]
                        /\ UNCHANGED <<inFlightKeys, heldSlots, waitsFor, layer>>
                /\ UNCHANGED <<saves, code>>
        /\ UNCHANGED <<record, closed, executed, saveFailures>>

\* The lookup throws: the slot is freed and the error handler answers.
findByKeyFails(r) ==
    /\ reqAt[r] = "lookup" /\ saveFailures < MaxSaveFailures
    /\ saveFailures' = saveFailures + 1
    /\ json(r, "server_error", layer[r] - 1, {<<r, layer[r]>>})
    /\ UNCHANGED <<waitsFor, layer, record, closed, executed>>

\* The route handler runs and answers; only a success has had an effect.
handler(r, k) ==
    /\ reqAt[r] = "handler"
    /\ executed' = IF k = "success" THEN executed \cup {r} ELSE executed
    /\ json(r, k, Layers, {})
    /\ UNCHANGED <<waitsFor, layer, record, closed, saveFailures>>

\* IdempotencyRepository.save: a status of 400 or more deletes the record.
savedRecord(r) == IF code[r] = "success" THEN r ELSE Nobody

\* A save ends, well or not, and frees the layer's slot.
save(s) ==
    /\ s \in saves
    /\ saves' = saves \ {s}
    /\ \/ record' = savedRecord(s[1]) /\ UNCHANGED saveFailures
       \/ /\ saveFailures < MaxSaveFailures
          /\ saveFailures' = saveFailures + 1
          /\ UNCHANGED record
    /\ ReleaseAll({<<s[1], s[2]>>}, reqAt)
    /\ UNCHANGED <<waitsFor, layer, code, closed, executed>>

\* The response closes, after it was sent or because the client has gone;
\* every slot the request has taken by then is freed.
close(r) ==
    /\ reqAt[r] # "new" /\ r \notin closed
    /\ PromptSave => reqAt[r] = "answered" /\ \A s \in saves : s[1] # r
    /\ closed' = closed \cup {r}
    /\ ReleaseAll({s \in heldSlots : s[1] = r}, reqAt)
    /\ UNCHANGED <<waitsFor, layer, record, saves, code, executed, saveFailures>>

IdempotencyNext ==
    \/ \E r \in Request :
          \/ arrive(r) \/ findByKey(r) \/ findByKeyFails(r) \/ close(r)
          \/ \E k \in Code : handler(r, k)
    \/ \E s \in saves : save(s)

IdempotencySpec == IdempotencyInit /\ [][IdempotencyNext]_idempotencyVars

(***************************************************************************)
(* The event loop runs what is ready, and the database answers; no client  *)
(* is obliged to hang up.                                                  *)
(***************************************************************************)
IdempotencyFairSpec ==
    /\ IdempotencySpec
    /\ \A r \in Request :
          /\ WF_idempotencyVars(findByKey(r))
          /\ WF_idempotencyVars(\E k \in Code : handler(r, k))
    /\ WF_idempotencyVars(\E s \in saves : save(s))

(***************************************************************************)
(* "a concurrent retry waits for the durable record rather than executing  *)
(* the payout again" (idempotency.ts:240-242): the handler has its effect  *)
(* for at most one of the requests that carry the key.                     *)
(***************************************************************************)
ExecutedOnce == \A r, q \in executed : r = q

(***************************************************************************)
(* A request is answered with success only if it was executed, or if a     *)
(* request of the same actor with the same payload was: however lookups    *)
(* and saves of requests with different payloads cross, nobody is told of  *)
(* the success of something they did not ask for.                          *)
(***************************************************************************)
SuccessIsOwn ==
    \A r \in Request :
        code[r] = "success" => \E q \in executed : BoundKeyHash[q] = BoundKeyHash[r]

(***************************************************************************)
(* "First attempt - processes the payout and stores the key"               *)
(* (docs/IDEMPOTENCY.md:29): a request that arrives is answered, without   *)
(* the client having to hang up first.                                     *)
(***************************************************************************)
EveryRequestAnswered ==
    \A r \in Request : (reqAt[r] # "new") ~> (reqAt[r] = "answered")
==============================================================================
