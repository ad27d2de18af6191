--------------------------- MODULE OutboxProofs ---------------------------
(***************************************************************************)
(* Proofs about the transactional outbox, for any number of events,        *)
(* publishers and overlapping batches, with leases that expire at any      *)
(* time: rows keep their final status, no event is delivered twice while   *)
(* no publisher is stopped, and no event is lost until a publisher crashes *)
(* or a publish fails.                                                     *)
(***************************************************************************)
EXTENDS Outbox, SetFacts, TLAPS

\* A run that works on a batch has an event at hand; past the key, that event
\* is not a poison pill.
RunInv ==
    \A c \in Consumer, r \in Run :
        /\ at[c][r] \in {"next", "publish", "skip", "mark"} => todo[c][r] # <<>>
        /\ at[c][r] \in {"publish", "skip", "mark"} => Head(todo[c][r]) \notin Poison

\* A poison pill is quarantined, never published.
PoisonInv == \A e \in Poison : status[e] \notin {"published", "deleted"}

TInv == TypeOK /\ RunInv /\ PoisonInv

LEMMA HeadTail ==
    ASSUME NEW s \in Seq(Event), s # <<>>
    PROVE  /\ Head(s) \in Event /\ Tail(s) \in Seq(Event)
           /\ Len(s) # 1 => Tail(s) # <<>>
<1>1. Head(s) \in Event /\ Tail(s) \in Seq(Event) /\ Len(Tail(s)) = Len(s) - 1
  OBVIOUS
<1>2. Len(s) \in Nat
  OBVIOUS
<1>3. Len(<<>>) = 0
  BY Zenon
<1>4. ASSUME Len(s) # 1 PROVE Len(Tail(s)) # 0
  BY <1>1, <1>2, <1>4
<1> QED
  BY <1>1, <1>3, <1>4, Zenon

\* What advance() and abandon() do to the runs.
RunsKept(c, r) ==
    /\ at' \in [Consumer -> [Run -> {"idle", "claim", "next", "publish", "skip", "mark"}]]
    /\ todo' \in [Consumer -> [Run -> Seq(Event)]]
    /\ keyed' \in [Consumer -> [Run -> SUBSET Event]]
    /\ at'[c][r] \in {"idle", "next"}
    /\ at'[c][r] = "next" => todo'[c][r] # <<>>
    /\ \A d \in Consumer, q \in Run :
          d # c \/ q # r => at'[d][q] = at[d][q] /\ todo'[d][q] = todo[d][q]

LEMMA AdvanceKeeps ==
    ASSUME TypeOK, NEW c \in Consumer, NEW r \in Run, todo[c][r] # <<>>, advance(c, r)
    PROVE  RunsKept(c, r)
<1>1. todo[c][r] \in Seq(Event)
  BY Zenon DEF TypeOK
<1>2. Tail(todo[c][r]) \in Seq(Event) /\ (Len(todo[c][r]) # 1 => Tail(todo[c][r]) # <<>>)
  BY <1>1, HeadTail, Zenon
<1>3. todo' \in [Consumer -> [Run -> Seq(Event)]] /\ todo'[c][r] = Tail(todo[c][r])
  BY <1>2, Zenon DEF TypeOK, advance
<1>4. /\ at' \in [Consumer -> [Run -> {"idle", "claim", "next", "publish", "skip", "mark"}]]
      /\ at'[c][r] = IF Len(todo[c][r]) = 1 THEN "idle" ELSE "next"
  BY Zenon DEF TypeOK, advance
<1>5. keyed' \in [Consumer -> [Run -> SUBSET Event]]
  BY DEF TypeOK, advance
<1>6. \A d \in Consumer, q \in Run :
          d # c \/ q # r => at'[d][q] = at[d][q] /\ todo'[d][q] = todo[d][q]
  BY Zenon DEF TypeOK, advance
<1> QED
  BY <1>2, <1>3, <1>4, <1>5, <1>6, Zenon DEF RunsKept

LEMMA AbandonKeeps ==
    ASSUME TypeOK, NEW c \in Consumer, NEW r \in Run, abandon(c, r)
    PROVE  RunsKept(c, r)
<1>1. <<>> \in Seq(Event)
  OBVIOUS
<1>2. todo' \in [Consumer -> [Run -> Seq(Event)]] /\ keyed' \in [Consumer -> [Run -> SUBSET Event]]
  BY <1>1, Zenon DEF TypeOK, abandon
<1>3. /\ at' \in [Consumer -> [Run -> {"idle", "claim", "next", "publish", "skip", "mark"}]]
      /\ at'[c][r] = "idle"
  BY Zenon DEF TypeOK, abandon
<1>4. \A d \in Consumer, q \in Run :
          d # c \/ q # r => at'[d][q] = at[d][q] /\ todo'[d][q] = todo[d][q]
  BY Zenon DEF TypeOK, abandon
<1> QED
  BY <1>2, <1>3, <1>4, Zenon DEF RunsKept

LEMMA RunsKeptRunInv ==
    ASSUME RunInv, NEW c \in Consumer, NEW r \in Run, RunsKept(c, r)
    PROVE  RunInv'
<1> SUFFICES ASSUME NEW d \in Consumer, NEW q \in Run
             PROVE  /\ at'[d][q] \in {"next", "publish", "skip", "mark"} => todo'[d][q] # <<>>
                    /\ at'[d][q] \in {"publish", "skip", "mark"} => Head(todo'[d][q]) \notin Poison
  BY Zenon DEF RunInv
<1>1. CASE d = c /\ q = r
  BY <1>1, Zenon DEF RunsKept
<1>2. CASE d # c \/ q # r
  <2>1. at'[d][q] = at[d][q] /\ todo'[d][q] = todo[d][q]
    BY <1>2, Zenon DEF RunsKept
  <2> QED
    BY <2>1, Zenon DEF RunInv
<1> QED
  BY <1>1, <1>2, Zenon

-----------------------------------------------------------------------------
(* Type correctness and the terminal states.                                *)

Good == TInv' /\ TerminalKept

LEMMA MarkPublishedGood ==
    ASSUME TInv, NEW c \in Consumer, NEW r \in Run, NEW e \in Event, e \notin Poison,
           todo[c][r] # <<>>, markPublished(c, r, e),
           UNCHANGED <<reinjected, consumer, delivered, counters>>
    PROVE  Good
<1> USE DEF TInv
<1>1. CASE owns(c, e)
  <2>1. /\ status[e] = "processing"
        /\ status' = [status EXCEPT ![e] = "published"]
        /\ owner' = [owner EXCEPT ![e] = None]
        /\ leased' = [leased EXCEPT ![e] = FALSE]
        /\ key' = [key EXCEPT ![e] = FALSE]
        /\ advance(c, r)
    BY <1>1, Zenon DEF markPublished, owns
  <2>2. RunsKept(c, r)
    BY <2>1, AdvanceKeeps, Zenon
  <2>3. TypeOK'
    BY <2>1, <2>2, Zenon DEF TypeOK, RunsKept
  <2>4. PoisonInv' /\ TerminalKept
    BY <2>1 DEF PoisonInv, TerminalKept, TypeOK
  <2> QED
    BY <2>2, <2>3, <2>4, RunsKeptRunInv, Zenon DEF Good
<1>2. CASE ~owns(c, e)
  <2> USE <1>2 DEF markPublished
  <2>1. RunsKept(c, r)
    BY AbandonKeeps, Zenon
  <2>2. TypeOK'
    BY <2>1, Zenon DEF TypeOK, RunsKept
  <2>3. PoisonInv' /\ TerminalKept
    BY Zenon DEF PoisonInv, TerminalKept
  <2> QED
    BY <2>1, <2>2, <2>3, RunsKeptRunInv, Zenon DEF Good
<1> QED
  BY <1>1, <1>2, Zenon

LEMMA RowsGood ==
    ASSUME TInv
    PROVE  /\ \A e \in Event : create(e) \/ cleanup(e) \/ leaseExpires(e) => Good
           /\ \A q, e \in Event : reinject(q, e) => Good
<1> USE DEF TInv
<1>1. ASSUME NEW e \in Event, create(e) PROVE Good
  <2> USE <1>1 DEF create, isNext
  <2>1. TypeOK'
    BY Zenon DEF TypeOK, runVars
  <2>2. RunInv'
    BY Zenon DEF RunInv, runVars
  <2>3. PoisonInv' /\ TerminalKept
    BY DEF TypeOK, PoisonInv, TerminalKept
  <2> QED
    BY <2>1, <2>2, <2>3, Zenon DEF Good
<1>2. ASSUME NEW e \in Event, cleanup(e) PROVE Good
  <2> USE <1>2 DEF cleanup
  <2>1. TypeOK'
    BY Zenon DEF TypeOK, runVars
  <2>2. RunInv'
    BY Zenon DEF RunInv, runVars
  <2>3. PoisonInv' /\ TerminalKept
    BY DEF TypeOK, PoisonInv, TerminalKept
  <2> QED
    BY <2>1, <2>2, <2>3, Zenon DEF Good
<1>3. ASSUME NEW e \in Event, leaseExpires(e) PROVE Good
  <2> USE <1>3 DEF leaseExpires
  <2>1. TypeOK'
    BY Zenon DEF TypeOK, runVars
  <2>2. RunInv'
    BY Zenon DEF RunInv, runVars
  <2>3. PoisonInv' /\ TerminalKept
    BY Zenon DEF TypeOK, PoisonInv, TerminalKept
  <2> QED
    BY <2>1, <2>2, <2>3, Zenon DEF Good
<1>4. ASSUME NEW q \in Event, NEW e \in Event, reinject(q, e) PROVE Good
  <2> USE <1>4 DEF reinject, isNext
  <2>1. TypeOK'
    BY Zenon DEF TypeOK, runVars
  <2>2. RunInv'
    BY Zenon DEF RunInv, runVars
  <2>3. PoisonInv' /\ TerminalKept
    BY DEF TypeOK, PoisonInv, TerminalKept
  <2> QED
    BY <2>1, <2>2, <2>3, Zenon DEF Good
<1> QED
  BY <1>1, <1>2, <1>3, <1>4, Zenon

LEMMA LifeCycleGood ==
    ASSUME TInv, NEW c \in Consumer
    PROVE  start(c) \/ renewLease(c) \/ stop(c) \/ releaseClaims(c) \/ crash(c) => Good
<1> USE DEF TInv
<1>1. ASSUME start(c) PROVE Good
  <2> USE <1>1 DEF start
  <2>1. TypeOK'
    BY Zenon DEF TypeOK, rowVars, runVars
  <2>2. RunInv'
    BY Zenon DEF RunInv, runVars
  <2>3. PoisonInv' /\ TerminalKept
    BY Zenon DEF TypeOK, PoisonInv, TerminalKept, rowVars
  <2> QED
    BY <2>1, <2>2, <2>3, Zenon DEF Good
<1>2. ASSUME renewLease(c) PROVE Good
  <2> USE <1>2 DEF renewLease
  <2>1. TypeOK'
    BY Zenon DEF TypeOK, rowVars, runVars
  <2>2. RunInv'
    BY Zenon DEF RunInv, runVars
  <2>3. PoisonInv' /\ TerminalKept
    BY Zenon DEF TypeOK, PoisonInv, TerminalKept, rowVars
  <2> QED
    BY <2>1, <2>2, <2>3, Zenon DEF Good
<1>3. ASSUME stop(c) PROVE Good
  <2> USE <1>3 DEF stop
  <2>1. TypeOK'
    BY Zenon DEF TypeOK, rowVars, runVars
  <2>2. RunInv'
    BY Zenon DEF RunInv, runVars
  <2>3. PoisonInv' /\ TerminalKept
    BY Zenon DEF TypeOK, PoisonInv, TerminalKept, rowVars
  <2> QED
    BY <2>1, <2>2, <2>3, Zenon DEF Good
<1>4. ASSUME releaseClaims(c) PROVE Good
  <2> USE <1>4 DEF releaseClaims
  <2>1. TypeOK'
    BY OutboxAssumption, Zenon DEF TypeOK, runVars
  <2>2. RunInv'
    BY Zenon DEF RunInv, runVars
  <2>3. PoisonInv' /\ TerminalKept
    BY OutboxAssumption, Zenon DEF PoisonInv, TerminalKept
  <2> QED
    BY <2>1, <2>2, <2>3, Zenon DEF Good
<1>5. ASSUME crash(c) PROVE Good
  <2> USE <1>5 DEF crash
  <2>1. <<>> \in Seq(Event)
    OBVIOUS
  <2>2. TypeOK'
    BY <2>1, Zenon DEF TypeOK, rowVars
  <2>3. \A d \in Consumer, q \in Run :
           at'[d][q] = "idle" \/ (at'[d][q] = at[d][q] /\ todo'[d][q] = todo[d][q])
    BY Zenon DEF TypeOK
  <2>4. RunInv'
    <3> SUFFICES ASSUME NEW d \in Consumer, NEW q \in Run
                 PROVE  /\ at'[d][q] \in {"next", "publish", "skip", "mark"} => todo'[d][q] # <<>>
                        /\ at'[d][q] \in {"publish", "skip", "mark"} => Head(todo'[d][q]) \notin Poison
      BY Zenon DEF RunInv
    <3> QED
      BY <2>3 DEF RunInv
  <2>5. PoisonInv' /\ TerminalKept
    BY Zenon DEF PoisonInv, TerminalKept, rowVars
  <2> QED
    BY <2>2, <2>4, <2>5, Zenon DEF Good
<1> QED
  BY <1>1, <1>2, <1>3, <1>4, <1>5, Zenon

LEMMA InitGood == Init => TInv
<1> SUFFICES ASSUME Init PROVE TInv
  BY Zenon
<1>1. <<>> \in Seq(Event)
  OBVIOUS
<1>2. TypeOK
  BY <1>1, Zenon DEF Init, TypeOK
<1>3. RunInv /\ PoisonInv
  BY OutboxAssumption, Zenon DEF Init, RunInv, PoisonInv
<1> QED
  BY <1>2, <1>3, Zenon DEF TInv

(***************************************************************************)
(* No event is delivered twice.  An event somebody is about to deliver, or *)
(* has delivered, is guarded by its key until its row is terminal, and     *)
(* only a row without a key gives the right to publish.  stop() clears     *)
(* keys, so this needs MaxStops = 0.                                       *)
(***************************************************************************)

\* Events nobody can acquire the key of any more.
Guarded == {e \in Event : key[e] \/ status[e] \in {"published", "quarantined", "deleted"}}

publishing(c, r) == at[c][r] = "publish"

\* An event about to be delivered is guarded, has not been delivered, and no
\* other batch is about to deliver it; a delivered event stays guarded.
KeyInv ==
    /\ \A c \in Consumer, r \in Run : publishing(c, r) =>
          Head(todo[c][r]) \in Guarded /\ delivered[Head(todo[c][r])] = 0
    /\ \A c, d \in Consumer, r, q \in Run :
          publishing(c, r) /\ publishing(d, q) /\ Head(todo[c][r]) = Head(todo[d][q]) => c = d /\ r = q
    /\ \A e \in Event : delivered[e] <= 1 /\ (delivered[e] = 1 => e \in Guarded)

\* Without stops no publisher gives its claims back.
NoStops == stops = 0 /\ \A c \in Consumer : consumer[c] \notin {"stopping", "stopped"}

DInv == TInv /\ KeyInv /\ NoStops

\* A step that starts no publish and delivers nothing keeps KeyInv.
LEMMA QuietKeeps ==
    ASSUME KeyInv, Guarded \subseteq Guarded', delivered' = delivered,
           \A c \in Consumer, r \in Run :
               at'[c][r] = "publish" => at[c][r] = "publish" /\ todo'[c][r] = todo[c][r]
    PROVE  KeyInv'
<1>1. \A c \in Consumer, r \in Run : publishing(c, r)' =>
          publishing(c, r) /\ Head(todo'[c][r]) = Head(todo[c][r])
  BY Zenon DEF publishing
<1>2. \A c \in Consumer, r \in Run : publishing(c, r)' =>
          Head(todo'[c][r]) \in Guarded' /\ delivered'[Head(todo'[c][r])] = 0
  BY <1>1 DEF KeyInv
<1>3. \A c, d \in Consumer, r, q \in Run :
          publishing(c, r)' /\ publishing(d, q)' /\ Head(todo'[c][r]) = Head(todo'[d][q])
            => c = d /\ r = q
  BY <1>1, Zenon DEF KeyInv
<1>4. \A e \in Event : delivered'[e] <= 1 /\ (delivered'[e] = 1 => e \in Guarded')
  BY Zenon DEF KeyInv
<1> QED
  BY <1>2, <1>3, <1>4, Zenon DEF KeyInv

LEMMA GuardedGrows ==
    ASSUME TerminalKept,
           \A e \in Event : key[e] => key'[e] \/ status'[e] \in {"published", "quarantined", "deleted"}
    PROVE  Guarded \subseteq Guarded'
  BY Zenon DEF Guarded, TerminalKept

LEMMA RunsKeptQuiet ==
    ASSUME NEW c \in Consumer, NEW r \in Run, RunsKept(c, r)
    PROVE  \A d \in Consumer, q \in Run :
               at'[d][q] = "publish" => at[d][q] = "publish" /\ todo'[d][q] = todo[d][q]
<1> SUFFICES ASSUME NEW d \in Consumer, NEW q \in Run, at'[d][q] = "publish"
             PROVE  at[d][q] = "publish" /\ todo'[d][q] = todo[d][q]
  BY Zenon
<1>1. d # c \/ q # r
  BY Zenon DEF RunsKept
<1> QED
  BY <1>1, Zenon DEF RunsKept

LEMMA MarkPublishedQuiet ==
    ASSUME TInv, KeyInv, TerminalKept, NEW c \in Consumer, NEW r \in Run, NEW e \in Event,
           todo[c][r] # <<>>, markPublished(c, r, e), delivered' = delivered
    PROVE  KeyInv'
<1>1. RunsKept(c, r)
  BY AdvanceKeeps, AbandonKeeps, Zenon DEF markPublished, TInv
<1>2. \A x \in Event : key[x] => key'[x] \/ status'[x] \in {"published", "quarantined", "deleted"}
  <2>1. CASE owns(c, e)
    BY <2>1, Zenon DEF markPublished, TInv, TypeOK
  <2>2. CASE ~owns(c, e)
    BY <2>2, Zenon DEF markPublished
  <2> QED
    BY <2>1, <2>2, Zenon
<1> QED
  BY <1>1, <1>2, QuietKeeps, GuardedGrows, RunsKeptQuiet, Zenon

LEMMA RowsKeepKeyInv ==
    ASSUME TInv, KeyInv, TerminalKept
    PROVE  /\ \A e \in Event : create(e) \/ cleanup(e) \/ leaseExpires(e) => KeyInv'
           /\ \A q, e \in Event : reinject(q, e) => KeyInv'
<1>1. ASSUME UNCHANGED <<key, runVars, delivered>> PROVE KeyInv'
  BY <1>1, QuietKeeps, GuardedGrows, Zenon DEF runVars
<1> QED
  BY <1>1, Zenon DEF create, cleanup, leaseExpires, reinject

LEMMA LifeCycleKeepsKeyInv ==
    ASSUME TInv, KeyInv, NoStops, MaxStops = 0, TerminalKept, NEW c \in Consumer,
           start(c) \/ renewLease(c) \/ stop(c) \/ releaseClaims(c) \/ crash(c)
    PROVE  KeyInv' /\ NoStops'
<1>1. ~stop(c) /\ ~releaseClaims(c)
  BY DEF NoStops, stop, releaseClaims
<1>2. NoStops'
  BY <1>1, Zenon DEF NoStops, start, renewLease, crash, counters, TInv, TypeOK
<1>3. key' = key /\ delivered' = delivered
  BY <1>1, Zenon DEF start, renewLease, crash, rowVars
<1>4. \A d \in Consumer, q \in Run :
          at'[d][q] = "publish" => at[d][q] = "publish" /\ todo'[d][q] = todo[d][q]
  <2>1. CASE start(c) \/ renewLease(c)
    BY <2>1, Zenon DEF start, renewLease, runVars
  <2>2. CASE crash(c)
    BY <2>2, Zenon DEF crash, TInv, TypeOK
  <2> QED
    BY <1>1, <2>1, <2>2, Zenon
<1> QED
  BY <1>2, <1>3, <1>4, QuietKeeps, GuardedGrows, Zenon

\* The key is acquired only on an unguarded event, which nobody else is about
\* to deliver and which has not been delivered.
LEMMA KeyKeepsKeyInv ==
    ASSUME TInv, KeyInv, TerminalKept, NEW c \in Consumer, NEW r \in Run,
           trySetPublishIdempotencyKey(c, r)
    PROVE  KeyInv'
<1> DEFINE e == Head(todo[c][r])
           acquired == owns(c, e) /\ ~key[e]
<1>1. /\ key' = [key EXCEPT ![e] = @ \/ acquired]
      /\ at' = [at EXCEPT ![c][r] = IF acquired THEN "publish" ELSE "skip"]
      /\ UNCHANGED <<status, todo, delivered>>
  BY Zenon DEF trySetPublishIdempotencyKey
<1>2. e \in Event
  BY HeadTail DEF trySetPublishIdempotencyKey, TInv, RunInv, TypeOK
<1> HIDE DEF e
<1>3. CASE ~acquired
  <2>1. key' = key
    BY <1>1, <1>3, Zenon DEF TInv, TypeOK
  <2>2. \A d \in Consumer, q \in Run : at'[d][q] = "publish" => at[d][q] = "publish"
    BY <1>1, <1>3, Zenon DEF TInv, TypeOK
  <2> QED
    BY <1>1, <2>1, <2>2, QuietKeeps, GuardedGrows, Zenon
<1>4. CASE acquired
  <2>1. e \notin Guarded
    BY <1>4, Zenon DEF Guarded, owns
  <2>2. Guarded \subseteq Guarded' /\ e \in Guarded'
    <3>1. key \in [Event -> BOOLEAN]
      BY Zenon DEF TInv, TypeOK
    <3>2. key'[e] /\ \A x \in Event : key[x] => key'[x]
      BY <1>1, <1>2, <1>4, <3>1, Zenon
    <3> QED
      BY <1>1, <1>2, <3>2, Zenon DEF Guarded
  <2>3. delivered[e] = 0
    <3>1. delivered[e] \in Nat
      BY <1>2, Zenon DEF TInv, TypeOK
    <3>2. delivered[e] <= 1 /\ delivered[e] # 1
      BY <1>2, <2>1, Zenon DEF KeyInv
    <3> QED
      BY <3>1, <3>2
  <2>4. \A d \in Consumer, q \in Run : publishing(d, q) => Head(todo[d][q]) # e
    BY <2>1, Zenon DEF KeyInv, e
  <2>5. \A d \in Consumer, q \in Run : publishing(d, q)' => publishing(d, q) \/ (d = c /\ q = r)
    BY <1>1, Zenon DEF publishing, TInv, TypeOK
  <2>6. \A d \in Consumer, q \in Run : publishing(d, q)' =>
            Head(todo'[d][q]) \in Guarded' /\ delivered'[Head(todo'[d][q])] = 0
    BY <1>1, <2>2, <2>3, <2>5, Zenon DEF KeyInv, e
  <2>7. \A d, b \in Consumer, q, p \in Run :
            publishing(d, q)' /\ publishing(b, p)' /\ Head(todo'[d][q]) = Head(todo'[b][p])
              => d = b /\ q = p
    BY <1>1, <2>4, <2>5 DEF KeyInv, e
  <2>8. \A x \in Event : delivered'[x] <= 1 /\ (delivered'[x] = 1 => x \in Guarded')
    BY <1>1, <2>2, Zenon DEF KeyInv
  <2> QED
    BY <2>6, <2>7, <2>8, Zenon DEF KeyInv
<1> QED
  BY <1>3, <1>4, Zenon

\* Delivering an event, whether or not the run learns of it, ends the right to
\* deliver it.
LEMMA DeliverKeepsKeyInv ==
    ASSUME TInv, KeyInv, NEW c \in Consumer, NEW r \in Run, publishing(c, r),
           Guarded' = Guarded, at'[c][r] # "publish",
           \A d \in Consumer, q \in Run :
               at'[d][q] = "publish" => at[d][q] = "publish" /\ todo'[d][q] = todo[d][q],
           delivered' = [delivered EXCEPT ![Head(todo[c][r])] = @ + 1]
    PROVE  KeyInv'
<1> DEFINE e == Head(todo[c][r])
<1>1. e \in Guarded /\ e \in Event /\ delivered[e] = 0
  BY Zenon DEF KeyInv, Guarded
<1>2. \A d \in Consumer, q \in Run : publishing(d, q)' =>
          publishing(d, q) /\ Head(todo'[d][q]) = Head(todo[d][q]) /\ Head(todo[d][q]) # e
  BY DEF publishing, KeyInv
<1>3. delivered \in [Event -> Nat] /\ delivered' = [delivered EXCEPT ![e] = @ + 1]
  BY Zenon DEF TInv, TypeOK
<1>4. delivered'[e] = 1 /\ \A x \in Event : x # e => delivered'[x] = delivered[x]
  <2> HIDE DEF e
  <2> QED
    BY <1>1, <1>3
<1>5. \A d \in Consumer, q \in Run : publishing(d, q)' =>
          Head(todo'[d][q]) \in Guarded' /\ delivered'[Head(todo'[d][q])] = 0
  <2> SUFFICES ASSUME NEW d \in Consumer, NEW q \in Run, publishing(d, q)'
               PROVE  Head(todo'[d][q]) \in Guarded' /\ delivered'[Head(todo'[d][q])] = 0
    BY Zenon
  <2>1. Head(todo[d][q]) \in Guarded /\ delivered[Head(todo[d][q])] = 0
    BY <1>2, ZenonT(40) DEF KeyInv
  <2>2. Head(todo[d][q]) \in Event
    BY <2>1, Zenon DEF Guarded
  <2> HIDE DEF e
  <2> QED
    BY <1>2, <1>4, <2>1, <2>2, Zenon
<1>6. \A d, b \in Consumer, q, p \in Run :
          publishing(d, q)' /\ publishing(b, p)' /\ Head(todo'[d][q]) = Head(todo'[b][p])
            => d = b /\ q = p
  BY <1>2 DEF KeyInv
<1>7. \A x \in Event : delivered'[x] <= 1 /\ (delivered'[x] = 1 => x \in Guarded')
  <2> HIDE DEF e
  <2> QED
    BY <1>1, <1>4 DEF KeyInv
<1> QED
  BY <1>5, <1>6, <1>7, Zenon DEF KeyInv

LEMMA RunStepKeepsKeyInv ==
    ASSUME TInv, KeyInv, TerminalKept, NEW c \in Consumer, NEW r \in Run,
           processBatch(c, r) \/ runStep(c, r) \/ publishFails(c, r)
    PROVE  KeyInv'
<1> DEFINE e == Head(todo[c][r])
<1>e. ASSUME at[c][r] \in {"next", "publish", "skip", "mark"}
      PROVE  todo[c][r] # <<>> /\ e \in Event
  BY <1>e, HeadTail, SMTT(30) DEF TInv, RunInv, TypeOK
<1> HIDE DEF e
<1>1. CASE processBatch(c, r)
  <2>1. \A d \in Consumer, q \in Run : at'[d][q] = "publish" => at[d][q] = "publish"
    BY <1>1, Zenon DEF processBatch, TInv, TypeOK
  <2>2. UNCHANGED <<key, todo, delivered>>
    BY <1>1, Zenon DEF processBatch, rowVars
  <2> QED
    BY <2>1, <2>2, QuietKeeps, GuardedGrows, Zenon
<1>2. CASE claimEvents(c, r)
  <2>1. UNCHANGED <<key, delivered>>
    BY <1>2, Zenon DEF claimEvents
  <2>2. \E a \in {"idle", "next"} : at' = [at EXCEPT ![c][r] = a]
    BY <1>2, Zenon DEF claimEvents
  <2>3. \E rows : todo' = [todo EXCEPT ![c][r] = rows]
    BY <1>2, Zenon DEF claimEvents
  <2>4. \A d \in Consumer, q \in Run :
            at'[d][q] = "publish" => at[d][q] = "publish" /\ todo'[d][q] = todo[d][q]
    BY <2>2, <2>3 DEF TInv, TypeOK
  <2> QED
    BY <2>1, <2>4, QuietKeeps, GuardedGrows, Zenon
<1>3. CASE quarantine(c, r)
  <2>1. /\ todo[c][r] # <<>> /\ e \in Event /\ advance(c, r) /\ delivered' = delivered
        /\ status' = [status EXCEPT ![e] = "quarantined"]
        /\ key' = [key EXCEPT ![e] = FALSE]
    BY <1>3, <1>e, Zenon DEF quarantine, e
  <2>2. RunsKept(c, r)
    BY <2>1, AdvanceKeeps, Zenon DEF TInv
  <2>3. \A x \in Event : key[x] => key'[x] \/ status'[x] \in {"published", "quarantined", "deleted"}
    BY <2>1, Zenon DEF TInv, TypeOK
  <2> QED
    BY <2>1, <2>2, <2>3, QuietKeeps, GuardedGrows, RunsKeptQuiet, Zenon
<1>4. CASE skipKeyed(c, r) \/ skipUnacquired(c, r) \/ mark(c, r)
  <2>1. todo[c][r] # <<>> /\ e \in Event /\ markPublished(c, r, e) /\ delivered' = delivered
    BY <1>4, <1>e, Zenon DEF skipKeyed, skipUnacquired, mark, e
  <2> QED
    BY <2>1, MarkPublishedQuiet, Zenon
<1>5. CASE trySetPublishIdempotencyKey(c, r)
  BY <1>5, KeyKeepsKeyInv, Zenon
<1>6. CASE publish(c, r)
  <2>1. /\ publishing(c, r) /\ at' = [at EXCEPT ![c][r] = "mark"] /\ UNCHANGED <<status, key, todo>>
        /\ delivered' = [delivered EXCEPT ![Head(todo[c][r])] = @ + 1]
    BY <1>6, Zenon DEF publish, publishing, deliver, rowVars
  <2>2. /\ at'[c][r] # "publish"
        /\ \A d \in Consumer, q \in Run : at'[d][q] = "publish" => at[d][q] = "publish"
    BY <2>1, Zenon DEF TInv, TypeOK
  <2>3. Guarded' = Guarded
    BY <2>1, Zenon DEF Guarded
  <2> QED
    BY <2>1, <2>2, <2>3, DeliverKeepsKeyInv, Zenon
<1>7. CASE publishFails(c, r)
  <2>1. /\ publishing(c, r) /\ abandon(c, r) /\ UNCHANGED <<status, key>>
        /\ \/ delivered' = [delivered EXCEPT ![Head(todo[c][r])] = @ + 1]
           \/ delivered' = delivered
    BY <1>7, Zenon DEF publishFails, publishing, deliver, rowVars
  <2>2. RunsKept(c, r)
    BY <2>1, AbandonKeeps, Zenon DEF TInv
  <2>3. at'[c][r] # "publish"
    BY <2>2, Zenon DEF RunsKept
  <2>4. Guarded' = Guarded
    BY <2>1, Zenon DEF Guarded
  <2> QED
    BY <2>1, <2>2, <2>3, <2>4, RunsKeptQuiet, DeliverKeepsKeyInv, QuietKeeps, Zenon
<1> QED
  BY <1>1, <1>2, <1>3, <1>4, <1>5, <1>6, <1>7, Zenon DEF runStep

(***************************************************************************)
(* Only faults lose events.  A key, a keyed batch entry, a skip by the     *)
(* owner and the status published all go back to a delivery, or to a run   *)
(* that is about to make one.                                              *)
(***************************************************************************)

\* The event reached its subscribers, or a run is about to publish it.
Reached(e) == delivered[e] > 0 \/ \E c \in Consumer, r \in Run : at[c][r] = "publish" /\ Head(todo[c][r]) = e

\* The condition of OnlyFaultsLose.
Faultless == crashes + failures = 0 /\ ~reclaimed

\* What a run relies on when it marks an event as published.
RunReached(c, r) ==
    /\ \A e \in keyed[c][r] : Reached(e)
    /\ at[c][r] = "mark" => delivered[Head(todo[c][r])] > 0
    /\ at[c][r] = "skip" => Reached(Head(todo[c][r])) \/ ~owns(c, Head(todo[c][r]))
\* What the state of a row says of its event.
RowReached(e) == key[e] \/ status[e] \in {"published", "deleted"} => Reached(e)

\* The inductive invariant for events that are not lost.
FaultInv ==
    /\ crashes \in Nat /\ failures \in Nat
    /\ Faultless => (\A e \in Event : RowReached(e)) /\ \A c \in Consumer, r \in Run : RunReached(c, r)

\* A step after which whatever was reached still is.
Kept == \A e \in Event : Reached(e) => Reached(e)'

\* Deliveries are not undone.
Delivers == \A e \in Event : delivered[e] > 0 => delivered'[e] > 0

\* No run is about to skip an event that its publisher comes to own.
SkipsKept ==
    \A c \in Consumer, r \in Run, e \in Event :
        at[c][r] = "skip" /\ Head(todo[c][r]) = e /\ owns(c, e)' => owns(c, e)

\* A run the step leaves alone.
SameRun(c, r) == at'[c][r] = at[c][r] /\ todo'[c][r] = todo[c][r] /\ keyed'[c][r] = keyed[c][r]

\* A run goes on unchanged, and so does what it relies on.
LEMMA OtherRun ==
    ASSUME TInv, Kept, Delivers, SkipsKept, NEW c \in Consumer, NEW r \in Run, RunReached(c, r), SameRun(c, r)
    PROVE  RunReached(c, r)'
<1>0. at'[c][r] = at[c][r] /\ todo'[c][r] = todo[c][r] /\ keyed'[c][r] = keyed[c][r]
    BY Zenon DEF SameRun
<1>1. keyed[c][r] \subseteq Event
    BY DEF TInv, TypeOK
<1>2. at[c][r] \in {"mark", "skip"} => Head(todo[c][r]) \in Event
    BY HeadTail, SMTT(30) DEF TInv, TypeOK, RunInv
<1>3. \A e \in keyed'[c][r] : Reached(e)'
    BY <1>0, <1>1, Zenon DEF Kept, RunReached
<1>4. at'[c][r] = "mark" => delivered'[Head(todo'[c][r])] > 0
    BY <1>0, <1>2, Zenon DEF RunReached, Delivers
<1>5. ASSUME at'[c][r] = "skip", NEW e, e = Head(todo[c][r]) PROVE Reached(e)' \/ ~owns(c, e)'
    <2>1. e \in Event
        BY <1>0, <1>2, <1>5, Zenon
    <2>2. Reached(e) \/ ~owns(c, e)
        BY <1>0, <1>5, Zenon DEF RunReached
    <2> QED BY <1>0, <1>5, <2>1, <2>2, Zenon DEF Kept, SkipsKept
<1>6. at'[c][r] = "skip" => Reached(Head(todo[c][r]))' \/ ~owns(c, Head(todo[c][r]))'
    BY <1>0, <1>5, Zenon DEF Reached, owns
<1> QED BY <1>3, <1>4, <1>6, Zenon DEF RunReached

\* A run that is not past the key of its event relies on what it read only.
LEMMA EarlyRun ==
    ASSUME NEW c \in Consumer, NEW r \in Run, at'[c][r] \notin {"mark", "skip"}, \A e \in keyed'[c][r] : Reached(e)'
    PROVE  RunReached(c, r)'
BY Zenon DEF RunReached

\* A run leaves the publish by delivering its event.
LEMMA ReachedKept ==
    ASSUME Delivers,
           \A c \in Consumer, r \in Run : at[c][r] = "publish" =>
               (at'[c][r] = "publish" /\ todo'[c][r] = todo[c][r]) \/ delivered'[Head(todo[c][r])] > 0
    PROVE  Kept
<1> SUFFICES ASSUME NEW e \in Event, Reached(e) PROVE Reached(e)'
    BY Zenon DEF Kept
<1>1. CASE delivered[e] > 0
    BY <1>1, Zenon DEF Delivers, Reached
<1>2. CASE \E c \in Consumer, r \in Run : at[c][r] = "publish" /\ Head(todo[c][r]) = e
    BY <1>2, Zenon DEF Reached
<1> QED BY <1>1, <1>2, Zenon DEF Reached

\* The conclusion for a step of run r of c, which leaves the other runs alone.
LEMMA RunStepReached ==
    ASSUME TInv, FaultInv, UNCHANGED <<crashes, failures>>, Faultless' => Faultless,
           Faultless' => SkipsKept, Kept, Delivers,
           NEW c \in Consumer, NEW r \in Run,
           \A d \in Consumer, q \in Run : d # c \/ q # r => SameRun(d, q),
           Faultless' => RunReached(c, r)' /\ \A e \in Event : RowReached(e)'
    PROVE  FaultInv'
<1> SUFFICES ASSUME Faultless'
             PROVE  (\A e \in Event : RowReached(e)') /\ \A d \in Consumer, q \in Run : RunReached(d, q)'
    BY Zenon DEF FaultInv
<1>1. ASSUME NEW d \in Consumer, NEW q \in Run PROVE RunReached(d, q)'
    <2>1. CASE d = c /\ q = r
        BY <2>1, Zenon
    <2>2. CASE d # c \/ q # r
        <3>1. RunReached(d, q) /\ SameRun(d, q)
            BY <2>2, Zenon DEF FaultInv
        <3> QED BY <3>1, OtherRun, Zenon
    <2> QED BY <2>1, <2>2, Zenon
<1> QED BY <1>1, Zenon

\* The same where no run moves.
LEMMA RowStepReached ==
    ASSUME TInv, FaultInv, UNCHANGED <<at, todo, keyed, delivered, crashes, failures, reclaimed>>,
           \A c \in Consumer, e \in Event : owns(c, e)' => owns(c, e),
           \A e \in Event : key'[e] \/ status'[e] \in {"published", "deleted"} =>
                               key[e] \/ status[e] \in {"published", "deleted"}
    PROVE  FaultInv'
<1>1. Delivers /\ SkipsKept /\ Faultless' = Faultless
    BY Zenon DEF Delivers, SkipsKept, Faultless
<1>2. Kept
    BY <1>1, ReachedKept, Zenon
<1>3. \A c \in Consumer, r \in Run : SameRun(c, r)
    BY Zenon DEF SameRun
<1>4. \A e \in Event : RowReached(e) => RowReached(e)'
    BY <1>2, Zenon DEF RowReached, Kept
<1> QED BY <1>1, <1>2, <1>3, <1>4, OtherRun, Zenon DEF FaultInv

\* markPublished() by a run that knows the event to be delivered, or does not
\* own it.
LEMMA MarkReached ==
    ASSUME TInv, FaultInv, NEW c \in Consumer, NEW r \in Run, NEW e \in Event, todo[c][r] # << >>,
           at[c][r] # "publish", markPublished(c, r, e), UNCHANGED <<delivered, counters>>,
           Faultless => Reached(e) \/ ~owns(c, e)
    PROVE  FaultInv'
<1>1. TypeOK /\ UNCHANGED <<delivered, crashes, failures, reclaimed>>
    BY Zenon DEF TInv, counters
<1>2. RunsKept(c, r)
    BY <1>1, AdvanceKeeps, AbandonKeeps, Zenon DEF markPublished
<1>3. keyed'[c][r] \subseteq keyed[c][r] /\ \A d \in Consumer, q \in Run : d # c \/ q # r => keyed'[d][q] = keyed[d][q]
    BY <1>1, SMTT(30) DEF markPublished, advance, abandon, TypeOK
<1>4. \A d \in Consumer, q \in Run : d # c \/ q # r => SameRun(d, q)
    BY <1>2, <1>3, SMTT(30) DEF RunsKept, SameRun
<1>5. Delivers /\ (Faultless' <=> Faultless)
    BY <1>1, Zenon DEF Delivers, Faultless
<1>6. Kept
    <2>1. \A d \in Consumer, q \in Run : at[d][q] = "publish" => at'[d][q] = "publish" /\ todo'[d][q] = todo[d][q]
        BY <1>4, Zenon DEF SameRun
    <2> QED BY <1>5, <2>1, ReachedKept, Zenon
<1>7. /\ \A x \in Event : x # e => status'[x] = status[x] /\ owner'[x] = owner[x] /\ key'[x] = key[x]
      /\ ~owns(c, e) => UNCHANGED <<status, owner, key>>
      /\ owns(c, e) => status'[e] = "published"
    BY <1>1 DEF markPublished, TypeOK
<1>8. \A d \in Consumer, x \in Event : owns(d, x)' => owns(d, x)
    BY <1>7, Zenon DEF owns
<1>9. SkipsKept
    BY <1>8, Zenon DEF SkipsKept
<1>10. ASSUME Faultless PROVE RunReached(c, r)' /\ \A x \in Event : RowReached(x)'
    <2>1. (\A x \in Event : RowReached(x)) /\ RunReached(c, r)
        BY <1>10, Zenon DEF FaultInv
    <2>2. keyed[c][r] \subseteq Event /\ at'[c][r] \in {"idle", "next"}
        BY <1>1, <1>2, SMTT(30) DEF TypeOK, RunsKept
    <2>3. \A x \in keyed'[c][r] : Reached(x)'
        BY <1>3, <1>6, <2>1, <2>2, Zenon DEF RunReached, Kept
    <2>4. RunReached(c, r)'
        BY <2>2, <2>3, EarlyRun, Zenon
    <2>5. ASSUME NEW x \in Event PROVE RowReached(x)'
        <3>1. CASE x = e /\ owns(c, e)
            BY <1>6, <1>10, <3>1, Zenon DEF RowReached, Kept
        <3>2. CASE x # e \/ ~owns(c, e)
            BY <1>6, <1>7, <2>1, <3>2, Zenon DEF RowReached, Kept
        <3> QED BY <3>1, <3>2, Zenon
    <2> QED BY <2>4, <2>5, Zenon
<1> QED BY <1>1, <1>4, <1>5, <1>6, <1>9, <1>10, RunStepReached, Zenon

\* Callers, clean-up, the clock and the life cycle of a publisher reach no row.
LEMMA RowsReached ==
    ASSUME TInv, FaultInv
    PROVE  /\ \A e \in Event : create(e) \/ cleanup(e) \/ leaseExpires(e) => FaultInv'
           /\ \A q, e \in Event : reinject(q, e) => FaultInv'
           /\ \A c \in Consumer : start(c) \/ renewLease(c) \/ stop(c) \/ releaseClaims(c) => FaultInv'
<1> USE DEF TInv, runVars, rowVars, counters, owns
<1>1. ASSUME NEW e \in Event, create(e) PROVE FaultInv'
    BY <1>1, RowStepReached, Zenon DEF create, isNext, TypeOK
<1>2. ASSUME NEW e \in Event, cleanup(e) PROVE FaultInv'
    BY <1>2, RowStepReached, Zenon DEF cleanup, TypeOK
<1>3. ASSUME NEW e \in Event, leaseExpires(e) PROVE FaultInv'
    BY <1>3, RowStepReached, Zenon DEF leaseExpires
<1>4. ASSUME NEW q \in Event, NEW e \in Event, reinject(q, e) PROVE FaultInv'
    BY <1>4, RowStepReached, Zenon DEF reinject, isNext, TypeOK
<1>5. ASSUME NEW c \in Consumer, start(c) \/ renewLease(c) \/ stop(c) PROVE FaultInv'
    BY <1>5, RowStepReached, Zenon DEF start, renewLease, stop
<1>6. ASSUME NEW c \in Consumer, releaseClaims(c) PROVE FaultInv'
    <2>1. /\ UNCHANGED <<at, todo, keyed, delivered, crashes, failures, reclaimed>>
          /\ \A e \in Event : \/ status'[e] = "pending" /\ ~key'[e]
                              \/ status'[e] = status[e] /\ owner'[e] = owner[e] /\ key'[e] = key[e]
        BY <1>6, Zenon DEF releaseClaims, TypeOK
    <2> QED BY <2>1, RowStepReached, Zenon
<1> QED BY <1>1, <1>2, <1>3, <1>4, <1>5, <1>6, Zenon

\* The batch of a claim: a row with a key is delivered or about to be, and no
\* run of the same publisher is about to skip what it claims.
LEMMA ClaimReached ==
    ASSUME TInv, FaultInv, NEW c \in Consumer, NEW r \in Run, claimEvents(c, r)
    PROVE  FaultInv'
<1> DEFINE S == oldest(claimable)
<1>1. TypeOK /\ S \subseteq Event /\ \A e \in S : status[e] \in {"pending", "processing"}
    BY Zenon DEF TInv, oldest, claimable
<1>2. /\ status' = [e \in Event |-> IF e \in S THEN "processing" ELSE status[e]]
      /\ owner' = [e \in Event |-> IF e \in S THEN c ELSE owner[e]]
      /\ keyed' = [keyed EXCEPT ![c][r] = {e \in S : key[e]}]
      /\ \E a \in {"idle", "next"} : at' = [at EXCEPT ![c][r] = a]
      /\ \E b : todo' = [todo EXCEPT ![c][r] = b]
      /\ ~reclaimed' => ~reclaimed /\ \A q \in Run : ~(at[c][q] = "skip" /\ Head(todo[c][q]) \in S)
      /\ UNCHANGED <<key, delivered, crashes, failures>> /\ at[c][r] = "claim"
    BY Zenon DEF claimEvents
<1> HIDE DEF S
<1>3. \A d \in Consumer, q \in Run : d # c \/ q # r => SameRun(d, q)
    BY <1>1, <1>2 DEF SameRun, TypeOK
<1>4. Delivers /\ (Faultless' => Faultless)
    BY <1>2, Zenon DEF Delivers, Faultless
<1>5. Kept
    <2>1. \A d \in Consumer, q \in Run : at[d][q] = "publish" => at'[d][q] = "publish" /\ todo'[d][q] = todo[d][q]
        BY <1>2, <1>3, SMTT(30) DEF SameRun
    <2> QED BY <1>4, <2>1, ReachedKept, Zenon
<1>6. ASSUME Faultless' PROVE SkipsKept
    <2> SUFFICES ASSUME NEW d \in Consumer, NEW q \in Run, NEW e \in Event,
                        at[d][q] = "skip", Head(todo[d][q]) = e, owns(d, e)'
                 PROVE  owns(d, e)
        BY Zenon DEF SkipsKept
    <2>1. CASE e \in S
        <3>1. owner'[e] = c
            BY <1>2, <2>1, Zenon
        <3>2. d = c
            BY <3>1, Zenon DEF owns
        <3> QED BY <1>2, <1>6, <2>1, <3>2, Zenon DEF Faultless
    <2>2. CASE e \notin S
        BY <1>2, <2>2, Zenon DEF owns
    <2> QED BY <2>1, <2>2, Zenon
<1>7. ASSUME Faultless' PROVE RunReached(c, r)' /\ \A e \in Event : RowReached(e)'
    <2>1. \A e \in Event : RowReached(e)
        BY <1>4, <1>7, Zenon DEF FaultInv
    <2>2. keyed'[c][r] = {e \in S : key[e]} /\ at'[c][r] \in {"idle", "next"}
        BY <1>1, <1>2, SMTT(30) DEF TypeOK
    <2>3. \A e \in keyed'[c][r] : Reached(e)'
        BY <1>1, <1>5, <2>1, <2>2, Zenon DEF RowReached, Kept
    <2>4. RunReached(c, r)'
        BY <2>2, <2>3, EarlyRun, Zenon
    <2>5. \A e \in Event : RowReached(e)'
        BY <1>2, <1>5, <2>1, Zenon DEF RowReached, Kept
    <2> QED BY <2>4, <2>5, Zenon
<1> QED BY <1>2, <1>3, <1>4, <1>5, <1>6, <1>7, RunStepReached, SMTT(30)

\* Whoever gets the key publishes next; whoever does not finds it taken, or the
\* row lost.
LEMMA KeyReached ==
    ASSUME TInv, FaultInv, NEW c \in Consumer, NEW r \in Run, trySetPublishIdempotencyKey(c, r)
    PROVE  FaultInv'
<1>0. TypeOK /\ Head(todo[c][r]) \in Event
    BY HeadTail DEF TInv, RunInv, TypeOK, trySetPublishIdempotencyKey
<1>2. PICK e \in Event : e = Head(todo[c][r])
    BY <1>0, Zenon
<1> DEFINE acquired == owns(c, e) /\ ~key[e]
<1>1. /\ key' = [key EXCEPT ![e] = @ \/ acquired]
      /\ at' = [at EXCEPT ![c][r] = IF acquired THEN "publish" ELSE "skip"]
      /\ UNCHANGED <<status, owner, todo, keyed, delivered, crashes, failures, reclaimed>> /\ at[c][r] = "next"
    BY <1>2, Zenon DEF trySetPublishIdempotencyKey, counters
<1>3. \A d \in Consumer, q \in Run : d # c \/ q # r => SameRun(d, q)
    BY <1>0, <1>1, Zenon DEF SameRun, TypeOK
<1>4. Delivers /\ (Faultless' <=> Faultless) /\ \A d \in Consumer, x \in Event : owns(d, x)' = owns(d, x)
    BY <1>1, Zenon DEF Delivers, Faultless, owns
<1>5. SkipsKept
    BY <1>4, Zenon DEF SkipsKept
<1>6. Kept
    <2>1. \A d \in Consumer, q \in Run : at[d][q] = "publish" => at'[d][q] = "publish" /\ todo'[d][q] = todo[d][q]
        BY <1>1, <1>3, SMTT(30) DEF SameRun
    <2> QED BY <1>4, <2>1, ReachedKept, Zenon
<1>7. /\ acquired => at'[c][r] = "publish" /\ Reached(e)'
      /\ ~acquired => at'[c][r] = "skip" /\ key' = key
    <2>1. CASE acquired
        <3>1. at'[c][r] = "publish" /\ Head(todo'[c][r]) = e
            BY <1>0, <1>1, <1>2, <2>1, Zenon DEF TypeOK
        <3> QED BY <2>1, <3>1, Zenon DEF Reached
    <2>2. CASE ~acquired
        BY <1>0, <1>1, <2>2, Zenon DEF TypeOK
    <2> QED BY <2>1, <2>2, Zenon
<1>8. ASSUME Faultless PROVE RunReached(c, r)' /\ \A x \in Event : RowReached(x)'
    <2>1. (\A x \in Event : RowReached(x)) /\ RunReached(c, r) /\ keyed[c][r] \subseteq Event
        BY <1>0, <1>8 DEF FaultInv, TypeOK
    <2>2. \A x \in keyed'[c][r] : Reached(x)'
        BY <1>1, <1>6, <2>1, Zenon DEF RunReached, Kept
    <2>3. RunReached(c, r)'
        <3>1. CASE acquired
            BY <1>7, <2>2, <3>1, EarlyRun, Zenon
        <3>2. CASE ~acquired
            <4>1. Reached(e)' \/ ~owns(c, e)'
                BY <1>2, <1>4, <1>6, <2>1, <3>2, Zenon DEF RowReached, Kept
            <4>2. at'[c][r] = "skip" /\ Head(todo'[c][r]) = e
                BY <1>1, <1>2, <1>7, <3>2, Zenon
            <4> QED BY <2>2, <4>1, <4>2, Zenon DEF RunReached, Reached, owns
        <3> QED BY <3>1, <3>2, Zenon
    <2>4. ASSUME NEW x \in Event PROVE RowReached(x)'
        <3>1. CASE x = e /\ acquired
            BY <1>7, <3>1, Zenon DEF RowReached
        <3>2. CASE ~(x = e /\ acquired)
            <4>1. key'[x] = key[x]
                BY <1>0, <1>1, <1>7, <3>2, Zenon DEF TypeOK
            <4> QED BY <1>1, <1>6, <2>1, <4>1, Zenon DEF RowReached, Kept
        <3> QED BY <3>1, <3>2, Zenon
    <2> QED BY <2>3, <2>4, Zenon
<1> QED BY <1>1, <1>3, <1>4, <1>5, <1>6, <1>8, RunStepReached, Zenon

\* A publish delivers.
LEMMA PublishReached ==
    ASSUME TInv, FaultInv, NEW c \in Consumer, NEW r \in Run, publish(c, r)
    PROVE  FaultInv'
<1> DEFINE e == Head(todo[c][r])
<1>1. /\ at' = [at EXCEPT ![c][r] = "mark"] /\ delivered' = [delivered EXCEPT ![e] = @ + 1]
      /\ UNCHANGED <<status, owner, key, todo, keyed, crashes, failures, reclaimed>> /\ at[c][r] = "publish"
    BY Zenon DEF publish, deliver, rowVars, counters
<1>2. TypeOK /\ e \in Event
    BY <1>1, HeadTail DEF TInv, RunInv, TypeOK
<1>3. delivered'[e] > 0 /\ \A x \in Event : delivered[x] > 0 => delivered'[x] > 0
    <2> HIDE DEF e
    <2>1. delivered \in [Event -> Nat]
        BY <1>2, Zenon DEF TypeOK
    <2> QED BY <1>1, <1>2, <2>1, SMTT(30)
<1>4. \A d \in Consumer, q \in Run : d # c \/ q # r => SameRun(d, q)
    BY <1>1, <1>2, Zenon DEF SameRun, TypeOK
<1>5. Delivers /\ (Faultless' <=> Faultless) /\ \A d \in Consumer, x \in Event : owns(d, x)' = owns(d, x)
    BY <1>1, <1>3, Zenon DEF Delivers, Faultless, owns
<1>6. SkipsKept
    BY <1>5, Zenon DEF SkipsKept
<1>7. Kept
    <2>1. ASSUME NEW d \in Consumer, NEW q \in Run, at[d][q] = "publish"
          PROVE  (at'[d][q] = "publish" /\ todo'[d][q] = todo[d][q]) \/ delivered'[Head(todo[d][q])] > 0
        BY <1>3, <1>4, <2>1, Zenon DEF SameRun
    <2> QED BY <1>5, <2>1, ReachedKept, Zenon
<1>8. ASSUME Faultless PROVE RunReached(c, r)' /\ \A x \in Event : RowReached(x)'
    <2>1. (\A x \in Event : RowReached(x)) /\ RunReached(c, r) /\ keyed[c][r] \subseteq Event
        BY <1>2, <1>8 DEF FaultInv, TypeOK
    <2>2. \A x \in keyed'[c][r] : Reached(x)'
        BY <1>1, <1>7, <2>1, Zenon DEF RunReached, Kept
    <2>3. at'[c][r] = "mark" /\ delivered'[Head(todo'[c][r])] > 0
        BY <1>1, <1>2, <1>3, SMTT(30) DEF TypeOK
    <2>4. RunReached(c, r)'
        BY <2>2, <2>3, Zenon DEF RunReached
    <2>5. \A x \in Event : RowReached(x)'
        BY <1>1, <1>7, <2>1, Zenon DEF RowReached, Kept
    <2> QED BY <2>4, <2>5, Zenon
<1> QED BY <1>1, <1>4, <1>5, <1>6, <1>7, <1>8, RunStepReached, Zenon

\* A poison pill gives its key up without being marked as published.
LEMMA QuarantineReached ==
    ASSUME TInv, FaultInv, NEW c \in Consumer, NEW r \in Run, quarantine(c, r)
    PROVE  FaultInv'
<1> DEFINE e == Head(todo[c][r])
<1>1. /\ status' = [status EXCEPT ![e] = "quarantined"] /\ owner' = [owner EXCEPT ![e] = None]
      /\ key' = [key EXCEPT ![e] = FALSE] /\ advance(c, r)
      /\ UNCHANGED <<delivered, crashes, failures, reclaimed>> /\ at[c][r] = "next"
    BY ZenonT(40) DEF quarantine, counters
<1>2. TypeOK /\ todo[c][r] # << >> /\ e \in Event
    BY <1>1, HeadTail, SMTT(30) DEF TInv, RunInv, TypeOK
<1>3. RunsKept(c, r)
    BY <1>1, <1>2, AdvanceKeeps, Zenon
<1>4. keyed'[c][r] \subseteq keyed[c][r] /\ \A d \in Consumer, q \in Run : d # c \/ q # r => keyed'[d][q] = keyed[d][q]
    BY <1>1, <1>2, Zenon DEF advance, TypeOK
<1>5. \A d \in Consumer, q \in Run : d # c \/ q # r => SameRun(d, q)
    BY <1>3, <1>4, SMTT(30) DEF RunsKept, SameRun
<1> HIDE DEF e
<1>6. Delivers /\ (Faultless' <=> Faultless) /\ \A d \in Consumer, x \in Event : owns(d, x)' => owns(d, x)
    BY <1>1, <1>2, Zenon DEF Delivers, Faultless, owns, TypeOK
<1>7. SkipsKept
    BY <1>6, Zenon DEF SkipsKept
<1>8. Kept
    <2>1. \A d \in Consumer, q \in Run : at[d][q] = "publish" => at'[d][q] = "publish" /\ todo'[d][q] = todo[d][q]
        BY <1>1, <1>5, Zenon DEF SameRun
    <2> QED BY <1>6, <2>1, ReachedKept, Zenon
<1>9. ASSUME Faultless PROVE RunReached(c, r)' /\ \A x \in Event : RowReached(x)'
    <2>1. (\A x \in Event : RowReached(x)) /\ RunReached(c, r) /\ keyed[c][r] \subseteq Event
        BY <1>2, <1>9, SMTT(30) DEF FaultInv, TypeOK
    <2>2. \A x \in keyed'[c][r] : Reached(x)'
        BY <1>4, <1>8, <2>1, Zenon DEF RunReached, Kept
    <2>3. RunReached(c, r)'
        BY <1>3, <2>2, EarlyRun, Zenon DEF RunsKept
    <2>4. \A x \in Event : key'[x] \/ status'[x] \in {"published", "deleted"} => key[x] \/ status[x] \in {"published", "deleted"}
        BY <1>1, <1>2, Zenon DEF TypeOK
    <2>5. \A x \in Event : RowReached(x)'
        BY <1>8, <2>1, <2>4, Zenon DEF RowReached, Kept
    <2> QED BY <2>3, <2>5, Zenon
<1> QED BY <1>1, <1>5, <1>6, <1>7, <1>8, <1>9, RunStepReached, Zenon

\* Every step keeps the invariant; a crash and a failed publish end it.
LEMMA StepReached == TInv /\ FaultInv /\ [Next]_vars => FaultInv'
<1> SUFFICES ASSUME TInv, FaultInv, [Next]_vars PROVE FaultInv'
    BY Zenon
<1>1. ASSUME NEW c \in Consumer, crash(c) PROVE FaultInv'
    <2>1. crashes' = crashes + 1 /\ failures' = failures
        BY <1>1, Zenon DEF crash
    <2> QED BY <2>1, SMTT(30) DEF FaultInv, Faultless
<1>2. ASSUME NEW c \in Consumer, NEW r \in Run, publishFails(c, r) PROVE FaultInv'
    <2>1. failures' = failures + 1 /\ crashes' = crashes
        BY <1>2, Zenon DEF publishFails
    <2> QED BY <2>1, SMTT(30) DEF FaultInv, Faultless
<1>3. ASSUME NEW c \in Consumer, NEW r \in Run, processBatch(c, r) PROVE FaultInv'
    <2>1. /\ at' = [at EXCEPT ![c][r] = "claim"] /\ at[c][r] = "idle" /\ TypeOK
          /\ UNCHANGED <<status, owner, key, todo, keyed, delivered, crashes, failures, reclaimed>>
        BY <1>3, Zenon DEF processBatch, rowVars, counters, TInv
    <2>2. at'[c][r] = "claim" /\ \A d \in Consumer, q \in Run : d # c \/ q # r => SameRun(d, q)
        BY <2>1, Zenon DEF SameRun, TypeOK
    <2>3. Delivers /\ SkipsKept /\ (Faultless' <=> Faultless)
        BY <2>1, Zenon DEF Delivers, SkipsKept, Faultless, owns
    <2>4. \A d \in Consumer, q \in Run : at[d][q] = "publish" => at'[d][q] = "publish" /\ todo'[d][q] = todo[d][q]
        BY <2>1, <2>2, Zenon DEF SameRun
    <2>5. Kept
        BY <2>3, <2>4, ReachedKept, Zenon
    <2>6. ASSUME Faultless PROVE RunReached(c, r)' /\ \A e \in Event : RowReached(e)'
        <3>1. (\A e \in Event : RowReached(e)) /\ RunReached(c, r) /\ keyed[c][r] \subseteq Event
            BY <2>1, <2>6 DEF FaultInv, TypeOK
        <3>2. \A e \in keyed'[c][r] : Reached(e)'
            BY <2>1, <2>5, <3>1, Zenon DEF RunReached, Kept
        <3>3. RunReached(c, r)'
            BY <2>2, <3>2, EarlyRun, Zenon
        <3>4. \A e \in Event : RowReached(e)'
            BY <2>1, <2>5, <3>1, Zenon DEF RowReached, Kept
        <3> QED BY <3>3, <3>4, Zenon
    <2> QED BY <2>1, <2>2, <2>3, <2>5, <2>6, RunStepReached, Zenon
<1>4. ASSUME NEW c \in Consumer, NEW r \in Run, skipKeyed(c, r) \/ skipUnacquired(c, r) \/ mark(c, r) PROVE FaultInv'
    <2> DEFINE e == Head(todo[c][r])
    <2>1. at[c][r] \in {"next", "skip", "mark"} /\ markPublished(c, r, e) /\ UNCHANGED <<delivered, counters>>
        BY <1>4, Zenon DEF skipKeyed, skipUnacquired, mark
    <2>2. todo[c][r] # << >> /\ e \in Event
        BY <2>1, HeadTail DEF TInv, RunInv, TypeOK
    <2>3. Faultless => RunReached(c, r)
        BY Zenon DEF FaultInv
    <2>4. Faultless => Reached(e) \/ ~owns(c, e)
        BY <1>4, <2>3, Zenon DEF RunReached, Reached, skipKeyed, skipUnacquired, mark
    <2> QED BY <2>1, <2>2, <2>4, MarkReached, Zenon
<1>5. CASE UNCHANGED vars
    BY <1>5, RowStepReached, Zenon DEF vars, rowVars, runVars, counters, owns
<1> QED BY <1>1, <1>2, <1>3, <1>4, <1>5, RowsReached, ClaimReached, QuarantineReached, KeyReached, PublishReached, Zenon
        DEF Next, runStep

-----------------------------------------------------------------------------
(***************************************************************************)
(* A batch is a finite set of rows, in some order; with that every step    *)
(* keeps the invariants, and the theorems follow.                          *)
(***************************************************************************)
LEMMA BatchIsSequence ==
    ASSUME FiniteSetFacts, NEW S \in SUBSET Event, NEW rows \in groupByAggregate(S)
    PROVE  rows \in Seq(Event) /\ (S # {} => rows # <<>>)
<1>1. IsFiniteSet(S)
  BY OutboxAssumption, Zenon DEF FiniteSetFacts, SubsetFact
<1>2. Cardinality(S) \in Nat /\ (S # {} => Cardinality(S) # 0)
  BY <1>1, Zenon DEF FiniteSetFacts, CountFact
<1>3. rows \in [1..Cardinality(S) -> Event]
  BY Zenon DEF groupByAggregate
<1>4. rows \in Seq(Event) /\ Len(rows) = Cardinality(S)
  BY <1>2, <1>3
<1> QED
  BY <1>2, <1>4, Zenon

LEMMA ClaimGood ==
    ASSUME FiniteSetFacts, TInv, NEW c \in Consumer, NEW r \in Run, claimEvents(c, r)
    PROVE  Good
<1> USE DEF TInv
<1> DEFINE S == oldest(claimable)
<1>1. S \in SUBSET Event /\ \A e \in S : status[e] \in {"pending", "processing"}
  BY Zenon DEF oldest, claimable
<1>2. PICK rows \in groupByAggregate(S) : todo' = [todo EXCEPT ![c][r] = rows]
  BY Zenon DEF claimEvents
<1>3. rows \in Seq(Event) /\ (S # {} => rows # <<>>)
  BY <1>1, BatchIsSequence, Zenon
<1>4. /\ status' = [e \in Event |-> IF e \in S THEN "processing" ELSE status[e]]
      /\ owner' = [e \in Event |-> IF e \in S THEN c ELSE owner[e]]
      /\ leased' = [e \in Event |-> leased[e] \/ e \in S]
      /\ keyed' = [keyed EXCEPT ![c][r] = {e \in S : key[e]}]
      /\ at' = [at EXCEPT ![c][r] = IF S = {} THEN "idle" ELSE "next"]
      /\ UNCHANGED <<key, reinjected, consumer, delivered, crashes, stops, failures>>
  BY Zenon DEF claimEvents
<1> HIDE DEF S
<1>5. TypeOK'
  <2>1. status' \in [Event -> {"none", "pending", "processing", "published", "quarantined", "deleted"}]
    BY <1>4, Zenon DEF TypeOK
  <2>2. owner' \in [Event -> Consumer \cup {None}] /\ leased' \in [Event -> BOOLEAN]
    BY <1>4, Zenon DEF TypeOK
  <2>3. todo' \in [Consumer -> [Run -> Seq(Event)]]
    BY <1>2, <1>3, Zenon DEF TypeOK
  <2>4. keyed' \in [Consumer -> [Run -> SUBSET Event]]
    BY <1>1, <1>4, Zenon DEF TypeOK
  <2>5. at' \in [Consumer -> [Run -> {"idle", "claim", "next", "publish", "skip", "mark"}]]
    BY <1>4, Zenon DEF TypeOK
  <2> QED
    BY <1>4, <2>1, <2>2, <2>3, <2>4, <2>5, Zenon DEF TypeOK
<1>6. RunsKept(c, r)
  <2>1. at'[c][r] = (IF S = {} THEN "idle" ELSE "next") /\ todo'[c][r] = rows
    BY <1>2, <1>4, Zenon DEF TypeOK
  <2>2. \A d \in Consumer, q \in Run :
          d # c \/ q # r => at'[d][q] = at[d][q] /\ todo'[d][q] = todo[d][q]
    BY <1>2, <1>4, Zenon DEF TypeOK
  <2> QED
    BY <1>3, <1>5, <2>1, <2>2, Zenon DEF RunsKept, TypeOK
<1>7. PoisonInv' /\ TerminalKept
  BY <1>1, <1>4, OutboxAssumption, Zenon DEF PoisonInv, TerminalKept
<1> QED
  BY <1>5, <1>6, <1>7, RunsKeptRunInv, Zenon DEF Good

LEMMA RunStepGood ==
    ASSUME FiniteSetFacts, TInv, NEW c \in Consumer, NEW r \in Run
    PROVE  processBatch(c, r) \/ runStep(c, r) \/ publishFails(c, r) => Good
<1> USE DEF TInv
<1> DEFINE e == Head(todo[c][r])
<1>e. ASSUME at[c][r] \in {"next", "publish", "skip", "mark"}
      PROVE  todo[c][r] # <<>> /\ e \in Event
  BY <1>e, HeadTail DEF RunInv, TypeOK
<1> HIDE DEF e
<1>1. ASSUME processBatch(c, r) PROVE Good
  <2> USE <1>1 DEF processBatch
  <2>1. TypeOK'
    BY Zenon DEF TypeOK, rowVars
  <2>2. RunInv'
    BY DEF TypeOK, RunInv
  <2>3. PoisonInv' /\ TerminalKept
    BY Zenon DEF PoisonInv, TerminalKept, rowVars
  <2> QED
    BY <2>1, <2>2, <2>3, Zenon DEF Good
<1>2. ASSUME quarantine(c, r) PROVE Good
  <2>1. /\ e \in Poison /\ e \in Event /\ todo[c][r] # <<>>
        /\ status' = [status EXCEPT ![e] = "quarantined"]
        /\ owner' = [owner EXCEPT ![e] = None]
        /\ leased' = [leased EXCEPT ![e] = FALSE]
        /\ key' = [key EXCEPT ![e] = FALSE]
        /\ advance(c, r)
        /\ UNCHANGED <<reinjected, consumer, delivered, counters>>
    BY <1>2, <1>e, Zenon DEF quarantine, e
  <2>2. RunsKept(c, r)
    BY <2>1, AdvanceKeeps, Zenon
  <2>3. TypeOK'
    BY <2>1, <2>2, Zenon DEF TypeOK, RunsKept
  <2>4. PoisonInv' /\ TerminalKept
    BY <2>1, OutboxAssumption, Zenon DEF TypeOK, PoisonInv, TerminalKept
  <2> QED
    BY <2>2, <2>3, <2>4, RunsKeptRunInv, Zenon DEF Good
<1>3. ASSUME skipKeyed(c, r) PROVE Good
  <2>1. /\ todo[c][r] # <<>> /\ e \in Event /\ e \notin Poison /\ markPublished(c, r, e)
        /\ UNCHANGED <<reinjected, consumer, delivered, counters>>
    BY <1>3, <1>e, Zenon DEF skipKeyed, e
  <2> QED
    BY <2>1, MarkPublishedGood, Zenon
<1>4. ASSUME skipUnacquired(c, r) \/ mark(c, r) PROVE Good
  <2>1. /\ todo[c][r] # <<>> /\ e \in Event /\ e \notin Poison /\ markPublished(c, r, e)
        /\ UNCHANGED <<reinjected, consumer, delivered, counters>>
    BY <1>4, <1>e, Zenon DEF skipUnacquired, mark, e, RunInv
  <2> QED
    BY <2>1, MarkPublishedGood, Zenon
<1>5. ASSUME trySetPublishIdempotencyKey(c, r) PROVE Good
  <2>1. PICK a \in {"publish", "skip"} : at' = [at EXCEPT ![c][r] = a]
    BY <1>5, Zenon DEF trySetPublishIdempotencyKey
  <2>2. /\ e \in Event /\ e \notin Poison /\ todo[c][r] # <<>>
        /\ \E b \in BOOLEAN : key' = [key EXCEPT ![e] = @ \/ b]
        /\ UNCHANGED <<status, owner, leased, reinjected, consumer, todo, keyed, delivered, counters>>
    BY <1>5, <1>e, Zenon DEF trySetPublishIdempotencyKey, e
  <2>3. TypeOK'
    BY <2>1, <2>2, Zenon DEF TypeOK
  <2>4. RunInv'
    BY <2>1, <2>2, SMTT(30) DEF RunInv, TypeOK, e
  <2>5. PoisonInv' /\ TerminalKept
    BY <2>2, Zenon DEF PoisonInv, TerminalKept
  <2> QED
    BY <2>3, <2>4, <2>5, Zenon DEF Good
<1>6. ASSUME publish(c, r) PROVE Good
  <2>1. e \in Event /\ e \notin Poison /\ todo[c][r] # <<>>
    BY <1>6, <1>e, Zenon DEF publish, e, RunInv
  <2>2. TypeOK'
    BY <1>6, <2>1, SMTT(30) DEF publish, deliver, TypeOK, rowVars, e
  <2>3. RunInv'
    BY <1>6, <2>1, SMTT(30) DEF publish, RunInv, TypeOK, e
  <2>4. PoisonInv' /\ TerminalKept
    BY <1>6, Zenon DEF publish, PoisonInv, TerminalKept, rowVars
  <2> QED
    BY <2>2, <2>3, <2>4, Zenon DEF Good
<1>7. ASSUME publishFails(c, r) PROVE Good
  <2>1. /\ at[c][r] = "publish" /\ abandon(c, r)
        /\ delivered' = [delivered EXCEPT ![e] = @ + 1] \/ delivered' = delivered
        /\ UNCHANGED <<status, owner, leased, key, reinjected, consumer>>
    BY <1>7, Zenon DEF publishFails, deliver, rowVars, e
  <2>2. e \in Event /\ RunsKept(c, r)
    BY <2>1, <1>e, AbandonKeeps, Zenon
  <2>3. delivered' \in [Event -> Nat]
    <3>1. delivered \in [Event -> Nat]
      BY Zenon DEF TypeOK
    <3>2. CASE delivered' = [delivered EXCEPT ![e] = @ + 1]
      BY <2>2, <3>1, <3>2
    <3> QED
      BY <2>1, <3>1, <3>2, Zenon
  <2>4. TypeOK'
    BY <2>1, <2>2, <2>3, Zenon DEF TypeOK, RunsKept
  <2>5. PoisonInv' /\ TerminalKept
    BY <2>1, Zenon DEF PoisonInv, TerminalKept
  <2> QED
    BY <2>2, <2>4, <2>5, RunsKeptRunInv, Zenon DEF Good
<1> QED
  BY <1>1, <1>2, <1>3, <1>4, <1>5, <1>6, <1>7, ClaimGood, Zenon DEF runStep

LEMMA StepGood == FiniteSetFacts /\ TInv /\ [Next]_vars => TInv' /\ [TerminalKept]_vars
<1> SUFFICES ASSUME FiniteSetFacts, TInv, [Next]_vars PROVE TInv' /\ [TerminalKept]_vars
  BY Zenon
<1>1. CASE Next
  BY <1>1, RowsGood, LifeCycleGood, RunStepGood, Zenon DEF Next, Good
<1>2. CASE UNCHANGED vars
  BY <1>2, Zenon DEF vars, rowVars, runVars, TInv, TypeOK, RunInv, PoisonInv
<1> QED
  BY <1>1, <1>2, Zenon

LEMMA StepKeepsDInv ==
    ASSUME FiniteSetFacts, MaxStops = 0
    PROVE  DInv /\ [Next]_vars => DInv'
<1> SUFFICES ASSUME DInv, [Next]_vars PROVE DInv'
  BY Zenon
<1>1. CASE Next
  <2>1. TInv' /\ TerminalKept
    BY <1>1, RowsGood, LifeCycleGood, RunStepGood, Zenon DEF Next, Good, DInv
  <2>2. CASE \E c \in Consumer : start(c) \/ renewLease(c) \/ stop(c) \/ releaseClaims(c) \/ crash(c)
    BY <2>1, <2>2, LifeCycleKeepsKeyInv, Zenon DEF DInv
  <2>3. CASE \E e \in Event : create(e) \/ cleanup(e) \/ leaseExpires(e) \/ \E q \in Event : reinject(q, e)
    <3>1. KeyInv'
      BY <2>1, <2>3, RowsKeepKeyInv, Zenon DEF DInv
    <3>2. NoStops'
      BY <2>3, Zenon DEF DInv, NoStops, create, cleanup, leaseExpires, reinject, counters
    <3> QED
      BY <2>1, <3>1, <3>2, Zenon DEF DInv
  <2>4. ASSUME NEW c \in Consumer, NEW r \in Run,
               processBatch(c, r) \/ runStep(c, r) \/ publishFails(c, r)
        PROVE  DInv'
    <3>1. KeyInv'
      BY <2>1, <2>4, RunStepKeepsKeyInv, ZenonT(30) DEF DInv
    <3>2. stops' = stops /\ consumer' = consumer
      BY <2>4, ZenonT(40) DEF processBatch, runStep, publishFails, claimEvents, quarantine, skipKeyed,
          trySetPublishIdempotencyKey, skipUnacquired, publish, mark, counters
    <3> QED
      BY <2>1, <3>1, <3>2, Zenon DEF DInv, NoStops
  <2> QED
    BY <1>1, <2>2, <2>3, <2>4, Zenon DEF Next
<1>2. CASE UNCHANGED vars
  <2>1. TInv'
    BY <1>2, StepGood, Zenon DEF DInv
  <2>2. UNCHANGED <<status, key, at, todo, delivered, consumer, stops>>
    BY <1>2, Zenon DEF vars, rowVars, runVars, counters
  <2>3. KeyInv'
    BY <2>2, SMTT(30) DEF DInv, KeyInv, publishing, Guarded
  <2>4. NoStops'
    BY <2>2, Zenon DEF DInv, NoStops
  <2> QED
    BY <2>1, <2>3, <2>4, Zenon DEF DInv
<1> QED
  BY <1>1, <1>2, Zenon

-----------------------------------------------------------------------------
INSTANCE FiniteSetTheorems

\* The facts about finite sets that the lemmas assume are the library's.
LEMMA FiniteSetFactsHold == FiniteSetFacts
<1>1. EmptyFact /\ CountFact /\ SingletonFact
    BY FS_EmptySet, FS_CardinalityType, FS_Singleton, Zenon DEF EmptyFact, CountFact, SingletonFact
<1>2. SubsetFact
    BY FS_Subset, Zenon DEF SubsetFact
<1>3. AddFact /\ RemoveFact
    BY FS_AddElement, FS_RemoveElement DEF AddFact, RemoveFact
<1>4. ProductFact
    BY FS_Product, Zenon DEF ProductFact
<1> QED BY <1>1, <1>2, <1>3, <1>4, Zenon DEF FiniteSetFacts

LEMMA StepKeeps == TInv /\ [Next]_vars => TInv' /\ [TerminalKept]_vars
  BY StepGood, FiniteSetFactsHold, Zenon

\* The rows, the publishers and their batches keep their types.
THEOREM TypeCorrect == Spec => []TypeOK
  BY InitGood, StepKeeps, PTL DEF Spec, TInv

\* No statement of any publisher, reclaim, stop or cleanup takes a row out of a
\* terminal state, for any number of crashes, stops and failures.
THEOREM TerminalStaysAlways == Spec => TerminalStays
  BY InitGood, StepKeeps, PTL DEF Spec, TerminalStays

\* While no publisher is stopped, no event is delivered twice: the publish
\* idempotency key holds through crashes, expired leases, failed publishes and
\* overlapping batches.
THEOREM NoDuplicateDeliveryAlways ==
    ASSUME MaxStops = 0
    PROVE  Spec => []NoDuplicateDelivery
<1>1. Init => DInv
  <2>1. Init => KeyInv /\ NoStops
    BY DEF Init, KeyInv, NoStops, publishing
  <2> QED
    BY <2>1, InitGood DEF DInv
<1>2. DInv /\ [Next]_vars => DInv'
  BY StepKeepsDInv, FiniteSetFactsHold, Zenon
<1>3. DInv => NoDuplicateDelivery
  BY Zenon DEF DInv, KeyInv, NoDuplicateDelivery
<1> QED
  BY <1>1, <1>2, <1>3, PTL DEF Spec

\* Until a publisher crashes, a publish fails or a publisher claims again a row
\* that one of its runs is about to skip, no event is lost: markPublished()
\* marks a row only if the run that acquired its key with
\* trySetPublishIdempotencyKey() has delivered it or is about to.
THEOREM OnlyFaultsLoseAlways == Spec => []OnlyFaultsLose
<1>1. Init => TInv /\ FaultInv
    <2>1. Init => FaultInv
        BY DEF Init, FaultInv, RowReached, RunReached
    <2> QED BY <2>1, InitGood, SMTT(30)
<1>2. TInv /\ [Next]_vars => TInv'
    BY StepKeeps, Zenon
<1>3. TInv /\ FaultInv => OnlyFaultsLose
    BY Zenon DEF FaultInv, Faultless, RowReached, Reached, OnlyFaultsLose, PublishedIsDelivered
<1> QED BY <1>1, <1>2, <1>3, StepReached, PTL DEF Spec
=============================================================================
