--------------------------- MODULE ApiEdge_proofs ----------------------------
(* Safety of the API edge, for any requests, buckets, limits, keys, API       *)
(* processes, runs of a job, refused posts, deaths and failures: the rate     *)
(* limiter; the rows of the requests that create and read jobs, and what      *)
(* their handlers have seen of them; the bodies of the callbacks; the answers *)
(* to who registers and logs in; and the types of all that the edge keeps.    *)
EXTENDS ApiEdge, FiniteSetTheorems, TLAPS

------------------------------------------------------------------------------
(* The rate limiter.                                                          *)

-----------------------------------------------------------------------------
(* Every step is one of the limiter or leaves the limiter alone, but that the *)
(* register page may send its login.                                          *)
GateStep ==
    \/ UNCHANGED limiterVars
    \/ \E r \in Requests : LimiterStep(r)
    \/ \E r \in Requests : LimiterThrows(r)
    \/ \E b \in Buckets : WindowEnds(b)
    \/ \E r \in Registers : AutoLogin(r)
    \/ \E dying \in SUBSET Requests : LimiterDies(dying)

LEMMA GateSteps == ASSUME [Next]_vars PROVE GateStep
<1>1. CASE Gate
  BY <1>1 DEF Gate, GateStep
<1>2. CASE Serve
  BY <1>2 DEF Serve, GateStep
<1>3. CASE ServeAccount
  BY <1>3 DEF ServeAccount, GateStep
<1>4. CASE Platform
  BY <1>4 DEF Platform, GateStep
<1>5. CASE PublishSome \/ DeliverSome
  BY <1>5 DEF PublishSome, DeliverSome, GateStep
<1>6. CASE DeliveryFails
  BY <1>6 DEF DeliveryFails, GateStep
<1>7. CASE Process
  BY <1>7 DEF Process, GateStep
<1>8. ASSUME NEW s \in Servers, Death(s)
      PROVE  GateStep
  <2>1. {r \in Requests : ServerOf[r] = s} \in SUBSET Requests
    OBVIOUS
  <2>. QED BY <1>8, <2>1 DEF Death, GateStep
<1>9. CASE UNCHANGED vars
  BY <1>9 DEF vars, GateStep
<1>. QED BY <1>1, <1>2, <1>3, <1>4, <1>5, <1>6, <1>7, <1>8, <1>9 DEF Next

-----------------------------------------------------------------------------
(* The rate limiter.  Requests that were counted in one window of a bucket    *)
(* hold numbers of their own, none above the counter.                         *)
Holds(r) == gate[r].at \in {"expire", "ttl", "counted", "refused"}

Numbered ==
    \A r \in Requests :
        Holds(r) =>
            /\ gate[r].current >= 1 /\ gate[r].window <= counter[BucketOf[r]].window
            /\ gate[r].window = counter[BucketOf[r]].window
                  => gate[r].current <= counter[BucketOf[r]].value

Apart ==
    \A r, q \in Requests :
        Holds(r) /\ Holds(q) /\ r # q /\ BucketOf[r] = BucketOf[q]
        /\ gate[r].window = gate[q].window => gate[r].current # gate[q].current

Within ==
    \A r \in Requests : gate[r].at = "counted" => gate[r].current <= MaxRequests[BucketOf[r]]

LimiterInv == TypeOKLimiter /\ Numbered /\ Apart /\ Within /\ ExpiryOnItsWay

LEMMA LimiterInit == Init => LimiterInv
<1>. SUFFICES ASSUME Init PROVE LimiterInv
  OBVIOUS
<1>1. PICK arriving : InitLimiter(arriving)
  BY DEF Init
<1>2. TypeOKLimiter
  <2>1. \A r \in Requests : [at |-> IF r \in arriving THEN "new" ELSE "absent", current |-> 0,
                            window |-> 0] \in [at : GatePc, current : Nat, window : Nat]
    BY DEF GatePc
  <2>2. [value |-> 0, expires |-> FALSE, window |-> 0]
            \in [value : Nat, expires : BOOLEAN, window : 0 .. MaxWindows]
    BY LimiterAssumption
  <2>. QED BY <1>1, <2>1, <2>2 DEF InitLimiter, TypeOKLimiter
<1>3. \A r \in Requests : gate[r].at \in {"new", "absent"}
  BY <1>1 DEF InitLimiter
<1>4. \A b \in Buckets : counter[b].value = 0
  BY <1>1 DEF InitLimiter
<1>5. Numbered /\ Apart /\ Within
  <2>1. \A r \in Requests : ~Holds(r) /\ gate[r].at # "counted"
    BY <1>3 DEF Holds
  <2>2. Numbered
    BY <2>1 DEF Numbered
  <2>3. Apart
    BY <2>1 DEF Apart
  <2>4. Within
    BY <2>1 DEF Within
  <2>. QED BY <2>2, <2>3, <2>4
<1>6. ExpiryOnItsWay
  BY <1>4 DEF ExpiryOnItsWay
<1>. QED BY <1>2, <1>5, <1>6 DEF LimiterInv

Counters == TypeOKLimiter /\ Numbered /\ Apart /\ Within

GateState == [at : GatePc, current : Nat, window : Nat]
CounterState == [value : Nat, expires : BOOLEAN, window : 0 .. MaxWindows]

\* A step that leaves every request what it holds or takes it away, and lowers no counter.
LEMMA HoldingKeeps ==
    ASSUME Counters, gate' \in [Requests -> GateState],
           \A q \in Requests : Holds(q)' =>
               Holds(q) /\ gate'[q].current = gate[q].current /\ gate'[q].window = gate[q].window,
           \A q \in Requests : gate'[q].at = "counted" => gate'[q].current <= MaxRequests[BucketOf[q]],
           counter' \in [Buckets -> CounterState],
           \A b \in Buckets : counter'[b].window = counter[b].window
                                /\ counter'[b].value >= counter[b].value
    PROVE  Counters'
<1>1. \A q \in Requests : gate[q] \in GateState /\ BucketOf[q] \in Buckets
  BY LimiterAssumption DEF Counters, TypeOKLimiter, GateState
<1>2. \A b \in Buckets : counter[b] \in CounterState /\ counter'[b] \in CounterState
  BY DEF Counters, TypeOKLimiter, CounterState
<1>3. TypeOKLimiter'
  BY DEF TypeOKLimiter, GateState, CounterState
<1>4. Numbered'
  <2>1. \A q \in Requests : gate[q].current \in Nat /\ gate[q].window \in Nat
    BY <1>1 DEF GateState
  <2>2. \A b \in Buckets : counter[b].value \in Nat /\ counter'[b].value \in Nat
    BY <1>2 DEF CounterState
  <2>. QED BY <1>1, <2>1, <2>2 DEF Numbered, Counters
<1>5. Apart'
  BY DEF Apart, Counters
<1>6. Within'
  BY DEF Within
<1>. QED BY <1>3, <1>4, <1>5, <1>6 DEF Counters

\* A step that moves one request on.
LEMMA MovingKeeps ==
    ASSUME Counters, NEW r \in Requests, NEW at \in GatePc,
           gate' = [gate EXCEPT ![r].at = at],
           at \in {"expire", "ttl", "counted", "refused"} => Holds(r),
           at = "counted" => gate[r].current <= MaxRequests[BucketOf[r]],
           counter' \in [Buckets -> CounterState],
           \A b \in Buckets : counter'[b].window = counter[b].window
                                /\ counter'[b].value >= counter[b].value
    PROVE  Counters'
<1>1. \A q \in Requests : gate[q] \in GateState
  BY DEF Counters, TypeOKLimiter, GateState
<1>2. gate' \in [Requests -> GateState]
  <2>1. [gate[r] EXCEPT !.at = at] \in GateState
    BY <1>1 DEF GateState
  <2>. QED BY <2>1 DEF Counters, TypeOKLimiter, GateState
<1>3. /\ gate'[r].at = at /\ gate'[r].current = gate[r].current /\ gate'[r].window = gate[r].window
      /\ \A q \in Requests : q # r => gate'[q] = gate[q]
  BY <1>1 DEF GateState, Counters, TypeOKLimiter
<1>4. \A q \in Requests : Holds(q)' =>
         Holds(q) /\ gate'[q].current = gate[q].current /\ gate'[q].window = gate[q].window
  BY <1>3 DEF Holds
<1>5. \A q \in Requests : gate'[q].at = "counted" => gate'[q].current <= MaxRequests[BucketOf[q]]
  BY <1>3 DEF Within, Counters
<1>. QED BY <1>2, <1>4, <1>5, HoldingKeeps

\* What a step of one limiter does to the counter of its bucket.
LEMMA CountsUp ==
    ASSUME Counters, NEW b \in Buckets, NEW n \in Nat, NEW e \in BOOLEAN, n >= counter[b].value,
           \/ counter' = [counter EXCEPT ![b].value = n]
           \/ counter' = [counter EXCEPT ![b].expires = e]
    PROVE  /\ counter' \in [Buckets -> CounterState]
           /\ \A d \in Buckets : counter'[d].window = counter[d].window
                                  /\ counter'[d].value >= counter[d].value
<1>1. counter \in [Buckets -> CounterState] /\ \A d \in Buckets : counter[d] \in CounterState
  BY DEF Counters, TypeOKLimiter, CounterState
<1>2. \A d \in Buckets : counter[d].value \in Nat
  BY <1>1 DEF CounterState
<1>3. /\ [counter[b] EXCEPT !.value = n] \in CounterState
      /\ [counter[b] EXCEPT !.expires = e] \in CounterState
  BY <1>1 DEF CounterState
<1>4. counter' \in [Buckets -> CounterState]
  BY <1>1, <1>3
<1>5. /\ \A d \in Buckets : d # b => counter'[d] = counter[d]
      /\ counter'[b].window = counter[b].window /\ counter'[b].value \in {n, counter[b].value}
  BY <1>1 DEF CounterState
<1>. QED BY <1>2, <1>4, <1>5

LEMMA IncrementKeeps ==
    ASSUME Counters, NEW r \in Requests, Increment(r)
    PROVE  Counters'
<1>. DEFINE b == BucketOf[r]
            n == counter[b].value + 1
<1>0. b \in Buckets
  BY LimiterAssumption
<1>1. \A q \in Requests : gate[q] \in GateState /\ BucketOf[q] \in Buckets
  BY LimiterAssumption DEF Counters, TypeOKLimiter, GateState
<1>2. \A d \in Buckets : counter[d] \in CounterState
  BY DEF Counters, TypeOKLimiter, CounterState
<1>3. n \in Nat /\ n >= 1 /\ n > counter[b].value /\ counter[b].value \in Nat
      /\ counter[b].window \in 0 .. MaxWindows /\ counter[b].window \in Nat
  BY <1>0, <1>2, LimiterAssumption DEF CounterState
<1>4. PICK at \in {"expire", "ttl"} :
         gate' = [gate EXCEPT ![r] = [at |-> at, current |-> n, window |-> counter[b].window]]
  BY DEF Increment
<1>5. counter' = [counter EXCEPT ![b].value = n]
  BY DEF Increment
<1>. HIDE DEF n, b
<1>6. gate'[r] = [at |-> at, current |-> n, window |-> counter[b].window]
      /\ \A q \in Requests : q # r => gate'[q] = gate[q]
  BY <1>4 DEF Counters, TypeOKLimiter
<1>7. /\ counter'[b] = [counter[b] EXCEPT !.value = n]
      /\ \A d \in Buckets : d # b => counter'[d] = counter[d]
  BY <1>0, <1>5 DEF Counters, TypeOKLimiter
<1>8. /\ counter'[b].value = n /\ counter'[b].window = counter[b].window
      /\ counter'[b] \in CounterState
  BY <1>0, <1>2, <1>3, <1>7 DEF CounterState
<1>9. TypeOKLimiter'
  <2>1. gate'[r] \in GateState
    BY <1>3, <1>6 DEF GateState, GatePc
  <2>2. gate' \in [Requests -> GateState]
    BY <1>4, <1>6, <2>1, <1>1 DEF Counters, TypeOKLimiter, GateState
  <2>3. counter' \in [Buckets -> CounterState]
    BY <1>2, <1>5, <1>7, <1>8 DEF Counters, TypeOKLimiter, CounterState
  <2>. QED BY <2>2, <2>3 DEF TypeOKLimiter, GateState, CounterState
<1>10. \A q \in Requests : gate[q].current \in Nat /\ gate[q].window \in Nat
  BY <1>1 DEF GateState
<1>11. \A q \in Requests : q # r => (Holds(q)' <=> Holds(q))
  BY <1>6 DEF Holds
<1>12. \A q \in Requests : q # r /\ Holds(q) /\ BucketOf[q] = b =>
          gate[q].window <= counter[b].window
          /\ (gate[q].window = counter[b].window => gate[q].current <= counter[b].value)
  BY DEF Numbered, Counters
<1>13. Numbered'
  <2>1. SUFFICES ASSUME NEW q \in Requests, Holds(q)'
                 PROVE  /\ gate'[q].current >= 1 /\ gate'[q].window <= counter'[BucketOf[q]].window
                        /\ gate'[q].window = counter'[BucketOf[q]].window
                              => gate'[q].current <= counter'[BucketOf[q]].value
    BY DEF Numbered
  <2>2. CASE q = r
    BY <2>2, <1>3, <1>6, <1>8 DEF b
  <2>3. CASE q # r /\ BucketOf[q] = b
    BY <2>1, <2>3, <1>3, <1>6, <1>8, <1>10, <1>11, <1>12 DEF Numbered, Counters
  <2>4. CASE q # r /\ BucketOf[q] # b
    BY <2>1, <2>4, <1>1, <1>6, <1>7, <1>11 DEF Numbered, Counters
  <2>. QED BY <2>2, <2>3, <2>4
<1>14. Apart'
  <2>1. \A q \in Requests : q # r /\ Holds(q)' /\ BucketOf[q] = b
                             /\ gate'[q].window = gate'[r].window => gate'[q].current # gate'[r].current
    BY <1>3, <1>6, <1>10, <1>11, <1>12
  <2>2. \A p, q \in Requests : p # r /\ q # r /\ Holds(p)' /\ Holds(q)' /\ p # q
                                /\ BucketOf[p] = BucketOf[q] /\ gate'[p].window = gate'[q].window
                                => gate'[p].current # gate'[q].current
    BY <1>6, <1>11 DEF Apart, Counters
  <2>. QED BY <2>1, <2>2 DEF Apart, b
<1>15. Within'
  BY <1>6 DEF Within, Counters
<1>. QED BY <1>9, <1>13, <1>14, <1>15 DEF Counters

LEMMA WindowKeeps ==
    ASSUME Counters, NEW b \in Buckets, WindowEnds(b)
    PROVE  Counters'
<1>1. \A q \in Requests : gate[q] \in GateState /\ BucketOf[q] \in Buckets
  BY LimiterAssumption DEF Counters, TypeOKLimiter, GateState
<1>2. counter[b] \in CounterState /\ counter[b].window < MaxWindows /\ UNCHANGED gate
  BY DEF Counters, TypeOKLimiter, CounterState, WindowEnds
<1>3. /\ counter' = [counter EXCEPT ![b] = [value |-> 0, expires |-> FALSE,
                                            window |-> counter[b].window + 1]]
      /\ counter[b].window + 1 \in 0 .. MaxWindows /\ counter[b].window \in Nat
  BY <1>2, LimiterAssumption DEF CounterState, WindowEnds
<1>4. /\ counter'[b] = [value |-> 0, expires |-> FALSE, window |-> counter[b].window + 1]
      /\ \A d \in Buckets : d # b => counter'[d] = counter[d]
  BY <1>3 DEF Counters, TypeOKLimiter
<1>5. TypeOKLimiter'
  <2>1. [value |-> 0, expires |-> FALSE, window |-> counter[b].window + 1] \in CounterState
    BY <1>3 DEF CounterState
  <2>. QED BY <1>2, <1>3, <2>1 DEF Counters, TypeOKLimiter, CounterState
<1>6. Numbered'
  <2>1. \A q \in Requests : gate[q].window \in Nat
    BY <1>1 DEF GateState
  <2>. QED BY <1>1, <1>2, <1>3, <1>4, <2>1 DEF Numbered, Counters, Holds
<1>7. Apart' /\ Within'
  BY <1>2 DEF Apart, Within, Holds, Counters
<1>. QED BY <1>5, <1>6, <1>7 DEF Counters

LEMMA StepKeepsCounters ==
    ASSUME Counters, GateStep
    PROVE  Counters'
<1>0. /\ \A q \in Requests : gate[q] \in GateState /\ BucketOf[q] \in Buckets
      /\ counter \in [Buckets -> CounterState] /\ \A b \in Buckets : counter[b] \in CounterState
      /\ \A b \in Buckets : counter[b].value >= counter[b].value
  BY LimiterAssumption DEF Counters, TypeOKLimiter, GateState, CounterState
<1>1. CASE UNCHANGED limiterVars
  BY <1>1 DEF Counters, TypeOKLimiter, Numbered, Apart, Within, Holds, limiterVars
<1>2. ASSUME NEW r \in Requests, LimiterStep(r)
      PROVE  Counters'
  <2>1. CASE Arrive(r)
    <3>1. gate' = [gate EXCEPT ![r].at = "limiter"] /\ UNCHANGED counter
      BY <2>1 DEF Arrive, Goes
    <3>. QED BY <1>0, <3>1, MovingKeeps DEF GatePc
  <2>2. CASE ArriveUnauthorized(r)
    <3>1. gate' = [gate EXCEPT ![r].at = "unauthorized"] /\ UNCHANGED counter
      BY <2>2 DEF ArriveUnauthorized, Goes
    <3>. QED BY <1>0, <3>1, MovingKeeps DEF GatePc
  <2>3. CASE Increment(r)
    BY <2>3, IncrementKeeps
  <2>4. CASE Expire(r)
    <3>1. gate' = [gate EXCEPT ![r].at = "ttl"] /\ Holds(r)
      BY <2>4 DEF Expire, Goes, Holds
    <3>2. counter' = [counter EXCEPT ![BucketOf[r]].expires = @ \/ counter[BucketOf[r]].value > 0]
      BY <2>4 DEF Expire
    <3>3. \A b \in Buckets : /\ counter'[b].window = counter[b].window
                             /\ counter'[b].value >= counter[b].value
      BY <1>0, <3>2 DEF CounterState
    <3>4. counter' \in [Buckets -> CounterState]
      <4>1. \A e \in BOOLEAN : [counter[BucketOf[r]] EXCEPT !.expires = e] \in CounterState
        BY <1>0 DEF CounterState
      <4>. QED BY <1>0, <3>2, <4>1
    <3>. QED BY <3>1, <3>3, <3>4, MovingKeeps DEF GatePc
  <2>5. CASE Decide(r)
    <3>. DEFINE at == IF gate[r].current > MaxRequests[BucketOf[r]] THEN "refused" ELSE "counted"
    <3>1. gate' = [gate EXCEPT ![r].at = at] /\ UNCHANGED counter /\ Holds(r)
      BY <2>5 DEF Decide, Goes, Holds
    <3>2. at = "counted" => gate[r].current <= MaxRequests[BucketOf[r]]
      BY <1>0, LimiterAssumption DEF GateState
    <3>3. at \in GatePc
      BY DEF GatePc
    <3>. HIDE DEF at
    <3>. QED BY <1>0, <3>1, <3>2, <3>3, MovingKeeps
  <2>. QED BY <1>2, <2>1, <2>2, <2>3, <2>4, <2>5 DEF LimiterStep
<1>3. ASSUME NEW r \in Requests, LimiterThrows(r)
      PROVE  Counters'
  <2>. DEFINE b == BucketOf[r]
              n == counter[b].value + 1
              e == counter[b].expires \/ counter[b].value > 0
  <2>1. /\ b \in Buckets /\ counter[b] \in CounterState /\ counter[b].value \in Nat
        /\ counter[b].window \in Nat /\ n \in Nat /\ n >= counter[b].value /\ e \in BOOLEAN
    BY <1>0, LimiterAssumption DEF CounterState
  <2>2. CASE gate' = [gate EXCEPT ![r].at = "open"] /\ UNCHANGED counter
    BY <1>0, <2>2, MovingKeeps DEF GatePc
  <2>3. CASE gate' = [gate EXCEPT ![r].at = "open"] /\ counter' = [counter EXCEPT ![b].expires = e]
    <3>. HIDE DEF b, n, e
    <3>1. /\ counter' \in [Buckets -> CounterState]
          /\ \A d \in Buckets : counter'[d].window = counter[d].window
                                 /\ counter'[d].value >= counter[d].value
      BY <2>1, <2>3, CountsUp
    <3>. QED BY <2>3, <3>1, MovingKeeps DEF GatePc
  <2>4. CASE /\ gate' = [gate EXCEPT ![r] = [at |-> "open", current |-> n, window |-> counter[b].window]]
             /\ counter' = [counter EXCEPT ![b].value = n]
    <3>. HIDE DEF b, n, e
    <3>1. /\ counter' \in [Buckets -> CounterState]
          /\ \A d \in Buckets : counter'[d].window = counter[d].window
                                 /\ counter'[d].value >= counter[d].value
      BY <2>1, <2>4, CountsUp
    <3>2. [at |-> "open", current |-> n, window |-> counter[b].window] \in GateState
      BY <2>1 DEF GateState, GatePc
    <3>3. /\ gate' \in [Requests -> GateState] /\ gate'[r].at = "open"
          /\ \A q \in Requests : q # r => gate'[q] = gate[q]
      BY <1>0, <2>4, <3>2 DEF Counters, TypeOKLimiter, GateState
    <3>4. \A q \in Requests : Holds(q)' =>
             Holds(q) /\ gate'[q].current = gate[q].current /\ gate'[q].window = gate[q].window
      BY <3>3 DEF Holds
    <3>5. \A q \in Requests : gate'[q].at = "counted" => gate'[q].current <= MaxRequests[BucketOf[q]]
      BY <3>3 DEF Within, Counters
    <3>. QED BY <3>1, <3>3, <3>4, <3>5, HoldingKeeps
  <2>. QED BY <1>3, <2>2, <2>3, <2>4 DEF LimiterThrows
<1>4. ASSUME NEW r \in Registers, AutoLogin(r)
      PROVE  Counters'
  <2>1. LoginAfter[r] \in Requests
    BY AccountAssumption
  <2>2. gate' = [gate EXCEPT ![LoginAfter[r]].at = "new"] /\ UNCHANGED counter
    BY <1>4 DEF AutoLogin
  <2>. QED BY <1>0, <2>1, <2>2, MovingKeeps DEF GatePc
<1>5. ASSUME NEW dying \in SUBSET Requests, LimiterDies(dying)
      PROVE  Counters'
  <2>1. \A q \in Requests : gate'[q] \in {gate[q], [gate[q] EXCEPT !.at = "lost"]}
    BY <1>5 DEF LimiterDies
  <2>2. \A q \in Requests : [gate[q] EXCEPT !.at = "lost"] \in GateState
    BY <1>0 DEF GateState, GatePc
  <2>3. gate' \in [Requests -> GateState]
    BY <1>0, <1>5, <2>2 DEF LimiterDies
  <2>4. \A q \in Requests : gate'[q].at = "lost" \/ gate'[q] = gate[q]
    BY <1>0, <2>1 DEF GateState
  <2>5. \A q \in Requests : Holds(q)' =>
           Holds(q) /\ gate'[q].current = gate[q].current /\ gate'[q].window = gate[q].window
    BY <2>4 DEF Holds
  <2>6. \A q \in Requests : gate'[q].at = "counted" => gate'[q].current <= MaxRequests[BucketOf[q]]
    BY <2>4 DEF Within, Counters
  <2>7. UNCHANGED counter
    BY <1>5 DEF LimiterDies
  <2>. QED BY <1>0, <2>3, <2>5, <2>6, <2>7, HoldingKeeps
<1>. QED BY <1>1, <1>2, <1>3, <1>4, <1>5, WindowKeeps DEF GateStep

-----------------------------------------------------------------------------
(* A counter without a TTL: the request that created it is about to set one,  *)
(* or has ended before it could.                                              *)
Opener(r, b) == Opened(r, b) /\ gate[r].at \in {"expire", "open", "lost"}

LEMMA StepKeepsExpiry ==
    ASSUME Counters, ExpiryOnItsWay, GateStep
    PROVE  ExpiryOnItsWay'
<1>0. /\ \A q \in Requests : gate[q] \in GateState /\ BucketOf[q] \in Buckets
      /\ \A b \in Buckets : counter[b] \in CounterState /\ counter[b].value \in Nat
      /\ DOMAIN gate = Requests /\ DOMAIN counter = Buckets
  BY LimiterAssumption DEF Counters, TypeOKLimiter, GateState, CounterState
<1>1. \A b \in Buckets : counter[b].value > 0 /\ ~counter[b].expires =>
                           \E r \in Requests : Opener(r, b)
  BY DEF ExpiryOnItsWay, Opener
<1>2. ASSUME \A b \in Buckets : counter'[b].value > 0 /\ ~counter'[b].expires =>
                                   \E r \in Requests : Opener(r, b)'
      PROVE  ExpiryOnItsWay'
  BY <1>2 DEF ExpiryOnItsWay, Opener
<1>3. ASSUME \A b \in Buckets : counter'[b].window = counter[b].window,
             \A r \in Requests : gate[r].at \in {"expire", "open", "lost"} =>
                /\ gate'[r].at \in {"expire", "open", "lost"}
                /\ gate'[r].current = gate[r].current /\ gate'[r].window = gate[r].window
      PROVE  \A b \in Buckets : \A r \in Requests : Opener(r, b) => Opener(r, b)'
  BY <1>3 DEF Opener, Opened
<1>4. CASE UNCHANGED limiterVars
  BY <1>4 DEF ExpiryOnItsWay, Opened, limiterVars
<1>5. ASSUME NEW r \in Requests, Arrive(r) \/ ArriveUnauthorized(r) \/ Decide(r)
      PROVE  ExpiryOnItsWay'
  <2>1. /\ UNCHANGED counter /\ gate[r].at \in {"new", "ttl"}
        /\ \A q \in Requests : q # r => gate'[q] = gate[q]
    BY <1>0, <1>5 DEF Arrive, ArriveUnauthorized, Decide, Goes
  <2>. QED BY <1>1, <1>2, <1>3, <2>1
<1>6. ASSUME NEW r \in Requests, NEW at \in {"expire", "ttl", "open"}, NEW n,
             n = counter[BucketOf[r]].value + 1, gate[r].at = "limiter", n = 1 => at # "ttl",
             gate' = [gate EXCEPT ![r] = [at |-> at, current |-> n, window |-> counter[BucketOf[r]].window]],
             counter' = [counter EXCEPT ![BucketOf[r]].value = n]
      PROVE  ExpiryOnItsWay'
  <2>1. /\ gate'[r] = [at |-> at, current |-> n, window |-> counter[BucketOf[r]].window]
        /\ \A q \in Requests : q # r => gate'[q] = gate[q]
    BY <1>0, <1>6
  <2>2. /\ counter'[BucketOf[r]].expires = counter[BucketOf[r]].expires
        /\ \A b \in Buckets : counter'[b].window = counter[b].window
        /\ \A b \in Buckets : b # BucketOf[r] => counter'[b] = counter[b]
    BY <1>0, <1>6 DEF CounterState
  <2>3. \A b \in Buckets : \A q \in Requests : Opener(q, b) => Opener(q, b)'
    BY <1>3, <1>6, <2>1, <2>2
  <2>4. n = 1 \/ counter[BucketOf[r]].value > 0
    BY <1>0, <1>6
  <2>5. n = 1 => Opener(r, BucketOf[r])'
    BY <1>0, <1>6, <2>1, <2>2 DEF Opener, Opened
  <2>. QED BY <1>0, <1>1, <1>2, <2>2, <2>3, <2>4, <2>5
<1>7. ASSUME NEW r \in Requests, NEW at \in {"ttl", "open"}, gate[r].at = "expire",
             gate' = [gate EXCEPT ![r].at = at],
             counter' = [counter EXCEPT ![BucketOf[r]].expires = @ \/ counter[BucketOf[r]].value > 0]
      PROVE  ExpiryOnItsWay'
  <2>1. /\ counter'[BucketOf[r]].value > 0 => counter'[BucketOf[r]].expires
        /\ \A b \in Buckets : counter'[b].window = counter[b].window
        /\ \A b \in Buckets : b # BucketOf[r] => counter'[b] = counter[b]
    BY <1>0, <1>7 DEF CounterState
  <2>2. \A q \in Requests : q # r => gate'[q] = gate[q]
    BY <1>7
  <2>3. \A b \in Buckets : b # BucketOf[r] =>
           \A q \in Requests : Opener(q, b) => Opener(q, b)'
    BY <2>1, <2>2 DEF Opener, Opened
  <2>. QED BY <1>1, <1>2, <2>1, <2>3
<1>8. ASSUME NEW r \in Requests, InLimiter(r), gate' = [gate EXCEPT ![r].at = "open"], UNCHANGED counter
      PROVE  ExpiryOnItsWay'
  <2>1. /\ \A q \in Requests : q # r => gate'[q] = gate[q]
        /\ gate'[r].at = "open" /\ gate'[r].current = gate[r].current /\ gate'[r].window = gate[r].window
    BY <1>0, <1>8 DEF GateState
  <2>. QED BY <1>1, <1>2, <1>3, <1>8, <2>1
<1>9. ASSUME NEW r \in Requests, Increment(r)
      PROVE  ExpiryOnItsWay'
  <2>. DEFINE n == counter[BucketOf[r]].value + 1
              at == IF n = 1 THEN "expire" ELSE "ttl"
  <2>1. /\ gate[r].at = "limiter"
        /\ gate' = [gate EXCEPT ![r] = [at |-> at, current |-> n, window |-> counter[BucketOf[r]].window]]
        /\ counter' = [counter EXCEPT ![BucketOf[r]].value = n]
    BY <1>9 DEF Increment
  <2>2. at \in {"expire", "ttl", "open"} /\ (n = 1 => at # "ttl") /\ n = counter[BucketOf[r]].value + 1
    OBVIOUS
  <2>. HIDE DEF n, at
  <2>. QED BY <1>6, <2>1, <2>2
<1>10. ASSUME NEW r \in Requests, Expire(r)
       PROVE  ExpiryOnItsWay'
  BY <1>7, <1>10 DEF Expire, Goes
<1>11. ASSUME NEW r \in Requests, LimiterThrows(r)
       PROVE  ExpiryOnItsWay'
  BY <1>6, <1>7, <1>8, <1>11 DEF LimiterThrows
<1>12. ASSUME NEW b \in Buckets, WindowEnds(b)
       PROVE  ExpiryOnItsWay'
  <2>1. /\ UNCHANGED gate /\ counter'[b].value = 0
        /\ \A d \in Buckets : d # b => counter'[d] = counter[d]
    BY <1>0, <1>12 DEF WindowEnds
  <2>2. \A d \in Buckets : d # b => \A q \in Requests : Opener(q, d) => Opener(q, d)'
    BY <2>1 DEF Opener, Opened
  <2>. QED BY <1>1, <1>2, <2>1, <2>2
<1>13. ASSUME NEW r \in Registers, AutoLogin(r)
       PROVE  ExpiryOnItsWay'
  <2>1. /\ UNCHANGED counter /\ gate[LoginAfter[r]].at = "absent"
        /\ \A q \in Requests : q # LoginAfter[r] => gate'[q] = gate[q]
    BY <1>0, <1>13 DEF AutoLogin
  <2>. QED BY <1>1, <1>2, <1>3, <2>1
<1>14. ASSUME NEW dying \in SUBSET Requests, LimiterDies(dying)
       PROVE  ExpiryOnItsWay'
  <2>1. \A q \in Requests : gate'[q] \in {gate[q], [gate[q] EXCEPT !.at = "lost"]}
    BY <1>14 DEF LimiterDies
  <2>2. \A q \in Requests : /\ gate'[q].at \in {gate[q].at, "lost"}
                             /\ gate'[q].current = gate[q].current /\ gate'[q].window = gate[q].window
    BY <1>0, <2>1 DEF GateState
  <2>3. UNCHANGED counter
    BY <1>14 DEF LimiterDies
  <2>. QED BY <1>1, <1>2, <1>3, <2>2, <2>3
<1>. QED BY <1>4, <1>5, <1>9, <1>10, <1>11, <1>12, <1>13, <1>14 DEF GateStep, LimiterStep

LEMMA LimiterInvariant == Spec => []LimiterInv
<1>1. Init => LimiterInv
  BY LimiterInit
<1>2. LimiterInv /\ [Next]_vars => LimiterInv'
  BY GateSteps, StepKeepsCounters, StepKeepsExpiry DEF LimiterInv, Counters
<1>. QED BY <1>1, <1>2, PTL DEF Spec

\* The numbers of the requests let in by a window are apart and none is above the
\* limit, so there are no more of them than the limit.
LEMMA LetInByNumber == LimiterInv => LimitEnforced
<1>. SUFFICES ASSUME LimiterInv, NEW b \in Buckets, NEW w \in 0 .. MaxWindows
              PROVE  Cardinality({r \in Requests : BucketOf[r] = b /\ gate[r].at = "counted"
                                                   /\ gate[r].window = w}) <= MaxRequests[b]
  BY DEF LimitEnforced
<1>. DEFINE S == {r \in Requests : BucketOf[r] = b /\ gate[r].at = "counted" /\ gate[r].window = w}
            T == 1 .. MaxRequests[b]
            number == [r \in S |-> gate[r].current]
<1>1. MaxRequests[b] \in Nat
  BY LimiterAssumption
<1>2. \A r \in S : gate[r].current \in T
  <2>1. \A r \in S : gate[r].current \in Nat
    BY DEF LimiterInv, TypeOKLimiter
  <2>2. \A r \in S : gate[r].current >= 1
    BY DEF LimiterInv, Numbered, Holds
  <2>3. \A r \in S : gate[r].current <= MaxRequests[b]
    BY DEF LimiterInv, Within
  <2>. QED BY <1>1, <2>1, <2>2, <2>3
<1>3. \A r, q \in S : gate[r].current = gate[q].current => r = q
  BY DEF LimiterInv, Apart, Holds
<1>4. number \in Injection(S, T)
  BY <1>2, <1>3 DEF Injection, IsInjective
<1>5. IsFiniteSet(T) /\ Cardinality(T) = MaxRequests[b]
  <2>1. 1 \in Int /\ MaxRequests[b] \in Int
    BY <1>1
  <2>2. IsFiniteSet(T) /\ Cardinality(T) = IF 1 > MaxRequests[b] THEN 0 ELSE MaxRequests[b] - 1 + 1
    BY <2>1, FS_Interval
  <2>. QED BY <1>1, <2>2
<1>6. Cardinality(S) <= Cardinality(T)
  <2>. HIDE DEF S, T, number
  <2>. QED BY <1>4, <1>5, FS_Injection
<1>. QED BY <1>5, <1>6

\* No window of a bucket lets in more requests than its limit, however the steps of
\* the limiter, of any number of requests, overlap with each other and with the end
\* of the window; only a call that throws lets one in uncounted.
THEOREM LimitsHold == Spec => []LimitEnforced
  BY LimiterInvariant, LetInByNumber, PTL

\* However requests of any number of processes overlap, throw and die, and windows end:
\* a counter without a TTL is the work of one request, whose INCR gave 1 and which is
\* still to call EXPIRE, or whose call threw or whose process died before it had.
THEOREM CountersExpire == Spec => []ExpiryOnItsWay
<1>1. LimiterInv => ExpiryOnItsWay
  BY DEF LimiterInv
<1>. QED BY <1>1, LimiterInvariant, PTL

------------------------------------------------------------------------------
(* The rows of create requests and the answers to them.                       *)

RequestStep ==
    \/ UNCHANGED requestVars
    \/ \E r \in Creates : CreateStep(r)
    \/ \E r \in Reads : ReadStep(r)
    \/ \E r \in Creates \cup Reads : HandlerThrows(r)
    \/ \E j \in Creates : PlatformStep(j) \/ Announce(j) \/ AnnounceLost(j)
    \/ \E dying \in SUBSET Requests : HandlersDie(dying)

LEMMA RequestSteps == ASSUME [Next]_vars PROVE RequestStep
<1>1. CASE Gate \/ ServeAccount \/ PublishSome \/ DeliverSome \/ DeliveryFails \/ Process
  BY <1>1 DEF Gate, ServeAccount, PublishSome, DeliverSome, DeliveryFails, Process, RequestStep, requestVars
<1>2. CASE Serve
  BY <1>2 DEF Serve, RequestStep
<1>3. CASE Platform
  BY <1>3 DEF Platform, RequestStep
<1>4. CASE UNCHANGED vars
  BY <1>4 DEF vars, RequestStep, requestVars
<1>5. ASSUME NEW s \in Servers, Death(s)
      PROVE  RequestStep
  <2>1. {r \in Requests : ServerOf[r] = s} \in SUBSET Requests
    OBVIOUS
  <2>. QED BY <1>5, <2>1 DEF Death, RequestStep
<1>. QED BY <1>1, <1>2, <1>3, <1>4, <1>5 DEF Next

-----------------------------------------------------------------------------
(* The rows.                                                                  *)
Sound(w) ==
    /\ w \in RowState
    /\ w.status = "RUNNING" => w.attempt >= 1
    /\ w.status = "COMPLETED" => w.result # 0
    /\ w.status = NoJob => ~w.held

OneRow ==
    \A i, j \in Jobs : KeyOf[i] # NoKey /\ KeyOf[i] = KeyOf[j] => i = j

Rows == row \in [Creates -> RowState] /\ (\A j \in Creates : Sound(row[j])) /\ OneRow

\* Once its handler is past the insert, a request has its row.
BornPc == {"created", "mark", "enqueue", "announce", "rollback", "latest"}
Rooted == \A r \in Creates : handler[r].at \in BornPc => row[r].status # NoJob

\* What users ask for is asked of a job.
AskedOfJobs ==
    /\ asked \in [Creates -> SUBSET {"cancel", "retry"}]
    /\ \A j \in Creates : asked[j] # {} => row[j].status # NoJob

\* What a step never does to a row: take it away, or change a result it has.
RowsStay ==
    /\ \A j \in Creates : row[j].status # NoJob => row'[j].status # NoJob
    /\ \A j \in Creates : row[j].result # 0 => row'[j].result = row[j].result

LEMMA RowTyped ==
    ASSUME NEW w \in RowState, NEW status \in Status, NEW held \in BOOLEAN, NEW n \in Nat, NEW m \in Nat
    PROVE  /\ [w EXCEPT !.status = status] \in RowState
           /\ [w EXCEPT !.status = status, !.reason = n] \in RowState
           /\ [w EXCEPT !.status = status, !.held = held] \in RowState
           /\ [w EXCEPT !.status = status, !.held = held, !.attempt = n] \in RowState
           /\ [w EXCEPT !.status = status, !.held = held, !.reason = n] \in RowState
           /\ [w EXCEPT !.status = status, !.held = held, !.reason = n, !.result = m] \in RowState
  BY DEF RowState

LEMMA RowWrite ==
    ASSUME Rows, NEW j \in Creates, NEW w, Sound(w),
           row' = [row EXCEPT ![j] = w],
           row[j].result # 0 => w.result = row[j].result,
           w.status = NoJob => row[j].status = NoJob,
           row[j].status = NoJob /\ w.status # NoJob => OfKey(KeyOf[j]) = {}
    PROVE  Rows' /\ RowsStay
<1>1. row'[j] = w /\ \A i \in Creates : i # j => row'[i] = row[i]
  BY DEF Rows
<1>2. row' \in [Creates -> RowState] /\ \A i \in Creates : Sound(row[i])'
  <2>1. w \in RowState
    BY DEF Sound
  <2>2. row' \in [Creates -> RowState]
    BY <2>1 DEF Rows
  <2>3. \A i \in Creates : Sound(row'[i])
    BY <1>1 DEF Rows
  <2>. QED BY <2>2, <2>3 DEF Sound
<1>3. RowsStay
  BY <1>1 DEF RowsStay
<1>4. OneRow'
  <2>1. \A i \in Creates : i \in Jobs' <=> row'[i].status # NoJob
    BY DEF Jobs
  <2>2. \A i \in Creates : i # j /\ i \in Jobs' => i \in Jobs
    BY <1>1 DEF Jobs
  <2>3. j \in Jobs' /\ j \notin Jobs => \A i \in Jobs : KeyOf[j] # NoKey => KeyOf[i] # KeyOf[j]
    BY <1>1 DEF Jobs, OfKey
  <2>4. Jobs' \subseteq Creates
    BY DEF Jobs
  <2>. QED BY <2>2, <2>3, <2>4 DEF OneRow, Rows
<1>. QED BY <1>2, <1>3, <1>4 DEF Rows

\* The handlers write a status only.
LEMMA StatusWrite ==
    ASSUME Rows, NEW j \in Creates, NEW status \in {"PENDING", "QUEUED", row[j].status},
           row' = [row EXCEPT ![j].status = status],
           status = row[j].status \/ row[j].status # NoJob \/ OfKey(KeyOf[j]) = {}
    PROVE  Rows' /\ RowsStay
<1>. DEFINE w == [row[j] EXCEPT !.status = status]
<1>1. row[j] \in RowState /\ Sound(row[j])
  BY DEF Rows
<1>2. status \in Status
  BY <1>1 DEF RowState, Status
<1>4. w \in RowState
  BY <1>1, <1>2, RowTyped
<1>5. w.status = status /\ w.result = row[j].result /\ w.attempt = row[j].attempt /\ w.held = row[j].held
  BY <1>1 DEF RowState
<1>6. status # row[j].status => status # NoJob
  BY DEF NoJob
<1>7. Sound(w)
  BY <1>1, <1>4, <1>5, <1>6 DEF Sound
<1>8. row' = [row EXCEPT ![j] = w]
  OBVIOUS
<1>. HIDE DEF w
<1>. QED BY <1>5, <1>6, <1>7, <1>8, RowWrite

\* The others write the rows of jobs only, and all but the commit of a result leave it.
LEMMA JobWrite ==
    ASSUME Rows, NEW j \in Creates, row[j].status # NoJob, NEW w \in RowState,
           row' = [row EXCEPT ![j] = w],
           w.status \notin {NoJob, "COMPLETED"}, w.status = "RUNNING" => w.attempt >= 1,
           w.result = row[j].result
    PROVE  Rows' /\ RowsStay
<1>1. Sound(w)
  BY DEF Sound
<1>. QED BY <1>1, RowWrite

LEMMA WorkerWrite ==
    ASSUME Rows, NEW j \in Creates, Claim(j) \/ Complete(j) \/ Fail(j) \/ Postpone(j)
    PROVE  Rows' /\ RowsStay
<1>1. /\ row[j] \in RowState /\ Sound(row[j])
      /\ row[j].attempt \in Nat /\ row[j].attempt + 1 \in Nat /\ 0 \in Nat
  BY DEF Rows, RowState
<1>2. {"RUNNING", "COMPLETED", "FAILED", "RETRYING"} \subseteq Status
  BY DEF Status
<1>3. row[j].status # NoJob
  BY <1>1 DEF Claim, Complete, Running, Fail, Postpone, Sound, NoJob
<1>4. CASE Claim(j)
  <2>. DEFINE w == [row[j] EXCEPT !.status = "RUNNING", !.held = TRUE, !.attempt = row[j].attempt + 1]
  <2>1. row' = [row EXCEPT ![j] = w]
    BY <1>4 DEF Claim
  <2>2. w \in RowState
    BY <1>1, <1>2, RowTyped
  <2>3. w.status = "RUNNING" /\ w.attempt >= 1 /\ w.result = row[j].result
    BY <1>1 DEF RowState
  <2>. HIDE DEF w
  <2>. QED BY <1>3, <2>1, <2>2, <2>3, JobWrite DEF NoJob
<1>5. CASE Complete(j)
  <2>. DEFINE w == [row[j] EXCEPT !.status = "COMPLETED", !.held = FALSE, !.reason = 0,
                                  !.result = row[j].attempt]
  <2>1. row' = [row EXCEPT ![j] = w] /\ row[j].status = "RUNNING" /\ row[j].result = 0
    BY <1>5 DEF Complete, Running
  <2>2. w \in RowState
    BY <1>1, <1>2, RowTyped
  <2>3. w.status = "COMPLETED" /\ w.result # 0
    BY <1>1, <2>1 DEF RowState, Sound
  <2>4. Sound(w)
    BY <2>2, <2>3 DEF Sound, NoJob
  <2>. HIDE DEF w
  <2>. QED BY <1>3, <2>1, <2>3, <2>4, RowWrite DEF NoJob
<1>6. ASSUME NEW n \in 1 .. row[j].attempt, NEW status \in {"FAILED", "RETRYING"},
             row' = [row EXCEPT ![j].status = status, ![j].held = FALSE, ![j].reason = n]
      PROVE  Rows' /\ RowsStay
  <2>. DEFINE w == [row[j] EXCEPT !.status = status, !.held = FALSE, !.reason = n]
  <2>0. n \in Nat
    BY <1>1
  <2>1. row' = [row EXCEPT ![j] = w]
    BY <1>6
  <2>2. w \in RowState
    BY <1>1, <1>2, <2>0, RowTyped
  <2>3. w.status = status /\ w.result = row[j].result
    BY <1>1 DEF RowState
  <2>. HIDE DEF w
  <2>. QED BY <1>3, <2>1, <2>2, <2>3, JobWrite DEF NoJob
<1>7. CASE Fail(j)
  BY <1>6, <1>7 DEF Fail
<1>8. CASE Postpone(j)
  BY <1>6, <1>8 DEF Postpone
<1>. QED BY <1>4, <1>5, <1>7, <1>8

LEMMA OtherWrite ==
    ASSUME Rows, AskedOfJobs, NEW j \in Creates,
           Recover(j) \/ Requeue(j) \/ Withdraw(j) \/ CancelJob(j) \/ RetryJob(j)
    PROVE  Rows' /\ RowsStay
<1>1. row[j] \in RowState /\ Sound(row[j]) /\ 0 \in Nat
  BY DEF Rows
<1>2. {"QUEUED", "RETRYING", "CANCELLED", "PENDING"} \subseteq Status
  BY DEF Status
<1>3. row[j].status # NoJob
  BY DEF Recover, Running, Requeue, Withdraw, WaitsUnheld, CancelJob, RetryJob, AskedOfJobs, NoJob
<1>4. CASE Recover(j)
  <2>. DEFINE w == [row[j] EXCEPT !.status = "RETRYING", !.held = FALSE]
  <2>1. row' = [row EXCEPT ![j] = w]
    BY <1>4 DEF Recover
  <2>2. w \in RowState
    BY <1>1, <1>2, RowTyped
  <2>3. w.status = "RETRYING" /\ w.result = row[j].result
    BY <1>1 DEF RowState
  <2>. HIDE DEF w
  <2>. QED BY <1>3, <2>1, <2>2, <2>3, JobWrite DEF NoJob
<1>5. ASSUME NEW status \in {"QUEUED", "RETRYING", "CANCELLED"}, row' = [row EXCEPT ![j].status = status]
      PROVE  Rows' /\ RowsStay
  <2>. DEFINE w == [row[j] EXCEPT !.status = status]
  <2>1. row' = [row EXCEPT ![j] = w]
    BY <1>5
  <2>2. w \in RowState
    BY <1>1, <1>2, RowTyped
  <2>3. w.status = status /\ w.result = row[j].result
    BY <1>1 DEF RowState
  <2>. HIDE DEF w
  <2>. QED BY <1>3, <2>1, <2>2, <2>3, JobWrite DEF NoJob
<1>6. CASE Requeue(j) \/ Withdraw(j) \/ CancelJob(j)
  BY <1>5, <1>6 DEF Requeue, Withdraw, CancelJob
<1>7. CASE RetryJob(j)
  <2>. DEFINE w == [row[j] EXCEPT !.status = "PENDING", !.reason = 0]
  <2>1. row' = [row EXCEPT ![j] = w]
    BY <1>7 DEF RetryJob
  <2>2. w \in RowState
    BY <1>1, <1>2, RowTyped
  <2>3. w.status = "PENDING" /\ w.result = row[j].result
    BY <1>1 DEF RowState
  <2>. HIDE DEF w
  <2>. QED BY <1>3, <2>1, <2>2, <2>3, JobWrite DEF NoJob
<1>. QED BY <1>4, <1>6, <1>7

LEMMA RowSteps ==
    ASSUME Rows, Rooted, AskedOfJobs, RequestStep
    PROVE  Rows' /\ RowsStay
<1>0. UNCHANGED row => Rows' /\ RowsStay
  BY DEF Rows, RowsStay, Sound, OneRow, Jobs
<1>1. CASE UNCHANGED requestVars
  BY <1>0, <1>1 DEF requestVars
<1>2. ASSUME NEW r \in Creates, CreateStep(r)
      PROVE  Rows' /\ RowsStay
  <2>1. CASE Insert(r)
    BY <1>0, <2>1, StatusWrite DEF Insert
  <2>2. CASE MarkQueued(r)
    <3>1. handler[r].at = "mark" /\ row' = [row EXCEPT ![r].status = "QUEUED"]
      BY <2>2 DEF MarkQueued, At
    <3>2. row[r].status # NoJob
      BY <3>1 DEF Rooted, BornPc
    <3>. QED BY <3>1, <3>2, StatusWrite
  <2>3. CASE Rollback(r)
    <3>1. \E status \in {"PENDING", row[r].status} :
             row' = [row EXCEPT ![r].status = status]
      BY <2>3 DEF Rollback, Rows, RowState, Sound
    <3>2. row[r].status # NoJob
      BY <2>3 DEF Rollback, At, Rooted, BornPc
    <3>. QED BY <3>1, <3>2, StatusWrite
  <2>4. CASE \/ FindByIdempotencyKey(r) \/ Conflict(r) \/ AnnounceCreated(r)
             \/ Enqueue(r) \/ AnnounceQueued(r) \/ ReplyLatest(r)
    BY <1>0, <2>4 DEF FindByIdempotencyKey, Conflict, AnnounceCreated, Enqueue, AnnounceQueued,
                      ReplyLatest, RowsUnchanged
  <2>. QED BY <1>2, <2>1, <2>2, <2>3, <2>4 DEF CreateStep
<1>3. ASSUME NEW r \in Reads, ReadStep(r)
      PROVE  Rows' /\ RowsStay
  BY <1>0, <1>3 DEF ReadStep, List, FindRefused, Find, FindEvents, GetResult, RowsUnchanged
<1>4. ASSUME NEW r \in Creates \cup Reads, HandlerThrows(r)
      PROVE  Rows' /\ RowsStay
  <2>1. CASE r \notin Creates
    BY <1>0, <1>4, <2>1 DEF HandlerThrows
  <2>2. CASE r \in Creates
    <3>1. PICK status \in {row[r].status} \cup Effects(r) : row' = [row EXCEPT ![r].status = status]
      BY <1>4, <2>2 DEF HandlerThrows
    <3>2. /\ status \in {"PENDING", "QUEUED", row[r].status}
          /\ status = row[r].status \/ row[r].status # NoJob \/ OfKey(KeyOf[r]) = {}
      <4>1. CASE Inserts(r) /\ OfKey(KeyOf[r]) = {}
        BY <4>1 DEF Effects
      <4>2. CASE At(r, "mark")
        BY <4>2, <2>2 DEF Effects, At, Rooted, BornPc
      <4>3. CASE At(r, "rollback")
        BY <4>3, <2>2 DEF Effects, At, Rooted, BornPc
      <4>4. CASE ~(Inserts(r) /\ OfKey(KeyOf[r]) = {}) /\ ~At(r, "mark") /\ ~At(r, "rollback")
        BY <4>4 DEF Effects
      <4>. QED BY <4>1, <4>2, <4>3, <4>4
    <3>. QED BY <2>2, <3>1, <3>2, StatusWrite
  <2>. QED BY <2>1, <2>2
<1>5. ASSUME NEW j \in Creates, PlatformStep(j) \/ Announce(j) \/ AnnounceLost(j)
      PROVE  Rows' /\ RowsStay
  <2>1. CASE (\E what \in Asks[j] : Look(j, what)) \/ Announce(j) \/ AnnounceLost(j)
    BY <1>0, <2>1 DEF Look, Announce, AnnounceLost
  <2>. QED BY <1>5, <2>1, WorkerWrite, OtherWrite DEF PlatformStep
<1>6. ASSUME NEW dying \in SUBSET Requests, HandlersDie(dying)
      PROVE  Rows' /\ RowsStay
  BY <1>0, <1>6 DEF HandlersDie, RowsUnchanged
<1>. QED BY <1>1, <1>2, <1>3, <1>4, <1>5, <1>6 DEF RequestStep

LEMMA AskedStep ==
    ASSUME AskedOfJobs, RowsStay, RequestStep
    PROVE  AskedOfJobs'
<1>0. UNCHANGED asked => AskedOfJobs'
  BY DEF AskedOfJobs, RowsStay
<1>1. ASSUME NEW j \in Creates, NEW what \in Asks[j], Look(j, what)
      PROVE  AskedOfJobs'
  <2>1. what \in {"cancel", "retry"} /\ asked' = [asked EXCEPT ![j] = @ \cup {what}] /\ UNCHANGED row
    BY <1>1, JobRequestAssumption DEF Look
  <2>2. row[j].status # NoJob
    BY <1>1 DEF Look, NoJob
  <2>. QED BY <2>1, <2>2 DEF AskedOfJobs
<1>2. (\E r \in Creates : CreateStep(r)) \/ (\E r \in Reads : ReadStep(r)) => UNCHANGED asked
  BY DEF CreateStep, FindByIdempotencyKey, Insert, Conflict, AnnounceCreated, MarkQueued, Enqueue,
         AnnounceQueued, Rollback, ReplyLatest, ReadStep, List, FindRefused, Find, FindEvents, GetResult,
         RowsUnchanged
<1>3. (\E r \in Creates \cup Reads : HandlerThrows(r)) \/ (\E dying \in SUBSET Requests : HandlersDie(dying))
      \/ UNCHANGED requestVars => UNCHANGED asked
  BY DEF HandlerThrows, HandlersDie, RowsUnchanged, requestVars
<1>4. ASSUME NEW j \in Creates, PlatformStep(j) \/ Announce(j) \/ AnnounceLost(j)
      PROVE  AskedOfJobs'
  <2>1. UNCHANGED asked \/ \E what \in Asks[j] : Look(j, what)
    BY <1>4 DEF PlatformStep, Claim, Complete, Fail, Postpone, Ends, Announce, AnnounceLost, Recover,
                Requeue, Withdraw, CancelJob, RetryJob
  <2>. QED BY <1>0, <1>1, <2>1
<1>. QED BY <1>0, <1>2, <1>3, <1>4 DEF RequestStep

-----------------------------------------------------------------------------
(* The handlers.                                                              *)
CreateSound(r) ==
    /\ handler[r].at \in BornPc => row[r].status # NoJob
    /\ KeyOf[r] # NoKey /\ handler[r].at = "replied" =>
          IF handler[r].code = 201 THEN handler[r].job \in OfKey(KeyOf[r]) ELSE handler[r].threw

\* A read that has seen COMPLETED finds a result.
ReadSound(r) ==
    /\ handler[r].at = "waiting" => handler[r].status # "COMPLETED"
    /\ handler[r].at \in {"events", "result"} =>
          /\ handler[r].job \in Creates
          /\ handler[r].status = "COMPLETED" => row[handler[r].job].result # 0
    /\ handler[r].at = "replied" /\ handler[r].kind = "byKey" /\ handler[r].status = "COMPLETED"
          => handler[r].result # 0 \/ handler[r].threw

Handlers ==
    /\ handler \in [Creates \cup Reads -> HandlerState]
    /\ \A r \in Creates : CreateSound(r)
    /\ \A r \in Reads : ReadSound(r)

LEMMA OfKeyStays ==
    ASSUME RowsStay, NEW key, NEW j \in OfKey(key)
    PROVE  j \in OfKey(key)'
  BY DEF RowsStay, OfKey, Jobs

LEMMA HandlerWrite ==
    ASSUME Handlers, RowsStay, NEW r \in Creates \cup Reads,
           handler' \in [Creates \cup Reads -> HandlerState],
           \A q \in Creates \cup Reads : q # r => handler'[q] = handler[q],
           r \in Creates => CreateSound(r)', r \in Reads => ReadSound(r)'
    PROVE  Handlers'
<1>1. ASSUME NEW q \in Creates, q # r
      PROVE  CreateSound(q)'
  <2>1. CreateSound(q) /\ handler'[q] = handler[q]
    BY <1>1 DEF Handlers
  <2>2. handler[q].job \in OfKey(KeyOf[q]) => handler[q].job \in OfKey(KeyOf[q])'
    BY OfKeyStays
  <2>3. row[q].status # NoJob => row'[q].status # NoJob
    BY DEF RowsStay
  <2>4. handler'[q].at \in BornPc => row'[q].status # NoJob
    BY <2>1, <2>3 DEF CreateSound
  <2>5. KeyOf[q] # NoKey /\ handler'[q].at = "replied" =>
           IF handler'[q].code = 201 THEN handler'[q].job \in OfKey(KeyOf[q])' ELSE handler'[q].threw
    BY <2>1, <2>2 DEF CreateSound
  <2>. QED BY <2>4, <2>5 DEF CreateSound, BornPc
<1>2. ASSUME NEW q \in Reads, q # r
      PROVE  ReadSound(q)'
  <2>1. ReadSound(q) /\ handler'[q] = handler[q]
    BY <1>2 DEF Handlers
  <2>2. \A j \in Creates : row[j].result # 0 => row'[j].result # 0
    BY DEF RowsStay
  <2>. QED BY <2>1, <2>2 DEF ReadSound
<1>. QED BY <1>1, <1>2 DEF Handlers

\* The ways the steps fill in a handler keep its type.
Codes == {0, 200, 201, 400, 404}
Kinds == ReadKind \cup {"create"}
Named == Creates \cup {NoJob}
Numbers == Nat

LEMMA HandlerFields ==
    HandlerState = [at : HandlerPc, kind : Kinds, job : Named, status : Status, result : Numbers,
                    code : Codes, threw : BOOLEAN]
  BY DEF HandlerState, Codes, Kinds, Named, Numbers

LEMMA AtTyped ==
    \A h \in HandlerState, at \in HandlerPc : [h EXCEPT !.at = at] \in HandlerState
  BY HandlerFields

LEMMA CodeTyped ==
    \A h \in HandlerState, at \in HandlerPc, code \in Codes :
        [h EXCEPT !.at = at, !.code = code] \in HandlerState
  BY HandlerFields

LEMMA CreatedTyped ==
    \A h \in HandlerState, at \in HandlerPc, j \in Named, code \in Codes :
        [h EXCEPT !.at = at, !.job = j, !.code = code] \in HandlerState
  BY HandlerFields

LEMMA KindTyped ==
    \A h \in HandlerState, at \in HandlerPc, kind \in Kinds, code \in Codes :
        [h EXCEPT !.at = at, !.kind = kind, !.code = code] \in HandlerState
  BY HandlerFields

LEMMA ThrewTyped ==
    \A h \in HandlerState, at \in HandlerPc, threw \in BOOLEAN :
        [h EXCEPT !.at = at, !.threw = threw] \in HandlerState
  BY HandlerFields

LEMMA ThrewKindTyped ==
    \A h \in HandlerState, at \in HandlerPc, threw \in BOOLEAN, kind \in Kinds, code \in Codes :
        [h EXCEPT !.at = at, !.threw = threw, !.kind = kind, !.code = code] \in HandlerState
  BY HandlerFields

LEMMA FoundTyped ==
    \A h \in HandlerState, at \in HandlerPc, kind \in Kinds, j \in Named, status \in Status :
        [h EXCEPT !.at = at, !.kind = kind, !.job = j, !.status = status] \in HandlerState
  BY HandlerFields

LEMMA ResultTyped ==
    \A h \in HandlerState, at \in HandlerPc, n \in Numbers, code \in Codes :
        [h EXCEPT !.at = at, !.result = n, !.code = code] \in HandlerState
  BY HandlerFields

LEMMA PutTyped ==
    ASSUME Handlers, NEW r \in Creates \cup Reads, NEW h \in HandlerState,
           handler' = [handler EXCEPT ![r] = h]
    PROVE  /\ handler' \in [Creates \cup Reads -> HandlerState]
           /\ \A q \in Creates \cup Reads : q # r => handler'[q] = handler[q]
           /\ handler'[r] = h
  BY DEF Handlers

\* The handler goes on, and keeps what it has.
LEMMA GotoTyped ==
    ASSUME Handlers, NEW r \in Creates \cup Reads, NEW at \in HandlerPc, Goto(r, at)
    PROVE  /\ handler' \in [Creates \cup Reads -> HandlerState]
           /\ \A q \in Creates \cup Reads : q # r => handler'[q] = handler[q]
           /\ handler'[r].at = at /\ handler'[r].kind = handler[r].kind
           /\ handler'[r].job = handler[r].job /\ handler'[r].status = handler[r].status
<1>. DEFINE h == [handler[r] EXCEPT !.at = at]
<1>1. handler[r] \in HandlerState /\ handler' = [handler EXCEPT ![r] = h]
  BY DEF Handlers, Goto
<1>2. h \in HandlerState
  BY <1>1, AtTyped
<1>3. h.at = at /\ h.kind = handler[r].kind /\ h.job = handler[r].job /\ h.status = handler[r].status
  BY <1>1 DEF HandlerState
<1>. HIDE DEF h
<1>. QED BY <1>1, <1>2, <1>3, PutTyped

LEMMA CreatedKeeps ==
    ASSUME Handlers, RowsStay, Creates \cap Reads = {}, NEW r \in Creates, NEW j \in Creates,
           ReplyCreated(r, j), KeyOf[r] # NoKey => j \in OfKey(KeyOf[r])'
    PROVE  Handlers'
<1>. DEFINE h == [handler[r] EXCEPT !.at = "replied", !.job = j, !.code = 201]
<1>1. handler[r] \in HandlerState /\ handler' = [handler EXCEPT ![r] = h]
  BY DEF Handlers, ReplyCreated
<1>2. h \in HandlerState
  <2>1. "replied" \in HandlerPc /\ j \in Named /\ 201 \in Codes
    BY DEF HandlerPc, Named, Codes
  <2>. QED BY <1>1, <2>1, CreatedTyped
<1>3. h.at = "replied" /\ h.job = j /\ h.code = 201
  BY <1>1 DEF HandlerState
<1>. HIDE DEF h
<1>4. /\ handler' \in [Creates \cup Reads -> HandlerState] /\ handler'[r] = h
      /\ \A q \in Creates \cup Reads : q # r => handler'[q] = handler[q]
  BY <1>1, <1>2, PutTyped
<1>5. CreateSound(r)'
  BY <1>3, <1>4 DEF CreateSound, BornPc
<1>. QED BY <1>4, <1>5, HandlerWrite

LEMMA CreateGoesOn ==
    ASSUME Handlers, RowsStay, Creates \cap Reads = {}, NEW r \in Creates,
           NEW at \in HandlerPc \ {"replied"}, Goto(r, at),
           at \in BornPc => row'[r].status # NoJob
    PROVE  Handlers'
<1>1. /\ handler' \in [Creates \cup Reads -> HandlerState] /\ handler'[r].at = at
      /\ \A q \in Creates \cup Reads : q # r => handler'[q] = handler[q]
  BY GotoTyped
<1>2. CreateSound(r)'
  BY <1>1 DEF CreateSound, BornPc
<1>. QED BY <1>1, <1>2, HandlerWrite

LEMMA CreateStepKeeps ==
    ASSUME Handlers, Rows, RowsStay, Creates \cap Reads = {}, NEW r \in Creates, CreateStep(r)
    PROVE  Handlers'
<1>1. KeyOf[r] # NoKey => \A j \in OfKey(KeyOf[r]) : j \in Creates /\ j \in OfKey(KeyOf[r])'
  BY OfKeyStays DEF OfKey, Jobs
<1>2. handler[r].at \in BornPc => row'[r].status # NoJob
  BY DEF Handlers, CreateSound, RowsStay
<1>3. CASE FindByIdempotencyKey(r)
  <2>1. CASE \E j \in OfKey(KeyOf[r]) : ReplyCreated(r, j)
    BY <1>1, <1>3, <2>1, CreatedKeeps DEF FindByIdempotencyKey
  <2>2. CASE Goto(r, "insert")
    BY <2>2, CreateGoesOn DEF HandlerPc, BornPc
  <2>. QED BY <1>3, <2>1, <2>2 DEF FindByIdempotencyKey
<1>4. CASE Insert(r)
  <2>1. CASE Goto(r, "conflict")
    BY <2>1, CreateGoesOn DEF HandlerPc, BornPc
  <2>2. CASE Goto(r, "created") /\ row' = [row EXCEPT ![r].status = "PENDING"]
    <3>1. row'[r].status = "PENDING"
      BY <2>2 DEF Rows, RowState
    <3>. QED BY <2>2, <3>1, CreateGoesOn DEF HandlerPc, NoJob
  <2>. QED BY <1>4, <2>1, <2>2 DEF Insert
<1>5. CASE Conflict(r)
  <2>1. PICK j \in OfKey(KeyOf[r]) : ReplyCreated(r, j)
    BY <1>5 DEF Conflict
  <2>. QED BY <1>1, <2>1, CreatedKeeps DEF OfKey, Jobs
<1>6. CASE AnnounceCreated(r) \/ MarkQueued(r) \/ Enqueue(r) \/ Rollback(r)
  <2>1. PICK at \in {"mark", "enqueue", "announce", "latest"} : Goto(r, at) /\ handler[r].at \in BornPc
    BY <1>6 DEF AnnounceCreated, MarkQueued, Enqueue, Rollback, At, BornPc
  <2>2. at \in HandlerPc \ {"replied"}
    BY DEF HandlerPc
  <2>. QED BY <1>2, <2>1, <2>2, CreateGoesOn
<1>7. CASE AnnounceQueued(r) \/ ReplyLatest(r)
  <2>1. ReplyCreated(r, r) /\ handler[r].at \in BornPc
    BY <1>7 DEF AnnounceQueued, ReplyLatest, At, BornPc
  <2>2. KeyOf[r] # NoKey => r \in OfKey(KeyOf[r])'
    BY <1>2, <2>1 DEF OfKey, Jobs
  <2>. QED BY <2>1, <2>2, CreatedKeeps
<1>. QED BY <1>3, <1>4, <1>5, <1>6, <1>7 DEF CreateStep

LEMMA ReadStepKeeps ==
    ASSUME Handlers, Rows, RowsStay, Creates \cap Reads = {}, NEW r \in Reads, ReadStep(r)
    PROVE  Handlers'
<1>0. /\ handler[r] \in HandlerState /\ ReadSound(r) /\ UNCHANGED row /\ r \notin Creates
      /\ \A j \in Creates : row[j] \in RowState /\ Sound(row[j])
  BY DEF Handlers, Rows, ReadStep, List, FindRefused, Find, FindEvents, GetResult, RowsUnchanged
<1>1. CASE List(r) \/ FindRefused(r)
  <2>1. PICK kind \in Kinds, code \in Codes : Answers(r, kind, code)
    <3>1. CASE List(r)
      <4>1. "list" \in Kinds /\ 200 \in Codes /\ Answers(r, "list", 200)
        BY <3>1 DEF List, Kinds, ReadKind, Codes
      <4>. QED BY <4>1
    <3>2. CASE FindRefused(r)
      <4>1. PICK kind \in {"byId", "byKey", "result"} :
               Answers(r, kind, IF kind = "byKey" THEN 404 ELSE 400)
        BY <3>2 DEF FindRefused
      <4>2. kind \in Kinds /\ 400 \in Codes /\ 404 \in Codes
        BY DEF Kinds, ReadKind, Codes
      <4>3. CASE kind = "byKey"
        BY <4>1, <4>2, <4>3
      <4>4. CASE kind # "byKey"
        BY <4>1, <4>2, <4>4
      <4>. QED BY <4>3, <4>4
    <3>. QED BY <1>1, <3>1, <3>2
  <2>. DEFINE h == [handler[r] EXCEPT !.at = "replied", !.kind = kind, !.code = code]
  <2>2. h \in HandlerState
    <3>1. "replied" \in HandlerPc /\ handler[r] \in HandlerState
      BY <1>0 DEF HandlerPc
    <3>. QED BY <3>1, KindTyped
  <2>3. handler' = [handler EXCEPT ![r] = h] /\ h.at = "replied" /\ h.status = handler[r].status
    <3>1. handler' = [handler EXCEPT ![r] = h]
      BY <2>1 DEF Answers
    <3>2. h.at = "replied" /\ h.status = handler[r].status
      BY <1>0 DEF HandlerState
    <3>. QED BY <3>1, <3>2
  <2>4. handler[r].status # "COMPLETED"
    BY <1>0, <1>1 DEF List, FindRefused, Starts, At, ReadSound
  <2>. HIDE DEF h
  <2>5. /\ handler' \in [Creates \cup Reads -> HandlerState] /\ handler'[r] = h
        /\ \A q \in Creates \cup Reads : q # r => handler'[q] = handler[q]
    BY <2>2, <2>3, PutTyped
  <2>6. ReadSound(r)'
    BY <2>3, <2>4, <2>5 DEF ReadSound
  <2>. QED BY <1>0, <2>5, <2>6, HandlerWrite
<1>2. CASE Find(r)
  <2>1. PICK j \in Jobs, kind \in {"byId", "byKey", "result"} :
          handler' = [handler EXCEPT ![r] =
                         [@ EXCEPT !.at = IF kind = "result" THEN "result" ELSE "events",
                                   !.kind = kind, !.job = j, !.status = row[j].status]]
    BY <1>2 DEF Find
  <2>. DEFINE at == IF kind = "result" THEN "result" ELSE "events"
              h == [handler[r] EXCEPT !.at = at, !.kind = kind, !.job = j, !.status = row[j].status]
  <2>2. j \in Creates /\ row[j].status \in Status
    BY <1>0 DEF Jobs, RowState
  <2>3. h \in HandlerState
    <3>1. at \in HandlerPc /\ kind \in Kinds /\ j \in Named
      BY <2>2 DEF HandlerPc, Kinds, ReadKind, Named
    <3>. HIDE DEF at
    <3>. QED BY <1>0, <2>2, <3>1, FoundTyped
  <2>4. /\ handler' = [handler EXCEPT ![r] = h]
        /\ h.at \in {"events", "result"} /\ h.job = j /\ h.status = row[j].status
    BY <1>0, <2>1 DEF HandlerState
  <2>. HIDE DEF h
  <2>5. /\ handler' \in [Creates \cup Reads -> HandlerState] /\ handler'[r] = h
        /\ \A q \in Creates \cup Reads : q # r => handler'[q] = handler[q]
    BY <2>3, <2>4, PutTyped
  <2>6. row[j].status = "COMPLETED" => row'[j].result # 0
    BY <1>0, <2>2 DEF Sound
  <2>7. ReadSound(r)'
    BY <2>2, <2>4, <2>5, <2>6 DEF ReadSound
  <2>. QED BY <1>0, <2>5, <2>7, HandlerWrite
<1>3. CASE FindEvents(r) /\ handler[r].kind = "byKey"
  <2>1. Goto(r, "result") /\ handler[r].at = "events" /\ "result" \in HandlerPc
    BY <1>3 DEF FindEvents, At, HandlerPc
  <2>2. /\ handler' \in [Creates \cup Reads -> HandlerState] /\ handler'[r].at = "result"
        /\ handler'[r].job = handler[r].job /\ handler'[r].status = handler[r].status
        /\ \A q \in Creates \cup Reads : q # r => handler'[q] = handler[q]
    BY <2>1, GotoTyped
  <2>3. ReadSound(r)'
    BY <1>0, <2>1, <2>2 DEF ReadSound
  <2>. QED BY <1>0, <2>2, <2>3, HandlerWrite
<1>4. CASE FindEvents(r) /\ handler[r].kind # "byKey"
  <2>. DEFINE h == [handler[r] EXCEPT !.at = "replied", !.code = 200]
  <2>1. handler' = [handler EXCEPT ![r] = h] /\ h.at = "replied" /\ h.kind = handler[r].kind
    BY <1>0, <1>4 DEF FindEvents, Reply, HandlerState
  <2>2. h \in HandlerState
    <3>1. "replied" \in HandlerPc /\ 200 \in Codes
      BY DEF HandlerPc, Codes
    <3>. QED BY <1>0, <3>1, CodeTyped
  <2>. HIDE DEF h
  <2>3. /\ handler' \in [Creates \cup Reads -> HandlerState] /\ handler'[r] = h
        /\ \A q \in Creates \cup Reads : q # r => handler'[q] = handler[q]
    BY <2>1, <2>2, PutTyped
  <2>4. ReadSound(r)'
    BY <1>4, <2>1, <2>3 DEF ReadSound
  <2>. QED BY <1>0, <2>3, <2>4, HandlerWrite
<1>5. CASE GetResult(r)
  <2>. DEFINE found == row[handler[r].job].result
              code == IF found = 0 /\ handler[r].kind = "result" THEN 400 ELSE 200
              h == [handler[r] EXCEPT !.at = "replied", !.result = found, !.code = code]
  <2>1. handler[r].at = "result" /\ handler' = [handler EXCEPT ![r] = h]
    BY <1>5 DEF GetResult, At
  <2>2. handler[r].job \in Creates /\ (handler[r].status = "COMPLETED" => found # 0)
    BY <1>0, <2>1 DEF ReadSound
  <2>3. found \in Numbers
    BY <1>0, <2>2 DEF RowState, Numbers
  <2>4. code \in Codes /\ "replied" \in HandlerPc
    BY DEF Codes, HandlerPc
  <2>. HIDE DEF found, code
  <2>5. h \in HandlerState
    BY <1>0, <2>3, <2>4, ResultTyped
  <2>6. h.at = "replied" /\ h.result = found /\ h.status = handler[r].status
    BY <1>0 DEF HandlerState
  <2>. HIDE DEF h
  <2>7. /\ handler' \in [Creates \cup Reads -> HandlerState] /\ handler'[r] = h
        /\ \A q \in Creates \cup Reads : q # r => handler'[q] = handler[q]
    BY <2>1, <2>5, PutTyped
  <2>8. ReadSound(r)'
    BY <2>2, <2>6, <2>7 DEF ReadSound
  <2>. QED BY <1>0, <2>7, <2>8, HandlerWrite
<1>. QED BY <1>1, <1>2, <1>3, <1>4, <1>5 DEF ReadStep

LEMMA ThrowKeeps ==
    ASSUME Handlers, Rows, RowsStay, Creates \cap Reads = {}, NEW r \in Creates \cup Reads, HandlerThrows(r)
    PROVE  Handlers'
<1>0. handler[r] \in HandlerState /\ handler[r].kind \in Kinds
  BY HandlerFields DEF Handlers
<1>1. CASE handler[r].at \in {"mark", "enqueue", "announce"}
  <2>. DEFINE h == [handler[r] EXCEPT !.at = "rollback", !.threw = TRUE]
  <2>1. handler' = [handler EXCEPT ![r] = h] /\ h.at = "rollback"
    BY <1>0, <1>1 DEF HandlerThrows, HandlerState
  <2>2. h \in HandlerState
    <3>1. "rollback" \in HandlerPc
      BY DEF HandlerPc
    <3>. QED BY <1>0, <3>1, ThrewTyped
  <2>. HIDE DEF h
  <2>3. /\ handler' \in [Creates \cup Reads -> HandlerState] /\ handler'[r] = h
        /\ \A q \in Creates \cup Reads : q # r => handler'[q] = handler[q]
    BY <2>1, <2>2, PutTyped
  <2>4. r \in Creates => CreateSound(r)'
    <3>1. r \in Creates => row'[r].status # NoJob
      BY <1>1 DEF Handlers, CreateSound, BornPc, RowsStay
    <3>. QED BY <2>1, <2>3, <3>1 DEF CreateSound
  <2>5. ReadSound(r)'
    BY <2>1, <2>3 DEF ReadSound
  <2>. QED BY <2>3, <2>4, <2>5, HandlerWrite
<1>2. CASE handler[r].at \notin {"mark", "enqueue", "announce"}
  <2>0. PICK kind \in IF r \in Reads /\ Starts(r) THEN ReadKind ELSE {handler[r].kind} :
          handler' = [handler EXCEPT ![r] =
              IF @.at \in {"mark", "enqueue", "announce"} THEN [@ EXCEPT !.at = "rollback", !.threw = TRUE]
              ELSE [@ EXCEPT !.at = "replied", !.threw = TRUE, !.kind = kind,
                             !.code = IF kind = "byKey" THEN 404 ELSE 400]]
    BY DEF HandlerThrows
  <2>. DEFINE code == IF kind = "byKey" THEN 404 ELSE 400
              h == [handler[r] EXCEPT !.at = "replied", !.threw = TRUE, !.kind = kind, !.code = code]
  <2>1. /\ handler' = [handler EXCEPT ![r] = h]
        /\ h.at = "replied" /\ h.threw = TRUE /\ h.code # 201
    <3>1. handler' = [handler EXCEPT ![r] = h]
      BY <1>2, <2>0
    <3>2. h.at = "replied" /\ h.threw = TRUE /\ h.code # 201
      BY <1>0 DEF HandlerState
    <3>. QED BY <3>1, <3>2
  <2>2. h \in HandlerState
    <3>1. "replied" \in HandlerPc /\ code \in Codes /\ kind \in Kinds
      BY <1>0 DEF HandlerPc, Codes, Kinds
    <3>. HIDE DEF code
    <3>. QED BY <1>0, <3>1, ThrewKindTyped
  <2>. HIDE DEF h
  <2>3. /\ handler' \in [Creates \cup Reads -> HandlerState] /\ handler'[r] = h
        /\ \A q \in Creates \cup Reads : q # r => handler'[q] = handler[q]
    BY <2>1, <2>2, PutTyped
  <2>4. CreateSound(r)'
    BY <2>1, <2>3 DEF CreateSound, BornPc
  <2>5. ReadSound(r)'
    BY <2>1, <2>3 DEF ReadSound
  <2>. QED BY <2>3, <2>4, <2>5, HandlerWrite
<1>. QED BY <1>1, <1>2

\* A step that answers nobody.
LEMMA HandlersStay ==
    ASSUME Handlers, RowsStay, handler' \in [Creates \cup Reads -> HandlerState],
           \A r \in Creates \cup Reads : handler'[r] = handler[r] \/ handler'[r].at = "lost"
    PROVE  Handlers'
<1>1. ASSUME NEW r \in Creates
      PROVE  CreateSound(r)'
  <2>1. CreateSound(r)
    BY DEF Handlers
  <2>2. handler[r].job \in OfKey(KeyOf[r]) => handler[r].job \in OfKey(KeyOf[r])'
    BY OfKeyStays
  <2>3. CASE handler'[r] = handler[r]
    <3>1. handler'[r].at \in BornPc => row'[r].status # NoJob
      BY <2>1, <2>3 DEF CreateSound, RowsStay
    <3>2. KeyOf[r] # NoKey /\ handler'[r].at = "replied" =>
            IF handler'[r].code = 201 THEN handler'[r].job \in OfKey(KeyOf[r])' ELSE handler'[r].threw
      BY <2>1, <2>2, <2>3 DEF CreateSound
    <3>. QED BY <3>1, <3>2 DEF CreateSound, BornPc
  <2>4. CASE handler'[r].at = "lost"
    BY <2>4 DEF CreateSound, BornPc
  <2>. QED BY <2>3, <2>4
<1>2. ASSUME NEW r \in Reads
      PROVE  ReadSound(r)'
  <2>1. CASE handler'[r] = handler[r]
    BY <2>1 DEF Handlers, ReadSound, RowsStay
  <2>2. CASE handler'[r].at = "lost"
    BY <2>2 DEF ReadSound
  <2>. QED BY <2>1, <2>2
<1>. QED BY <1>1, <1>2 DEF Handlers

LEMMA DeathKeeps ==
    ASSUME Handlers, RowsStay, NEW dying, HandlersDie(dying)
    PROVE  Handlers'
<1>1. \A r \in Creates \cup Reads : handler[r] \in HandlerState
  BY DEF Handlers
<1>2. \A r \in Creates \cup Reads : /\ [handler[r] EXCEPT !.at = "lost"] \in HandlerState
                                    /\ [handler[r] EXCEPT !.at = "lost"].at = "lost"
  <2>1. "lost" \in HandlerPc
    BY DEF HandlerPc
  <2>. QED BY <1>1, <2>1, AtTyped DEF HandlerState
<1>3. handler' = [r \in Creates \cup Reads |->
                     IF r \in dying /\ LetIn(r) /\ ~At(r, "replied")
                     THEN [handler[r] EXCEPT !.at = "lost"] ELSE handler[r]]
  BY DEF HandlersDie
<1>4. \A r \in Creates \cup Reads : handler'[r] = handler[r] \/ handler'[r].at = "lost"
  BY <1>2, <1>3
<1>5. handler' \in [Creates \cup Reads -> HandlerState]
  BY <1>1, <1>2, <1>3
<1>. QED BY <1>4, <1>5, HandlersStay

-----------------------------------------------------------------------------
(* The theorems.                                                              *)
AnswerInv == Rows /\ AskedOfJobs /\ Handlers

LEMMA AnswersInit == Init => AnswerInv
<1>. SUFFICES ASSUME Init PROVE AnswerInv
  OBVIOUS
<1>1. /\ row = [j \in Creates |-> [status |-> NoJob, held |-> FALSE, attempt |-> 0, reason |-> 0,
                                   result |-> 0]]
      /\ asked = [j \in Creates |-> {}]
      /\ handler = [r \in Creates \cup Reads |->
                    [at |-> "waiting", kind |-> "create", job |-> NoJob, status |-> NoJob,
                     result |-> 0, code |-> 0, threw |-> FALSE]]
  BY DEF Init, InitRequests
<1>2. 0 \in Numbers /\ NoJob \in Status
  BY DEF Numbers, Status
<1>3. Rows /\ AskedOfJobs
  <2>1. [status |-> NoJob, held |-> FALSE, attempt |-> 0, reason |-> 0, result |-> 0] \in RowState
    BY <1>2 DEF RowState, Numbers
  <2>2. \A j \in Creates : Sound(row[j])
    BY <1>1, <2>1 DEF Sound, NoJob
  <2>3. Jobs = {}
    BY <1>1 DEF Jobs
  <2>. QED BY <1>1, <2>1, <2>2, <2>3 DEF Rows, OneRow, AskedOfJobs
<1>4. Handlers
  <2>1. "waiting" \in HandlerPc /\ "create" \in Kinds /\ NoJob \in Named /\ 0 \in Codes
    BY DEF HandlerPc, Kinds, Named, Codes
  <2>2. [at |-> "waiting", kind |-> "create", job |-> NoJob, status |-> NoJob,
         result |-> 0, code |-> 0, threw |-> FALSE] \in HandlerState
    BY <1>2, <2>1, HandlerFields
  <2>3. \A r \in Creates : CreateSound(r)
    BY <1>1 DEF CreateSound, BornPc
  <2>4. \A r \in Reads : ReadSound(r)
    BY <1>1 DEF ReadSound, NoJob
  <2>. QED BY <1>1, <2>2, <2>3, <2>4 DEF Handlers
<1>. QED BY <1>3, <1>4 DEF AnswerInv

LEMMA AnswersStep == AnswerInv /\ [Next]_vars => AnswerInv'
<1>. SUFFICES ASSUME AnswerInv, [Next]_vars PROVE AnswerInv'
  OBVIOUS
<1>1. RequestStep
  BY RequestSteps
<1>2. Rows /\ AskedOfJobs /\ Handlers /\ Rooted
  BY DEF AnswerInv, Handlers, CreateSound, Rooted
<1>3. Rows' /\ RowsStay /\ AskedOfJobs'
  BY <1>1, <1>2, RowSteps, AskedStep
<1>4. Creates \cap Reads = {}
  BY JobRequestAssumption
<1>5. UNCHANGED handler => Handlers'
  BY <1>2, <1>3, HandlersStay DEF Handlers
<1>6. CASE UNCHANGED requestVars
  BY <1>3, <1>5, <1>6 DEF AnswerInv, requestVars
<1>7. ASSUME NEW j \in Creates, PlatformStep(j) \/ Announce(j) \/ AnnounceLost(j)
      PROVE  AnswerInv'
  <2>1. UNCHANGED handler
    BY <1>7 DEF PlatformStep, Claim, Complete, Fail, Postpone, Ends, Announce, AnnounceLost, Recover,
                Requeue, Withdraw, Look, CancelJob, RetryJob
  <2>. QED BY <1>3, <1>5, <2>1 DEF AnswerInv
<1>8. (\E r \in Creates : CreateStep(r)) \/ (\E r \in Reads : ReadStep(r))
      \/ (\E r \in Creates \cup Reads : HandlerThrows(r))
      \/ (\E dying \in SUBSET Requests : HandlersDie(dying)) => Handlers'
  BY <1>2, <1>3, <1>4, CreateStepKeeps, ReadStepKeeps, ThrowKeeps, DeathKeeps
<1>. QED BY <1>1, <1>3, <1>6, <1>7, <1>8 DEF RequestStep, AnswerInv

LEMMA AnswersInvariant == Spec => []AnswerInv
  BY AnswersInit, AnswersStep, PTL DEF Spec

\* However many create requests of a key overlap, wherever their calls throw and
\* however often their job is run, failed and retried meanwhile: there is one row of
\* the key, and every answer names it or is that of a request one of whose calls threw.
THEOREM OneJobPerKey == Spec => []IdempotentAnswers
<1>1. AnswerInv => IdempotentAnswers
  <2>. SUFFICES ASSUME AnswerInv, NEW r \in Creates, KeyOf[r] # NoKey
                PROVE  /\ Cardinality(OfKey(KeyOf[r])) <= 1
                       /\ At(r, "replied") =>
                             IF handler[r].code = 201 THEN handler[r].job \in OfKey(KeyOf[r])
                             ELSE handler[r].threw
    BY DEF IdempotentAnswers
  <2>. DEFINE S == OfKey(KeyOf[r])
  <2>1. \A i, j \in S : i = j
    BY DEF AnswerInv, Rows, OneRow, OfKey
  <2>2. Cardinality(S) <= 1
    <3>. HIDE DEF S
    <3>1. CASE S = {}
      BY <3>1, FS_EmptySet
    <3>2. CASE S # {}
      <4>1. PICK i \in S : TRUE
        BY <3>2
      <4>2. S = {i}
        BY <2>1, <4>1
      <4>3. Cardinality({i}) = 1
        BY FS_Singleton
      <4>. QED BY <4>2, <4>3
    <3>. QED BY <3>1, <3>2
  <2>3. CreateSound(r)
    BY DEF AnswerInv, Handlers
  <2>. QED BY <2>2, <2>3 DEF CreateSound, At
<1>. QED BY <1>1, AnswersInvariant, PTL

\* The status, the events and the result of an answer by key are read one after
\* another while a worker commits; an answer that says COMPLETED has the result all
\* the same, or a call of it threw.
THEOREM CompletedComesWithResult == Spec => []CompletedAnswerHasResult
<1>1. AnswerInv => CompletedAnswerHasResult
  BY DEF AnswerInv, Handlers, ReadSound, CompletedAnswerHasResult, At
<1>. QED BY <1>1, AnswersInvariant, PTL

\* However late a handler marks its row QUEUED, and however often a job is cancelled,
\* recovered, failed, retried and run again by workers that may be several: once it has
\* a result it keeps that one.
THEOREM ResultsStand == Spec => ResultStands
<1>1. AnswerInv /\ [Next]_vars => \A j \in Creates : row[j].result # 0 => row'[j].result = row[j].result
  <2>. SUFFICES ASSUME AnswerInv, [Next]_vars PROVE RowsStay
    BY DEF RowsStay
  <2>1. Rows /\ Rooted /\ AskedOfJobs
    BY DEF AnswerInv, Handlers, CreateSound, Rooted
  <2>. QED BY <2>1, RequestSteps, RowSteps
<1>. QED BY <1>1, AnswersInvariant, PTL DEF Spec, ResultStands

------------------------------------------------------------------------------
(* Callbacks, accounts and types.                                             *)

-----------------------------------------------------------------------------
(* The events and the callbacks.  An outcome that waits to be announced, and  *)
(* an event, are of a run that ended so, whatever the row says by now; a      *)
(* delivery past its first read, and what was received, carry what the event  *)
(* and the result say.                                                        *)
EventState == [job : Creates, type : Terminal, reason : Nat]

Closing ==
    /\ closing \in [Creates -> SUBSET Outcome]
    /\ \A j \in Creates : \A outcome \in closing[j] :
          outcome.type = "JOB_COMPLETED" => row[j].result # 0

EventTrue(event) ==
    IF event.type = "JOB_COMPLETED" THEN row[event.job].result # 0 /\ event.reason = 0
    ELSE event.reason # 0

History ==
    /\ events \in Seq(EventState) /\ outbox \subseteq DOMAIN events
    /\ \A e \in DOMAIN events : EventTrue(events[e])

\* The body of the callback of an event.
Body(e, output) == [eventId |-> EventId(e), output |-> output, error |-> events[e].reason]

Output(e) == IF events[e].type = "JOB_COMPLETED" THEN row[events[e].job].result ELSE 0

Delivery(d) ==
    /\ d = [server |-> d.server, event |-> d.event, at |-> d.at, attempt |-> d.attempt, body |-> d.body]
    /\ d.server \in Servers /\ d.event \in DOMAIN events /\ d.at \in DeliveryAt
    /\ d.attempt \in 0 .. MaxRetries
    /\ d.at # "job" => events[d.event].job \in called
    /\ d.at = "result" => d.body = Body(d.event, 0) /\ events[d.event].type = "JOB_COMPLETED"
    /\ d.at = "send" => d.body = Body(d.event, Output(d.event))

Receipt(m) == m.event \in DOMAIN events /\ m.body = Body(m.event, Output(m.event))

Posts == (\A d \in deliveries : Delivery(d)) /\ (\A m \in received : Receipt(m))

CallbackInv == AnswerInv /\ Closing /\ History /\ Posts

LEMMA ClosingStep ==
    ASSUME Rows, Closing, RowsStay, RequestStep
    PROVE  Closing'
<1>0. UNCHANGED closing => Closing'
  BY DEF Closing, RowsStay
<1>1. ASSUME NEW j \in Creates, NEW type \in Terminal, NEW n \in Nat \ {0}, Ends(j, type, n),
             type = "JOB_COMPLETED" => row'[j].result # 0
      PROVE  Closing'
  <2>. DEFINE outcome == [type |-> type, attempt |-> n]
  <2>1. outcome \in Outcome
    BY DEF Outcome
  <2>2. closing' = [closing EXCEPT ![j] = @ \cup {outcome}]
    BY <1>1 DEF Ends
  <2>3. outcome.type = type
    OBVIOUS
  <2>. HIDE DEF outcome
  <2>4. closing' \in [Creates -> SUBSET Outcome]
    BY <2>1, <2>2 DEF Closing
  <2>5. ASSUME NEW i \in Creates, NEW o \in closing'[i], o.type = "JOB_COMPLETED"
        PROVE  row'[i].result # 0
    <3>1. CASE o \in closing[i]
      BY <2>5, <3>1 DEF Closing, RowsStay
    <3>2. CASE o \notin closing[i]
      BY <1>1, <2>2, <2>3, <2>5, <3>2 DEF Closing
    <3>. QED BY <3>1, <3>2
  <2>. QED BY <2>4, <2>5 DEF Closing
<1>2. ASSUME NEW j \in Creates, Announce(j) \/ AnnounceLost(j)
      PROVE  Closing'
  <2>1. PICK outcome \in closing[j] : closing' = [closing EXCEPT ![j] = @ \ {outcome}]
    BY <1>2 DEF Announce, AnnounceLost
  <2>. QED BY <2>1 DEF Closing, RowsStay
<1>3. (\E r \in Creates : CreateStep(r)) \/ (\E r \in Reads : ReadStep(r)) => UNCHANGED closing
  BY DEF CreateStep, FindByIdempotencyKey, Insert, Conflict, AnnounceCreated, MarkQueued, Enqueue,
         AnnounceQueued, Rollback, ReplyLatest, ReadStep, List, FindRefused, Find, FindEvents, GetResult,
         RowsUnchanged
<1>4. (\E r \in Creates \cup Reads : HandlerThrows(r)) \/ (\E dying \in SUBSET Requests : HandlersDie(dying))
      \/ UNCHANGED requestVars => UNCHANGED closing
  BY DEF HandlerThrows, HandlersDie, RowsUnchanged, requestVars
<1>5. \A j \in Creates : PlatformStep(j) => UNCHANGED closing \/ Complete(j) \/ Fail(j)
  BY DEF PlatformStep, Claim, Postpone, Recover, Requeue, Withdraw, Look, CancelJob, RetryJob
<1>6. ASSUME NEW j \in Creates, Complete(j)
      PROVE  Closing'
  <2>1. row[j] \in RowState /\ row[j].attempt \in Nat \ {0}
    BY <1>6 DEF Complete, Running, Rows, Sound, RowState
  <2>2. row'[j].result = row[j].attempt
    BY <1>6, <2>1 DEF Complete, Rows, RowState
  <2>3. Ends(j, "JOB_COMPLETED", row[j].attempt)
    BY <1>6 DEF Complete
  <2>. QED BY <1>1, <2>1, <2>2, <2>3 DEF Terminal
<1>7. ASSUME NEW j \in Creates, Fail(j)
      PROVE  Closing'
  <2>1. PICK n \in 1 .. row[j].attempt : Ends(j, "JOB_FAILED", n)
    BY <1>7 DEF Fail
  <2>2. n \in Nat \ {0}
    BY DEF Rows, RowState
  <2>. QED BY <1>1, <2>1, <2>2 DEF Terminal
<1>. QED BY <1>0, <1>2, <1>3, <1>4, <1>5, <1>6, <1>7 DEF RequestStep

\* Events are only ever appended, by whoever announces an outcome.
EventStep ==
    \/ UNCHANGED events /\ outbox' \subseteq outbox
    \/ \E j \in Creates : Announce(j)

EventsStay == \A e \in DOMAIN events : e \in DOMAIN events' /\ events'[e] = events[e]

LEMMA EventSteps == ASSUME [Next]_vars PROVE EventStep
<1>1. CASE Gate \/ Serve \/ ServeAccount \/ DeliverSome \/ UNCHANGED vars
  BY <1>1 DEF Gate, Serve, ServeAccount, DeliverSome, vars, eventVars, EventStep
<1>2. CASE Platform
  BY <1>2 DEF Platform, EventStep, eventVars
<1>3. CASE PublishSome \/ DeliveryFails
  BY <1>3 DEF PublishSome, DeliveryFails, Publish, PublishLost, EventStep, eventVars
<1>4. CASE Process \/ \E s \in Servers : Death(s)
  BY <1>4 DEF Process, Death, Crash, Boot, StartDispatcher, Subscribe, SubscribeFails, ConnectSubscriber,
              EventStep, eventVars
<1>. QED BY <1>1, <1>2, <1>3, <1>4 DEF Next

LEMMA HistoryStep ==
    ASSUME Closing, History, RowsStay, EventStep
    PROVE  History' /\ EventsStay
<1>1. \A e \in DOMAIN events : events[e] \in EventState
  BY DEF History
<1>2. \A event \in EventState : EventTrue(event) => EventTrue(event)'
  BY DEF EventTrue, EventState, RowsStay
<1>3. CASE UNCHANGED events /\ outbox' \subseteq outbox
  BY <1>1, <1>2, <1>3 DEF History, EventsStay
<1>4. ASSUME NEW j \in Creates, Announce(j)
      PROVE  History' /\ EventsStay
  <2>1. PICK outcome \in closing[j] :
           CreateEvent([job |-> j, type |-> outcome.type,
                        reason |-> IF outcome.type = "JOB_FAILED" THEN outcome.attempt ELSE 0])
    BY <1>4 DEF Announce
  <2>. DEFINE event == [job |-> j, type |-> outcome.type,
                        reason |-> IF outcome.type = "JOB_FAILED" THEN outcome.attempt ELSE 0]
  <2>2. outcome.type \in Terminal /\ outcome.attempt \in Nat \ {0}
    BY <1>4 DEF Closing, Outcome
  <2>3. event \in EventState
    BY <2>2 DEF EventState
  <2>4. EventTrue(event)
    BY <2>2 DEF EventTrue, Closing, Terminal
  <2>5. events' = Append(events, event) /\ outbox' = outbox \cup {Len(events) + 1}
    BY <2>1 DEF CreateEvent
  <2>. HIDE DEF event
  <2>6. events' \in Seq(EventState) /\ DOMAIN events = 1 .. Len(events) /\ Len(events) \in Nat
    BY <2>3, <2>5 DEF History
  <2>7. DOMAIN events' = 1 .. (Len(events) + 1) /\ events'[Len(events) + 1] = event
    BY <2>3, <2>5, <2>6 DEF History
  <2>8. EventsStay
    BY <2>3, <2>5, <2>6, <2>7 DEF EventsStay, History
  <2>9. \A e \in DOMAIN events' : EventTrue(events[e])'
    <3>. SUFFICES ASSUME NEW e \in DOMAIN events' PROVE EventTrue(events[e])'
      OBVIOUS
    <3>1. PICK same \in EventState : events'[e] = same /\ EventTrue(same)
      BY <1>1, <2>3, <2>4, <2>6, <2>7, <2>8 DEF EventsStay, History
    <3>2. EventTrue(same)'
      BY <1>2, <3>1
    <3>. QED BY <3>1, <3>2 DEF EventTrue
  <2>10. outbox' \subseteq DOMAIN events'
    BY <2>5, <2>6, <2>7 DEF History
  <2>. QED BY <2>6, <2>8, <2>9, <2>10 DEF History
<1>. QED BY <1>3, <1>4 DEF EventStep

\* What is of an event is the same in all later states.
LEMMA PostsStay ==
    ASSUME Rows, History, RowsStay, EventsStay, UNCHANGED called
    PROVE  /\ \A d : Delivery(d) => Delivery(d)'
           /\ \A m : Receipt(m) => Receipt(m)'
<1>1. \A e \in DOMAIN events : /\ e \in DOMAIN events' /\ events'[e] = events[e]
                                /\ events[e] \in EventState /\ EventTrue(events[e])
  BY DEF History, EventsStay
<1>2. \A e \in DOMAIN events : EventId(e)' = EventId(e)
  BY <1>1 DEF EventId
<1>3. \A e \in DOMAIN events : \A output : Body(e, output)' = Body(e, output)
  BY <1>1, <1>2 DEF Body
<1>4. \A e \in DOMAIN events : Output(e)' = Output(e)
  BY <1>1 DEF Output, EventTrue, EventState, RowsStay
<1>5. \A e \in DOMAIN events : Body(e, Output(e))' = Body(e, Output(e))
  BY <1>1, <1>2, <1>4 DEF Body
<1>6. ASSUME NEW d, Delivery(d)
      PROVE  Delivery(d)'
  BY <1>1, <1>3, <1>5, <1>6 DEF Delivery
<1>7. ASSUME NEW m, Receipt(m)
      PROVE  Receipt(m)'
  BY <1>1, <1>5, <1>7 DEF Receipt
<1>. QED BY <1>6, <1>7

LEMMA DeliveryFields ==
    ASSUME NEW d, d = [server |-> d.server, event |-> d.event, at |-> d.at, attempt |-> d.attempt,
                       body |-> d.body]
    PROVE  /\ \A at, body : [d EXCEPT !.at = at, !.body = body]
                 = [server |-> d.server, event |-> d.event, at |-> at, attempt |-> d.attempt, body |-> body]
           /\ \A n : [d EXCEPT !.attempt = n]
                 = [server |-> d.server, event |-> d.event, at |-> d.at, attempt |-> n, body |-> d.body]
<1>1. PICK s, e, a, t, b : d = [server |-> s, event |-> e, at |-> a, attempt |-> t, body |-> b]
  OBVIOUS
<1>2. d.server = s /\ d.event = e /\ d.at = a /\ d.attempt = t /\ d.body = b
  BY <1>1
<1>3. ASSUME NEW at, NEW body
      PROVE  [d EXCEPT !.at = at, !.body = body]
                = [server |-> s, event |-> e, at |-> at, attempt |-> t, body |-> body]
  <2>1. [d EXCEPT !.at = at] = [server |-> s, event |-> e, at |-> at, attempt |-> t, body |-> b]
    BY <1>1
  <2>. DEFINE moved == [server |-> s, event |-> e, at |-> at, attempt |-> t, body |-> b]
  <2>2. [moved EXCEPT !.body = body]
           = [server |-> s, event |-> e, at |-> at, attempt |-> t, body |-> body]
    OBVIOUS
  <2>3. [d EXCEPT !.at = at, !.body = body] = [[d EXCEPT !.at = at] EXCEPT !.body = body]
    OBVIOUS
  <2>. QED BY <2>1, <2>2, <2>3
<1>4. \A n : [d EXCEPT !.attempt = n] = [server |-> s, event |-> e, at |-> a, attempt |-> n, body |-> b]
  BY <1>1
<1>. QED BY <1>2, <1>3, <1>4

\* What a step of one delivery makes of it.
LEMMA DeliveryKeeps ==
    ASSUME History, DispatcherAssumption, NEW d, Delivery(d)
    PROVE  /\ d.at = "job" /\ events[d.event].job \in called =>
                Delivery([d EXCEPT !.at = IF events[d.event].type = "JOB_COMPLETED" THEN "result" ELSE "send",
                                   !.body = [eventId |-> EventId(d.event), output |-> 0,
                                             error |-> Error(d.event)]])
           /\ d.at = "result" =>
                Delivery([d EXCEPT !.at = "send", !.body.output = row[events[d.event].job].result])
           /\ d.attempt < MaxRetries => Delivery([d EXCEPT !.attempt = @ + 1])
           /\ d.at = "send" => Receipt([event |-> d.event, body |-> d.body])
<1>1. /\ d = [server |-> d.server, event |-> d.event, at |-> d.at, attempt |-> d.attempt, body |-> d.body]
      /\ d.server \in Servers /\ d.event \in DOMAIN events /\ d.attempt \in 0 .. MaxRetries
  BY DEF Delivery
<1>fields. \A at, body : [d EXCEPT !.at = at, !.body = body]
         = [server |-> d.server, event |-> d.event, at |-> at, attempt |-> d.attempt, body |-> body]
  BY <1>1, DeliveryFields
<1>2. /\ events[d.event] \in EventState /\ EventTrue(events[d.event])
      /\ events[d.event].type \in Terminal
  <2>1. \A e \in DOMAIN events : events[e] \in EventState /\ EventTrue(events[e])
    BY DEF History
  <2>. QED BY <1>1, <2>1 DEF EventState
<1>3. Error(d.event) = events[d.event].reason
  BY <1>2 DEF Error, EventTrue, Terminal
<1>4. ASSUME d.at = "job", events[d.event].job \in called
      PROVE  Delivery([d EXCEPT !.at = IF events[d.event].type = "JOB_COMPLETED" THEN "result" ELSE "send",
                                !.body = [eventId |-> EventId(d.event), output |-> 0,
                                          error |-> Error(d.event)]])
  <2>1. [eventId |-> EventId(d.event), output |-> 0, error |-> Error(d.event)] = Body(d.event, 0)
    BY <1>3 DEF Body
  <2>2. events[d.event].type # "JOB_COMPLETED" => Output(d.event) = 0
    BY DEF Output
  <2>. DEFINE at == IF events[d.event].type = "JOB_COMPLETED" THEN "result" ELSE "send"
              n == [d EXCEPT !.at = at, !.body = Body(d.event, 0)]
  <2>3. n = [server |-> d.server, event |-> d.event, at |-> at, attempt |-> d.attempt, body |-> Body(d.event, 0)]
    BY <1>fields, Zenon
  <2>4. \/ at = "result" /\ events[d.event].type = "JOB_COMPLETED"
        \/ at = "send" /\ Output(d.event) = 0
    BY <2>2
  <2>. HIDE DEF at, n
  <2>5. Delivery(n)
    BY <1>1, <1>4, <2>3, <2>4 DEF Delivery, DeliveryAt
  <2>. QED BY <2>1, <2>5 DEF n, at
<1>5. ASSUME d.at = "result"
      PROVE  Delivery([d EXCEPT !.at = "send", !.body.output = row[events[d.event].job].result])
  <2>1. d.body = Body(d.event, 0) /\ events[d.event].type = "JOB_COMPLETED"
        /\ events[d.event].job \in called
    BY <1>5 DEF Delivery
  <2>2. [d.body EXCEPT !.output = row[events[d.event].job].result] = Body(d.event, Output(d.event))
    BY <2>1 DEF Body, Output
  <2>. DEFINE n == [d EXCEPT !.at = "send", !.body = Body(d.event, Output(d.event))]
  <2>3. n = [server |-> d.server, event |-> d.event, at |-> "send", attempt |-> d.attempt,
             body |-> Body(d.event, Output(d.event))]
    BY <1>fields, Zenon
  <2>4. [d EXCEPT !.at = "send", !.body.output = row[events[d.event].job].result] = n
    BY <1>1, <2>2
  <2>. HIDE DEF n
  <2>5. Delivery(n)
    BY <1>1, <2>1, <2>3 DEF Delivery, DeliveryAt
  <2>. QED BY <2>4, <2>5, Zenon
<1>6. ASSUME d.attempt < MaxRetries
      PROVE  Delivery([d EXCEPT !.attempt = @ + 1])
  <2>. DEFINE n == [d EXCEPT !.attempt = d.attempt + 1]
  <2>1. n = [server |-> d.server, event |-> d.event, at |-> d.at, attempt |-> d.attempt + 1, body |-> d.body]
    BY <1>1, DeliveryFields
  <2>2. d.attempt + 1 \in 0 .. MaxRetries
    BY <1>1, <1>6
  <2>. HIDE DEF n
  <2>3. Delivery(n)
    BY <2>1, <2>2 DEF Delivery
  <2>. QED BY <2>3 DEF n
<1>7. d.at = "send" => Receipt([event |-> d.event, body |-> d.body])
  BY DEF Delivery, Receipt
<1>. QED BY <1>4, <1>5, <1>6, <1>7

\* Deliveries come from a publish, go on one at a time, or are dropped.
DeliveriesStep ==
    \/ deliveries' \subseteq deliveries /\ UNCHANGED received
    \/ \E e \in outbox : Publish(e)
    \/ (\E d \in deliveries : DeliveryStep(d)) /\ UNCHANGED <<events, row>>

LEMMA DeliverySteps == ASSUME [Next]_vars PROVE DeliveriesStep /\ UNCHANGED called
<1>1. CASE Gate \/ Serve \/ ServeAccount \/ Platform \/ UNCHANGED vars
  BY <1>1 DEF Gate, Serve, ServeAccount, Platform, vars, webhookVars, DeliveriesStep
<1>2. CASE PublishSome
  BY <1>2 DEF PublishSome, Publish, DeliveriesStep
<1>3. CASE DeliverSome
  BY <1>3 DEF DeliverSome, DeliveriesStep, DeliveryStep, LoadJob, LoadResult, Accepted, Refused,
              eventVars, requestVars
<1>4. CASE DeliveryFails
  BY <1>4 DEF DeliveryFails, PublishLost, DispatchThrows, Becomes, webhookVars, DeliveriesStep
<1>5. CASE Process \/ \E s \in Servers : Death(s)
  BY <1>5 DEF Process, Death, Crash, Boot, StartDispatcher, Subscribe, SubscribeFails, webhookVars,
              DeliveriesStep
<1>. QED BY <1>1, <1>2, <1>3, <1>4, <1>5 DEF Next

LEMMA PostsStep ==
    ASSUME Rows, History, Posts, RowsStay, EventsStay, DeliveriesStep, UNCHANGED called
    PROVE  Posts'
<1>1. /\ \A d : Delivery(d) => Delivery(d)'
      /\ \A m : Receipt(m) => Receipt(m)'
  BY PostsStay
<1>2. ASSUME \A d \in deliveries' : d \in deliveries \/ Delivery(d),
             \A m \in received' : m \in received \/ Receipt(m)
      PROVE  Posts'
  BY <1>1, <1>2 DEF Posts
<1>3. CASE deliveries' \subseteq deliveries /\ UNCHANGED received
  BY <1>2, <1>3
<1>4. ASSUME NEW e \in outbox, Publish(e)
      PROVE  Posts'
  <2>1. \A s \in Servers :
           Delivery([server |-> s, event |-> e, at |-> "job", attempt |-> 0, body |-> NoBody])
    BY <1>4, DispatcherAssumption DEF Delivery, History, DeliveryAt
  <2>. QED BY <1>2, <1>4, <2>1 DEF Publish, Listening
<1>5. ASSUME NEW d \in deliveries, DeliveryStep(d)
      PROVE  Posts'
  <2>1. Delivery(d)
    BY DEF Posts
  <2>2. CASE LoadJob(d)
    <3>1. \A n \in deliveries' : n \in deliveries \/ Delivery(n)
      BY <2>1, <2>2, DeliveryKeeps, DispatcherAssumption DEF LoadJob, Becomes
    <3>. QED BY <1>2, <2>2, <3>1 DEF LoadJob
  <2>3. CASE LoadResult(d)
    <3>1. \A n \in deliveries' : n \in deliveries \/ Delivery(n)
      BY <2>1, <2>3, DeliveryKeeps, DispatcherAssumption DEF LoadResult, Becomes
    <3>. QED BY <1>2, <2>3, <3>1 DEF LoadResult
  <2>4. CASE Accepted(d)
    <3>1. \A m \in received' : m \in received \/ Receipt(m)
      BY <2>1, <2>4, DeliveryKeeps, DispatcherAssumption DEF Accepted
    <3>. QED BY <1>2, <2>4, <3>1 DEF Accepted, Becomes
  <2>5. CASE Refused(d)
    <3>1. \A m \in received' : m \in received \/ Receipt(m)
      BY <2>1, <2>5, DeliveryKeeps, DispatcherAssumption DEF Refused
    <3>2. \A n \in deliveries' : n \in deliveries \/ Delivery(n)
      BY <2>1, <2>5, DeliveryKeeps, DispatcherAssumption DEF Refused, Becomes, Retried
    <3>. QED BY <1>2, <3>1, <3>2
  <2>. QED BY <1>5, <2>2, <2>3, <2>4, <2>5 DEF DeliveryStep
<1>. QED BY <1>3, <1>4, <1>5 DEF DeliveriesStep

LEMMA CallbacksInit == Init => CallbackInv
<1>. SUFFICES ASSUME Init PROVE CallbackInv
  OBVIOUS
<1>1. AnswerInv
  BY AnswersInit
<1>3. closing = [j \in Creates |-> {}]
  BY DEF Init, InitRequests
<1>4. events = <<>> /\ outbox = {} /\ deliveries = {} /\ received = {}
  BY DEF Init, InitEvents, InitWebhooks
<1>5. Closing
  BY <1>3 DEF Closing
<1>6. History
  BY <1>4 DEF History
<1>7. Posts
  BY <1>4 DEF Posts
<1>. QED BY <1>1, <1>5, <1>6, <1>7 DEF CallbackInv

LEMMA CallbacksStep == CallbackInv /\ [Next]_vars => CallbackInv'
<1>. SUFFICES ASSUME CallbackInv, [Next]_vars PROVE CallbackInv'
  OBVIOUS
<1>1. RequestStep /\ EventStep /\ DeliveriesStep /\ UNCHANGED called
  BY RequestSteps, EventSteps, DeliverySteps
<1>2. Rows /\ Rooted /\ AskedOfJobs /\ Closing /\ History /\ Posts
  BY DEF CallbackInv, AnswerInv, Handlers, CreateSound, Rooted
<1>3. RowsStay
  BY <1>1, <1>2, RowSteps
<1>4. History' /\ EventsStay
  BY <1>1, <1>2, <1>3, HistoryStep
<1>5. Closing' /\ Posts'
  BY <1>1, <1>2, <1>3, <1>4, ClosingStep, PostsStep
<1>6. AnswerInv'
  BY AnswersStep DEF CallbackInv
<1>. QED BY <1>4, <1>5, <1>6 DEF CallbackInv

LEMMA CallbacksInvariant == Spec => []CallbackInv
  BY CallbacksInit, CallbacksStep, PTL DEF Spec

\* Whatever overlaps with the reads of a dispatcher, and however often its job is
\* retried and fails again meanwhile: a callback that says completed carries the result
\* the row has for good, one that says failed the reason of the run it is about.
THEOREM CallbacksAreTrue == Spec => []CallbackTellsTheTruth
<1>1. CallbackInv => CallbackTellsTheTruth
  <2>. SUFFICES ASSUME CallbackInv, NEW m \in received
                PROVE  IF events[m.event].type = "JOB_COMPLETED"
                       THEN /\ m.body.output = row[events[m.event].job].result /\ m.body.output # 0
                            /\ m.body.error = 0
                       ELSE m.body.error = events[m.event].reason /\ m.body.output = 0
    BY DEF CallbackTellsTheTruth
  <2>1. m.event \in DOMAIN events /\ m.body = Body(m.event, Output(m.event))
    BY DEF CallbackInv, Posts, Receipt
  <2>2. m.body.output = Output(m.event) /\ m.body.error = events[m.event].reason
    BY <2>1 DEF Body
  <2>3. events[m.event] \in EventState /\ EventTrue(events[m.event])
    <3>1. \A e \in DOMAIN events : events[e] \in EventState /\ EventTrue(events[e])
      BY DEF CallbackInv, History
    <3>. QED BY <2>1, <3>1
  <2>4. events[m.event].type = "JOB_COMPLETED" => row[events[m.event].job].result # 0
    BY <2>3 DEF EventTrue, EventState, CallbackInv, AnswerInv, Rows, Sound
  <2>. QED BY <2>2, <2>3, <2>4 DEF Output, EventTrue
<1>. QED BY <1>1, CallbacksInvariant, PTL

\* Two callbacks carry one eventId exactly when they are of one event, whichever API
\* process sent them and however often.
THEOREM OneIdPerEvent == Spec => []EventIdsDeduplicate
<1>1. CallbackInv => EventIdsDeduplicate
  <2>. SUFFICES ASSUME CallbackInv, NEW m \in received, NEW n \in received
                PROVE  m.body.eventId = n.body.eventId <=> m.event = n.event
    BY DEF EventIdsDeduplicate
  <2>1. m.body.eventId = EventId(m.event) /\ n.body.eventId = EventId(n.event)
    <3>1. Receipt(m) /\ Receipt(n)
      BY DEF CallbackInv, Posts
    <3>2. \A e, output : Body(e, output).eventId = EventId(e)
      BY DEF Body
    <3>. QED BY <3>1, <3>2 DEF Receipt
  <2>. QED BY <2>1 DEF EventId
<1>. QED BY <1>1, CallbacksInvariant, PTL

-----------------------------------------------------------------------------
(* The accounts.  A login of the register page is sent after an answer 201,   *)
(* to a register request that stored the password it logs in with.            *)
AccountsTyped == user \in [Emails -> Passwords \cup {NoUser}] /\ form \in [Accounts -> FormState]

AnsweredOnce == \A r \in Accounts : form[r].code # 0 => form[r].at = "replied"

StoredWhenTold == \A r \in Registers : form[r].code = 201 => Stored(r) = PasswordOf[r]

SentAfterwards ==
    \A r \in Registers :
        gate[LoginAfter[r]].at # "absent" =>
            \E q \in Registers : LoginAfter[q] = LoginAfter[r] /\ form[q].code = 201

LoginSucceeds == \A r \in Registers : form[LoginAfter[r]].code = 400 => form[LoginAfter[r]].threw

AccountInv == AccountsTyped /\ AnsweredOnce /\ StoredWhenTold /\ SentAfterwards /\ LoginSucceeds

AccountStep ==
    \/ UNCHANGED accountVars
    \/ /\ UNCHANGED gate
       /\ \/ \E r \in Registers : RefuseBody(r) \/ FindExisting(r) \/ CreateUser(r)
          \/ \E r \in Logins : FindUser(r)
          \/ \E r \in Accounts : AccountThrows(r)
    \/ \E dying \in SUBSET Requests : FormsDie(dying)

LEMMA AccountSteps == ASSUME [Next]_vars PROVE AccountStep
<1>1. CASE Gate \/ Serve \/ Platform \/ PublishSome \/ DeliverSome \/ DeliveryFails \/ Process \/ UNCHANGED vars
  BY <1>1 DEF Gate, Serve, Platform, PublishSome, DeliverSome, DeliveryFails, Process, vars, AccountStep
<1>2. CASE ServeAccount
  BY <1>2 DEF ServeAccount, AccountStep, limiterVars
<1>3. ASSUME NEW s \in Servers, Death(s)
      PROVE  AccountStep
  <2>1. {r \in Requests : ServerOf[r] = s} \in SUBSET Requests
    OBVIOUS
  <2>. QED BY <1>3, <2>1 DEF Death, AccountStep
<1>. QED BY <1>1, <1>2, <1>3 DEF Next

\* Only the register page sends a request that did not arrive of itself, after a 201.
LEMMA AbsentStays ==
    ASSUME TypeOKLimiter, GateStep, NEW r \in Requests, gate[r].at = "absent"
    PROVE  gate'[r].at = "absent" \/ \E q \in Registers : LoginAfter[q] = r /\ form[q].code = 201
<1>1. DOMAIN gate = Requests
  BY DEF TypeOKLimiter
<1>2. CASE (UNCHANGED limiterVars) \/ \E b \in Buckets : WindowEnds(b)
  BY <1>2 DEF limiterVars, WindowEnds
<1>3. ASSUME NEW q \in Requests, LimiterStep(q) \/ LimiterThrows(q)
      PROVE  gate'[r].at = "absent"
  <2>1. q # r
    BY <1>3 DEF LimiterStep, LimiterThrows, InLimiter, Arrive, ArriveUnauthorized, Increment, Expire,
                Decide, Goes
  <2>2. \E g : gate' = [gate EXCEPT ![q] = g]
    BY <1>3 DEF LimiterStep, LimiterThrows, Arrive, ArriveUnauthorized, Increment, Expire, Decide, Goes
  <2>. QED BY <1>1, <2>1, <2>2
<1>4. ASSUME NEW q \in Registers, AutoLogin(q), LoginAfter[q] # r
      PROVE  gate'[r].at = "absent"
  BY <1>1, <1>4 DEF AutoLogin
<1>5. ASSUME NEW q \in Registers, AutoLogin(q)
      PROVE  gate'[r].at = "absent" \/ \E p \in Registers : LoginAfter[p] = r /\ form[p].code = 201
  <2>1. form[q].code = 201
    BY <1>5 DEF AutoLogin
  <2>. QED BY <1>4, <1>5, <2>1
<1>6. GateStep => \/ (UNCHANGED limiterVars) \/ \E b \in Buckets : WindowEnds(b)
                  \/ \E q \in Requests : LimiterStep(q) \/ LimiterThrows(q)
                  \/ \E q \in Registers : AutoLogin(q)
                  \/ \E dying \in SUBSET Requests : LimiterDies(dying)
  BY DEF GateStep
<1>7. ASSUME NEW dying \in SUBSET Requests, LimiterDies(dying)
      PROVE  gate'[r].at = "absent"
  BY <1>7 DEF LimiterDies, InLimiter
<1>. QED BY <1>2, <1>3, <1>5, <1>6, <1>7

\* An answer to one account request: it keeps what it should, whatever others hold.
LEMMA FormWrite ==
    ASSUME AccountInv, NEW r \in Accounts, NEW f \in FormState, form[r].at # "replied",
           form' = [form EXCEPT ![r] = f], UNCHANGED gate,
           f.code # 0 => f.at = "replied",
           UNCHANGED user \/ (Stored(r) = NoUser /\ user' = [user EXCEPT ![EmailOf[r]] = PasswordOf[r]]),
           r \in Registers /\ f.code = 201 => user' = [user EXCEPT ![EmailOf[r]] = PasswordOf[r]],
           f.code = 400 /\ ~f.threw => \A q \in Registers : LoginAfter[q] # r
    PROVE  AccountInv'
<1>1. /\ form' \in [Accounts -> FormState] /\ form'[r] = f
      /\ \A q \in Accounts : q # r => form'[q] = form[q]
  BY DEF AccountInv, AccountsTyped
<1>2. EmailOf[r] \in Emails /\ PasswordOf[r] \in Passwords
  BY DEF Emails, Passwords
<1>3. /\ user' \in [Emails -> Passwords \cup {NoUser}]
      /\ \A e \in Emails : user[e] # NoUser => user'[e] = user[e]
      /\ r \in Registers /\ f.code = 201 => user'[EmailOf[r]] = PasswordOf[r]
  BY <1>2 DEF AccountInv, AccountsTyped, Stored
<1>4. /\ Registers \subseteq Accounts /\ \A q \in Registers : LoginAfter[q] \in Accounts
      /\ \A q \in Registers : PasswordOf[q] # NoUser /\ EmailOf[q] \in Emails
  BY AccountAssumption DEF Accounts, Emails
<1>5. form[r].code = 0
  BY DEF AccountInv, AnsweredOnce
<1>6. AccountsTyped'
  BY <1>1, <1>3 DEF AccountsTyped
<1>7. AnsweredOnce'
  BY <1>1 DEF AccountInv, AnsweredOnce
<1>8. StoredWhenTold'
  BY <1>1, <1>3, <1>4 DEF AccountInv, StoredWhenTold, Stored
<1>9. SentAfterwards'
  BY <1>1, <1>4, <1>5 DEF AccountInv, SentAfterwards
<1>10. LoginSucceeds'
  BY <1>1, <1>4 DEF AccountInv, LoginSucceeds
<1>. QED BY <1>6, <1>7, <1>8, <1>9, <1>10 DEF AccountInv

LEMMA AccountInit == Init => AccountInv
<1>. SUFFICES ASSUME Init PROVE AccountInv
  OBVIOUS
<1>1. PICK scene \in Scenes : InitLimiter(scene.arrive)
  BY DEF Init
<1>2. \A r \in Registers : gate[LoginAfter[r]].at = "absent"
  BY <1>1, EdgeAssumption, AccountAssumption DEF InitLimiter
<1>3. /\ user = [e \in Emails |-> NoUser]
      /\ form = [r \in Accounts |-> [at |-> "waiting", code |-> 0, threw |-> FALSE]]
  BY DEF Init, InitAccounts
<1>4. AccountsTyped
  BY <1>3 DEF AccountsTyped, FormState
<1>5. Registers \subseteq Accounts /\ \A r \in Registers : LoginAfter[r] \in Accounts
  BY AccountAssumption DEF Accounts
<1>6. AnsweredOnce /\ StoredWhenTold /\ LoginSucceeds
  BY <1>3, <1>5 DEF AnsweredOnce, StoredWhenTold, LoginSucceeds
<1>7. SentAfterwards
  BY <1>2 DEF SentAfterwards
<1>. QED BY <1>4, <1>6, <1>7 DEF AccountInv

\* A handler that writes where it is and what it answers.
Answered(old, at, code) == [old EXCEPT !.at = at, !.code = code]

LEMMA FormAt ==
    ASSUME NEW old \in FormState, NEW at, NEW code
    PROVE  Answered(old, at, code) = [at |-> at, code |-> code, threw |-> old.threw]
<1>1. PICK a, c, t : old = [at |-> a, code |-> c, threw |-> t]
  BY DEF FormState
<1>2. [old EXCEPT !.at = at] = [at |-> at, code |-> c, threw |-> t]
  BY <1>1
<1>. DEFINE there == [at |-> at, code |-> c, threw |-> t]
<1>3. [there EXCEPT !.code = code] = [at |-> at, code |-> code, threw |-> t]
  OBVIOUS
<1>4. [old EXCEPT !.at = at, !.code = code] = [[old EXCEPT !.at = at] EXCEPT !.code = code]
  OBVIOUS
<1>. QED BY <1>1, <1>2, <1>3, <1>4 DEF Answered

LEMMA AccountStepKeeps == ASSUME AccountInv, TypeOKLimiter, GateStep, AccountStep PROVE AccountInv'
<1>0. /\ Registers \subseteq Accounts /\ Logins \subseteq Accounts /\ Accounts \subseteq Requests
      /\ Registers \cap Logins = {} /\ LoginAfter \in [Registers -> Logins]
  BY AccountAssumption DEF Accounts
<1>1. CASE UNCHANGED accountVars
  <2>1. form' = form /\ user' = user
    BY <1>1 DEF accountVars
  <2>2. SentAfterwards'
    BY <1>0, <2>1, AbsentStays DEF AccountInv, SentAfterwards
  <2>3. AccountsTyped' /\ AnsweredOnce' /\ LoginSucceeds'
    BY <2>1 DEF AccountInv, AccountsTyped, AnsweredOnce, LoginSucceeds
  <2>4. StoredWhenTold'
    BY <2>1 DEF AccountInv, StoredWhenTold, Stored
  <2>. QED BY <2>2, <2>3, <2>4 DEF AccountInv
<1>2. ASSUME NEW r \in Accounts, NEW at \in {"hash", "replied"}, NEW code \in {0, 200, 201, 400},
             FormGoes(r, at, code), form[r].at # "replied", UNCHANGED gate,
             code # 0 => at = "replied",
             UNCHANGED user \/ (Stored(r) = NoUser /\ user' = [user EXCEPT ![EmailOf[r]] = PasswordOf[r]]),
             r \in Registers /\ code = 201 => user' = [user EXCEPT ![EmailOf[r]] = PasswordOf[r]],
             code = 400 => \A q \in Registers : LoginAfter[q] # r
      PROVE  AccountInv'
  <2>. DEFINE f == Answered(form[r], at, code)
  <2>1. form[r] \in FormState
    BY DEF AccountInv, AccountsTyped
  <2>3. form' = [form EXCEPT ![r] = f]
    BY <1>2 DEF FormGoes, Answered
  <2>0. f = [at |-> at, code |-> code, threw |-> form[r].threw]
    BY <2>1, FormAt
  <2>. HIDE DEF f
  <2>2. f \in FormState /\ f.at = at /\ f.code = code
    BY <2>0, <2>1 DEF FormState
  <2>4. /\ f.code # 0 => f.at = "replied"
        /\ r \in Registers /\ f.code = 201 => user' = [user EXCEPT ![EmailOf[r]] = PasswordOf[r]]
        /\ f.code = 400 /\ ~f.threw => \A q \in Registers : LoginAfter[q] # r
    BY <1>2, <2>2
  <2>5. /\ form[r].at # "replied" /\ gate' = gate
        /\ UNCHANGED user \/ (Stored(r) = NoUser /\ user' = [user EXCEPT ![EmailOf[r]] = PasswordOf[r]])
    BY <1>2
  <2>. QED BY ONLY AccountInv, r \in Accounts, <2>2, <2>3, <2>4, <2>5, FormWrite
<1>3. ASSUME NEW r \in Registers, UNCHANGED gate, RefuseBody(r) \/ FindExisting(r) \/ CreateUser(r)
      PROVE  AccountInv'
  <2>1. r \in Accounts /\ \A q \in Registers : LoginAfter[q] # r
    BY <1>0
  <2>2. CASE RefuseBody(r)
    BY <1>2, <1>3, <2>1, <2>2 DEF RefuseBody
  <2>3. CASE FindExisting(r)
    BY <1>2, <1>3, <2>1, <2>3 DEF FindExisting
  <2>4. CASE CreateUser(r)
    BY <1>2, <1>3, <2>1, <2>4 DEF CreateUser
  <2>. QED BY <1>3, <2>2, <2>3, <2>4
<1>4. ASSUME NEW r \in Logins, UNCHANGED gate, FindUser(r)
      PROVE  AccountInv'
  <2>1. r \in Accounts /\ r \notin Registers /\ form[r].at = "waiting" /\ gate[r].at # "absent"
    BY <1>0, <1>4 DEF FindUser, LetIn
  <2>2. ASSUME NEW q \in Registers, LoginAfter[q] = r
        PROVE  Stored(r) = PasswordOf[r]
    <3>1. PICK p \in Registers : LoginAfter[p] = r /\ form[p].code = 201
      BY <2>1, <2>2 DEF AccountInv, SentAfterwards
    <3>2. Stored(p) = PasswordOf[p]
      BY <3>1 DEF AccountInv, StoredWhenTold
    <3>. QED BY <3>1, <3>2, AccountAssumption DEF Stored
  <2>3. PICK code \in {200, 400} : FormGoes(r, "replied", code) /\ (code = 400 => Stored(r) # PasswordOf[r])
    BY <1>4 DEF FindUser
  <2>4. UNCHANGED user
    BY <1>4 DEF FindUser
  <2>5. code = 400 => \A q \in Registers : LoginAfter[q] # r
    BY <2>2, <2>3
  <2>6. CASE code = 200
    BY <1>2, <1>4, <2>1, <2>3, <2>4, <2>6
  <2>7. CASE code = 400
    BY <1>2, <1>4, <2>1, <2>3, <2>4, <2>5, <2>7
  <2>. QED BY <2>6, <2>7
<1>5. ASSUME NEW r \in Accounts, UNCHANGED gate, AccountThrows(r)
      PROVE  AccountInv'
  <2>. DEFINE f == [at |-> "replied", code |-> 400, threw |-> TRUE]
  <2>1. f \in FormState /\ f.at = "replied" /\ f.code = 400 /\ f.threw
    BY DEF FormState
  <2>2. form[r].at # "replied" /\ form' = [form EXCEPT ![r] = f]
    BY <1>5 DEF AccountThrows
  <2>3. UNCHANGED user \/ (Stored(r) = NoUser /\ user' = [user EXCEPT ![EmailOf[r]] = PasswordOf[r]])
    BY <1>5 DEF AccountThrows
  <2>. HIDE DEF f
  <2>4. /\ r \in Registers /\ f.code = 201 => user' = [user EXCEPT ![EmailOf[r]] = PasswordOf[r]]
        /\ f.code = 400 /\ ~f.threw => \A q \in Registers : LoginAfter[q] # r
        /\ (f.code # 0 => f.at = "replied") /\ f \in FormState /\ gate' = gate
    BY <1>5, <2>1
  <2>. QED BY ONLY AccountInv, r \in Accounts, <2>2, <2>3, <2>4, FormWrite
<1>6. ASSUME NEW dying \in SUBSET Requests, FormsDie(dying)
      PROVE  AccountInv'
  <2>1. \A r \in Accounts : form[r] \in FormState
    BY DEF AccountInv, AccountsTyped
  <2>2. \A r \in Accounts : /\ [form[r] EXCEPT !.at = "lost"] \in FormState
                             /\ [form[r] EXCEPT !.at = "lost"].code = form[r].code
                             /\ [form[r] EXCEPT !.at = "lost"].threw = form[r].threw
    BY <2>1 DEF FormState
  <2>3. /\ form' = [r \in Accounts |-> IF r \in dying /\ LetIn(r) /\ form[r].at # "replied"
                                        THEN [form[r] EXCEPT !.at = "lost"] ELSE form[r]]
        /\ user' = user
    BY <1>6 DEF FormsDie
  <2>4. form' \in [Accounts -> FormState]
    BY <2>1, <2>2, <2>3
  <2>5. \A r \in Accounts : form'[r].code = form[r].code /\ form'[r].threw = form[r].threw
    BY <2>2, <2>3
  <2>6. \A r \in Accounts : form[r].at = "replied" => form'[r] = form[r]
    BY <2>3
  <2>7. AccountsTyped'
    BY <2>3, <2>4 DEF AccountInv, AccountsTyped
  <2>8. AnsweredOnce' /\ LoginSucceeds' /\ StoredWhenTold'
    BY <1>0, <2>3, <2>5, <2>6 DEF AccountInv, AnsweredOnce, LoginSucceeds, StoredWhenTold, Stored
  <2>9. SentAfterwards'
    BY <1>0, <2>5, AbsentStays DEF AccountInv, SentAfterwards
  <2>. QED BY <2>7, <2>8, <2>9 DEF AccountInv
<1>. QED BY <1>1, <1>3, <1>4, <1>5, <1>6 DEF AccountStep

LEMMA AccountsInvariant == Spec => [](AccountInv /\ LimiterInv)
<1>1. Init => AccountInv /\ LimiterInv
  BY AccountInit, LimiterInit
<1>2. AccountInv /\ LimiterInv /\ [Next]_vars => AccountInv'
  BY GateSteps, AccountSteps, AccountStepKeeps DEF LimiterInv
<1>. QED BY <1>1, <1>2, LimiterInvariant, PTL DEF Spec

\* However many visitors register one email at once: who is told that the account is
\* created finds the password stored with which the register page logs in, and that
\* login is refused only when a call of it throws.
THEOREM RegisteredLogIn == Spec => []RegisteredCanLogIn
<1>1. AccountInv => RegisteredCanLogIn
  BY DEF AccountInv, StoredWhenTold, LoginSucceeds, RegisteredCanLogIn, Stored
<1>. QED BY <1>1, AccountsInvariant, PTL

-----------------------------------------------------------------------------
(* The types of the edge: those of the API processes, and what is typed above. *)
ProcessesTyped ==
    /\ called \subseteq Creates /\ listening \in [Servers -> BOOLEAN]
    /\ refusals \in 0 .. MaxRefusals /\ crashes \in 0 .. MaxCrashes
    /\ subscriber \in [Servers -> SubscriberState]

LEMMA ProcessesInit == Init => ProcessesTyped
<1>. SUFFICES ASSUME Init PROVE ProcessesTyped
  OBVIOUS
<1>1. called \subseteq Creates /\ crashes \in 0 .. MaxCrashes
  BY EdgeAssumption DEF Init
<1>2. /\ listening = [s \in Servers |-> TRUE] /\ refusals = 0
      /\ \E deaf : subscriber = [s \in Servers |-> IF s \in deaf THEN "failed" ELSE "subscribed"]
  BY DEF Init, InitWebhooks, InitEvents
<1>. QED BY <1>1, <1>2, DispatcherAssumption DEF ProcessesTyped, SubscriberState

LEMMA ProcessesStep == ProcessesTyped /\ [Next]_vars => ProcessesTyped'
<1>. SUFFICES ASSUME ProcessesTyped, [Next]_vars PROVE ProcessesTyped'
  OBVIOUS
<1>0. UNCHANGED <<called, listening, refusals, crashes, subscriber>> => ProcessesTyped'
  BY DEF ProcessesTyped
<1>1. CASE Gate \/ Serve \/ ServeAccount \/ UNCHANGED vars
  BY <1>0, <1>1 DEF Gate, Serve, ServeAccount, vars, webhookVars, eventVars
<1>2. CASE Platform
  BY <1>0, <1>2 DEF Platform, webhookVars, eventVars, Announce, CreateEvent
<1>3. CASE PublishSome
  BY <1>0, <1>3 DEF PublishSome, Publish
<1>4. ASSUME NEW d \in deliveries, DeliveryStep(d), UNCHANGED eventVars
      PROVE  ProcessesTyped'
  <2>1. CASE LoadJob(d) \/ LoadResult(d) \/ Accepted(d)
    BY <1>0, <1>4, <2>1 DEF LoadJob, LoadResult, Accepted, eventVars
  <2>2. CASE Refused(d)
    BY <1>4, <2>2, DispatcherAssumption DEF Refused, eventVars, ProcessesTyped
  <2>. QED BY <1>4, <2>1, <2>2 DEF DeliveryStep
<1>5. CASE DeliverSome
  BY <1>4, <1>5 DEF DeliverSome
<1>6. CASE DeliveryFails
  BY <1>0, <1>6 DEF DeliveryFails, PublishLost, DispatchThrows, webhookVars, eventVars
<1>7. ASSUME NEW s \in Servers, Crash(s)
      PROVE  ProcessesTyped'
  BY <1>7, DispatcherAssumption DEF Crash, ProcessesTyped, SubscriberState
<1>8. ASSUME NEW s \in Servers, Boot(s) \/ StartDispatcher(s) \/ Subscribe(s) \/ SubscribeFails(s)
      PROVE  ProcessesTyped'
  BY <1>8 DEF Boot, StartDispatcher, Subscribe, SubscribeFails, ConnectSubscriber, webhookVars, eventVars,
              ProcessesTyped, SubscriberState
<1>. QED BY <1>1, <1>2, <1>3, <1>5, <1>6, <1>7, <1>8 DEF Next, Process, Death

\* Every counter, row, handler, outcome, delivery, account and API process holds values
\* of its type: no interleaving leaves a delivery without its event or an answer with a
\* code that the handlers do not give.
THEOREM EdgeTyped == Spec => []TypeOK
<1>1. Spec => []ProcessesTyped
  BY ProcessesInit, ProcessesStep, PTL DEF Spec
<1>2. ASSUME ProcessesTyped, CallbackInv, AccountInv, LimiterInv
      PROVE  TypeOK
  <2>1. TypeOKLimiter
    BY <1>2 DEF LimiterInv
  <2>2. TypeOKRequests
    BY <1>2 DEF CallbackInv, AnswerInv, Rows, AskedOfJobs, Handlers, Closing, TypeOKRequests
  <2>3. TypeOKWebhooks
    <3>1. \A d \in deliveries : Delivery(d)
      BY <1>2 DEF CallbackInv, Posts
    <3>2. \A m \in received : Receipt(m)
      BY <1>2 DEF CallbackInv, Posts
    <3>. QED BY <1>2, <3>1, <3>2 DEF TypeOKWebhooks, ProcessesTyped, Delivery, Receipt
  <2>4. TypeOKAccounts
    BY <1>2 DEF AccountInv, AccountsTyped, TypeOKAccounts
  <2>. QED BY <1>2, <2>1, <2>2, <2>3, <2>4 DEF TypeOK, ProcessesTyped
<1>. QED BY <1>1, <1>2, CallbacksInvariant, AccountsInvariant, PTL
==============================================================================
