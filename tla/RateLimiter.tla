---------------------------- MODULE RateLimiter -----------------------------
(* middleware/auth.middleware.ts and rate-limiter.middleware.ts of the API    *)
(* service: what a request goes through before its handler.  A bucket is a    *)
(* key prefix with a user; Redis keeps a counter for it.                      *)
EXTENDS Naturals, FiniteSets

CONSTANTS
    Requests,
    Buckets,
    BucketOf,               \* the counter a request is counted in
    MaxRequests,            \* maxRequests of each bucket
    MaxWindows              \* bound on the windows of a bucket

ASSUME LimiterAssumption ==
    /\ BucketOf \in [Requests -> Buckets]
    /\ MaxRequests \in [Buckets -> Nat]
    /\ MaxWindows \in Nat

VARIABLES
    gate,                   \* gate[r]: how far request r is, and what it counted
    counter                 \* counter[b]: the Redis key, its TTL, the windows so far
limiterVars == <<gate, counter>>

GatePc == {"absent", "new", "limiter", "expire", "ttl", "open", "counted", "refused", "unauthorized",
           "lost"}

TypeOKLimiter ==
    /\ gate \in [Requests -> [at : GatePc, current : Nat, window : Nat]]
    /\ counter \in [Buckets -> [value : Nat, expires : BOOLEAN, window : 0 .. MaxWindows]]

InitLimiter(arriving) ==
    /\ gate = [r \in Requests |-> [at |-> IF r \in arriving THEN "new" ELSE "absent",
                                   current |-> 0, window |-> 0]]
    /\ counter = [b \in Buckets |-> [value |-> 0, expires |-> FALSE, window |-> 0]]

Goes(r, from, to) == gate[r].at = from /\ gate' = [gate EXCEPT ![r].at = to]

\* authMiddleware: a valid API key or token goes on, anything else is a 401.
Arrive(r) == Goes(r, "new", "limiter") /\ UNCHANGED counter
ArriveUnauthorized(r) == Goes(r, "new", "unauthorized") /\ UNCHANGED counter

\* INCR creates the counter when it is absent.
Increment(r) ==
    LET b == BucketOf[r]
        current == counter[b].value + 1
    IN  /\ gate[r].at = "limiter"
        /\ gate' = [gate EXCEPT ![r] = [at |-> IF current = 1 THEN "expire" ELSE "ttl",
                                        current |-> current, window |-> counter[b].window]]
        /\ counter' = [counter EXCEPT ![b].value = current]

\* Mutant: whoever is not the first of a window sets no TTL, and the first does
\* not wait for it either.
ExpireForgotten(r) == Goes(r, "expire", "ttl") /\ UNCHANGED counter

\* EXPIRE on a key that is gone does nothing.
Expire(r) ==
    LET b == BucketOf[r]
    IN  /\ Goes(r, "expire", "ttl")
        /\ counter' = [counter EXCEPT ![b].expires = @ \/ counter[b].value > 0]

\* Mutant: the request that reaches one more than the limit still passes.
DecideLate(r) ==
    /\ Goes(r, "ttl", IF gate[r].current > MaxRequests[BucketOf[r]] + 1 THEN "refused" ELSE "counted")
    /\ UNCHANGED counter

\* TTL, then the decision: only the count of the INCR is looked at.
Decide(r) ==
    /\ Goes(r, "ttl", IF gate[r].current > MaxRequests[BucketOf[r]] THEN "refused" ELSE "counted")
    /\ UNCHANGED counter

InLimiter(r) == gate[r].at \in {"limiter", "expire", "ttl"}

\* A call to Redis throws, and the request is let in.  It had no effect, or the one
\* it has without an answer: the INCR has counted, the EXPIRE has set the TTL.
LimiterThrows(r) ==
    LET b == BucketOf[r]
        current == counter[b].value + 1
    IN  /\ InLimiter(r)
        /\ \/ gate' = [gate EXCEPT ![r].at = "open"] /\ UNCHANGED counter
           \/ /\ gate[r].at = "limiter"
              /\ gate' = [gate EXCEPT ![r] = [at |-> "open", current |-> current,
                                              window |-> counter[b].window]]
              /\ counter' = [counter EXCEPT ![b].value = current]
           \/ /\ gate[r].at = "expire"
              /\ gate' = [gate EXCEPT ![r].at = "open"]
              /\ counter' = [counter EXCEPT ![b].expires = @ \/ counter[b].value > 0]

\* The API process of these requests dies: nobody makes their remaining calls.
LimiterDies(dying) ==
    /\ gate' = [r \in Requests |->
                   IF r \in dying /\ InLimiter(r) THEN [gate[r] EXCEPT !.at = "lost"] ELSE gate[r]]
    /\ UNCHANGED counter

\* The time of a counter with a TTL is over.
WindowEnds(b) ==
    /\ counter[b].expires /\ counter[b].window < MaxWindows
    /\ counter' = [counter EXCEPT ![b] = [value |-> 0, expires |-> FALSE, window |-> @.window + 1]]
    /\ UNCHANGED gate

LetIn(r) == gate[r].at \in {"counted", "open"}
=============================================================================
