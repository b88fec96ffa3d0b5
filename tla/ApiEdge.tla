------------------------------- MODULE ApiEdge -------------------------------
(* What the API service shows to the outside: requests that pass the rate     *)
(* limiter and register, log in, create or read jobs, and the callbacks its   *)
(* processes send when a job ends.  The parts are those of RateLimiter,       *)
(* AccountRequests, JobRequests, JobEvents and WebhookDispatcher; this module *)
(* is their composition.                                                      *)
EXTENDS WebhookDispatcher, AccountRequests

CONSTANTS
    ServerOf,               \* the API process a request is sent to
    Scenes                  \* [arrive, called, crashes, deaf]: which requests come, which
                            \* of them with a callback; before the start, how many API
                            \* processes died, and which failed to subscribe

ASSUME EdgeAssumption ==
    /\ ServerOf \in [Requests -> Servers]
    /\ \A scene \in Scenes :
          /\ scene.arrive \subseteq Requests /\ scene.called \subseteq Creates
          /\ scene.crashes \in 0 .. MaxCrashes /\ scene.deaf \subseteq Servers
          /\ \A r \in Registers : LoginAfter[r] \notin scene.arrive  \* the page sends it

vars == <<limiterVars, eventVars, requestVars, webhookVars, accountVars, failures>>

Init ==
    /\ \E scene \in Scenes :
          /\ InitLimiter(scene.arrive) /\ InitEvents(scene.deaf)
          /\ called = scene.called /\ crashes = scene.crashes
    /\ InitRequests /\ InitWebhooks /\ InitAccounts
    /\ failures = 0

Up(s) == subscriber[s] # "down"

LimiterStep(r) ==
    /\ \/ Up(ServerOf[r]) /\ (Arrive(r) \/ (r \notin Accounts /\ ArriveUnauthorized(r)))
       \/ Increment(r) \/ Expire(r) \/ Decide(r)
    /\ UNCHANGED failures

Gate ==
    /\ \/ \E r \in Requests : LimiterStep(r) \/ (LimiterThrows(r) /\ Fault)
       \/ \E b \in Buckets : WindowEnds(b) /\ UNCHANGED failures
    /\ UNCHANGED <<eventVars, requestVars, webhookVars, accountVars>>

Serve ==
    /\ \/ \E r \in Creates : CreateStep(r) /\ UNCHANGED failures
       \/ \E r \in Reads : ReadStep(r) /\ UNCHANGED failures
       \/ \E r \in Creates \cup Reads : HandlerThrows(r)
    /\ UNCHANGED <<limiterVars, eventVars, webhookVars, accountVars>>

ServeAccount ==
    /\ \/ /\ \/ \E r \in Registers : RefuseBody(r) \/ FindExisting(r) \/ CreateUser(r)
             \/ \E r \in Logins : FindUser(r)
          /\ UNCHANGED <<limiterVars, failures>>
       \/ (\E r \in Accounts : AccountThrows(r)) /\ UNCHANGED limiterVars
       \/ (\E r \in Registers : AutoLogin(r)) /\ UNCHANGED <<accountVars, failures>>
    /\ UNCHANGED <<eventVars, requestVars, webhookVars>>

Platform ==
    /\ \/ \E j \in Creates : PlatformStep(j) /\ UNCHANGED <<eventVars, failures>>
       \/ \E j \in Creates : Announce(j) /\ UNCHANGED failures
       \/ \E j \in Creates : AnnounceLost(j) /\ UNCHANGED eventVars
    /\ UNCHANGED <<limiterVars, webhookVars, accountVars>>

PublishSome ==
    /\ \E e \in outbox : Publish(e)
    /\ UNCHANGED <<limiterVars, requestVars, accountVars, failures>>

DeliverSome ==
    /\ \E d \in deliveries : DeliveryStep(d)
    /\ UNCHANGED <<limiterVars, eventVars, requestVars, accountVars, failures>>

DeliveryFails ==
    /\ \/ \E e \in outbox : PublishLost(e)
       \/ (\E d \in deliveries : DispatchThrows(d)) /\ UNCHANGED eventVars
    /\ UNCHANGED <<limiterVars, requestVars, accountVars>>

Process ==
    /\ \E s \in Servers :
          \/ (Boot(s) \/ StartDispatcher(s)) /\ UNCHANGED failures
          \/ Subscribe(s) \/ SubscribeFails(s)
    /\ UNCHANGED <<limiterVars, requestVars, accountVars>>

\* A process dies with the requests it serves.
Death(s) ==
    LET dying == {r \in Requests : ServerOf[r] = s}
    IN  /\ Crash(s)
        /\ LimiterDies(dying) /\ HandlersDie(dying) /\ FormsDie(dying)
        /\ UNCHANGED failures

Next ==
    \/ Gate \/ Serve \/ ServeAccount \/ Platform \/ PublishSome \/ DeliverSome \/ DeliveryFails
    \/ Process \/ \E s \in Servers : Death(s)

\* Redis delivers what is published, and a dispatcher goes on with its delivery.
Spec == Init /\ [][Next]_vars /\ WF_vars(PublishSome) /\ WF_vars(DeliverSome)

----------------------------------------------------------------------------
(* Properties                                                                 *)

TypeOK ==
    /\ TypeOKLimiter /\ TypeOKRequests /\ TypeOKWebhooks /\ TypeOKAccounts
    /\ subscriber \in [Servers -> SubscriberState]

\* In no window of a counter are more requests let in than its limit allows, except
\* those the limiter lets in because a Redis call threw: INCR, EXPIRE, TTL and the
\* decision are separate steps (rate-limiter.middleware.ts:36-57).
LimitEnforced ==
    \A b \in Buckets : \A w \in 0 .. MaxWindows :
        Cardinality({r \in Requests : /\ BucketOf[r] = b /\ gate[r].at = "counted"
                                      /\ gate[r].window = w}) <= MaxRequests[b]

\* A counter without a TTL is never forgotten by a request that goes on: the one whose
\* INCR opened the window is about to call EXPIRE, or it ended in between because a call
\* of it threw or its process died.  Then nobody sets the TTL any more, and the user is
\* locked out for good (rate-limiter.middleware.ts:32-37); no other request's failure,
\* and no overlap of requests or windows, does that.
Opened(r, b) == BucketOf[r] = b /\ gate[r].current = 1 /\ gate[r].window = counter[b].window

ExpiryOnItsWay ==
    \A b \in Buckets :
        counter[b].value > 0 /\ ~counter[b].expires =>
            \E r \in Requests : Opened(r, b) /\ gate[r].at \in {"expire", "open", "lost"}

\* However the create requests of a key overlap, there is one job, every answer that
\* is no error names it, and only a call that throws makes an answer an error
\* (job.service.ts:11-45).
IdempotentAnswers ==
    \A r \in Creates :
        KeyOf[r] # NoKey =>
            /\ Cardinality(OfKey(KeyOf[r])) <= 1
            /\ At(r, "replied") =>
                  IF handler[r].code = 201 THEN handler[r].job \in OfKey(KeyOf[r])
                  ELSE handler[r].threw

\* An answer by key that says COMPLETED brings the result: the row, the events and
\* the result are three reads while the worker commits (job.service.ts:126-160).
CompletedAnswerHasResult ==
    \A r \in Reads :
        At(r, "replied") /\ handler[r].kind = "byKey" /\ handler[r].status = "COMPLETED"
            => handler[r].result # 0 \/ handler[r].threw

\* A stored result stands, however late createJob marks the row QUEUED, however often it
\* is cancelled, retried and run again: neither writes the Result table, and its unique
\* index refuses a second one (job.service.ts:53, :194, :220; worker.ts:98-129).
ResultStands == [][\A j \in Creates : row[j].result # 0 => row'[j].result = row[j].result]_vars

\* A TASK_COMPLETED callback carries the stored result and a TASK_FAILED callback the
\* reason of the run it is about, even when the job has been run again since.
CallbackTellsTheTruth ==
    \A m \in received :
        LET event == events[m.event]
        IN  IF event.type = "JOB_COMPLETED"
            THEN m.body.output = row[event.job].result /\ m.body.output # 0 /\ m.body.error = 0
            ELSE m.body.error = event.reason /\ m.body.output = 0

\* A receiver that drops what it has seen by eventId keeps one callback per event,
\* although every API process sends each and may send it several times.
EventIdsDeduplicate ==
    \A m, n \in received : m.body.eventId = n.body.eventId <=> m.event = n.event

\* Who is told that an account is created can log in to it, and goes on being able to,
\* although two may register one email at once: the look-up and the insert are apart
\* (auth.service.ts:10-21), and the register page logs in right away.
RegisteredCanLogIn ==
    \A r \in Registers :
        form[r].code = 201 =>
            LET l == LoginAfter[r]
            IN  user[EmailOf[r]] = PasswordOf[r] /\ (form[l].code = 400 => form[l].threw)

Outstanding ==
    {e \in DOMAIN events : events[e].job \in called /\ \A m \in received : m.event # e}

\* The callback of an event arrives although one API process dies and the receiver
\* refuses some posts, unless a call fails otherwise: every process sends every
\* callback.
CallbackArrives ==
    Outstanding # {} ~> Outstanding = {} \/ failures > 0 \/ refusals > MaxRetries
=============================================================================
