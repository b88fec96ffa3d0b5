-------------------------- MODULE WebhookDispatcher -------------------------
(* services/api-service/src/integration: the dispatcher in each API process,  *)
(* which posts a callback for every JOB_COMPLETED and JOB_FAILED it hears of, *)
(* and the boot and death of those processes (server.ts).  The receiver is    *)
(* another system; all that is kept of it is what reached it.                 *)
EXTENDS JobRequests

CONSTANTS
    MaxRetries,             \* 3 in the code
    MaxRefusals,            \* bound on the posts the receiver does not take
    MaxCrashes              \* bound on the deaths of API processes

ASSUME DispatcherAssumption ==
    /\ MaxRetries \in Nat /\ MaxRefusals \in Nat /\ MaxCrashes \in Nat

VARIABLES
    called,                 \* the create requests with a callback
    listening,              \* listening[s]: the dispatcher of s is started
    deliveries,             \* calls of handleEvent that are under way
    received,               \* the bodies the receiver took, with the event each is of
    refusals, crashes
webhookVars == <<called, listening, deliveries, received, refusals, crashes>>

NoBody == [eventId |-> <<>>, output |-> 0, error |-> 0]
DeliveryAt == {"job", "result", "send"}

TypeOKWebhooks ==
    /\ called \subseteq Creates
    /\ listening \in [Servers -> BOOLEAN]
    /\ \A d \in deliveries :
          /\ d.server \in Servers /\ d.event \in DOMAIN events /\ d.at \in DeliveryAt
          /\ d.attempt \in 0 .. MaxRetries
          /\ d.at # "job" => events[d.event].job \in called
    /\ \A m \in received : m.event \in DOMAIN events
    /\ refusals \in 0 .. MaxRefusals /\ crashes \in 0 .. MaxCrashes

InitWebhooks ==
    /\ listening = [s \in Servers |-> TRUE]
    /\ deliveries = {} /\ received = {} /\ refusals = 0

Becomes(d, next) == deliveries' = (deliveries \ {d}) \cup next

\* PUBLISH reaches the dispatchers that listen now, and no other, ever.
Publish(e) ==
    /\ e \in outbox /\ outbox' = outbox \ {e}
    /\ deliveries' = deliveries \cup
           {[server |-> s, event |-> e, at |-> "job", attempt |-> 0, body |-> NoBody] :
               s \in {t \in Listening : listening[t]}}
    /\ UNCHANGED <<called, events, subscriber, listening, received, refusals, crashes>>

PublishLost(e) ==
    /\ e \in outbox /\ outbox' = outbox \ {e} /\ Fault
    /\ UNCHANGED <<events, subscriber>> /\ UNCHANGED webhookVars

----------------------------------------------------------------------------
(* handleEvent and toWebhookPayload                                           *)

\* Mutant: the event is known by its job and its type.
EventIdPerType(e) == <<events[e].job, events[e].type>>

\* A hash of the job, the type and the time of the event, which its number stands for.
EventId(e) == <<events[e].job, events[e].type, e>>

\* Mutant: the reason is taken from the row.
ErrorInRow(e) == IF events[e].type = "JOB_FAILED" THEN row[events[e].job].reason ELSE 0

\* The event's details first, the row's failureReason when they are empty.
Error(e) ==
    IF events[e].type # "JOB_FAILED" THEN 0
    ELSE IF events[e].reason # 0 THEN events[e].reason ELSE row[events[e].job].reason

\* Mutant: the job is not asked for its callback.
LoadJobUnfiltered(d) ==
    LET e == d.event
    IN  /\ d.at = "job"
        /\ Becomes(d, {[d EXCEPT !.at = IF events[e].type = "JOB_COMPLETED" THEN "result" ELSE "send",
                                  !.body = [eventId |-> EventId(e), output |-> 0, error |-> Error(e)]]})
        /\ UNCHANGED <<called, listening, received, refusals, crashes>>

LoadJob(d) ==
    LET e == d.event
    IN  /\ d.at = "job"
        /\ Becomes(d, IF events[e].job \notin called THEN {}
                      ELSE {[d EXCEPT !.at = IF events[e].type = "JOB_COMPLETED" THEN "result" ELSE "send",
                                      !.body = [eventId |-> EventId(e), output |-> 0, error |-> Error(e)]]})
        /\ UNCHANGED <<called, listening, received, refusals, crashes>>

LoadResult(d) ==
    /\ d.at = "result"
    /\ Becomes(d, {[d EXCEPT !.at = "send", !.body.output = row[events[d.event].job].result]})
    /\ UNCHANGED <<called, listening, received, refusals, crashes>>

\* The answer is a success.
Accepted(d) ==
    /\ d.at = "send" /\ Becomes(d, {})
    /\ received' = received \cup {[event |-> d.event, body |-> d.body]}
    /\ UNCHANGED <<called, listening, refusals, crashes>>

\* Mutant: a post that fails is given up.
RetriedNever(d) == {}

\* Another attempt after a delay that grows, until there were MaxRetries more.
Retried(d) == IF d.attempt < MaxRetries THEN {[d EXCEPT !.attempt = @ + 1]} ELSE {}

\* The post fails; the receiver may have taken it and the answer be lost.
Refused(d) ==
    /\ d.at = "send" /\ refusals < MaxRefusals
    /\ refusals' = refusals + 1 /\ Becomes(d, Retried(d))
    /\ received' \in {received, received \cup {[event |-> d.event, body |-> d.body]}}
    /\ UNCHANGED <<called, listening, crashes>>

\* A database call of handleEvent throws: the event is logged and dropped.
DispatchThrows(d) ==
    /\ d.at \in {"job", "result"} /\ Fault /\ Becomes(d, {})
    /\ UNCHANGED <<called, listening, received, refusals, crashes>>

----------------------------------------------------------------------------
(* An API process dies with the deliveries it retries, and with the requests   *)
(* it serves (ApiEdge); it boots again.                                       *)

Crash(s) ==
    /\ subscriber[s] # "down" /\ crashes < MaxCrashes /\ crashes' = crashes + 1
    /\ subscriber' = [subscriber EXCEPT ![s] = "down"]
    /\ listening' = [listening EXCEPT ![s] = FALSE]
    /\ deliveries' = {d \in deliveries : d.server # s}
    /\ UNCHANGED <<called, events, outbox, received, refusals>>

Boot(s) ==
    /\ subscriber[s] = "down"
    /\ subscriber' = [subscriber EXCEPT ![s] = "connecting"]
    /\ UNCHANGED <<events, outbox>> /\ UNCHANGED webhookVars

\* The callback of app.listen, when both Redis clients are connected.
StartDispatcher(s) ==
    /\ subscriber[s] # "down" /\ ~listening[s]
    /\ listening' = [listening EXCEPT ![s] = TRUE]
    /\ UNCHANGED <<called, deliveries, received, refusals, crashes>> /\ UNCHANGED eventVars

Subscribe(s) ==
    /\ ConnectSubscriber(s, TRUE)
    /\ UNCHANGED failures /\ UNCHANGED webhookVars

SubscribeFails(s) ==
    /\ ConnectSubscriber(s, FALSE) /\ Fault
    /\ UNCHANGED webhookVars

DeliveryStep(d) == LoadJob(d) \/ LoadResult(d) \/ Accepted(d) \/ Refused(d)
=============================================================================
