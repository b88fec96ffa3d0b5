----------------------------- MODULE JobEvents ------------------------------
(* EventService of the three services: a row in JobEvent, then a publish that *)
(* nobody waits for; and the subscriber of an API process, which connects     *)
(* once, when its module is loaded.  An event is [job, type, reason]; its     *)
(* number in the table stands for its id and its createdAt.                   *)
EXTENDS Naturals, Sequences, FiniteSets

CONSTANT Servers            \* API processes

VARIABLES
    events,                 \* JobEvent rows, in the order of createdAt
    outbox,                 \* events whose PUBLISH is under way
    subscriber              \* subClient of each API process
eventVars == <<events, outbox, subscriber>>

Terminal == {"JOB_COMPLETED", "JOB_FAILED"}
SubscriberState == {"down", "connecting", "subscribed", "failed"}

InitEvents(deaf) ==
    /\ events = <<>> /\ outbox = {}
    /\ subscriber = [s \in Servers |-> IF s \in deaf THEN "failed" ELSE "subscribed"]

\* createEvent: the row first, so that whoever hears of the event finds it there.
CreateEvent(event) ==
    /\ events' = Append(events, event)
    /\ outbox' = outbox \cup {Len(events) + 1}
    /\ UNCHANGED subscriber

Listening == {s \in Servers : subscriber[s] = "subscribed"}

\* initSubscriber, at the start of the process: an exception is logged, and
\* nobody calls it again.
ConnectSubscriber(s, works) ==
    /\ subscriber[s] = "connecting"
    /\ subscriber' = [subscriber EXCEPT ![s] = IF works THEN "subscribed" ELSE "failed"]
    /\ UNCHANGED <<events, outbox>>
=============================================================================
