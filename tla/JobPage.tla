------------------------------ MODULE JobPage -------------------------------
(* apps/dashboard: the details of a job, app/jobs/[id]/page.tsx, with useSSE  *)
(* and the stream route of the API that feeds it (events.route.ts).  React    *)
(* runs an effect some time after the state it depends on was set.            *)
EXTENDS JobFeed, SequencesExt

VARIABLE view
(* view.id      the job of the page           view.status  what it shows      *)
(* view.feed    its EventSource               view.inbox   messages for it    *)
(* view.latest  sseEvents[0], while the effect that looks at it is due       *)
(* view.calls   requests that are under way, each with its answer             *)

Nothing == "nothing"
FeedState == {"closed", "connecting", "open"}
CallState == [kind : {"get", "retry", "refresh"}, answer : JobStatus \cup {Asked, "done"}]

TypeOKView ==
    /\ view.id \in Jobs \cup {Nothing} /\ view.status \in JobStatus \cup {Nothing}
    /\ view.feed \in FeedState /\ Range(view.inbox) \subseteq Event
    /\ Range(view.latest) \subseteq Event
    /\ view.calls \subseteq CallState
    /\ view.feed = "closed" => view.inbox = <<>>

ClosedView == [id |-> Nothing, status |-> Nothing, feed |-> "closed", inbox |-> <<>>,
               latest |-> <<>>, calls |-> {}]

Call(kind, answer) == [kind |-> kind, answer |-> answer]
FeedUnchanged == UNCHANGED feedVars

\* The effects of the first render: useSSE connects, and the job is fetched.
OpenView(j) ==
    view' = [ClosedView EXCEPT !.id = j, !.feed = "connecting", !.calls = {Call("get", Asked)}]

----------------------------------------------------------------------------
(* useSSE and GET /events/stream: the listener is added when the request      *)
(* arrives, and what was published before is not sent.                        *)

StreamOpens ==
    /\ view.feed = "connecting" /\ view' = [view EXCEPT !.feed = "open"]
    /\ FeedUnchanged

\* PUBLISH, and the write to the open stream.
Broadcast(e) ==
    /\ Published(e)
    /\ view' = [view EXCEPT !.inbox = IF view.feed = "open" THEN Append(@, e) ELSE @]

\* onmessage: setData puts the event in front.
MessageArrives ==
    /\ view.inbox # <<>>
    /\ view' = [view EXCEPT !.inbox = Tail(@), !.latest = <<Head(view.inbox)>>]
    /\ FeedUnchanged

\* The connection breaks; EventSource connects again by itself.
StreamBreaks ==
    /\ view.feed = "open" /\ Fault
    /\ view' = [view EXCEPT !.feed = "connecting", !.inbox = <<>>]
    /\ FeedUnchanged

----------------------------------------------------------------------------
(* The effects and handlers of the page.                                      *)

\* Mutant: a retry that is scheduled is taken for a failure.
InferFailure(type, status) ==
    CASE type = "JOB_COMPLETED" -> "COMPLETED"
      [] type = "JOB_STARTED" -> "RUNNING"
      [] type \in {"JOB_FAILED", "JOB_RETRY_SCHEDULED"} -> "FAILED"
      [] OTHER -> status

InferStatus(type, status) ==
    CASE type = "JOB_COMPLETED" -> "COMPLETED"
      [] type = "JOB_FAILED" -> "FAILED"
      [] type = "JOB_STARTED" -> "RUNNING"
      [] type = "JOB_RETRY_SCHEDULED" -> "RETRYING"
      [] OTHER -> status

\* Only the latest event is looked at, and none while the job is not loaded.
Effect ==
    LET event == Head(view.latest)
    IN  /\ view.latest # <<>>
        /\ view' = [view EXCEPT !.latest = <<>>,
                                !.status = IF event.job = view.id /\ @ # Nothing
                                           THEN InferStatus(event.type, @) ELSE @]
        /\ FeedUnchanged

\* The API reads the row.
ServeGet ==
    /\ \E c \in view.calls :
          /\ c.kind \in {"get", "refresh"} /\ c.answer = Asked
          /\ view' = [view EXCEPT !.calls = (@ \ {c}) \cup {Call(c.kind, job[view.id].status)}]
    /\ FeedUnchanged

GetArrives ==
    /\ \E c \in view.calls :
          /\ c.kind \in {"get", "refresh"} /\ c.answer # Asked
          /\ view' = [view EXCEPT !.calls = @ \ {c}, !.status = c.answer]
    /\ FeedUnchanged

\* handleRetry: the button is there while the page says FAILED.
ClickRetry ==
    /\ view.status = "FAILED" /\ \A c \in view.calls : c.kind # "retry"
    /\ view' = [view EXCEPT !.calls = @ \cup {Call("retry", Asked)}]
    /\ FeedUnchanged

\* The API refuses a job that has not failed; the page then does nothing.
ServeRetry ==
    /\ Call("retry", Asked) \in view.calls
    /\ IF job[view.id].status = "FAILED"
       THEN /\ RetriedByUser(view.id)
            /\ view' = [view EXCEPT !.calls = (@ \ {Call("retry", Asked)}) \cup {Call("retry", "done")}]
       ELSE /\ view' = [view EXCEPT !.calls = @ \ {Call("retry", Asked)}]
            /\ FeedUnchanged

RetryArrives ==
    /\ Call("retry", "done") \in view.calls
    /\ view' = [view EXCEPT !.calls = (@ \ {Call("retry", "done")}) \cup {Call("refresh", Asked)}]
    /\ FeedUnchanged

\* A call of the page fails; it is logged.
CallFails ==
    /\ Fault
    /\ \E c \in view.calls : view' = [view EXCEPT !.calls = @ \ {c}]
    /\ FeedUnchanged

ViewStep ==
    \/ StreamOpens \/ MessageArrives \/ Effect \/ ServeGet \/ GetArrives
    \/ ClickRetry \/ ServeRetry \/ RetryArrives
=============================================================================
