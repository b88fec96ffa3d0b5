---------------------------- MODULE Console_proofs ---------------------------
(* Safety of a tab of the dashboard, for any jobs, runs, scenes, batches and  *)
(* failures: what the page of a job and the lab page show, and what a verdict *)
(* of the lab service means.                                                  *)
EXTENDS Console, TLAPS

-----------------------------------------------------------------------------
(* The jobs.  An event is written after the status it tells of was committed. *)
Held(e) == InferStatus(e.type, Nothing) \in held[e.job]

FeedInv ==
    /\ TypeOKFeed
    /\ \A j \in Jobs : job[j].status \in held[j]
    /\ \A j \in Jobs : \A e \in owed[j] : Held(e)
    /\ \A e \in outbox : Held(e)

HeldGrows == \A j \in Jobs : held[j] \subseteq held'[j]

FeedStep ==
    \/ UNCHANGED feedVars
    \/ \E j \in Jobs : JobStep(j) \/ RetriedByUser(j) \/ Submitted(j)
    \/ \E e \in outbox : Published(e)

LEMMA Said ==
    /\ InferStatus("JOB_STARTED", Nothing) = "RUNNING"
    /\ InferStatus("JOB_COMPLETED", Nothing) = "COMPLETED"
    /\ InferStatus("JOB_FAILED", Nothing) = "FAILED"
    /\ InferStatus("JOB_RETRY_SCHEDULED", Nothing) = "RETRYING"
    /\ \A type \in EventType : \A status : InferStatus(type, status) = InferStatus(type, Nothing)
  BY DEF InferStatus, EventType

LEMMA HeldStays ==
    ASSUME HeldGrows
    PROVE  \A e \in Event : Held(e) => Held(e)'
  BY DEF HeldGrows, Held, Event, InferStatus

\* A job gets a status, and a first or a further event to be written.
LEMMA JobWrite ==
    ASSUME FeedInv, NEW j \in Jobs, NEW row \in [status : JobStatus, attempt : Nat], NEW written,
           job' = [job EXCEPT ![j] = row], held' = [held EXCEPT ![j] = @ \cup {row.status}],
           owed' = [owed EXCEPT ![j] = @ \cup written], UNCHANGED outbox,
           \A e \in written : e \in Event /\ e.job = j /\ InferStatus(e.type, Nothing) = row.status
    PROVE  FeedInv' /\ HeldGrows
<1>1. /\ job \in [Jobs -> [status : JobStatus, attempt : Nat]]
      /\ held \in [Jobs -> SUBSET JobStatus]
      /\ owed \in [Jobs -> SUBSET Event] /\ \A i \in Jobs : \A e \in owed[i] : e.job = i
      /\ outbox \subseteq Event
  BY DEF FeedInv, TypeOKFeed
<1>2. row.status \in JobStatus
  OBVIOUS
<1>3. HeldGrows /\ row.status \in held'[j]
  BY <1>1 DEF HeldGrows
<1>4. /\ job' \in [Jobs -> [status : JobStatus, attempt : Nat]]
      /\ held' \in [Jobs -> SUBSET JobStatus] /\ outbox' \subseteq Event
  BY <1>1, <1>2
<1>5. \A i \in Jobs : owed'[i] = IF i = j THEN owed[i] \cup written ELSE owed[i]
  BY <1>1
<1>6. owed' \in [Jobs -> SUBSET Event] /\ \A i \in Jobs : \A e \in owed'[i] : e.job = i
  BY <1>1, <1>5
<1>7. \A i \in Jobs : job'[i].status \in held'[i]
  BY <1>1, <1>3 DEF FeedInv
<1>8. \A i \in Jobs : \A e \in owed'[i] : Held(e)'
  <2>. SUFFICES ASSUME NEW i \in Jobs, NEW e \in owed'[i] PROVE Held(e)'
    OBVIOUS
  <2>1. CASE e \in owed[i]
    <3>1. e \in Event /\ Held(e)
      BY <1>1, <2>1 DEF FeedInv
    <3>. QED BY <1>3, <3>1, HeldStays
  <2>2. CASE i = j /\ e \in written
    <3>1. e.job = j /\ InferStatus(e.type, Nothing) = row.status
      BY <2>2
    <3>. QED BY <1>3, <3>1 DEF Held
  <2>. QED BY <1>5, <2>1, <2>2
<1>9. \A e \in outbox' : Held(e)'
  BY <1>1, <1>3, HeldStays DEF FeedInv
<1>. QED BY <1>3, <1>4, <1>6, <1>7, <1>8, <1>9 DEF FeedInv, TypeOKFeed

LEMMA FeedKeeps ==
    ASSUME FeedInv, FeedAssumption, FeedStep
    PROVE  FeedInv' /\ HeldGrows
<1>1. /\ job \in [Jobs -> [status : JobStatus, attempt : Nat]]
      /\ held \in [Jobs -> SUBSET JobStatus] /\ outbox \subseteq Event
      /\ owed \in [Jobs -> SUBSET Event] /\ \A j \in Jobs : \A e \in owed[j] : e.job = j
  BY DEF FeedInv, TypeOKFeed
<1>2. ASSUME UNCHANGED <<job, held>>
      PROVE  HeldGrows /\ \A e \in Event : Held(e) => Held(e)'
  BY <1>2, HeldStays DEF HeldGrows
<1>3. CASE UNCHANGED feedVars
  BY <1>1, <1>2, <1>3 DEF feedVars, FeedInv, TypeOKFeed, Event, Held
<1>4. ASSUME NEW e \in outbox, Published(e)
      PROVE  FeedInv' /\ HeldGrows
  BY <1>1, <1>2, <1>4 DEF Published, FeedInv, TypeOKFeed, Held
<1>5. ASSUME NEW j \in Jobs, Written(j)
      PROVE  FeedInv' /\ HeldGrows
  <2>1. PICK e \in owed[j] : owed' = [owed EXCEPT ![j] = @ \ {e}] /\ outbox' = outbox \cup {e}
    BY <1>5 DEF Written
  <2>2. UNCHANGED <<job, held>> /\ e \in Event
    BY <1>1, <1>5, <2>1 DEF Written, Event
  <2>3. \A i \in Jobs : owed'[i] \subseteq owed[i]
    BY <2>1
  <2>4. TypeOKFeed'
    BY <1>1, <2>1, <2>2, <2>3 DEF TypeOKFeed
  <2>5. (\A i \in Jobs : \A f \in owed'[i] : Held(f)') /\ (\A f \in outbox' : Held(f)')
    BY <2>1, <2>2, <2>3 DEF FeedInv, Held
  <2>. QED BY <1>2, <2>2, <2>4, <2>5 DEF FeedInv
<1>6. ASSUME NEW j \in Jobs, NEW status \in JobStatus, Becomes(j, status), UNCHANGED <<owed, outbox>>
      PROVE  FeedInv' /\ HeldGrows
  <2>. DEFINE row == [job[j] EXCEPT !.status = status]
              written == {}
  <2>1. row \in [status : JobStatus, attempt : Nat] /\ row.status = status
    BY <1>1
  <2>2. job' = [job EXCEPT ![j] = row] /\ held' = [held EXCEPT ![j] = @ \cup {row.status}]
    BY <1>6, <2>1 DEF Becomes
  <2>3. owed' = [owed EXCEPT ![j] = @ \cup written]
    BY <1>1, <1>6
  <2>4. UNCHANGED outbox /\ \A e \in written : e \in Event /\ e.job = j /\ InferStatus(e.type, Nothing) = row.status
    BY <1>6
  <2>. HIDE DEF row, written
  <2>. QED BY ONLY FeedInv, j \in Jobs, <2>1, <2>2, <2>3, <2>4, JobWrite
<1>7. ASSUME NEW j \in Jobs, Requeued(j) \/ RetriedByUser(j) \/ Submitted(j)
      PROVE  FeedInv' /\ HeldGrows
  BY <1>6, <1>7 DEF Requeued, RetriedByUser, Submitted, JobStatus, Ended
<1>8. ASSUME NEW j \in Jobs, Claimed(j)
      PROVE  FeedInv' /\ HeldGrows
  <2>. DEFINE row == [status |-> "RUNNING", attempt |-> job[j].attempt + 1]
              written == {EventOf(j, "JOB_STARTED", job[j].attempt + 1)}
  <2>1. job[j].attempt + 1 \in Nat
    BY <1>1
  <2>2. row \in [status : JobStatus, attempt : Nat] /\ row.status = "RUNNING"
    BY <2>1 DEF JobStatus
  <2>3. \A e \in written : e \in Event /\ e.job = j /\ InferStatus(e.type, Nothing) = row.status
    BY <2>1, Said DEF EventOf, EventType, Event
  <2>4. /\ job' = [job EXCEPT ![j] = row] /\ held' = [held EXCEPT ![j] = @ \cup {row.status}]
        /\ owed' = [owed EXCEPT ![j] = @ \cup written] /\ UNCHANGED outbox
    BY <1>8 DEF Claimed
  <2>. HIDE DEF row, written
  <2>. QED BY ONLY FeedInv, j \in Jobs, <2>2, <2>3, <2>4, JobWrite
<1>9. ASSUME NEW j \in Jobs, NEW status \in {"COMPLETED", "FAILED", "RETRYING"}, Finished(j, status)
      PROVE  FeedInv' /\ HeldGrows
  <2>. DEFINE type == CASE status = "COMPLETED" -> "JOB_COMPLETED"
                        [] status = "FAILED" -> "JOB_FAILED"
                        [] OTHER -> "JOB_RETRY_SCHEDULED"
              row == [job[j] EXCEPT !.status = status]
              written == {EventOf(j, type, job[j].attempt)}
  <2>1. row \in [status : JobStatus, attempt : Nat] /\ row.status = status
    BY <1>1 DEF JobStatus, Ended
  <2>2. type \in EventType /\ InferStatus(type, Nothing) = status
    BY Said DEF EventType
  <2>3. \A e \in written : e \in Event /\ e.job = j /\ InferStatus(e.type, Nothing) = row.status
    <3>. HIDE DEF type
    <3>. QED BY <1>1, <2>1, <2>2 DEF EventOf, Event
  <2>4. /\ job' = [job EXCEPT ![j] = row] /\ held' = [held EXCEPT ![j] = @ \cup {row.status}]
        /\ owed' = [owed EXCEPT ![j] = @ \cup written] /\ UNCHANGED outbox
    BY <1>9, <2>1 DEF Finished, Becomes
  <2>. HIDE DEF row, written
  <2>. QED BY ONLY FeedInv, j \in Jobs, <2>1, <2>3, <2>4, JobWrite
<1>. QED BY <1>3, <1>4, <1>5, <1>7, <1>8, <1>9 DEF FeedStep, JobStep

-----------------------------------------------------------------------------
(* The page of a job.                                                         *)
ViewState == [id : Jobs \cup {Nothing}, status : JobStatus \cup {Nothing}, feed : FeedState,
              inbox : Seq(Event), latest : Seq(Event), calls : SUBSET CallState]

Tells(call, j) == call.kind # "retry" /\ call.answer # Asked => call.answer \in held[j]

ViewInv ==
    /\ view \in ViewState
    /\ view = ClosedView \/ view.id \in Jobs
    /\ view.feed = "closed" => view.inbox = <<>>
    /\ \A e \in Range(view.inbox) \cup Range(view.latest) : Held(e)
    /\ \A call \in view.calls : Tells(call, view.id)
    /\ ShownStatusHeld

\* The ways the steps fill in the page.
ViewOf(id, status, feed, inbox, latest, calls) ==
    [id |-> id, status |-> status, feed |-> feed, inbox |-> inbox, latest |-> latest, calls |-> calls]

LEMMA ViewFields ==
    ASSUME NEW v \in ViewState
    PROVE  /\ \A x : [v EXCEPT !.feed = x]
                    = ViewOf(v.id, v.status, x, v.inbox, v.latest, v.calls)
           /\ \A x : [v EXCEPT !.inbox = x]
                    = ViewOf(v.id, v.status, v.feed, x, v.latest, v.calls)
           /\ \A x : [v EXCEPT !.calls = x]
                    = ViewOf(v.id, v.status, v.feed, v.inbox, v.latest, x)
           /\ \A x, y : [v EXCEPT !.feed = x, !.inbox = y]
                    = ViewOf(v.id, v.status, x, y, v.latest, v.calls)
           /\ \A x, y : [v EXCEPT !.inbox = x, !.latest = y]
                    = ViewOf(v.id, v.status, v.feed, x, y, v.calls)
           /\ \A x, y : [v EXCEPT !.latest = x, !.status = y]
                    = ViewOf(v.id, y, v.feed, v.inbox, x, v.calls)
           /\ \A x, y : [v EXCEPT !.calls = x, !.status = y]
                    = ViewOf(v.id, y, v.feed, v.inbox, v.latest, x)
<1>1. PICK i, s, f, b, l, c : v = ViewOf(i, s, f, b, l, c)
  BY DEF ViewState, ViewOf
<1>2. v.id = i /\ v.status = s /\ v.feed = f /\ v.inbox = b /\ v.latest = l /\ v.calls = c
  BY <1>1 DEF ViewOf
<1>3. ASSUME NEW x
      PROVE  [v EXCEPT !.feed = x]
                = ViewOf(v.id, v.status, x, v.inbox, v.latest, v.calls)
  <2>1. [v EXCEPT !.feed = x] = ViewOf(i, s, x, b, l, c)
    BY <1>1 DEF ViewOf
  <2>. QED BY <1>2, <2>1, Zenon
<1>4. ASSUME NEW x
      PROVE  [v EXCEPT !.inbox = x]
                = ViewOf(v.id, v.status, v.feed, x, v.latest, v.calls)
  <2>1. [v EXCEPT !.inbox = x] = ViewOf(i, s, f, x, l, c)
    BY <1>1 DEF ViewOf
  <2>. QED BY <1>2, <2>1, Zenon
<1>5. ASSUME NEW x
      PROVE  [v EXCEPT !.calls = x]
                = ViewOf(v.id, v.status, v.feed, v.inbox, v.latest, x)
  <2>1. [v EXCEPT !.calls = x] = ViewOf(i, s, f, b, l, x)
    BY <1>1 DEF ViewOf
  <2>. QED BY <1>2, <2>1, Zenon
<1>6. ASSUME NEW x, NEW y
      PROVE  [v EXCEPT !.feed = x, !.inbox = y]
                = ViewOf(v.id, v.status, x, y, v.latest, v.calls)
  <2>. DEFINE m1 == [v EXCEPT !.feed = x]
              m2 == [m1 EXCEPT !.inbox = y]
  <2>1. [v EXCEPT !.feed = x, !.inbox = y] = m2
    OBVIOUS
  <2>2. m1 = ViewOf(i, s, x, b, l, c)
    BY <1>1 DEF ViewOf
  <2>. HIDE DEF m1
  <2>3. m2 = ViewOf(i, s, x, y, l, c)
    BY <2>2 DEF ViewOf
  <2>. HIDE DEF m2
  <2>4. ViewOf(i, s, x, y, l, c) = ViewOf(v.id, v.status, x, y, v.latest, v.calls)
    BY <1>2, Zenon
  <2>. QED BY <2>1, <2>3, <2>4, Zenon
<1>7. ASSUME NEW x, NEW y
      PROVE  [v EXCEPT !.inbox = x, !.latest = y]
                = ViewOf(v.id, v.status, v.feed, x, y, v.calls)
  <2>. DEFINE m1 == [v EXCEPT !.inbox = x]
              m2 == [m1 EXCEPT !.latest = y]
  <2>1. [v EXCEPT !.inbox = x, !.latest = y] = m2
    OBVIOUS
  <2>2. m1 = ViewOf(i, s, f, x, l, c)
    BY <1>1 DEF ViewOf
  <2>. HIDE DEF m1
  <2>3. m2 = ViewOf(i, s, f, x, y, c)
    BY <2>2 DEF ViewOf
  <2>. HIDE DEF m2
  <2>4. ViewOf(i, s, f, x, y, c) = ViewOf(v.id, v.status, v.feed, x, y, v.calls)
    BY <1>2, Zenon
  <2>. QED BY <2>1, <2>3, <2>4, Zenon
<1>8. ASSUME NEW x, NEW y
      PROVE  [v EXCEPT !.latest = x, !.status = y]
                = ViewOf(v.id, y, v.feed, v.inbox, x, v.calls)
  <2>. DEFINE m1 == [v EXCEPT !.latest = x]
              m2 == [m1 EXCEPT !.status = y]
  <2>1. [v EXCEPT !.latest = x, !.status = y] = m2
    OBVIOUS
  <2>2. m1 = ViewOf(i, s, f, b, x, c)
    BY <1>1 DEF ViewOf
  <2>. HIDE DEF m1
  <2>3. m2 = ViewOf(i, y, f, b, x, c)
    BY <2>2 DEF ViewOf
  <2>. HIDE DEF m2
  <2>4. ViewOf(i, y, f, b, x, c) = ViewOf(v.id, y, v.feed, v.inbox, x, v.calls)
    BY <1>2, Zenon
  <2>. QED BY <2>1, <2>3, <2>4, Zenon
<1>9. ASSUME NEW x, NEW y
      PROVE  [v EXCEPT !.calls = x, !.status = y]
                = ViewOf(v.id, y, v.feed, v.inbox, v.latest, x)
  <2>. DEFINE m1 == [v EXCEPT !.calls = x]
              m2 == [m1 EXCEPT !.status = y]
  <2>1. [v EXCEPT !.calls = x, !.status = y] = m2
    OBVIOUS
  <2>2. m1 = ViewOf(i, s, f, b, l, x)
    BY <1>1 DEF ViewOf
  <2>. HIDE DEF m1
  <2>3. m2 = ViewOf(i, y, f, b, l, x)
    BY <2>2 DEF ViewOf
  <2>. HIDE DEF m2
  <2>4. ViewOf(i, y, f, b, l, x) = ViewOf(v.id, y, v.feed, v.inbox, v.latest, x)
    BY <1>2, Zenon
  <2>. QED BY <2>1, <2>3, <2>4, Zenon
<1>. QED BY <1>3, <1>4, <1>5, <1>6, <1>7, <1>8, <1>9

LEMMA ViewWrite ==
    ASSUME FeedInv, ViewInv, HeldGrows, view.id \in Jobs,
           NEW status \in JobStatus \cup {Nothing}, NEW feed \in FeedState, NEW inbox \in Seq(Event),
           NEW latest \in Seq(Event), NEW calls \in SUBSET CallState,
           view' = ViewOf(view.id, status, feed, inbox, latest, calls),
           feed = "closed" => inbox = <<>>,
           status \in {Nothing, view.status} \/ status \in held[view.id],
           \A e \in Range(inbox) \cup Range(latest) :
               e \in Range(view.inbox) \cup Range(view.latest) \/ Held(e),
           \A call \in calls : call \in view.calls \/ Tells(call, view.id)
    PROVE  ViewInv'
<1>1. held[view.id] \subseteq held'[view.id]
  BY DEF HeldGrows
<1>2. /\ view' \in ViewState /\ view'.id = view.id /\ view'.status = status /\ view'.feed = feed
      /\ view'.inbox = inbox /\ view'.latest = latest /\ view'.calls = calls
  BY DEF ViewState, ViewOf
<1>3. view'.status # Nothing => view'.status \in held'[view'.id]
  BY <1>1, <1>2 DEF ViewInv, ShownStatusHeld
<1>4. \A e \in Range(inbox) \cup Range(latest) : Held(e)'
  <2>1. \A e \in Range(inbox) \cup Range(latest) : e \in Event
    BY DEF Range
  <2>. QED BY <2>1, HeldStays DEF ViewInv
<1>5. \A call \in calls : Tells(call, view.id)'
  BY <1>1, <1>2 DEF ViewInv, Tells
<1>. QED BY <1>2, <1>3, <1>4, <1>5 DEF ViewInv, ShownStatusHeld

\* Before a page is opened nothing happens to it.
LEMMA ClosedIdle ==
    ASSUME view = ClosedView
    PROVE  /\ ~ViewStep /\ ~StreamBreaks /\ ~CallFails
           /\ \A e : Broadcast(e) => UNCHANGED view
<1>1. /\ view.id = Nothing /\ view.status = Nothing /\ view.feed = "closed" /\ view.inbox = <<>>
      /\ view.latest = <<>> /\ view.calls = {}
  BY DEF ClosedView
<1>2. ~StreamOpens /\ ~MessageArrives /\ ~Effect /\ ~ServeGet /\ ~GetArrives /\ ~StreamBreaks /\ ~CallFails
  BY <1>1 DEF StreamOpens, MessageArrives, Effect, ServeGet, GetArrives, StreamBreaks, CallFails
<1>3. ~ClickRetry /\ ~ServeRetry /\ ~RetryArrives
  BY <1>1 DEF ClickRetry, ServeRetry, RetryArrives, Nothing
<1>4. ASSUME NEW e, Broadcast(e)
      PROVE  view' = view
  <2>1. view' = [ClosedView EXCEPT !.inbox = <<>>]
    BY <1>1, <1>4 DEF Broadcast
  <2>. QED BY <2>1 DEF ClosedView
<1>. QED BY <1>2, <1>3, <1>4 DEF ViewStep

LEMMA Parts ==
    ASSUME NEW S, NEW s \in Seq(S)
    PROVE  /\ Range(s) \subseteq S
           /\ s # <<>> => /\ Head(s) \in Range(s) /\ Tail(s) \in Seq(S)
                          /\ Range(Tail(s)) \subseteq Range(s)
<1>1. Range(s) \subseteq S
  BY DEF Range
<1>2. ASSUME s # <<>>
      PROVE  /\ Head(s) \in Range(s) /\ Tail(s) \in Seq(S)
             /\ Range(Tail(s)) \subseteq Range(s)
  BY <1>2 DEF Range
<1>. QED BY <1>1, <1>2

LEMMA Longer ==
    ASSUME NEW S, NEW s \in Seq(S), NEW e \in S
    PROVE  Append(s, e) \in Seq(S) /\ Range(Append(s, e)) \subseteq Range(s) \cup {e}
  BY DEF Range

LEMMA Single ==
    ASSUME NEW S, NEW e \in S
    PROVE  <<e>> \in Seq(S) /\ Range(<<e>>) = {e}
  BY DEF Range

\* What the steps of the tab do to the page.
ViewMoves ==
    \/ UNCHANGED view
    \/ view' = ClosedView
    \/ \E j \in Jobs : OpenView(j)
    \/ \E e \in outbox : Broadcast(e)
    \/ ViewStep \/ StreamBreaks \/ CallFails

LEMMA Closes ==
    ASSUME view' = ClosedView
    PROVE  ViewInv'
<1>1. ClosedView \in ViewState
  BY DEF ClosedView, ViewState, FeedState
<1>2. /\ ClosedView.id = Nothing /\ ClosedView.status = Nothing /\ ClosedView.inbox = <<>>
      /\ ClosedView.latest = <<>> /\ ClosedView.calls = {}
  BY DEF ClosedView
<1>3. Range(<<>>) = {}
  BY DEF Range
<1>. QED BY <1>1, <1>2, <1>3 DEF ViewInv, ShownStatusHeld

LEMMA Opens ==
    ASSUME FeedInv, NEW j \in Jobs, OpenView(j)
    PROVE  ViewInv'
<1>1. view' = ViewOf(j, Nothing, "connecting", <<>>, <<>>, {Call("get", Asked)})
  BY DEF OpenView, ClosedView, ViewOf
<1>2. Call("get", Asked) \in CallState /\ Call("get", Asked).answer = Asked
  BY DEF Call, CallState
<1>3. /\ view' \in ViewState /\ view'.id = j /\ view'.status = Nothing /\ view'.feed = "connecting"
      /\ view'.inbox = <<>> /\ view'.latest = <<>> /\ view'.calls = {Call("get", Asked)}
  BY <1>1, <1>2 DEF ViewState, FeedState, ViewOf
<1>4. Range(<<>>) = {}
  BY DEF Range
<1>. QED BY <1>1, <1>2, <1>3, <1>4 DEF ViewInv, ShownStatusHeld, Tells

LEMMA Calls ==
    \A call \in {Call("retry", Asked), Call("retry", "done"), Call("refresh", Asked)} :
        /\ call \in CallState /\ call.answer \in {Asked, "done"}
        /\ call.kind = "retry" \/ call.answer = Asked
  BY DEF Call, CallState, Asked

LEMMA ViewKeeps ==
    ASSUME FeedInv, ViewInv, HeldGrows, ViewMoves
    PROVE  ViewInv'
<1>1. /\ view \in ViewState /\ view.status \in JobStatus \cup {Nothing} /\ view.feed \in FeedState
      /\ view.inbox \in Seq(Event) /\ view.latest \in Seq(Event) /\ view.calls \in SUBSET CallState
  BY DEF ViewInv, ViewState
<1>2. CASE view' = ClosedView
  BY <1>2, Closes
<1>3. CASE view = ClosedView /\ view' # ClosedView
  BY <1>3, Opens, ClosedIdle DEF ViewMoves
<1>4. ASSUME view # ClosedView, view' # ClosedView
      PROVE  ViewInv'
  <2>1. view.id \in Jobs
    BY <1>4 DEF ViewInv
  <2>2. /\ view.status \in {Nothing, view.status} /\ view.feed = "closed" => view.inbox = <<>>
        /\ \A e \in Range(view.inbox) \cup Range(view.latest) : e \in Event /\ Held(e)
    BY <1>1, Parts DEF ViewInv
  <2>3. CASE UNCHANGED view
    <3>1. view' = ViewOf(view.id, view.status, view.feed, view.inbox, view.latest, view.calls)
      BY <1>1, <2>3 DEF ViewState, ViewOf
    <3>. QED BY ONLY FeedInv, ViewInv, HeldGrows, <1>1, <2>1, <2>2, <3>1, ViewWrite
  <2>4. ASSUME NEW j \in Jobs, OpenView(j) PROVE ViewInv'
    BY <2>4, Opens
  <2>5. ASSUME NEW e \in outbox, Broadcast(e) PROVE ViewInv'
    <3>. DEFINE inbox == IF view.feed = "open" THEN Append(view.inbox, e) ELSE view.inbox
    <3>1. e \in Event /\ Held(e)
      BY DEF FeedInv, TypeOKFeed
    <3>2. view' = [view EXCEPT !.inbox = inbox]
      BY <2>5 DEF Broadcast
    <3>3. inbox \in Seq(Event) /\ Range(inbox) \subseteq Range(view.inbox) \cup {e}
      <4>1. /\ Append(view.inbox, e) \in Seq(Event)
            /\ Range(Append(view.inbox, e)) \subseteq Range(view.inbox) \cup {e}
        BY <1>1, <3>1, Longer
      <4>. QED BY <1>1, <4>1
    <3>4. view.feed = "closed" => inbox = <<>>
      BY <2>2
    <3>. HIDE DEF inbox
    <3>5. view' = ViewOf(view.id, view.status, view.feed, inbox, view.latest, view.calls)
      BY <1>1, <3>2, ViewFields
    <3>6. \A x \in Range(inbox) \cup Range(view.latest) :
             x \in Range(view.inbox) \cup Range(view.latest) \/ Held(x)
      BY <3>1, <3>3
    <3>. QED
      BY ONLY FeedInv, ViewInv, HeldGrows, <1>1, <2>1, <2>2, <3>3, <3>4, <3>5, <3>6, ViewWrite
  <2>6. ASSUME NEW feed \in {"connecting", "open"}, NEW inbox \in {<<>>, view.inbox},
               view' = ViewOf(view.id, view.status, feed, inbox, view.latest, view.calls)
        PROVE  ViewInv'
    <3>1. feed \in FeedState /\ feed # "closed"
      BY <2>6 DEF FeedState
    <3>3. inbox \in Seq(Event)
      <4>1. <<>> \in Seq(Event)
        OBVIOUS
      <4>. QED BY <1>1, <4>1
    <3>2. Range(inbox) \subseteq Range(view.inbox)
      BY DEF Range
    <3>4. /\ view.status \in {Nothing, view.status}
          /\ feed = "closed" => inbox = <<>>
          /\ \A e \in Range(inbox) \cup Range(view.latest) :
                e \in Range(view.inbox) \cup Range(view.latest) \/ Held(e)
          /\ \A call \in view.calls : call \in view.calls \/ Tells(call, view.id)
      BY <3>1, <3>2
    <3>. QED
      BY ONLY FeedInv, ViewInv, HeldGrows, <1>1, <2>1, <2>6, <3>1, <3>3, <3>4, ViewWrite
  <2>7. CASE StreamOpens
    <3>1. view' = [view EXCEPT !.feed = "open"]
      BY <2>7 DEF StreamOpens
    <3>2. view' = ViewOf(view.id, view.status, "open", view.inbox, view.latest, view.calls)
      BY <1>1, <3>1, ViewFields
    <3>. QED BY <2>6, <3>2
  <2>8. CASE StreamBreaks
    <3>1. view' = [view EXCEPT !.feed = "connecting", !.inbox = <<>>]
      BY <2>8 DEF StreamBreaks
    <3>2. view' = ViewOf(view.id, view.status, "connecting", <<>>, view.latest, view.calls)
      BY <1>1, <3>1, ViewFields
    <3>. QED BY <2>6, <3>2
  <2>9. CASE MessageArrives
    <3>. DEFINE inbox == Tail(view.inbox)
                latest == <<Head(view.inbox)>>
    <3>1. view' = [view EXCEPT !.inbox = inbox, !.latest = latest] /\ view.inbox # <<>>
      BY <2>9 DEF MessageArrives
    <3>2. /\ inbox \in Seq(Event) /\ Range(inbox) \subseteq Range(view.inbox)
          /\ Head(view.inbox) \in Range(view.inbox)
      BY <1>1, <3>1, Parts
    <3>3. latest \in Seq(Event) /\ Range(latest) = {Head(view.inbox)}
      BY <2>2, <3>2, Single
    <3>4. view.feed # "closed"
      BY <2>2, <3>1
    <3>. HIDE DEF inbox, latest
    <3>5. view' = ViewOf(view.id, view.status, view.feed, inbox, latest, view.calls)
      BY <1>1, <3>1, ViewFields
    <3>6. \A e \in Range(inbox) \cup Range(latest) : e \in Range(view.inbox) \cup Range(view.latest)
      BY <3>2, <3>3
    <3>7. view.feed = "closed" => inbox = <<>>
      BY <3>4
    <3>. QED
      BY ONLY FeedInv, ViewInv, HeldGrows, <1>1, <2>1, <2>2, <3>2, <3>3, <3>5, <3>6, <3>7, ViewWrite
  <2>10. CASE Effect
    <3>. DEFINE event == Head(view.latest)
                status == IF event.job = view.id /\ view.status # Nothing
                          THEN InferStatus(event.type, view.status) ELSE view.status
    <3>1. view' = [view EXCEPT !.latest = <<>>, !.status = status] /\ view.latest # <<>>
      BY <2>10 DEF Effect
    <3>2. event \in Range(view.latest)
      BY <1>1, <3>1, Parts
    <3>3. event \in Event /\ Held(event)
      BY <2>2, <3>2
    <3>4. status = view.status \/ status \in held[view.id]
      <4>1. CASE event.job = view.id /\ view.status # Nothing
        <5>1. event.type \in EventType
          BY <3>3 DEF Event
        <5>2. InferStatus(event.type, view.status) = InferStatus(event.type, Nothing)
          BY <5>1, Said
        <5>. QED BY <3>3, <4>1, <5>2 DEF Held
      <4>. QED BY <4>1
    <3>5. held[view.id] \subseteq JobStatus
      BY <2>1 DEF FeedInv, TypeOKFeed
    <3>6. status \in JobStatus \cup {Nothing}
      BY <1>1, <3>4, <3>5
    <3>. DEFINE latest == <<>>
    <3>7. latest \in Seq(Event) /\ Range(latest) = {}
      BY DEF Range
    <3>9. view' = [view EXCEPT !.latest = latest, !.status = status]
      BY <3>1
    <3>10. status \in {Nothing, view.status} \/ status \in held[view.id]
      BY <3>4
    <3>. HIDE DEF status, latest
    <3>8. view' = ViewOf(view.id, status, view.feed, view.inbox, latest, view.calls)
      <4>1. \A x, y : [view EXCEPT !.latest = x, !.status = y]
                = ViewOf(view.id, y, view.feed, view.inbox, x, view.calls)
        BY <1>1, ViewFields
      <4>. QED BY <3>9, <4>1, Zenon
    <3>11. \A e \in Range(view.inbox) \cup Range(latest) : e \in Range(view.inbox) \cup Range(view.latest)
      BY <3>7
    <3>12. /\ view.feed \in FeedState /\ view.inbox \in Seq(Event) /\ view.calls \in SUBSET CallState
           /\ view.feed = "closed" => view.inbox = <<>>
      BY <1>1, <2>2
    <3>. HIDE DEF event
    <3>. QED BY ONLY FeedInv, ViewInv, HeldGrows, <2>1, <3>6, <3>7, <3>8, <3>10, <3>11, <3>12, ViewWrite
  <2>11. ASSUME NEW calls \in SUBSET CallState, NEW status \in JobStatus \cup {Nothing},
                status = view.status \/ status \in held[view.id],
                \A call \in calls : call \in view.calls \/ Tells(call, view.id),
                view' = ViewOf(view.id, status, view.feed, view.inbox, view.latest, calls)
         PROVE  ViewInv'
    BY ONLY FeedInv, ViewInv, HeldGrows, <1>1, <2>1, <2>2, <2>11, ViewWrite
  <2>12. ASSUME NEW calls \in SUBSET CallState,
                \A call \in calls : call \in view.calls \/ Tells(call, view.id),
                view' = [view EXCEPT !.calls = calls]
         PROVE  ViewInv'
    <3>1. view' = ViewOf(view.id, view.status, view.feed, view.inbox, view.latest, calls)
      BY <1>1, <2>12, ViewFields
    <3>. QED BY <1>1, <2>11, <2>12, <3>1
  <2>13. ASSUME NEW fewer \in SUBSET view.calls, NEW more \in SUBSET CallState,
                \A call \in more : Tells(call, view.id),
                view' = [view EXCEPT !.calls = fewer \cup more]
         PROVE  ViewInv'
    BY <1>1, <2>12, <2>13
  <2>14. CASE ServeGet
    <3>1. PICK c \in view.calls :
             view' = [view EXCEPT !.calls = (@ \ {c}) \cup {Call(c.kind, job[view.id].status)}]
      BY <2>14 DEF ServeGet
    <3>. DEFINE call == Call(c.kind, job[view.id].status)
    <3>2. job[view.id].status \in held[view.id] /\ job[view.id].status \in JobStatus
      BY <2>1 DEF FeedInv, TypeOKFeed
    <3>3. call \in CallState /\ Tells(call, view.id)
      BY <1>1, <3>2 DEF Call, CallState, Tells
    <3>. DEFINE more == {call}
                fewer == view.calls \ {c}
    <3>4. view' = [view EXCEPT !.calls = fewer \cup more]
      BY <3>1
    <3>5. fewer \in SUBSET view.calls /\ more \in SUBSET CallState
      BY <3>3
    <3>6. \A x \in more : Tells(x, view.id)
      BY <3>3
    <3>. HIDE DEF call, more, fewer
    <3>. QED BY <2>13, <3>4, <3>5, <3>6
  <2>15. CASE GetArrives
    <3>1. PICK c \in view.calls :
             /\ c.kind \in {"get", "refresh"} /\ c.answer # Asked
             /\ view' = [view EXCEPT !.calls = @ \ {c}, !.status = c.answer]
      BY <2>15 DEF GetArrives
    <3>2. c.answer \in held[view.id]
      BY <3>1 DEF ViewInv, Tells
    <3>3. held[view.id] \subseteq JobStatus
      BY <2>1 DEF FeedInv, TypeOKFeed
    <3>. DEFINE rest == view.calls \ {c}
                answer == c.answer
    <3>4. rest \in SUBSET CallState /\ rest \subseteq view.calls
      BY <1>1
    <3>5. view' = [view EXCEPT !.calls = rest, !.status = answer]
      BY <3>1
    <3>6. answer \in held[view.id] /\ answer \in JobStatus \cup {Nothing}
      BY <3>2, <3>3
    <3>. HIDE DEF rest, answer
    <3>7. view' = ViewOf(view.id, answer, view.feed, view.inbox, view.latest, rest)
      <4>1. \A x, y : [view EXCEPT !.calls = x, !.status = y]
                = ViewOf(view.id, y, view.feed, view.inbox, view.latest, x)
        BY <1>1, ViewFields
      <4>. QED BY <3>5, <4>1, Zenon
    <3>. QED BY <2>11, <3>4, <3>6, <3>7
  <2>16. ASSUME NEW call \in CallState, call.answer \in {Asked, "done"}, call.kind = "retry" \/ call.answer = Asked,
                NEW fewer \in SUBSET view.calls, view' = [view EXCEPT !.calls = fewer \cup {call}]
         PROVE  ViewInv'
    <3>. DEFINE more == {call}
    <3>1. more \in SUBSET CallState /\ \A x \in more : Tells(x, view.id)
      BY <2>16 DEF Tells
    <3>2. view' = [view EXCEPT !.calls = fewer \cup more]
      BY <2>16
    <3>. HIDE DEF more
    <3>. QED BY <2>13, <3>1, <3>2
  <2>17. ASSUME NEW fewer \in SUBSET view.calls, view' = [view EXCEPT !.calls = fewer]
         PROVE  ViewInv'
    BY <1>1, <2>12, <2>17
  <2>18. CASE ClickRetry
    <3>1. view' = [view EXCEPT !.calls = @ \cup {Call("retry", Asked)}]
      BY <2>18 DEF ClickRetry
    <3>. QED BY <2>16, <3>1, Calls
  <2>19. CASE ServeRetry
    <3>1. PICK fewer \in SUBSET view.calls :
             \/ view' = [view EXCEPT !.calls = fewer \cup {Call("retry", "done")}]
             \/ view' = [view EXCEPT !.calls = fewer]
      BY <2>19 DEF ServeRetry
    <3>. QED BY <2>16, <2>17, <3>1, Calls
  <2>20. CASE RetryArrives
    <3>1. PICK fewer \in SUBSET view.calls :
             view' = [view EXCEPT !.calls = fewer \cup {Call("refresh", Asked)}]
      BY <2>20 DEF RetryArrives
    <3>. QED BY <2>16, <3>1, Calls
  <2>21. CASE CallFails
    <3>1. PICK fewer \in SUBSET view.calls : view' = [view EXCEPT !.calls = fewer]
      BY <2>21 DEF CallFails
    <3>. QED BY <2>17, <3>1
  <2>. QED BY <1>4, <2>3, <2>4, <2>5, <2>7, <2>8, <2>9, <2>10, <2>14, <2>15, <2>18, <2>19, <2>20,
              <2>21 DEF ViewMoves, ViewStep
<1>. QED BY <1>2, <1>3, <1>4

-----------------------------------------------------------------------------
(* The lab service.                                                           *)
RunStatus == {"none", "RUNNING"} \cup Verdicts
RunState == [scenario : Scenarios \cup {"none"}, status : RunStatus, at : RunAt,
             jobs : Seq(Jobs \cup {Lost}), next : 1 .. BatchSize + 1, open : SUBSET (1 .. BatchSize),
             completed : Seq(1 .. BatchSize), batch : 0 .. Batches]

\* ever[j] stands for held[j], the statuses job j has had.
HasEnded(id, ever) == id # Lost /\ ever[id] \cap Ended # {}
HasCompleted(id, ever) == id # Lost /\ "COMPLETED" \in ever[id]

Progress(run, ever) ==
    /\ run.scenario = "recovery" => \E i \in DOMAIN run.jobs : HasCompleted(run.jobs[i], ever)
    /\ run.scenario = "priority" => \A i \in DOMAIN run.jobs : HasEnded(run.jobs[i], ever)

Polls(run, ever) ==
    /\ Len(run.jobs) <= BatchSize
    /\ run.at = "poll" => Len(run.jobs) = BatchSize
    /\ \A i \in Range(run.completed) : i \in DOMAIN run.jobs /\ HasCompleted(run.jobs[i], ever)
    /\ run.at = "poll" /\ run.scenario = "priority" =>
          \A i \in (1 .. BatchSize) \ run.open : HasEnded(run.jobs[i], ever)

RunSound(run, ever) ==
    /\ run \in RunState
    /\ run.status \in Verdicts => run.at = "done"
    /\ Polls(run, ever)
    /\ run.status = "PASS" => Progress(run, ever)

RunsInv == runs \in [Runs -> RunState] /\ \A r \in Runs : RunSound(runs[r], held)

\* A run that is there stays, and one with a verdict has it for good.
RunsGrow ==
    \A r \in Runs : /\ runs[r].status \in Verdicts => runs'[r].status = runs[r].status
                    /\ runs[r].status # "none" => runs'[r].status # "none"

\* The ways the steps of a scenario write its run.
RunOf(scenario, status, at, jobs, next, open, completed, batch) ==
    [scenario |-> scenario, status |-> status, at |-> at, jobs |-> jobs, next |-> next,
     open |-> open, completed |-> completed, batch |-> batch]

LEMMA RunFields ==
    ASSUME NEW v \in RunState
    PROVE  /\ \A t :
                [v EXCEPT !.at = t]
                   = RunOf(v.scenario, v.status, t, v.jobs, v.next, v.open, v.completed, v.batch)
           /\ \A t :
                [v EXCEPT !.jobs = t]
                   = RunOf(v.scenario, v.status, v.at, t, v.next, v.open, v.completed, v.batch)
           /\ \A t, u :
                [v EXCEPT !.at = t, !.open = u]
                   = RunOf(v.scenario, v.status, t, v.jobs, v.next, u, v.completed, v.batch)
           /\ \A t, u :
                [v EXCEPT !.status = t, !.at = u]
                   = RunOf(v.scenario, t, u, v.jobs, v.next, v.open, v.completed, v.batch)
           /\ \A t, u, w :
                [v EXCEPT !.next = t, !.open = u, !.completed = w]
                   = RunOf(v.scenario, v.status, v.at, v.jobs, t, u, w, v.batch)
<1>1. PICK a, b, c, d, e, f, g, h : v = RunOf(a, b, c, d, e, f, g, h)
  BY DEF RunState, RunOf
<1>2. /\ v.scenario = a /\ v.status = b /\ v.at = c /\ v.jobs = d /\ v.next = e
      /\ v.open = f /\ v.completed = g /\ v.batch = h
  BY <1>1 DEF RunOf
<1>3. ASSUME NEW t
      PROVE  [v EXCEPT !.at = t]
                = RunOf(v.scenario, v.status, t, v.jobs, v.next, v.open, v.completed, v.batch)
  <2>1. [v EXCEPT !.at = t] = RunOf(a, b, t, d, e, f, g, h)
    BY <1>1 DEF RunOf
  <2>. QED BY <1>2, <2>1, Zenon
<1>4. ASSUME NEW t
      PROVE  [v EXCEPT !.jobs = t]
                = RunOf(v.scenario, v.status, v.at, t, v.next, v.open, v.completed, v.batch)
  <2>1. [v EXCEPT !.jobs = t] = RunOf(a, b, c, t, e, f, g, h)
    BY <1>1 DEF RunOf
  <2>. QED BY <1>2, <2>1, Zenon
<1>5. ASSUME NEW t, NEW u
      PROVE  [v EXCEPT !.at = t, !.open = u]
                = RunOf(v.scenario, v.status, t, v.jobs, v.next, u, v.completed, v.batch)
  <2>. DEFINE m1 == [v EXCEPT !.at = t]
              m2 == [m1 EXCEPT !.open = u]
  <2>1. [v EXCEPT !.at = t, !.open = u] = m2
    OBVIOUS
  <2>2. m1 = RunOf(a, b, t, d, e, f, g, h)
    BY <1>1 DEF RunOf
  <2>. HIDE DEF m1
  <2>3. m2 = RunOf(a, b, t, d, e, u, g, h)
    BY <2>2 DEF RunOf
  <2>. HIDE DEF m2
  <2>4. RunOf(a, b, t, d, e, u, g, h) = RunOf(v.scenario, v.status, t, v.jobs, v.next, u, v.completed, v.batch)
    BY <1>2, Zenon
  <2>. QED BY <2>1, <2>3, <2>4, Zenon
<1>6. ASSUME NEW t, NEW u
      PROVE  [v EXCEPT !.status = t, !.at = u]
                = RunOf(v.scenario, t, u, v.jobs, v.next, v.open, v.completed, v.batch)
  <2>. DEFINE m1 == [v EXCEPT !.status = t]
              m2 == [m1 EXCEPT !.at = u]
  <2>1. [v EXCEPT !.status = t, !.at = u] = m2
    OBVIOUS
  <2>2. m1 = RunOf(a, t, c, d, e, f, g, h)
    BY <1>1 DEF RunOf
  <2>. HIDE DEF m1
  <2>3. m2 = RunOf(a, t, u, d, e, f, g, h)
    BY <2>2 DEF RunOf
  <2>. HIDE DEF m2
  <2>4. RunOf(a, t, u, d, e, f, g, h) = RunOf(v.scenario, t, u, v.jobs, v.next, v.open, v.completed, v.batch)
    BY <1>2, Zenon
  <2>. QED BY <2>1, <2>3, <2>4, Zenon
<1>7. ASSUME NEW t, NEW u, NEW w
      PROVE  [v EXCEPT !.next = t, !.open = u, !.completed = w]
                = RunOf(v.scenario, v.status, v.at, v.jobs, t, u, w, v.batch)
  <2>. DEFINE m1 == [v EXCEPT !.next = t]
              m2 == [m1 EXCEPT !.open = u]
              m3 == [m2 EXCEPT !.completed = w]
  <2>1. [v EXCEPT !.next = t, !.open = u, !.completed = w] = m3
    OBVIOUS
  <2>2. m1 = RunOf(a, b, c, d, t, f, g, h)
    BY <1>1 DEF RunOf
  <2>. HIDE DEF m1
  <2>3. m2 = RunOf(a, b, c, d, t, u, g, h)
    BY <2>2 DEF RunOf
  <2>. HIDE DEF m2
  <2>4. m3 = RunOf(a, b, c, d, t, u, w, h)
    BY <2>3 DEF RunOf
  <2>. HIDE DEF m3
  <2>5. RunOf(a, b, c, d, t, u, w, h) = RunOf(v.scenario, v.status, v.at, v.jobs, t, u, w, v.batch)
    BY <1>2, Zenon
  <2>. QED BY <2>1, <2>4, <2>5, Zenon
<1>. QED BY <1>3, <1>4, <1>5, <1>6, <1>7

LEMMA RangeOfEmpty == Range(<<>>) = {}
  BY DEF Range

LEMMA RangeOfSome ==
    ASSUME NEW S, NEW s \in Seq(S), s # <<>>
    PROVE  \E x \in Range(s) : TRUE
<1>1. 1 \in DOMAIN s
  OBVIOUS
<1>. QED BY <1>1 DEF Range

LEMMA AppendIn ==
    ASSUME NEW S, NEW s \in Seq(S), NEW x \in S
    PROVE  Append(s, x) \in Seq(S)
  OBVIOUS

LEMMA RangeOfAppend ==
    ASSUME NEW S, NEW s \in Seq(S), NEW x \in S
    PROVE  Range(Append(s, x)) = Range(s) \cup {x}
<1>. DEFINE t == Append(s, x)
<1>1. /\ DOMAIN t = DOMAIN s \cup {Len(s) + 1} /\ t[Len(s) + 1] = x
      /\ \A k \in DOMAIN s : t[k] = s[k]
  OBVIOUS
<1>. HIDE DEF t
<1>2. Range(t) = {t[k] : k \in DOMAIN t} /\ Range(s) = {s[k] : k \in DOMAIN s}
  BY DEF Range
<1>3. Range(t) = Range(s) \cup {x}
  BY <1>1, <1>2
<1>. QED BY <1>3 DEF t

LEMMA JobsStay ==
    ASSUME NEW ever, NEW later, \A j \in Jobs : ever[j] \subseteq later[j],
           NEW id \in Jobs \cup {Lost}
    PROVE  /\ HasEnded(id, ever) => HasEnded(id, later)
           /\ HasCompleted(id, ever) => HasCompleted(id, later)
  BY DEF HasEnded, HasCompleted

LEMMA SoundStays ==
    ASSUME NEW ever, NEW later, \A j \in Jobs : ever[j] \subseteq later[j],
           NEW run, RunSound(run, ever)
    PROVE  RunSound(run, later)
<1>1. run \in RunState /\ run.jobs \in Seq(Jobs \cup {Lost})
  BY DEF RunSound, RunState
<1>2. \A i \in DOMAIN run.jobs :
         /\ HasEnded(run.jobs[i], ever) => HasEnded(run.jobs[i], later)
         /\ HasCompleted(run.jobs[i], ever) => HasCompleted(run.jobs[i], later)
  <2>1. \A i \in DOMAIN run.jobs : run.jobs[i] \in Jobs \cup {Lost}
    BY <1>1
  <2>. QED BY <2>1, JobsStay
<1>3. Polls(run, later)
  <2>1. run.at = "poll" => DOMAIN run.jobs = 1 .. BatchSize
    BY <1>1 DEF RunSound, Polls
  <2>. QED BY <1>2, <2>1 DEF RunSound, Polls
<1>4. run.status = "PASS" => Progress(run, later)
  BY <1>2 DEF RunSound, Progress
<1>. QED BY <1>3, <1>4 DEF RunSound

\* One run is written.
LEMMA RunWrite ==
    ASSUME RunsInv, HeldGrows, NEW r \in Runs, NEW run, runs' = [runs EXCEPT ![r] = run],
           RunSound(run, held'), runs[r].status \in Verdicts => run.status = runs[r].status,
           runs[r].status # "none" => run.status # "none"
    PROVE  RunsInv' /\ RunsGrow
<1>1. run \in RunState /\ \A k \in Runs : runs'[k] = IF k = r THEN run ELSE runs[k]
  BY DEF RunsInv, RunSound
<1>2. runs' \in [Runs -> RunState]
  BY <1>1 DEF RunsInv
<1>3. \A k \in Runs : RunSound(runs'[k], held')
  <2>1. \A k \in Runs : RunSound(runs[k], held')
    BY SoundStays DEF RunsInv, HeldGrows
  <2>. QED BY <1>1, <2>1
<1>. QED BY <1>1, <1>2, <1>3 DEF RunsInv, RunsGrow

LEMMA RunsIdle ==
    ASSUME RunsInv, HeldGrows, UNCHANGED runs
    PROVE  RunsInv' /\ RunsGrow
<1>1. \A k \in Runs : RunSound(runs[k], held')
  BY SoundStays DEF RunsInv, HeldGrows
<1>. QED BY <1>1 DEF RunsInv, RunsGrow

\* A step of a run that has no verdict yet.
LEMMA RunMoves ==
    ASSUME RunsInv, HeldGrows, NEW r \in Runs, runs[r].status \notin Verdicts,
           NEW run \in RunState, Polls(run, held'), run.status \notin Verdicts,
           run.status = "none" => runs[r].status = "none",
           runs' = [runs EXCEPT ![r] = run]
    PROVE  RunsInv' /\ RunsGrow
<1>1. run.status # "PASS"
  BY DEF Verdicts
<1>2. RunSound(run, held')
  BY <1>1 DEF RunSound
<1>. QED BY <1>2, RunWrite

LEMMA RunHasEnded ==
    ASSUME RunsInv, HeldGrows, NEW r \in Runs, NEW status \in Verdicts, Ends(r, status),
           runs[r].at # "done", status = "PASS" => Progress(runs[r], held)
    PROVE  RunsInv' /\ RunsGrow
<1>. DEFINE old == runs[r]
            run == RunOf(old.scenario, status, "done", old.jobs, old.next, old.open, old.completed,
                         old.batch)
<1>1. old \in RunState /\ RunSound(old, held) /\ old.at # "done"
  BY DEF RunsInv
<1>2. [old EXCEPT !.status = status, !.at = "done"] = run
  <2>. HIDE DEF old
  <2>. QED BY <1>1, RunFields
<1>3. runs' = [runs EXCEPT ![r] = run]
  <2>1. runs' = [runs EXCEPT ![r] = [old EXCEPT !.status = status, !.at = "done"]]
    BY DEF Ends
  <2>. QED BY <1>2, <2>1
<1>. HIDE DEF old
<1>4. /\ run.scenario = old.scenario /\ run.status = status /\ run.at = "done" /\ run.jobs = old.jobs
      /\ run.open = old.open /\ run.completed = old.completed
  BY DEF RunOf
<1>5. run \in RunState
  <2>1. status \in RunStatus /\ "done" \in RunAt
    BY DEF RunStatus, RunAt
  <2>. QED BY <1>1, <2>1 DEF RunOf, RunState
<1>. HIDE DEF run
<1>6. RunSound(run, held)
  <2>1. Polls(run, held)
    BY <1>1, <1>4 DEF Polls, RunSound
  <2>2. run.status = "PASS" => Progress(run, held)
    BY <1>4 DEF Progress, old
  <2>. QED BY <1>4, <1>5, <2>1, <2>2 DEF RunSound
<1>7. RunSound(run, held')
  BY <1>6, SoundStays DEF HeldGrows
<1>8. old.status \notin Verdicts
  BY <1>1 DEF RunSound
<1>9. run.status # "none"
  BY <1>4 DEF Verdicts
<1>. QED BY <1>3, <1>7, <1>8, <1>9, RunWrite DEF old

LEMMA RunFacts ==
    ASSUME RunsInv, NEW r \in Runs
    PROVE  /\ runs[r] \in RunState /\ runs[r].scenario \in Scenarios \cup {"none"}
           /\ runs[r].jobs \in Seq(Jobs \cup {Lost}) /\ runs[r].next \in 1 .. BatchSize + 1
           /\ runs[r].open \in SUBSET (1 .. BatchSize) /\ runs[r].completed \in Seq(1 .. BatchSize)
           /\ runs[r].batch \in 0 .. Batches /\ runs[r].at \in RunAt
           /\ \A i \in DOMAIN runs[r].jobs : runs[r].jobs[i] \in Jobs \cup {Lost}
           /\ RunSound(runs[r], held) /\ Polls(runs[r], held)
           /\ runs[r].at # "done" => runs[r].status \notin Verdicts
           /\ runs[r].status \notin Verdicts => runs[r].status \in {"none", "RUNNING"}
<1>1. runs[r] \in RunState /\ RunSound(runs[r], held)
  BY DEF RunsInv
<1>2. /\ runs[r].scenario \in Scenarios \cup {"none"} /\ runs[r].status \in RunStatus
      /\ runs[r].jobs \in Seq(Jobs \cup {Lost}) /\ runs[r].next \in 1 .. BatchSize + 1
      /\ runs[r].open \in SUBSET (1 .. BatchSize) /\ runs[r].completed \in Seq(1 .. BatchSize)
      /\ runs[r].batch \in 0 .. Batches /\ runs[r].at \in RunAt
  BY <1>1 DEF RunState
<1>3. \A i \in DOMAIN runs[r].jobs : runs[r].jobs[i] \in Jobs \cup {Lost}
  BY <1>2
<1>. QED BY <1>1, <1>2, <1>3 DEF RunSound, RunStatus

\* What a run has seen of its jobs stays true.
LEMMA SeenStays ==
    ASSUME RunsInv, HeldGrows, NEW r \in Runs
    PROVE  /\ \A i \in Range(runs[r].completed) :
                 i \in DOMAIN runs[r].jobs /\ HasCompleted(runs[r].jobs[i], held')
           /\ runs[r].at = "poll" /\ runs[r].scenario = "priority" =>
                 \A i \in (1 .. BatchSize) \ runs[r].open : HasEnded(runs[r].jobs[i], held')
<1>1. RunSound(runs[r], held')
  BY SoundStays DEF RunsInv, HeldGrows
<1>. QED BY <1>1 DEF RunSound, Polls

\* A run that has done nothing yet.
LEMMA Fresh ==
    ASSUME ConsoleAssumption, NEW ever, NEW scenario \in Scenarios
    PROVE  /\ RunSound(NewRun, ever) /\ NewRun.status = "none"
           /\ RunSound(Started(scenario), ever) /\ Started(scenario).status = "RUNNING"
<1>. DEFINE ids == <<>>
            none == {}
            unseen == <<>>
            first == 1
            batch == 0
            n1 == [NewRun EXCEPT !.scenario = scenario]
            n2 == [n1 EXCEPT !.status = "RUNNING"]
            n3 == [n2 EXCEPT !.at = "token"]
<1>1. /\ ids \in Seq(Jobs \cup {Lost}) /\ Len(ids) <= BatchSize /\ none \in SUBSET (1 .. BatchSize)
      /\ unseen \in Seq(1 .. BatchSize)
      /\ first \in 1 .. BatchSize + 1 /\ batch \in 0 .. Batches
  BY DEF ConsoleAssumption
<1>2. \A i \in Range(unseen) : i \in DOMAIN ids /\ HasCompleted(ids[i], ever)
  BY RangeOfEmpty
<1>3. NewRun = RunOf("none", "none", "none", ids, first, none, unseen, batch) /\ Started(scenario) = n3
  BY DEF NewRun, Started, RunOf
<1>. HIDE DEF ids, none, unseen, first, batch
<1>4. ASSUME NEW s \in Scenarios \cup {"none"}, NEW at \in {"none", "token"}, NEW status \in {"none", "RUNNING"}
      PROVE  RunSound(RunOf(s, status, at, ids, first, none, unseen, batch), ever)
  <2>. DEFINE run == RunOf(s, status, at, ids, first, none, unseen, batch)
  <2>1. at \in RunAt /\ at # "poll" /\ status \in RunStatus /\ status \notin Verdicts /\ status # "PASS"
    BY DEF RunAt, RunStatus, Verdicts
  <2>2. run \in RunState
    BY <1>1, <2>1 DEF RunOf, RunState
  <2>3. run.status = status /\ run.at = at /\ run.jobs = ids /\ run.completed = unseen
    BY DEF RunOf
  <2>. HIDE DEF run
  <2>4. Polls(run, ever)
    BY <1>1, <1>2, <2>1, <2>3 DEF Polls
  <2>. QED BY <2>1, <2>2, <2>3, <2>4 DEF RunSound, run
<1>5. n1 = RunOf(scenario, "none", "none", ids, first, none, unseen, batch)
  BY <1>3 DEF RunOf
<1>. HIDE DEF n1
<1>6. n2 = RunOf(scenario, "RUNNING", "none", ids, first, none, unseen, batch)
  BY <1>5 DEF RunOf
<1>. HIDE DEF n2
<1>7. n3 = RunOf(scenario, "RUNNING", "token", ids, first, none, unseen, batch)
  BY <1>6 DEF RunOf
<1>. HIDE DEF n3
<1>8. NewRun.status = "none" /\ Started(scenario).status = "RUNNING"
  BY <1>3, <1>7 DEF RunOf
<1>9. RunSound(NewRun, ever) /\ RunSound(Started(scenario), ever)
  BY <1>3, <1>4, <1>7
<1>. QED BY <1>8, <1>9

LEMMA Starts ==
    ASSUME RunsInv, HeldGrows, ConsoleAssumption, NEW r \in Runs, NEW scenario \in Scenarios,
           StartRun(r, scenario)
    PROVE  RunsInv' /\ RunsGrow
<1>. DEFINE run == Started(scenario)
<1>1. RunSound(run, held') /\ run.status = "RUNNING"
  BY Fresh
<1>2. runs' = [runs EXCEPT ![r] = run] /\ runs[r].status \notin Verdicts
  BY DEF StartRun, Verdicts
<1>. HIDE DEF run
<1>. QED BY <1>1, <1>2, RunWrite

LEMMA TokenGot ==
    ASSUME RunsInv, HeldGrows, NEW r \in Runs, GetToken(r)
    PROVE  RunsInv' /\ RunsGrow
<1>. DEFINE old == runs[r]
            run == RunOf(old.scenario, old.status, "submit", old.jobs, old.next, old.open, old.completed,
                         old.batch)
<1>1. runs' = [runs EXCEPT ![r] = [old EXCEPT !.at = "submit"]] /\ old.at = "token"
  BY DEF GetToken
<1>2. /\ old \in RunState /\ old.jobs \in Seq(Jobs \cup {Lost}) /\ old.next \in 1 .. BatchSize + 1
      /\ old.open \in SUBSET (1 .. BatchSize) /\ old.completed \in Seq(1 .. BatchSize)
      /\ old.batch \in 0 .. Batches /\ Len(old.jobs) <= BatchSize
  BY RunFacts DEF Polls
<1>3. [old EXCEPT !.at = "submit"] = run
  <2>. HIDE DEF old
  <2>. QED BY <1>2, RunFields
<1>4. runs' = [runs EXCEPT ![r] = run]
  BY <1>1, <1>3
<1>5. "submit" \in RunAt /\ "submit" # "poll" /\ runs[r].at # "done"
  BY <1>1 DEF RunAt
<1>6. \A i \in Range(old.completed) : i \in DOMAIN old.jobs /\ HasCompleted(old.jobs[i], held')
  BY SeenStays
<1>7. /\ old.status \notin Verdicts /\ old.status \in RunStatus
      /\ old.scenario \in Scenarios \cup {"none"}
  BY <1>2, <1>5, RunFacts DEF RunState
<1>8. run \in RunState
  BY <1>2, <1>5, <1>7 DEF RunOf, RunState
<1>9. /\ run.status = old.status /\ run.at = "submit" /\ run.jobs = old.jobs
      /\ run.completed = old.completed
  BY DEF RunOf
<1>. HIDE DEF run
<1>10. Polls(run, held')
  BY <1>2, <1>6, <1>9 DEF Polls
<1>. QED BY <1>4, <1>7, <1>8, <1>9, <1>10, RunMoves

LEMMA Submits ==
    ASSUME RunsInv, HeldGrows, ConsoleAssumption, NEW r \in Runs, NEW new \in SUBSET Jobs, Submit(r, new)
    PROVE  RunsInv' /\ RunsGrow
<1>. DEFINE old == runs[r]
<1>1. PICK id \in Jobs \cup {Lost} : runs' = [runs EXCEPT ![r].jobs = Append(@, id)]
  BY DEF Submit
<1>2. old.at = "submit" /\ Len(old.jobs) < BatchSize
  BY DEF Submit
<1>3. /\ old \in RunState /\ old.jobs \in Seq(Jobs \cup {Lost}) /\ old.next \in 1 .. BatchSize + 1
      /\ old.open \in SUBSET (1 .. BatchSize) /\ old.completed \in Seq(1 .. BatchSize)
      /\ old.batch \in 0 .. Batches /\ old.at \in RunAt
  BY RunFacts
<1>. DEFINE ids == Append(old.jobs, id)
            run == RunOf(old.scenario, old.status, old.at, ids, old.next, old.open, old.completed,
                         old.batch)
<1>4. runs' = [runs EXCEPT ![r] = [old EXCEPT !.jobs = ids]]
  BY <1>1
<1>5. ids \in Seq(Jobs \cup {Lost}) /\ Len(ids) <= BatchSize
  <2>. HIDE DEF old
  <2>. QED BY <1>2, <1>3 DEF ConsoleAssumption
<1>6. \A i \in DOMAIN old.jobs : i \in DOMAIN ids /\ ids[i] = old.jobs[i]
  <2>. HIDE DEF old
  <2>. QED BY <1>3
<1>7. \A i \in Range(old.completed) : i \in DOMAIN old.jobs /\ HasCompleted(old.jobs[i], held')
  BY SeenStays
<1>8. \A i \in Range(old.completed) : i \in DOMAIN ids /\ HasCompleted(ids[i], held')
  BY <1>6, <1>7
<1>. HIDE DEF ids
<1>9. [old EXCEPT !.jobs = ids] = run
  <2>. HIDE DEF old
  <2>. QED BY <1>3, RunFields
<1>10. runs' = [runs EXCEPT ![r] = run] /\ old.at # "poll" /\ runs[r].at # "done"
  BY <1>2, <1>4, <1>9
<1>11. /\ old.status \notin Verdicts /\ old.status \in RunStatus
       /\ old.scenario \in Scenarios \cup {"none"}
  BY <1>3, <1>10, RunFacts DEF RunState
<1>12. run \in RunState
  BY <1>3, <1>5, <1>11 DEF RunOf, RunState
<1>13. run.status = old.status /\ run.at = old.at /\ run.jobs = ids /\ run.completed = old.completed
  BY DEF RunOf
<1>. HIDE DEF run
<1>14. Polls(run, held')
  BY <1>5, <1>8, <1>10, <1>13 DEF Polls
<1>. QED BY <1>10, <1>11, <1>12, <1>13, <1>14, RunMoves

LEMMA StartsPolling ==
    ASSUME RunsInv, HeldGrows, NEW r \in Runs, StartPolling(r)
    PROVE  RunsInv' /\ RunsGrow
<1>. DEFINE old == runs[r]
            all == 1 .. BatchSize
            run == RunOf(old.scenario, old.status, "poll", old.jobs, old.next, all, old.completed, old.batch)
<1>1. /\ runs' = [runs EXCEPT ![r] = [old EXCEPT !.at = "poll", !.open = all]]
      /\ old.at = "submit" /\ Len(old.jobs) = BatchSize
  BY DEF StartPolling
<1>2. /\ old \in RunState /\ old.jobs \in Seq(Jobs \cup {Lost}) /\ old.next \in 1 .. BatchSize + 1
      /\ old.completed \in Seq(1 .. BatchSize) /\ old.batch \in 0 .. Batches
      /\ Len(old.jobs) <= BatchSize
  BY RunFacts DEF Polls
<1>3. all \in SUBSET (1 .. BatchSize) /\ \A i \in (1 .. BatchSize) \ all : HasEnded(old.jobs[i], held')
  OBVIOUS
<1>. HIDE DEF all
<1>4. [old EXCEPT !.at = "poll", !.open = all] = run
  <2>. HIDE DEF old
  <2>. QED BY <1>2, RunFields
<1>5. runs' = [runs EXCEPT ![r] = run]
  BY <1>1, <1>4
<1>6. "poll" \in RunAt /\ runs[r].at # "done"
  BY <1>1 DEF RunAt
<1>7. \A i \in Range(old.completed) : i \in DOMAIN old.jobs /\ HasCompleted(old.jobs[i], held')
  BY SeenStays
<1>8. /\ old.status \notin Verdicts /\ old.status \in RunStatus
      /\ old.scenario \in Scenarios \cup {"none"}
  BY <1>2, <1>6, RunFacts DEF RunState
<1>9. run \in RunState
  BY <1>2, <1>3, <1>6, <1>8 DEF RunOf, RunState
<1>10. /\ run.status = old.status /\ run.at = "poll" /\ run.jobs = old.jobs /\ run.open = all
       /\ run.completed = old.completed
  BY DEF RunOf
<1>. HIDE DEF run
<1>11. Polls(run, held')
  BY <1>1, <1>2, <1>3, <1>7, <1>10 DEF Polls
<1>. QED BY <1>5, <1>8, <1>9, <1>10, <1>11, RunMoves

LEMMA Polled ==
    ASSUME RunsInv, FeedInv, HeldGrows, ConsoleAssumption, NEW r \in Runs, Poll(r)
    PROVE  RunsInv' /\ RunsGrow
<1>. DEFINE old == runs[r]
            i == old.next
<1>1. PICK status : /\ status \in IF old.scenario = "priority" /\ i \notin old.open THEN {"skipped"}
                                  ELSE Answers(old.jobs[i])
                    /\ runs' = [runs EXCEPT ![r] =
                          [@ EXCEPT !.next = IF old.scenario = "benchmark" /\ status \notin Ended
                                             THEN BatchSize + 1 ELSE i + 1,
                                    !.open = IF status \in Ended THEN old.open \ {i} ELSE old.open,
                                    !.completed = IF status = "COMPLETED" THEN Append(old.completed, i)
                                                  ELSE old.completed]]
  BY DEF Poll
<1>2. old.at = "poll" /\ i <= BatchSize /\ BatchSize \in Nat
  BY DEF Poll, ConsoleAssumption
<1>3. /\ old \in RunState /\ old.jobs \in Seq(Jobs \cup {Lost}) /\ i \in 1 .. BatchSize + 1
      /\ old.open \in SUBSET (1 .. BatchSize) /\ old.completed \in Seq(1 .. BatchSize)
      /\ old.batch \in 0 .. Batches /\ old.at \in RunAt /\ Len(old.jobs) = BatchSize
  BY <1>2, RunFacts DEF Polls
<1>. HIDE DEF old
<1>4. i \in 1 .. BatchSize /\ DOMAIN old.jobs = 1 .. BatchSize /\ old.jobs[i] \in Jobs \cup {Lost}
  BY <1>2, <1>3
<1>5. status \in Ended => old.jobs[i] # Lost /\ status \in held'[old.jobs[i]]
  <2>1. old.jobs[i] # Lost => job[old.jobs[i]].status \in held'[old.jobs[i]]
    BY <1>4 DEF FeedInv, HeldGrows
  <2>2. status \in Ended => old.jobs[i] # Lost /\ status = job[old.jobs[i]].status
    BY <1>1 DEF Ended, Answers
  <2>. QED BY <2>1, <2>2
<1>6. status \in Ended => HasEnded(old.jobs[i], held')
  BY <1>5 DEF HasEnded
<1>7. status = "COMPLETED" => HasCompleted(old.jobs[i], held')
  BY <1>5 DEF HasCompleted, Ended
<1>. DEFINE next == IF old.scenario = "benchmark" /\ status \notin Ended THEN BatchSize + 1 ELSE i + 1
            open == IF status \in Ended THEN old.open \ {i} ELSE old.open
            completed == IF status = "COMPLETED" THEN Append(old.completed, i) ELSE old.completed
            run == RunOf(old.scenario, old.status, old.at, old.jobs, next, open, completed, old.batch)
<1>8. next \in 1 .. BatchSize + 1
  BY <1>2, <1>4
<1>9. open \in SUBSET (1 .. BatchSize) /\ completed \in Seq(1 .. BatchSize)
  <2>1. open \in SUBSET (1 .. BatchSize)
    BY <1>3, <1>4
  <2>2. Append(old.completed, i) \in Seq(1 .. BatchSize)
    BY <1>3, <1>4, AppendIn
  <2>3. completed \in {old.completed, Append(old.completed, i)}
    OBVIOUS
  <2>. HIDE DEF open, completed
  <2>. QED BY <1>3, <2>1, <2>2, <2>3
<1>10. /\ \A k \in Range(old.completed) : k \in DOMAIN old.jobs /\ HasCompleted(old.jobs[k], held')
       /\ old.scenario = "priority" => \A k \in (1 .. BatchSize) \ old.open : HasEnded(old.jobs[k], held')
  BY <1>2, SeenStays DEF old
<1>11. \A k \in Range(completed) : k \in DOMAIN old.jobs /\ HasCompleted(old.jobs[k], held')
  <2>1. Range(completed) \subseteq Range(old.completed) \cup {i}
    BY <1>3, <1>4, RangeOfAppend
  <2>2. CASE status = "COMPLETED"
    BY <1>4, <1>7, <1>10, <2>1, <2>2
  <2>3. CASE status # "COMPLETED"
    BY <1>10, <2>3
  <2>. QED BY <2>2, <2>3
<1>12. old.at = "poll" /\ old.scenario = "priority" =>
          \A k \in (1 .. BatchSize) \ open : HasEnded(old.jobs[k], held')
  BY <1>6, <1>10
<1>13. runs' = [runs EXCEPT ![r] = [old EXCEPT !.next = next, !.open = open, !.completed = completed]]
  BY <1>1 DEF old
<1>. HIDE DEF next, open, completed
<1>14. [old EXCEPT !.next = next, !.open = open, !.completed = completed] = run
  <2>1. \A t, u, w : [old EXCEPT !.next = t, !.open = u, !.completed = w]
                        = RunOf(old.scenario, old.status, old.at, old.jobs, t, u, w, old.batch)
    BY <1>3, RunFields
  <2>. QED BY <2>1, Zenon
<1>15. runs' = [runs EXCEPT ![r] = run]
  BY <1>13, <1>14
<1>16. Len(old.jobs) <= BatchSize /\ old.at # "done"
  BY <1>2, <1>3
<1>17. /\ old.status \notin Verdicts /\ old.status \in RunStatus
       /\ old.scenario \in Scenarios \cup {"none"}
  BY <1>3, <1>16, RunFacts DEF RunState, old
<1>18. run \in RunState
  BY <1>3, <1>8, <1>9, <1>17 DEF RunOf, RunState
<1>19. /\ run.status = old.status /\ run.scenario = old.scenario /\ run.at = old.at
       /\ run.jobs = old.jobs /\ run.open = open /\ run.completed = completed
  BY DEF RunOf
<1>. HIDE DEF run
<1>20. Polls(run, held')
  BY <1>3, <1>11, <1>12, <1>16, <1>19 DEF Polls
<1>. QED BY <1>15, <1>17, <1>18, <1>19, <1>20, RunMoves DEF old

LEMMA Passes ==
    ASSUME RunsInv, HeldGrows, ConsoleAssumption, NEW r \in Runs, NextPass(r)
    PROVE  RunsInv' /\ RunsGrow
<1>. DEFINE old == runs[r]
            open == IF old.scenario = "priority" THEN old.open ELSE 1 .. BatchSize
            completed == IF old.scenario = "priority" THEN old.completed ELSE <<>>
            run == RunOf(old.scenario, old.status, old.at, old.jobs, 1, open, completed, old.batch)
<1>1. /\ runs' = [runs EXCEPT ![r] = [old EXCEPT !.next = 1, !.open = open, !.completed = completed]]
      /\ old.at = "poll"
  BY Zenon DEF NextPass
<1>2. /\ old \in RunState /\ old.jobs \in Seq(Jobs \cup {Lost})
      /\ old.open \in SUBSET (1 .. BatchSize) /\ old.completed \in Seq(1 .. BatchSize)
      /\ old.batch \in 0 .. Batches /\ old.at \in RunAt /\ Len(old.jobs) = BatchSize
      /\ Len(old.jobs) <= BatchSize
  BY <1>1, RunFacts DEF Polls
<1>3. 1 \in 1 .. BatchSize + 1
  BY DEF ConsoleAssumption
<1>4. /\ \A k \in Range(old.completed) : k \in DOMAIN old.jobs /\ HasCompleted(old.jobs[k], held')
      /\ old.scenario = "priority" => \A k \in (1 .. BatchSize) \ old.open : HasEnded(old.jobs[k], held')
  BY <1>1, SeenStays
<1>. HIDE DEF old
<1>5. open \in SUBSET (1 .. BatchSize) /\ completed \in Seq(1 .. BatchSize)
  <2>1. open \in SUBSET (1 .. BatchSize)
    BY <1>2
  <2>2. <<>> \in Seq(1 .. BatchSize)
    OBVIOUS
  <2>3. completed \in {old.completed, <<>>}
    OBVIOUS
  <2>. HIDE DEF open, completed
  <2>. QED BY <1>2, <2>1, <2>2, <2>3
<1>6. \A k \in Range(completed) : k \in DOMAIN old.jobs /\ HasCompleted(old.jobs[k], held')
  BY <1>4, RangeOfEmpty
<1>7. old.at = "poll" /\ old.scenario = "priority" =>
         \A k \in (1 .. BatchSize) \ open : HasEnded(old.jobs[k], held')
  BY <1>4
<1>. HIDE DEF open, completed
<1>8. [old EXCEPT !.next = 1, !.open = open, !.completed = completed] = run
  <2>1. \A t, u, w : [old EXCEPT !.next = t, !.open = u, !.completed = w]
                        = RunOf(old.scenario, old.status, old.at, old.jobs, t, u, w, old.batch)
    BY <1>2, RunFields
  <2>. QED BY <2>1, Zenon
<1>9. runs' = [runs EXCEPT ![r] = run] /\ old.at # "done"
  BY <1>1, <1>8
<1>10. /\ old.status \notin Verdicts /\ old.status \in RunStatus
       /\ old.scenario \in Scenarios \cup {"none"}
  BY <1>2, <1>9, RunFacts DEF RunState, old
<1>11. run \in RunState
  BY <1>2, <1>3, <1>5, <1>10 DEF RunOf, RunState
<1>12. /\ run.status = old.status /\ run.scenario = old.scenario /\ run.at = old.at
       /\ run.jobs = old.jobs /\ run.open = open /\ run.completed = completed
  BY DEF RunOf
<1>. HIDE DEF run
<1>13. Polls(run, held')
  BY <1>2, <1>6, <1>7, <1>12 DEF Polls
<1>. QED BY <1>9, <1>10, <1>11, <1>12, <1>13, RunMoves DEF old

LEMMA Concluded ==
    ASSUME RunsInv, HeldGrows, ConsoleAssumption, NEW r \in Runs, Conclude(r)
    PROVE  RunsInv' /\ RunsGrow
<1>. DEFINE old == runs[r]
<1>1. old.at = "poll"
  BY DEF Conclude
<1>2. /\ old \in RunState /\ old.jobs \in Seq(Jobs \cup {Lost})
      /\ old.open \in SUBSET (1 .. BatchSize) /\ old.batch \in 0 .. Batches /\ Len(old.jobs) = BatchSize
      /\ Polls(old, held) /\ old.completed \in Seq(1 .. BatchSize)
  BY <1>1, RunFacts DEF Polls
<1>3. CASE Ends(r, Verdict(old))
  <2>1. Verdict(old) \in Verdicts
    BY DEF Verdict, Verdicts
  <2>2. ASSUME Verdict(old) = "PASS"
        PROVE  Progress(old, held)
    <3>. HIDE DEF old
    <3>1. (old.scenario = "priority" => old.open = {}) /\ (old.scenario = "recovery" => old.completed # <<>>)
      BY <2>2 DEF Verdict
    <3>2. DOMAIN old.jobs = 1 .. BatchSize
      BY <1>2
    <3>3. old.scenario = "recovery" => \E k \in DOMAIN old.jobs : HasCompleted(old.jobs[k], held)
      <4>1. old.scenario = "recovery" => \E k \in Range(old.completed) : TRUE
        BY <1>2, <3>1, RangeOfSome
      <4>. QED BY <1>2, <4>1 DEF Polls
    <3>4. old.scenario = "priority" => \A k \in DOMAIN old.jobs : HasEnded(old.jobs[k], held)
      BY <1>1, <1>2, <3>1, <3>2 DEF Polls
    <3>. QED BY <3>3, <3>4 DEF Progress
  <2>3. old.at # "done"
    BY <1>1
  <2>. QED BY <1>3, <2>1, <2>2, <2>3, RunHasEnded
<1>4. CASE ~Ends(r, Verdict(old))
  <2>. DEFINE ids == <<>>
              none == <<>>
              batch == old.batch + 1
              run == RunOf(old.scenario, old.status, "submit", ids, 1, old.open, none, batch)
  <2>1. /\ runs' = [runs EXCEPT ![r] = [old EXCEPT !.at = "submit", !.jobs = ids, !.next = 1,
                                                  !.completed = none, !.batch = batch]]
        /\ batch < Batches
    BY <1>4, Zenon DEF Conclude
  <2>2. batch \in 0 .. Batches /\ 1 \in 1 .. BatchSize + 1
    <3>. HIDE DEF old
    <3>. QED BY <1>2, <2>1 DEF ConsoleAssumption
  <2>3. ids \in Seq(Jobs \cup {Lost}) /\ Len(ids) <= BatchSize /\ none \in Seq(1 .. BatchSize)
    BY DEF ConsoleAssumption
  <2>4. \A k \in Range(none) : k \in DOMAIN ids /\ HasCompleted(ids[k], held')
    BY RangeOfEmpty
  <2>5. "submit" \in RunAt /\ "submit" # "poll" /\ runs[r].at # "done"
    BY <1>1 DEF RunAt
  <2>. HIDE DEF ids, none, batch
  <2>6. [old EXCEPT !.at = "submit", !.jobs = ids, !.next = 1, !.completed = none, !.batch = batch] = run
    <3>. HIDE DEF old
    <3>1. PICK a, b, c, d, e, f, g, h : old = RunOf(a, b, c, d, e, f, g, h)
      BY <1>2 DEF RunState, RunOf
    <3>2. old.scenario = a /\ old.status = b /\ old.open = f
      BY <3>1 DEF RunOf
    <3>. DEFINE m1 == [old EXCEPT !.at = "submit"]
                m2 == [m1 EXCEPT !.jobs = ids]
                m3 == [m2 EXCEPT !.next = 1]
                m4 == [m3 EXCEPT !.completed = none]
                m5 == [m4 EXCEPT !.batch = batch]
    <3>3. [old EXCEPT !.at = "submit", !.jobs = ids, !.next = 1, !.completed = none, !.batch = batch] = m5
      OBVIOUS
    <3>4. m1 = RunOf(a, b, "submit", d, e, f, g, h)
      BY <3>1 DEF RunOf
    <3>. HIDE DEF m1
    <3>5. m2 = RunOf(a, b, "submit", ids, e, f, g, h)
      BY <3>4 DEF RunOf
    <3>. HIDE DEF m2
    <3>6. m3 = RunOf(a, b, "submit", ids, 1, f, g, h)
      BY <3>5 DEF RunOf
    <3>. HIDE DEF m3
    <3>7. m4 = RunOf(a, b, "submit", ids, 1, f, none, h)
      BY <3>6 DEF RunOf
    <3>. HIDE DEF m4
    <3>8. m5 = RunOf(a, b, "submit", ids, 1, f, none, batch)
      BY <3>7 DEF RunOf
    <3>. HIDE DEF m5
    <3>9. RunOf(a, b, "submit", ids, 1, f, none, batch) = run
      BY <3>2, Zenon
    <3>. QED BY <3>3, <3>8, <3>9, Zenon
  <2>7. runs' = [runs EXCEPT ![r] = run]
    BY <2>1, <2>6
  <2>8. /\ old.status \notin Verdicts /\ old.status \in RunStatus
        /\ old.scenario \in Scenarios \cup {"none"}
    BY <1>2, <2>5, RunFacts DEF RunState
  <2>9. run \in RunState
    BY <1>2, <2>2, <2>3, <2>5, <2>8 DEF RunOf, RunState
  <2>10. run.status = old.status /\ run.at = "submit" /\ run.jobs = ids /\ run.completed = none
    BY DEF RunOf
  <2>. HIDE DEF run
  <2>11. Polls(run, held')
    BY <2>3, <2>4, <2>5, <2>10 DEF Polls
  <2>. QED BY <2>7, <2>8, <2>9, <2>10, <2>11, RunMoves
<1>. QED BY <1>3, <1>4

\* What the steps of the tab and of the lab service do to the runs.
ServiceMoves(r) ==
    \/ \E scenario \in Scenarios : StartRun(r, scenario)
    \/ ScenarioStep(r) \/ ScenarioThrows(r)
    \/ \E new \in SUBSET Jobs : Submit(r, new)

LEMMA RunsKeep ==
    ASSUME RunsInv, FeedInv, HeldGrows, ConsoleAssumption,
           UNCHANGED runs \/ \E r \in Runs : ServiceMoves(r)
    PROVE  RunsInv' /\ RunsGrow
<1>1. ASSUME NEW r \in Runs, ScenarioThrows(r)
      PROVE  RunsInv' /\ RunsGrow
  <2>1. Ends(r, "FAIL") /\ runs[r].at # "done" /\ "FAIL" \in Verdicts /\ "FAIL" # "PASS"
    BY <1>1 DEF ScenarioThrows, Verdicts
  <2>. QED BY <2>1, RunHasEnded
<1>2. ASSUME NEW r \in Runs, ScenarioStep(r)
      PROVE  RunsInv' /\ RunsGrow
  BY <1>2, TokenGot, StartsPolling, Polled, Passes, Concluded DEF ScenarioStep
<1>. QED BY <1>1, <1>2, RunsIdle, Starts, Submits DEF ServiceMoves

-----------------------------------------------------------------------------
(* The lab page.                                                              *)
GetState == [id : Runs, answer : {Asked, "RUNNING"} \cup Verdicts]
LabState == [shown : Shown, rendered : Shown, stream : Runs \cup {"none"}, posts : SUBSET Runs,
             gets : SUBSET GetState]

\* What the page holds of a run, beside all the runs.
Exists(state, all) == state.id \in Runs => all[state.id].status # "none"
IsTrue(state, all) == state.status \in Verdicts => all[state.id].status = state.status
Answer(get, all) ==
    /\ all[get.id].status # "none"
    /\ get.answer \in Verdicts => all[get.id].status = get.answer

Streams ==
    /\ clients \subseteq Runs /\ wire \in [Runs -> Seq(Verdicts)]
    /\ clients \subseteq {lab.stream}
    /\ \A r \in Runs : r # lab.stream => wire[r] = <<>>
    /\ \A r \in Runs : \A i \in DOMAIN wire[r] : runs[r].status = wire[r][i]

Page ==
    /\ lab \in LabState /\ saved \in Shown /\ displaced \in BOOLEAN
    /\ \A r \in lab.posts : runs[r].status # "none"
    /\ \A get \in lab.gets : Answer(get, runs)
    /\ Exists(lab.shown, runs) /\ Exists(lab.rendered, runs) /\ Exists(saved, runs)
    /\ ~displaced =>
          /\ lab.stream # "none" => lab.shown.id = lab.stream
          /\ IsTrue(lab.shown, runs) /\ IsTrue(saved, runs)

Apart ==
    /\ path # "job" => view = ClosedView
    /\ path # "lab" => lab = ClosedLab

LEMMA ShownCases ==
    ASSUME ConsoleAssumption
    PROVE  /\ NoRun \in Shown /\ NoRun.id = "none" /\ NoRun.status = "none" /\ "none" \notin Runs
           /\ "none" \notin Verdicts /\ "RUNNING" \notin Verdicts /\ Asked \notin Verdicts
           /\ \A state \in Shown :
                 /\ state = NoRun \/ state.id \in Runs
                 /\ state.status \in {"none", "RUNNING"} \cup Verdicts
                 /\ state.status \in {"RUNNING"} \cup Verdicts => state.id \in Runs
           /\ \A id \in Runs, status \in {"RUNNING"} \cup Verdicts : [id |-> id, status |-> status] \in Shown
  BY DEF ConsoleAssumption, Shown, NoRun, Verdicts, Asked

LEMMA PageFacts ==
    ASSUME Page, RunsGrow, ConsoleAssumption
    PROVE  /\ lab.shown \in Shown /\ lab.rendered \in Shown /\ lab.stream \in Runs \cup {"none"}
           /\ lab.posts \in SUBSET Runs /\ lab.gets \in SUBSET GetState
           /\ \A r \in lab.posts : runs'[r].status # "none"
           /\ \A get \in lab.gets : Answer(get, runs')
           /\ Exists(lab.shown, runs') /\ Exists(lab.rendered, runs') /\ Exists(saved, runs')
           /\ ~displaced => IsTrue(lab.shown, runs') /\ IsTrue(saved, runs')
<1>1. /\ lab.shown \in Shown /\ lab.rendered \in Shown /\ lab.stream \in Runs \cup {"none"}
      /\ lab.posts \in SUBSET Runs /\ lab.gets \in SUBSET GetState /\ saved \in Shown
  BY DEF Page, LabState
<1>2. ASSUME NEW state \in Shown, Exists(state, runs)
      PROVE  Exists(state, runs')
  BY <1>2 DEF Exists, RunsGrow
<1>3. ASSUME NEW state \in Shown, IsTrue(state, runs)
      PROVE  IsTrue(state, runs')
  <2>1. state.status \in Verdicts => state.id \in Runs
    BY ShownCases
  <2>. QED BY <1>3, <2>1 DEF IsTrue, RunsGrow
<1>4. ASSUME NEW get \in GetState, Answer(get, runs)
      PROVE  Answer(get, runs')
  BY <1>4 DEF Answer, RunsGrow, GetState
<1>5. \A r \in lab.posts : runs'[r].status # "none"
  BY <1>1 DEF Page, RunsGrow
<1>. QED BY <1>1, <1>2, <1>3, <1>4, <1>5 DEF Page

LEMMA PageIdle ==
    ASSUME Page, RunsGrow, ConsoleAssumption, UNCHANGED pageVars
    PROVE  Page'
<1>1. UNCHANGED <<lab, saved, displaced>>
  BY DEF pageVars
<1>. QED BY <1>1, PageFacts DEF Page

LEMMA StreamsClosed ==
    ASSUME CloseStreams
    PROVE  Streams'
<1>1. \A r \in Runs : wire'[r] = <<>> /\ DOMAIN wire'[r] = {}
  BY DEF CloseStreams
<1>2. wire' \in [Runs -> Seq(Verdicts)] /\ clients' = {}
  BY DEF CloseStreams
<1>. QED BY <1>1, <1>2 DEF Streams

LEMMA StreamsKeep ==
    ASSUME Streams, RunsGrow, UNCHANGED <<clients, wire>>, lab'.stream = lab.stream
    PROVE  Streams'
<1>1. ASSUME NEW r \in Runs, NEW i \in DOMAIN wire[r]
      PROVE  runs'[r].status = wire[r][i]
  <2>1. runs[r].status = wire[r][i] /\ wire[r][i] \in Verdicts
    BY DEF Streams
  <2>. QED BY <2>1 DEF RunsGrow
<1>. QED BY <1>1 DEF Streams

\* pushStatus: nothing is on its way yet of a run that ends now.
LEMMA StreamsEnd ==
    ASSUME Streams, RunsInv, RunsGrow, NEW r \in Runs, NEW status \in Verdicts, Ends(r, status),
           runs[r].at # "done", UNCHANGED lab
    PROVE  Streams'
<1>1. runs'[r].status = status
  <2>1. [runs[r] EXCEPT !.status = status, !.at = "done"].status = status
    <3>. DEFINE old == runs[r]
    <3>1. old \in RunState
      BY RunFacts
    <3>. HIDE DEF old
    <3>2. [old EXCEPT !.status = status, !.at = "done"]
             = RunOf(old.scenario, status, "done", old.jobs, old.next, old.open, old.completed, old.batch)
      BY <3>1, RunFields
    <3>. QED BY <3>2 DEF RunOf, old
  <2>2. runs'[r] = [runs[r] EXCEPT !.status = status, !.at = "done"]
    BY DEF Ends, RunsInv
  <2>. QED BY <2>1, <2>2
<1>2. wire[r] = <<>>
  <2>1. wire[r] \in Seq(Verdicts) /\ \A i \in DOMAIN wire[r] : wire[r][i] \in Verdicts
    BY DEF Streams
  <2>2. runs[r].status \notin Verdicts
    BY RunFacts
  <2>3. DOMAIN wire[r] = {}
    BY <2>1, <2>2 DEF Streams
  <2>. DEFINE w == wire[r]
  <2>4. w \in Seq(Verdicts) /\ DOMAIN w = {}
    BY <2>1, <2>3
  <2>. HIDE DEF w
  <2>5. Len(w) = 0
    BY <2>4
  <2>6. w = <<>>
    BY <2>4, <2>5
  <2>. QED BY <2>6 DEF w
<1>3. /\ wire \in [Runs -> Seq(Verdicts)] /\ UNCHANGED clients
      /\ wire' = [wire EXCEPT ![r] = IF r \in clients THEN Append(wire[r], status) ELSE wire[r]]
  BY DEF Streams, Ends
<1>4. \A k \in Runs : k # r => wire'[k] = wire[k]
  BY <1>3
<1>5. wire'[r] = IF r \in clients THEN <<status>> ELSE <<>>
  BY <1>2, <1>3
<1>6. wire' \in [Runs -> Seq(Verdicts)]
  BY <1>2, <1>3
<1>7. r \in clients => r = lab.stream
  BY DEF Streams
<1>8. ASSUME NEW k \in Runs, NEW i \in DOMAIN wire'[k]
      PROVE  runs'[k].status = wire'[k][i]
  <2>1. CASE k = r
    BY <1>1, <1>5, <1>8, <2>1
  <2>2. CASE k # r
    <3>1. i \in DOMAIN wire[k] /\ wire'[k][i] = wire[k][i]
      BY <1>4, <1>8, <2>2
    <3>2. runs[k].status = wire[k][i] /\ wire[k][i] \in Verdicts
      BY <3>1 DEF Streams
    <3>. QED BY <3>1, <3>2 DEF RunsGrow
  <2>. QED BY <2>1, <2>2
<1>9. \A k \in Runs : k # lab'.stream => wire'[k] = <<>>
  BY <1>4, <1>5, <1>7 DEF Streams
<1>. QED BY <1>3, <1>6, <1>8, <1>9 DEF Streams

\* The ways the steps fill in the lab page.
LabOf(shown, rendered, stream, posts, gets) ==
    [shown |-> shown, rendered |-> rendered, stream |-> stream, posts |-> posts, gets |-> gets]

LEMMA LabFields ==
    ASSUME NEW v \in LabState
    PROVE  /\ \A x : [v EXCEPT !.shown = x] = LabOf(x, v.rendered, v.stream, v.posts, v.gets)
           /\ \A x : [v EXCEPT !.posts = x] = LabOf(v.shown, v.rendered, v.stream, x, v.gets)
           /\ \A x : [v EXCEPT !.gets = x] = LabOf(v.shown, v.rendered, v.stream, v.posts, x)
<1>1. PICK a, b, c, d, e : v = LabOf(a, b, c, d, e)
  BY DEF LabState, LabOf
<1>2. v.shown = a /\ v.rendered = b /\ v.stream = c /\ v.posts = d /\ v.gets = e
  BY <1>1 DEF LabOf
<1>3. /\ \A x : [v EXCEPT !.shown = x] = LabOf(x, b, c, d, e)
      /\ \A x : [v EXCEPT !.posts = x] = LabOf(a, b, c, x, e)
      /\ \A x : [v EXCEPT !.gets = x] = LabOf(a, b, c, d, x)
  BY <1>1 DEF LabOf
<1>4. \A x : [v EXCEPT !.shown = x] = LabOf(x, v.rendered, v.stream, v.posts, v.gets)
  BY <1>2, <1>3, Zenon
<1>5. \A x : [v EXCEPT !.posts = x] = LabOf(v.shown, v.rendered, v.stream, x, v.gets)
  BY <1>2, <1>3, Zenon
<1>6. \A x : [v EXCEPT !.gets = x] = LabOf(v.shown, v.rendered, v.stream, v.posts, x)
  BY <1>2, <1>3, Zenon
<1>. QED BY <1>4, <1>5, <1>6

LEMMA LabLeft ==
    ASSUME Page, RunsGrow, ConsoleAssumption, lab' = ClosedLab, UNCHANGED <<saved, displaced>>
    PROVE  Page'
<1>1. ClosedLab = LabOf(NoRun, NoRun, "none", {}, {})
  BY DEF ClosedLab, LabOf
<1>2. /\ lab'.shown = NoRun /\ lab'.rendered = NoRun /\ lab'.stream = "none" /\ lab'.posts = {}
      /\ lab'.gets = {}
  BY <1>1 DEF LabOf
<1>3. lab' \in LabState
  BY <1>1, ShownCases DEF LabOf, LabState
<1>4. Exists(NoRun, runs') /\ IsTrue(NoRun, runs')
  BY ShownCases DEF Exists, IsTrue
<1>. QED BY <1>2, <1>3, <1>4, PageFacts DEF Page

LEMMA LabOpened ==
    ASSUME Page, RunsGrow, ConsoleAssumption, OpenLab, UNCHANGED displaced
    PROVE  Page'
<1>1. lab' = LabOf(saved, NoRun, "none", {}, {}) /\ saved' = NoRun
  BY DEF OpenLab, ClosedLab, LabOf
<1>2. /\ lab'.shown = saved /\ lab'.rendered = NoRun /\ lab'.stream = "none" /\ lab'.posts = {}
      /\ lab'.gets = {}
  BY <1>1 DEF LabOf
<1>3. lab' \in LabState
  BY <1>1, ShownCases DEF LabOf, LabState, Page
<1>4. Exists(NoRun, runs') /\ IsTrue(NoRun, runs')
  BY ShownCases DEF Exists, IsTrue
<1>. QED BY <1>1, <1>2, <1>3, <1>4, PageFacts, ShownCases DEF Page

\* The effects of a commit that shows next.
LEMMA EffectsKeep ==
    ASSUME Page, RunsGrow, ConsoleAssumption, UNCHANGED <<runs, displaced>>,
           NEW next \in Shown, Exists(next, runs), ~displaced => IsTrue(next, runs), Effects(next)
    PROVE  Page'
<1>. DEFINE stream == IF next.status = "RUNNING" THEN next.id ELSE "none"
            gets == IF next.id # lab.rendered.id /\ next # NoRun
                    THEN lab.gets \cup {[id |-> next.id, answer |-> Asked]} ELSE lab.gets
            posts == lab.posts
<1>1. lab' = [lab EXCEPT !.shown = next, !.rendered = next, !.stream = stream, !.gets = gets]
  BY Zenon DEF Effects
<1>2. stream \in Runs \cup {"none"} /\ (stream # "none" => next.id = stream)
  BY ShownCases
<1>3. gets \in SUBSET GetState /\ \A get \in gets : Answer(get, runs')
  <2>1. CASE next # NoRun
    <3>. DEFINE get == [id |-> next.id, answer |-> Asked]
    <3>1. next.id \in Runs
      BY <2>1, ShownCases
    <3>2. get \in GetState /\ Answer(get, runs)
      BY <3>1, ShownCases DEF GetState, Answer, Exists
    <3>3. gets \subseteq lab.gets \cup {get}
      OBVIOUS
    <3>4. Answer(get, runs')
      BY <3>2
    <3>. HIDE DEF gets, get
    <3>. QED BY <3>2, <3>3, <3>4, PageFacts
  <2>2. CASE next = NoRun
    <3>1. gets = lab.gets
      BY <2>2
    <3>. HIDE DEF gets
    <3>. QED BY <3>1, PageFacts
  <2>. QED BY <2>1, <2>2
<1>4. lab \in LabState
  BY DEF Page
<1>. HIDE DEF stream, gets
<1>5. lab' = LabOf(next, next, stream, posts, gets)
  <2>1. PICK a, b, c, d, e : lab = LabOf(a, b, c, d, e)
    BY <1>4 DEF LabState, LabOf
  <2>2. posts = d
    BY <2>1 DEF LabOf
  <2>. DEFINE m1 == [lab EXCEPT !.shown = next]
              m2 == [m1 EXCEPT !.rendered = next]
              m3 == [m2 EXCEPT !.stream = stream]
              m4 == [m3 EXCEPT !.gets = gets]
  <2>3. [lab EXCEPT !.shown = next, !.rendered = next, !.stream = stream, !.gets = gets] = m4
    OBVIOUS
  <2>4. m1 = LabOf(next, b, c, d, e)
    BY <2>1 DEF LabOf
  <2>. HIDE DEF m1
  <2>5. m2 = LabOf(next, next, c, d, e)
    BY <2>4 DEF LabOf
  <2>. HIDE DEF m2
  <2>6. m3 = LabOf(next, next, stream, d, e)
    BY <2>5 DEF LabOf
  <2>. HIDE DEF m3
  <2>7. m4 = LabOf(next, next, stream, d, gets)
    BY <2>6 DEF LabOf
  <2>. HIDE DEF m4
  <2>. QED BY <1>1, <2>2, <2>3, <2>7
<1>. HIDE DEF posts
<1>6. posts \in SUBSET Runs /\ \A r \in posts : runs'[r].status # "none"
  BY PageFacts DEF posts
<1>7. /\ lab'.shown = next /\ lab'.rendered = next /\ lab'.stream = stream /\ lab'.posts = posts
      /\ lab'.gets = gets
  BY <1>5 DEF LabOf
<1>8. lab' \in LabState
  BY <1>2, <1>3, <1>5, <1>6 DEF LabOf, LabState
<1>9. saved' = next
  BY DEF Effects
<1>10. displaced' = displaced /\ displaced' \in BOOLEAN /\ runs' = runs
  BY DEF Page
<1>. QED BY <1>2, <1>3, <1>6, <1>7, <1>8, <1>9, <1>10 DEF Page

LEMMA ExecuteKeeps ==
    ASSUME Page, RunsGrow, RunsInv, ConsoleAssumption, NEW r \in Runs, NEW scenario \in Scenarios,
           ClickExecute(r, scenario)
    PROVE  Page'
<1>1. runs'[r].status # "none"
  <2>1. runs'[r] = Started(scenario)
    BY DEF ClickExecute, StartRun, RunsInv
  <2>. QED BY <2>1, Fresh
<1>. DEFINE posts == lab.posts \cup {r}
            gets == lab.gets
<1>2. /\ lab' = [lab EXCEPT !.shown = NoRun, !.rendered = NoRun, !.stream = "none", !.posts = posts]
      /\ saved' = NoRun /\ UNCHANGED displaced
  BY DEF ClickExecute
<1>3. posts \in SUBSET Runs /\ \A k \in posts : runs'[k].status # "none"
  BY <1>1, PageFacts
<1>4. gets \in SUBSET GetState /\ \A get \in gets : Answer(get, runs')
  BY PageFacts
<1>5. lab \in LabState
  BY DEF Page
<1>. HIDE DEF posts
<1>6. lab' = LabOf(NoRun, NoRun, "none", posts, gets)
  <2>1. PICK a, b, c, d, e : lab = LabOf(a, b, c, d, e)
    BY <1>5 DEF LabState, LabOf
  <2>2. gets = e
    BY <2>1 DEF LabOf
  <2>. DEFINE m1 == [lab EXCEPT !.shown = NoRun]
              m2 == [m1 EXCEPT !.rendered = NoRun]
              m3 == [m2 EXCEPT !.stream = "none"]
              m4 == [m3 EXCEPT !.posts = posts]
  <2>3. [lab EXCEPT !.shown = NoRun, !.rendered = NoRun, !.stream = "none", !.posts = posts] = m4
    OBVIOUS
  <2>4. m1 = LabOf(NoRun, b, c, d, e)
    BY <2>1 DEF LabOf
  <2>. HIDE DEF m1
  <2>5. m2 = LabOf(NoRun, NoRun, c, d, e)
    BY <2>4 DEF LabOf
  <2>. HIDE DEF m2
  <2>6. m3 = LabOf(NoRun, NoRun, "none", d, e)
    BY <2>5 DEF LabOf
  <2>. HIDE DEF m3
  <2>7. m4 = LabOf(NoRun, NoRun, "none", posts, e)
    BY <2>6 DEF LabOf
  <2>. HIDE DEF m4
  <2>. QED BY <1>2, <2>2, <2>3, <2>7
<1>. HIDE DEF gets
<1>7. /\ lab'.shown = NoRun /\ lab'.rendered = NoRun /\ lab'.stream = "none" /\ lab'.posts = posts
      /\ lab'.gets = gets
  BY <1>6 DEF LabOf
<1>8. lab' \in LabState
  BY <1>3, <1>4, <1>6, ShownCases DEF LabOf, LabState
<1>9. Exists(NoRun, runs') /\ IsTrue(NoRun, runs')
  BY ShownCases DEF Exists, IsTrue
<1>10. displaced' \in BOOLEAN /\ NoRun \in Shown
  BY <1>2, ShownCases DEF Page
<1>. QED BY <1>2, <1>3, <1>4, <1>7, <1>8, <1>9, <1>10 DEF Page

\* An answer or a message changes what is shown and what is under way.
LEMMA LabWrite ==
    ASSUME Page, RunsGrow, ConsoleAssumption, UNCHANGED saved,
           NEW shown \in Shown, NEW posts \in SUBSET lab.posts, NEW gets \in SUBSET GetState,
           lab' = LabOf(shown, lab.rendered, lab.stream, posts, gets),
           displaced' \in BOOLEAN, ~displaced' => ~displaced,
           Exists(shown, runs'), \A get \in gets : Answer(get, runs'),
           ~displaced' => /\ IsTrue(shown, runs')
                          /\ lab.stream # "none" => shown.id = lab.stream
    PROVE  Page' /\ lab'.stream = lab.stream
<1>1. /\ lab'.shown = shown /\ lab'.rendered = lab.rendered /\ lab'.stream = lab.stream
      /\ lab'.posts = posts /\ lab'.gets = gets
  BY DEF LabOf
<1>2. posts \in SUBSET Runs /\ \A r \in posts : runs'[r].status # "none"
  BY PageFacts
<1>3. lab' \in LabState
  BY <1>2, PageFacts DEF LabOf, LabState
<1>. QED BY <1>1, <1>2, <1>3, PageFacts DEF Page

\* The run that is shown stays: its EventSource is of it, unless it was displaced.
LEMMA Unshown ==
    ASSUME Page, RunsGrow, ConsoleAssumption, UNCHANGED <<saved, displaced>>,
           NEW posts \in SUBSET lab.posts, NEW gets \in SUBSET GetState,
           \A get \in gets : Answer(get, runs'),
           lab' = LabOf(lab.shown, lab.rendered, lab.stream, posts, gets)
    PROVE  Page' /\ lab'.stream = lab.stream
<1>. DEFINE shown == lab.shown
<1>1. /\ shown \in Shown /\ Exists(shown, runs')
      /\ ~displaced' => /\ IsTrue(shown, runs')
                        /\ lab.stream # "none" => shown.id = lab.stream
  BY PageFacts DEF Page
<1>2. displaced' \in BOOLEAN /\ (~displaced' => ~displaced)
  BY DEF Page
<1>3. lab' = LabOf(shown, lab.rendered, lab.stream, posts, gets)
  OBVIOUS
<1>. HIDE DEF shown
<1>. QED BY <1>1, <1>2, <1>3, LabWrite

\* A run is shown, in the place of the one before.
LEMMA Shows ==
    ASSUME Page, RunsGrow, ConsoleAssumption, UNCHANGED saved,
           NEW next \in Shown, next.id \in Runs, Exists(next, runs'), IsTrue(next, runs'),
           NEW posts \in SUBSET lab.posts, NEW gets \in SUBSET GetState,
           \A get \in gets : Answer(get, runs'),
           lab' = LabOf(next, lab.rendered, lab.stream, posts, gets),
           displaced' = (displaced \/ (lab.shown.id \notin {"none", next.id}))
    PROVE  Page' /\ lab'.stream = lab.stream
<1>1. displaced' \in BOOLEAN /\ (~displaced' => ~displaced)
  OBVIOUS
<1>2. ~displaced' /\ lab.stream # "none" => next.id = lab.stream
  BY ShownCases DEF Page
<1>. QED BY <1>1, <1>2, LabWrite

LEMMA Posted ==
    ASSUME Page, RunsGrow, ConsoleAssumption, NEW r \in Runs, PostArrives(r)
    PROVE  Page' /\ lab'.stream = lab.stream
<1>. DEFINE next == [id |-> r, status |-> "RUNNING"]
            posts == lab.posts \ {r}
            gets == lab.gets
            others == [lab EXCEPT !.posts = posts]
<1>1. /\ r \in lab.posts /\ lab' = [others EXCEPT !.shown = next] /\ UNCHANGED saved
      /\ displaced' = (displaced \/ (lab.shown.id \notin {"none", next.id}))
  BY DEF PostArrives, Show
<1>2. next \in Shown /\ next.id = r /\ next.status = "RUNNING"
  BY ShownCases
<1>3. Exists(next, runs') /\ IsTrue(next, runs')
  BY <1>1, <1>2, PageFacts, ShownCases DEF Exists, IsTrue
<1>4. posts \in SUBSET lab.posts /\ gets \in SUBSET GetState /\ \A get \in gets : Answer(get, runs')
  BY PageFacts
<1>5. lab \in LabState
  BY DEF Page
<1>. HIDE DEF next, posts
<1>6. others = LabOf(lab.shown, lab.rendered, lab.stream, posts, gets)
  BY <1>5, LabFields
<1>7. others \in LabState
  BY <1>4, <1>6, PageFacts DEF LabOf, LabState
<1>8. others.rendered = lab.rendered /\ others.stream = lab.stream /\ others.posts = posts /\ others.gets = gets
  BY <1>6 DEF LabOf
<1>. HIDE DEF others, gets
<1>9. lab' = LabOf(next, lab.rendered, lab.stream, posts, gets)
  <2>1. [others EXCEPT !.shown = next]
           = LabOf(next, others.rendered, others.stream, others.posts, others.gets)
    BY <1>7, LabFields
  <2>. QED BY <1>1, <1>8, <2>1
<1>. QED BY <1>1, <1>2, <1>3, <1>4, <1>9, Shows

LEMMA Served ==
    ASSUME Page, RunsGrow, RunsInv, ConsoleAssumption, NEW g \in lab.gets, ServeGetRun(g)
    PROVE  Page' /\ lab'.stream = lab.stream
<1>. DEFINE answered == [id |-> g.id, answer |-> runs[g.id].status]
            gets == (lab.gets \ {g}) \cup {answered}
            posts == lab.posts
<1>1. g \in GetState /\ g.id \in Runs /\ Answer(g, runs)
  BY PageFacts DEF GetState, Page
<1>2. answered \in GetState
  <2>1. runs[g.id].status \in RunStatus
    BY <1>1 DEF RunsInv, RunState
  <2>. QED BY <1>1, <2>1 DEF GetState, RunStatus, Answer
<1>3. Answer(answered, runs')
  BY <1>1 DEF Answer, ServeGetRun
<1>4. lab' = [lab EXCEPT !.gets = gets]
  <2>1. [g EXCEPT !.answer = runs[g.id].status] = answered
    BY <1>1 DEF GetState
  <2>. QED BY <2>1 DEF ServeGetRun
<1>5. lab \in LabState /\ UNCHANGED <<saved, displaced>>
  BY DEF Page, ServeGetRun
<1>6. gets \in SUBSET GetState /\ \A get \in gets : Answer(get, runs')
  <2>. HIDE DEF answered
  <2>. QED BY <1>2, <1>3, PageFacts
<1>7. posts \in SUBSET lab.posts
  OBVIOUS
<1>. HIDE DEF gets
<1>8. lab' = LabOf(lab.shown, lab.rendered, lab.stream, posts, gets)
  BY <1>4, <1>5, LabFields
<1>. HIDE DEF posts
<1>. QED BY <1>5, <1>6, <1>7, <1>8, Unshown

LEMMA Got ==
    ASSUME Page, RunsGrow, ConsoleAssumption, NEW g \in lab.gets, GetRunArrives(g)
    PROVE  Page' /\ lab'.stream = lab.stream
<1>. DEFINE next == [id |-> g.id, status |-> g.answer]
            gets == lab.gets \ {g}
            posts == lab.posts
            others == [lab EXCEPT !.gets = gets]
<1>1. g \in GetState /\ g.id \in Runs /\ Answer(g, runs')
  BY PageFacts DEF GetState
<1>2. g.answer \in {"RUNNING"} \cup Verdicts /\ UNCHANGED saved
  BY <1>1 DEF GetState, GetRunArrives
<1>3. next \in Shown /\ next.id = g.id /\ next.status = g.answer
  BY <1>1, <1>2, ShownCases
<1>4. Exists(next, runs') /\ IsTrue(next, runs')
  BY <1>1, <1>3 DEF Exists, IsTrue, Answer
<1>5. gets \in SUBSET GetState /\ posts \in SUBSET lab.posts /\ \A get \in gets : Answer(get, runs')
  BY PageFacts
<1>6. lab \in LabState
  BY DEF Page
<1>7. \/ /\ lab' = [others EXCEPT !.shown = next]
         /\ displaced' = (displaced \/ (lab.shown.id \notin {"none", next.id}))
      \/ lab' = others /\ UNCHANGED displaced
  BY DEF GetRunArrives, Show
<1>. HIDE DEF next, gets
<1>8. others = LabOf(lab.shown, lab.rendered, lab.stream, posts, gets)
  BY <1>6, LabFields
<1>9. others \in LabState
  BY <1>5, <1>8, PageFacts DEF LabOf, LabState
<1>10. others.rendered = lab.rendered /\ others.stream = lab.stream /\ others.posts = posts /\ others.gets = gets
  BY <1>8 DEF LabOf
<1>. HIDE DEF others, posts
<1>11. CASE lab' = others /\ UNCHANGED displaced
  <2>1. lab' = LabOf(lab.shown, lab.rendered, lab.stream, posts, gets) /\ UNCHANGED <<saved, displaced>>
    BY <1>2, <1>8, <1>11
  <2>. QED BY <1>5, <2>1, Unshown
<1>12. CASE lab' = [others EXCEPT !.shown = next]
            /\ displaced' = (displaced \/ (lab.shown.id \notin {"none", next.id}))
  <2>1. [others EXCEPT !.shown = next]
           = LabOf(next, others.rendered, others.stream, others.posts, others.gets)
    BY <1>9, LabFields
  <2>2. lab' = LabOf(next, lab.rendered, lab.stream, posts, gets)
    BY <1>10, <1>12, <2>1
  <2>3. next.id \in Runs
    BY <1>1, <1>3
  <2>4. displaced' = (displaced \/ (lab.shown.id \notin {"none", next.id}))
    BY <1>12
  <2>. QED BY <1>2, <1>3, <1>4, <1>5, <2>2, <2>3, <2>4, Shows
<1>. QED BY <1>7, <1>11, <1>12

LEMMA CallLost ==
    ASSUME Page, RunsGrow, ConsoleAssumption, LabCallFails
    PROVE  Page' /\ lab'.stream = lab.stream
<1>1. lab \in LabState /\ UNCHANGED <<saved, displaced>>
  BY DEF Page, LabCallFails
<1>2. PICK posts \in SUBSET lab.posts, gets \in SUBSET lab.gets :
         \/ lab' = [lab EXCEPT !.posts = posts] /\ gets = lab.gets
         \/ lab' = [lab EXCEPT !.gets = gets] /\ posts = lab.posts
  <2>1. CASE \E r \in lab.posts : lab' = [lab EXCEPT !.posts = @ \ {r}]
    BY <2>1
  <2>2. CASE \E g \in lab.gets : lab' = [lab EXCEPT !.gets = @ \ {g}]
    BY <2>2
  <2>. QED BY <2>1, <2>2 DEF LabCallFails
<1>3. lab' = LabOf(lab.shown, lab.rendered, lab.stream, posts, gets)
  BY <1>1, <1>2, LabFields
<1>4. gets \in SUBSET GetState /\ \A get \in gets : Answer(get, runs')
  BY PageFacts
<1>. QED BY <1>1, <1>3, <1>4, Unshown

LEMMA StatusShown ==
    ASSUME Page, Streams, RunsGrow, ConsoleAssumption, NEW r \in Runs, StatusArrives(r)
    PROVE  Page' /\ Streams'
<1>. DEFINE status == Head(wire[r])
            shown == IF lab.shown = NoRun THEN NoRun ELSE [lab.shown EXCEPT !.status = status]
            posts == lab.posts
            gets == lab.gets
<1>1. /\ lab' = [lab EXCEPT !.shown = shown] /\ wire[r] # <<>> /\ wire' = [wire EXCEPT ![r] = Tail(@)]
      /\ UNCHANGED <<runs, clients, saved, displaced>>
  <2>1. lab' = [lab EXCEPT !.shown = shown]
    BY Zenon DEF StatusArrives
  <2>. QED BY <2>1 DEF StatusArrives
<1>2. wire[r] \in Seq(Verdicts) /\ status \in Verdicts /\ status = wire[r][1] /\ 1 \in DOMAIN wire[r]
  BY <1>1 DEF Streams
<1>3. r = lab.stream /\ r # "none" /\ runs'[r].status = status
  BY <1>1, <1>2, ShownCases DEF Streams
<1>. HIDE DEF status
<1>4. lab.shown # NoRun => shown = [id |-> lab.shown.id, status |-> status] /\ lab.shown.id \in Runs
  <2>. DEFINE old == lab.shown
  <2>1. old \in Shown
    BY PageFacts
  <2>. HIDE DEF old
  <2>2. old # NoRun => /\ [old EXCEPT !.status = status] = [id |-> old.id, status |-> status]
                       /\ old.id \in Runs
    BY <2>1, <1>2 DEF Shown
  <2>. QED BY <2>2 DEF old
<1>5. shown \in Shown
  BY <1>2, <1>4, ShownCases
<1>6. lab.shown # NoRun => shown.id = lab.shown.id /\ shown.status = status
  BY <1>4
<1>7. lab.shown = NoRun => shown = NoRun
  OBVIOUS
<1>. HIDE DEF shown
<1>8. Exists(shown, runs')
  BY <1>6, <1>7, PageFacts DEF Exists
<1>9. ~displaced' => IsTrue(shown, runs') /\ shown.id = lab.stream
  <2>1. ~displaced => lab.shown.id = r
    BY <1>3 DEF Page
  <2>2. lab.shown.id = r => lab.shown # NoRun
    BY <1>3, ShownCases
  <2>. QED BY <1>1, <1>3, <1>6, <2>1, <2>2 DEF IsTrue
<1>10. posts \in SUBSET lab.posts /\ gets \in SUBSET GetState /\ \A get \in gets : Answer(get, runs')
  BY PageFacts
<1>11. lab' = LabOf(shown, lab.rendered, lab.stream, posts, gets)
  BY <1>1, LabFields DEF Page
<1>12. displaced' \in BOOLEAN /\ (~displaced' => ~displaced)
  BY <1>1 DEF Page
<1>. HIDE DEF posts, gets
<1>13. Page' /\ lab'.stream = lab.stream
  BY <1>1, <1>5, <1>8, <1>9, <1>10, <1>11, <1>12, LabWrite
<1>14. Streams'
  <2>1. wire' \in [Runs -> Seq(Verdicts)] /\ \A k \in Runs : k # r => wire'[k] = wire[k]
    BY <1>1, <1>2 DEF Streams
  <2>2. \A i \in DOMAIN wire'[r] : i + 1 \in DOMAIN wire[r] /\ wire'[r][i] = wire[r][i + 1]
    BY <1>1, <1>2 DEF Streams
  <2>3. \A k \in Runs : \A i \in DOMAIN wire'[k] : runs'[k].status = wire'[k][i]
    BY <1>1, <2>1, <2>2 DEF Streams
  <2>4. \A k \in Runs : k # lab'.stream => wire'[k] = <<>>
    BY <1>3, <1>13, <2>1 DEF Streams
  <2>. QED BY <1>1, <1>13, <2>1, <2>3, <2>4 DEF Streams
<1>. QED BY <1>13, <1>14

-----------------------------------------------------------------------------
(* The tab.                                                                   *)
ConsoleInv == scene \in Scenes /\ FeedInv /\ ViewInv /\ RunsInv /\ Streams /\ Page /\ Apart

LEMMA Starting ==
    ASSUME Init
    PROVE  ConsoleInv
<1>1. /\ scene \in Scenes /\ InitFeed(scene.present) /\ InitLab(scene.started, scene.scenarios)
      /\ view = ClosedView /\ lab = ClosedLab /\ saved = NoRun /\ displaced = FALSE
  BY DEF Init
<1>2. FeedInv
  <2>1. \A j \in Jobs : job[j].status \in JobStatus /\ held[j] = {job[j].status} /\ owed[j] = {}
    BY <1>1 DEF InitFeed, JobStatus
  <2>2. job \in [Jobs -> [status : JobStatus, attempt : Nat]]
    BY <1>1 DEF InitFeed, JobStatus
  <2>3. held \in [Jobs -> SUBSET JobStatus] /\ owed \in [Jobs -> SUBSET Event] /\ outbox = {}
    BY <1>1, <2>1 DEF InitFeed
  <2>. QED BY <2>1, <2>2, <2>3 DEF FeedInv, TypeOKFeed
<1>3. ViewInv
  <2>1. ClosedView \in ViewState
    BY DEF ClosedView, ViewState, FeedState
  <2>2. /\ ClosedView.id = Nothing /\ ClosedView.status = Nothing /\ ClosedView.inbox = <<>>
        /\ ClosedView.latest = <<>> /\ ClosedView.calls = {} /\ Range(<<>>) = {}
    BY DEF ClosedView, Range
  <2>. QED BY <1>1, <2>1, <2>2 DEF ViewInv, ShownStatusHeld
<1>4. RunsInv
  <2>1. PICK choice \in [scene.started -> scene.scenarios] :
           runs = [r \in Runs |-> IF r \in scene.started THEN Started(choice[r]) ELSE NewRun]
    BY <1>1 DEF InitLab
  <2>2. \A r \in scene.started : choice[r] \in Scenarios
    BY <1>1, ConsoleAssumption DEF ConsoleAssumption
  <2>3. RunSound(NewRun, held)
    <3>1. "priority" \in Scenarios
      BY DEF Scenarios
    <3>. QED BY <3>1, ConsoleAssumption, Fresh
  <2>4. \A r \in scene.started : RunSound(Started(choice[r]), held)
    BY <2>2, ConsoleAssumption, Fresh
  <2>5. \A r \in Runs : RunSound(runs[r], held)
    BY <2>1, <2>3, <2>4
  <2>6. runs \in [Runs -> RunState]
    <3>1. NewRun \in RunState /\ \A r \in scene.started : Started(choice[r]) \in RunState
      BY <2>3, <2>4 DEF RunSound
    <3>. QED BY <2>1, <3>1
  <2>. QED BY <2>5, <2>6 DEF RunsInv
<1>5. ClosedLab = LabOf(NoRun, NoRun, "none", {}, {})
  BY DEF ClosedLab, LabOf
<1>6. lab.shown = NoRun /\ lab.rendered = NoRun /\ lab.stream = "none" /\ lab.posts = {} /\ lab.gets = {}
  BY <1>1, <1>5 DEF LabOf
<1>7. Streams
  <2>1. \A r \in Runs : wire[r] = <<>> /\ DOMAIN wire[r] = {}
    BY <1>1 DEF InitLab
  <2>2. wire \in [Runs -> Seq(Verdicts)] /\ clients = {}
    BY <1>1 DEF InitLab
  <2>. QED BY <2>1, <2>2 DEF Streams
<1>8. Page
  <2>1. lab \in LabState
    BY <1>1, <1>5, ConsoleAssumption, ShownCases DEF LabOf, LabState
  <2>2. Exists(NoRun, runs) /\ IsTrue(NoRun, runs) /\ NoRun \in Shown
    BY ConsoleAssumption, ShownCases DEF Exists, IsTrue
  <2>. QED BY <1>1, <1>6, <2>1, <2>2 DEF Page
<1>. QED BY <1>1, <1>2, <1>3, <1>4, <1>7, <1>8 DEF ConsoleInv, Apart

\* What every step does to the jobs, to the page of a job and to the runs.
LEMMA Moves ==
    ASSUME ConsoleInv, [Next]_vars
    PROVE  /\ scene' = scene /\ FeedStep /\ ViewMoves
           /\ UNCHANGED runs \/ \E r \in Runs : ServiceMoves(r)
<1>1. CASE UNCHANGED vars
  BY <1>1 DEF vars, tabVars, labVars, FeedStep, ViewMoves
<1>2. CASE Session
  <2>1. scene' = scene /\ FeedStep /\ UNCHANGED runs
    BY <1>2 DEF Session, FeedStep
  <2>2. ViewMoves
    BY <1>2 DEF Session, Login, Reload, Verified, NotVerified, Navigate, Logout, LeavePages, Enter, ViewMoves
  <2>. QED BY <2>1, <2>2
<1>3. CASE Platform
  <2>1. scene' = scene /\ UNCHANGED runs
    BY <1>3 DEF Platform, tabVars, labVars
  <2>. QED BY <1>3, <2>1 DEF Platform, FeedStep, ViewMoves, Broadcast
<1>4. CASE ViewLives
  <2>1. scene' = scene /\ UNCHANGED runs
    BY <1>4 DEF ViewLives, tabVars, labVars
  <2>2. ViewMoves
    BY <1>4 DEF ViewLives, ViewMoves
  <2>3. CASE ServeRetry
    <3>1. view.id \in Jobs
      BY <2>3, ClosedIdle DEF ConsoleInv, ViewInv, ViewStep
    <3>. QED BY <2>1, <2>2, <2>3, <3>1 DEF ServeRetry, FeedStep, FeedUnchanged
  <2>4. CASE ~ServeRetry
    <3>1. UNCHANGED feedVars
      BY <1>4, <2>4 DEF ViewLives, ViewStep, StreamOpens, MessageArrives, Effect, ServeGet, GetArrives,
                        ClickRetry, RetryArrives, StreamBreaks, CallFails, FeedUnchanged
    <3>. QED BY <2>1, <2>2, <3>1 DEF FeedStep
  <2>. QED BY <2>3, <2>4
<1>5. CASE LabLives
  <2>1. scene' = scene /\ FeedStep /\ ViewMoves
    BY <1>5 DEF LabLives, tabVars, FeedStep, ViewMoves
  <2>2. /\ \A r \in scene.runs : r \in Runs
        /\ \A scenario \in scene.scenarios : scenario \in Scenarios
    BY ConsoleAssumption DEF ConsoleAssumption, ConsoleInv
  <2>3. UNCHANGED runs \/ \E r \in scene.runs, scenario \in scene.scenarios : StartRun(r, scenario)
    BY <1>5 DEF LabLives, LabPageStep, Commit, ClickExit, StreamRegisters, PostArrives, StatusArrives,
                ServeGetRun, GetRunArrives, LabCallFails, ClickExecute
  <2>. QED BY <2>1, <2>2, <2>3 DEF ServiceMoves
<1>6. ASSUME NEW r \in Runs, ScenarioRuns(r)
      PROVE  /\ scene' = scene /\ FeedStep /\ ViewMoves
             /\ UNCHANGED runs \/ \E k \in Runs : ServiceMoves(k)
  <2>1. scene' = scene /\ ViewMoves
    BY <1>6 DEF ScenarioRuns, tabVars, ViewMoves
  <2>2. CASE ScenarioStep(r)
    <3>1. UNCHANGED feedVars
      BY <2>2 DEF ScenarioStep, GetToken, StartPolling, Poll, NextPass, Conclude
    <3>. QED BY <2>1, <2>2, <3>1 DEF FeedStep, ServiceMoves
  <2>3. CASE Submit(r, scene.jobs)
    <3>1. scene.jobs \in SUBSET Jobs
      BY ConsoleAssumption DEF ConsoleAssumption, ConsoleInv
    <3>2. FeedStep
      BY <2>3, <3>1 DEF Submit, FeedStep
    <3>. QED BY <2>1, <2>3, <3>1, <3>2 DEF ServiceMoves
  <2>. QED BY <1>6, <2>2, <2>3 DEF ScenarioRuns
<1>7. ASSUME NEW r \in Runs, ScenarioFails(r)
      PROVE  /\ scene' = scene /\ FeedStep /\ ViewMoves
             /\ UNCHANGED runs \/ \E k \in Runs : ServiceMoves(k)
  BY <1>7 DEF ScenarioFails, ScenarioThrows, tabVars, ViewMoves, FeedStep, ServiceMoves
<1>. QED BY <1>1, <1>2, <1>3, <1>4, <1>5, <1>6, <1>7 DEF Next

LEMMA PageKeeps ==
    ASSUME ConsoleInv, RunsGrow, [Next]_vars
    PROVE  Page' /\ Streams'
<1>. /\ ConsoleAssumption /\ Page /\ Streams /\ RunsInv
  BY ConsoleAssumption DEF ConsoleInv
<1>1. ASSUME UNCHANGED <<pageVars, clients, wire>>
      PROVE  Page' /\ Streams'
  BY <1>1, PageIdle, StreamsKeep DEF pageVars
<1>2. CASE UNCHANGED vars
  BY <1>1, <1>2 DEF vars, labVars
<1>3. CASE Session
  <2>1. CloseStreams /\ UNCHANGED displaced
    BY <1>3 DEF Session, Login, Reload, Verified, NotVerified, Navigate, Logout, LeavePages, Enter
  <2>2. OpenLab \/ (lab' = ClosedLab /\ UNCHANGED saved)
    BY <1>3 DEF Session, Login, Reload, Verified, NotVerified, Navigate, Logout, LeavePages, Enter
  <2>. QED BY <2>1, <2>2, StreamsClosed, LabLeft, LabOpened
<1>4. CASE Platform \/ ViewLives
  BY <1>1, <1>4 DEF Platform, ViewLives, labVars
<1>5. CASE LabLives
  <2>. USE <1>5 DEF LabLives
  <2>1. CASE Commit
    <3>. DEFINE next == lab.shown
    <3>1. /\ next \in Shown /\ Exists(next, runs) /\ (~displaced => IsTrue(next, runs))
      BY PageFacts DEF Page
    <3>2. Effects(next) /\ UNCHANGED <<runs, displaced>>
      BY <2>1 DEF Commit
    <3>3. CloseStreams
      BY <3>2 DEF Effects
    <3>. HIDE DEF next
    <3>. QED BY <3>1, <3>2, <3>3, EffectsKeep, StreamsClosed
  <2>2. CASE ClickExit
    <3>1. /\ NoRun \in Shown /\ Exists(NoRun, runs) /\ IsTrue(NoRun, runs)
      BY ShownCases DEF Exists, IsTrue
    <3>2. Effects(NoRun) /\ UNCHANGED <<runs, displaced>>
      BY <2>2 DEF ClickExit
    <3>3. CloseStreams
      BY <3>2 DEF Effects
    <3>. QED BY <3>1, <3>2, <3>3, EffectsKeep, StreamsClosed
  <2>3. CASE StreamRegisters
    <3>1. UNCHANGED <<lab, saved, displaced, wire, runs>> /\ clients' = clients \cup {lab.stream}
          /\ lab.stream \in Runs
      BY <2>3 DEF StreamRegisters, pageVars
    <3>2. Page'
      BY <3>1, PageIdle DEF pageVars
    <3>. QED BY <3>1, <3>2 DEF Streams
  <2>4. ASSUME NEW r \in Runs, PostArrives(r)
        PROVE  Page' /\ Streams'
    BY <2>4, Posted, StreamsKeep DEF PostArrives, StreamsUnchanged
  <2>5. ASSUME NEW r \in Runs, StatusArrives(r)
        PROVE  Page' /\ Streams'
    BY <2>5, StatusShown
  <2>6. ASSUME NEW g \in lab.gets, ServeGetRun(g) \/ GetRunArrives(g)
        PROVE  Page' /\ Streams'
    BY <2>6, Served, Got, StreamsKeep DEF ServeGetRun, GetRunArrives, StreamsUnchanged
  <2>7. CASE LabCallFails
    BY <2>7, CallLost, StreamsKeep DEF LabCallFails, StreamsUnchanged
  <2>8. ASSUME NEW r \in scene.runs, NEW scenario \in scene.scenarios, ClickExecute(r, scenario)
        PROVE  Page' /\ Streams'
    <3>1. r \in Runs /\ scenario \in Scenarios
      BY DEF ConsoleAssumption, ConsoleInv
    <3>2. CloseStreams
      BY <2>8 DEF ClickExecute
    <3>. QED BY <2>8, <3>1, <3>2, ExecuteKeeps, StreamsClosed
  <2>. QED BY <2>1, <2>2, <2>3, <2>4, <2>5, <2>6, <2>7, <2>8 DEF LabPageStep
<1>6. ASSUME NEW r \in Runs, NEW status \in Verdicts, Ends(r, status), runs[r].at # "done",
             UNCHANGED pageVars
      PROVE  Page' /\ Streams'
  BY <1>6, PageIdle, StreamsEnd DEF pageVars
<1>7. ASSUME NEW r \in Runs, ScenarioRuns(r)
      PROVE  Page' /\ Streams'
  <2>1. CASE Conclude(r) /\ Ends(r, Verdict(runs[r]))
    <3>1. Verdict(runs[r]) \in Verdicts /\ runs[r].at # "done"
      BY <2>1 DEF Conclude, Verdict, Verdicts
    <3>. QED BY <1>6, <1>7, <2>1, <3>1 DEF ScenarioRuns
  <2>2. CASE ~(Conclude(r) /\ Ends(r, Verdict(runs[r])))
    BY <1>1, <1>7, <2>2 DEF ScenarioRuns, ScenarioStep, GetToken, StartPolling, Poll, NextPass, Conclude,
                            Submit, StreamsUnchanged
  <2>. QED BY <2>1, <2>2
<1>8. ASSUME NEW r \in Runs, ScenarioFails(r)
      PROVE  Page' /\ Streams'
  <2>1. Ends(r, "FAIL") /\ "FAIL" \in Verdicts /\ runs[r].at # "done" /\ UNCHANGED pageVars
    BY <1>8 DEF ScenarioFails, ScenarioThrows, Verdicts
  <2>. QED BY <1>6, <2>1
<1>. QED BY <1>2, <1>3, <1>4, <1>5, <1>7, <1>8 DEF Next

LEMMA ApartKeeps ==
    ASSUME ConsoleInv, [Next]_vars
    PROVE  Apart'
<1>. Apart
  BY DEF ConsoleInv
<1>1. CASE UNCHANGED vars
  BY <1>1 DEF vars, tabVars, pageVars, Apart
<1>2. CASE Session
  BY <1>2 DEF Session, Login, Reload, Verified, NotVerified, Navigate, Logout, LeavePages, Enter, Apart
<1>3. CASE Platform
  BY <1>3, ClosedIdle DEF Platform, pageVars, tabVars, Apart
<1>4. CASE ViewLives
  BY <1>4, ClosedIdle DEF ViewLives, pageVars, tabVars, Apart
<1>5. CASE LabLives
  BY <1>5 DEF LabLives, tabVars, Apart
<1>6. CASE \E r \in Runs : ScenarioRuns(r) \/ ScenarioFails(r)
  BY <1>6 DEF ScenarioRuns, ScenarioFails, pageVars, tabVars, Apart
<1>. QED BY <1>1, <1>2, <1>3, <1>4, <1>5, <1>6 DEF Next

LEMMA ConsoleKeeps ==
    ASSUME ConsoleInv, [Next]_vars
    PROVE  ConsoleInv' /\ HeldGrows /\ RunsGrow
<1>1. /\ scene' = scene /\ FeedStep /\ ViewMoves
      /\ UNCHANGED runs \/ \E r \in Runs : ServiceMoves(r)
  BY Moves
<1>2. FeedInv' /\ HeldGrows
  BY <1>1, FeedAssumption, FeedKeeps DEF ConsoleInv
<1>3. ViewInv'
  BY <1>1, <1>2, ViewKeeps DEF ConsoleInv
<1>4. RunsInv' /\ RunsGrow
  BY <1>1, <1>2, ConsoleAssumption, RunsKeep DEF ConsoleInv
<1>5. Page' /\ Streams'
  BY <1>4, PageKeeps
<1>6. Apart'
  BY ApartKeeps
<1>. QED BY <1>1, <1>2, <1>3, <1>4, <1>5, <1>6 DEF ConsoleInv

-----------------------------------------------------------------------------
\* The invariant holds throughout, and what a job has been and what a run has come
\* to is never taken back.
LEMMA ConsoleInvariant == Spec => []ConsoleInv
  BY Starting, ConsoleKeeps, PTL DEF Spec

\* The values every variable of the tab, of the lab service and of the jobs takes; what
\* a page holds is gone when the tab is on another one (JobPage.tla, LabPage.tla).
THEOREM ConsoleTyped == Spec => []TypeOK
<1>1. ConsoleInv => TypeOK
  <2>. SUFFICES ASSUME ConsoleInv PROVE TypeOK
    OBVIOUS
  <2>1. TypeOKFeed /\ (path # "job" => view = ClosedView) /\ (path # "lab" => lab = ClosedLab)
    BY DEF ConsoleInv, FeedInv, Apart
  <2>2. TypeOKLab
    <3>1. \A r \in Runs : /\ runs[r].status \in {"none", "RUNNING"} \cup Verdicts /\ runs[r].at \in RunAt
                          /\ runs[r].next \in 1 .. BatchSize + 1 /\ runs[r].batch \in 0 .. Batches
                          /\ runs[r].open \subseteq 1 .. BatchSize /\ runs[r].completed \in Seq(1 .. BatchSize)
      BY RunFacts DEF ConsoleInv
    <3>. QED BY <3>1 DEF ConsoleInv, Streams, TypeOKLab
  <2>3. TypeOKView
    <3>1. /\ view.id \in Jobs \cup {Nothing} /\ view.status \in JobStatus \cup {Nothing}
          /\ view.feed \in FeedState /\ view.inbox \in Seq(Event) /\ view.latest \in Seq(Event)
          /\ view.calls \subseteq CallState
      BY DEF ConsoleInv, ViewInv, ViewState
    <3>. QED BY <3>1, Parts DEF ConsoleInv, ViewInv, TypeOKView
  <2>4. TypeOKLabPage
    <3>1. /\ lab.shown \in Shown /\ lab.rendered \in Shown /\ lab.posts \subseteq Runs
          /\ \A g \in lab.gets : g.id \in Runs /\ g.answer \in {Asked, "RUNNING"} \cup Verdicts
      BY DEF ConsoleInv, Page, LabState, GetState
    <3>. QED BY <3>1 DEF ConsoleInv, Page, Streams, TypeOKLabPage
  <2>. QED BY <2>1, <2>2, <2>3, <2>4 DEF TypeOK
<1>. QED BY <1>1, ConsoleInvariant, PTL

\* What the page of a job shows has been the status of that job at some time, in whatever
\* order the answers of GET /jobs/:id, the events of the stream and the effects of React
\* come (app/jobs/[id]/page.tsx).
THEOREM PageShowsHistory == Spec => []ShownStatusHeld
<1>1. ConsoleInv => ShownStatusHeld
  BY DEF ConsoleInv, ViewInv
<1>. QED BY <1>1, ConsoleInvariant, PTL

\* A verdict the lab page shows is the verdict of the run it shows, for any number of
\* runs and of streams that come and go, as long as no late answer has put one run in
\* the place of another (lab/page.tsx).
THEOREM VerdictsAreOfTheirRun == Spec => []VerdictShownIsTrue
<1>1. ConsoleInv => VerdictShownIsTrue
  BY DEF ConsoleInv, Page, IsTrue, VerdictShownIsTrue
<1>. QED BY <1>1, ConsoleInvariant, PTL

\* What PASS of a recovery and of a priority run does say of their jobs, for batches of any
\* size, whatever becomes of the jobs between two polls (recovery.ts:63-69,
\* priority.ts:44-46).  The documents promise more: PassKeepsPromise, which fails.
THEOREM PassesMeanProgress == Spec => []PassMeansProgress
<1>1. ConsoleInv => PassMeansProgress
  <2>1. ASSUME ConsoleInv, NEW r \in Runs, runs[r].status = "PASS"
        PROVE  /\ runs[r].scenario = "recovery" =>
                     \E i \in DOMAIN runs[r].jobs : CompletedAt(runs[r], i)
               /\ runs[r].scenario = "priority" =>
                     \A i \in DOMAIN runs[r].jobs : EndedAt(runs[r], i)
    <3>1. Progress(runs[r], held)
      BY <2>1, RunFacts DEF ConsoleInv, RunSound
    <3>. QED BY <3>1 DEF Progress, HasCompleted, HasEnded, CompletedAt, EndedAt
  <2>. QED BY <2>1 DEF PassMeansProgress
<1>. QED BY <1>1, ConsoleInvariant, PTL

\* A run that has a verdict keeps it: a scenario that throws after its deadline, or a
\* second request for the same run, takes nothing back.
THEOREM VerdictsStay ==
    Spec => [][\A r \in Runs : runs[r].status \in Verdicts => runs'[r].status = runs[r].status]_vars
<1>1. ConsoleInv /\ [Next]_vars
        => [\A r \in Runs : runs[r].status \in Verdicts => runs'[r].status = runs[r].status]_vars
  BY ConsoleKeeps DEF RunsGrow
<1>. QED BY <1>1, ConsoleInvariant, PTL DEF Spec
=============================================================================
