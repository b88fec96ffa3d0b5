----------------------------- MODULE MCApiEdge ------------------------------
(* Two API processes, and in front of them, one scene at a time: two create   *)
(* requests with one idempotency key; a create request whose job may be       *)
(* cancelled and a read; the same with a callback; a create request with a    *)
(* callback whose job may be retried; or two visitors who register one email  *)
(* and a third who tries to log in with it.  In the first and the third scene *)
(* a process may die.  Where callbacks are not the matter no process hears of *)
(* an event (deaf), and in the fourth only one does.                          *)
EXTENDS ApiEdge, TLC

CONSTANTS c1, c2, c3, c4, c5, g1, a1, a2, l1, l2, l3

MCKeyOf == [j \in {c1, c2} |-> "key"] @@ c3 :> "key3" @@ c4 :> "key4" @@ c5 :> "key5"
MCBucketOf ==
    [j \in {c1, c2, c3, c4, c5} |-> "jobs"] @@ g1 :> "api"
    @@ [r \in {a1, a2, l1, l2, l3} |-> "auth"]
MCAsks == [j \in {c1, c2} |-> {}] @@ [j \in {c3, c4} |-> {"cancel"}] @@ c5 :> {"retry"}
MCMaxRuns == [j \in {c1, c2, c3, c4} |-> 1] @@ c5 :> 2
MCScenes ==
    {[arrive |-> {c1, c2}, called |-> {}, crashes |-> 0, deaf |-> {"s1", "s2"}],
     [arrive |-> {c3, g1}, called |-> {}, crashes |-> 1, deaf |-> {"s1", "s2"}],
     [arrive |-> {c4}, called |-> {c4}, crashes |-> 0, deaf |-> {}],
     [arrive |-> {c5}, called |-> {c5}, crashes |-> 1, deaf |-> {"s2"}],
     [arrive |-> {a1, a2, l3}, called |-> {}, crashes |-> 1, deaf |-> {"s1", "s2"}]}
MCServerOf == [r \in {c1, c3, c4, c5, g1, a1, l1, l3} |-> "s1"] @@ [r \in {c2, a2, l2} |-> "s2"]
MCMaxRequests == "jobs" :> 1 @@ "api" :> 1 @@ "auth" :> 3
MCEmailOf == [r \in {a1, a2, l1, l2, l3} |-> "someone"]
MCPasswordOf == [r \in {a1, l1} |-> "one"] @@ [r \in {a2, l2, l3} |-> "two"]
MCLoginAfter == a1 :> l1 @@ a2 :> l2
=============================================================================
