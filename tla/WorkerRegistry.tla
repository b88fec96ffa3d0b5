--------------------------- MODULE WorkerRegistry ---------------------------
(***************************************************************************)
(* The worker's side of failure detection: heartbeat.ts,                   *)
(* worker.service.ts, and start and shutdown of worker.ts.  Redis holds a  *)
(* key per worker with a TTL of 30 s and the set workers:active; a worker  *)
(* writes both in two calls when it registers, and the key alone with each *)
(* heartbeat.  Each call to Redis is a step.                               *)
(*                                                                         *)
(* Of the jobs a worker has claimed only this is kept: whether there is a  *)
(* RUNNING row with its WORKER_ID that one of its loops works on (busy),   *)
(* and whether there is one whose loop died with its process (orphaned).   *)
(* JobPlatform has the rows themselves.  incrementLoad and decrementLoad   *)
(* write the key a heartbeat writes and are left out.                      *)
(***************************************************************************)
EXTENDS Faults

CONSTANTS
    Workers,     \* WORKER_IDs
    MaxStarts    \* starts of a process under one WORKER_ID

ASSUME StartAssumption == MaxStarts \in Nat

VARIABLES
    key,         \* the workers whose key worker:<id> exists
    active,      \* workers:active
    beat,        \* beat[w]: the registration or heartbeat of w in progress
    stop,        \* stop[w]: how far the graceful shutdown of w is
    starts,      \* starts[w]: how often a process with this id was started
    busy,        \* workers with a RUNNING row one of their loops works on
    orphaned     \* workers with a RUNNING row no loop works on

registryVars == <<key, active, beat, stop, starts, busy, orphaned>>

(* off      no process            start    before the SADD of start()      *)
(* join     before its SET        idle     between heartbeats              *)
(* write    the key was read, before the SET that renews it                *)
(* add      the key was missing, before the SADD of registerWorker         *)
(* rejoin   before its SET                                                 *)
BeatPc == {"off", "start", "join", "idle", "write", "add", "rejoin"}

(* no       not shutting down     drain    waits for the current jobs      *)
(* clear    the interval is cleared, before the DEL                        *)
(* leave    the key is deleted    quit     removed from workers:active     *)
StopPc == {"no", "drain", "clear", "leave", "quit"}

TypeOKRegistry ==
    /\ key \subseteq Workers
    /\ active \subseteq Workers
    /\ beat \in [Workers -> BeatPc]
    /\ stop \in [Workers -> StopPc]
    /\ starts \in [Workers -> 0 .. MaxStarts]
    /\ busy \subseteq Workers
    /\ orphaned \subseteq Workers

InitRegistry ==
    /\ key = {} /\ active = {}
    /\ beat = [w \in Workers |-> "off"]
    /\ stop = [w \in Workers |-> "no"]
    /\ starts = [w \in Workers |-> 0]
    /\ busy = {} /\ orphaned = {}

Up(w) == beat[w] # "off"
Registering(w) == beat[w] \in {"start", "join"}

Beats(w, from, to) == beat[w] = from /\ beat' = [beat EXCEPT ![w] = to]
Stops(w, from, to) == stop[w] = from /\ stop' = [stop EXCEPT ![w] = to]

-----------------------------------------------------------------------------
(* start(), and the SADD of registerWorker.                                *)
StartWorker(w) ==
    /\ Beats(w, "off", "start")
    /\ starts[w] < MaxStarts
    /\ starts' = [starts EXCEPT ![w] = @ + 1]
    /\ UNCHANGED <<key, active, stop, busy, orphaned, failures>>

AddToActive(w) ==
    /\ Beats(w, "start", "join") \/ Beats(w, "add", "rejoin")
    /\ active' = active \cup {w}
    /\ UNCHANGED <<key, stop, starts, busy, orphaned, failures>>

(* The SET of registerWorker, or of a heartbeat that found the key.        *)
WriteKey(w) ==
    /\ \E pc \in {"join", "rejoin", "write"} : Beats(w, pc, "idle")
    /\ key' = key \cup {w}
    /\ UNCHANGED <<active, stop, starts, busy, orphaned, failures>>

(* heartbeat: GET.  One at a time, each takes less than the interval; and  *)
(* a shutdown that overtakes the registration is over before the first.    *)
Heartbeat(w) ==
    /\ stop[w] \in {"no", "drain"}
    /\ Beats(w, "idle", IF w \in key THEN "write" ELSE "add")
    /\ UNCHANGED <<key, active, stop, starts, busy, orphaned, failures>>

(* The TTL of a worker's key runs out.                                     *)
KeyExpires(w) ==
    /\ w \in key
    /\ key' = key \ {w}
    /\ UNCHANGED <<active, beat, stop, starts, busy, orphaned, failures>>

-----------------------------------------------------------------------------
(* Jobs: the loops start after the registration, a loop claims a job and   *)
(* ends it.  One that has popped an id claims it in the shutdown, too.     *)
ClaimJob(w) ==
    /\ beat[w] \notin {"off", "start", "join"}
    /\ stop[w] \in {"no", "drain"}
    /\ w \notin busy
    /\ busy' = busy \cup {w}
    /\ UNCHANGED <<key, active, beat, stop, starts, orphaned, failures>>

EndJob(w) ==
    /\ w \in busy
    /\ busy' = busy \ {w}
    /\ UNCHANGED <<key, active, beat, stop, starts, orphaned, failures>>

-----------------------------------------------------------------------------
(* shutdown(): no new jobs, wait for the current ones, clear the interval, *)
(* DEL, SREM, quit.  A heartbeat or a registration that is in progress     *)
(* goes on.  A shutdown that throws ends when the process is killed, which *)
(* is a crash.                                                             *)
Shutdown(w) ==
    /\ Up(w)
    /\ Stops(w, "no", IF Registering(w) THEN "clear" ELSE "drain")
    /\ UNCHANGED <<key, active, beat, starts, busy, orphaned, failures>>

(* Mutant: the current jobs are not waited for.                            *)
JobsCutShort(w) ==
    /\ Stops(w, "drain", "clear")
    /\ UNCHANGED <<key, active, beat, starts, busy, orphaned, failures>>

JobsDone(w) ==
    /\ w \notin busy
    /\ Stops(w, "drain", "clear")
    /\ UNCHANGED <<key, active, beat, starts, busy, orphaned, failures>>

DeleteKey(w) ==
    /\ Stops(w, "clear", "leave")
    /\ key' = key \ {w}
    /\ UNCHANGED <<active, beat, starts, busy, orphaned, failures>>

Leave(w) ==
    /\ Stops(w, "leave", "quit")
    /\ active' = active \ {w}
    /\ UNCHANGED <<key, beat, starts, busy, orphaned, failures>>

Exit(w) ==
    /\ Stops(w, "quit", "no")
    /\ beat' = [beat EXCEPT ![w] = "off"]
    /\ UNCHANGED <<key, active, starts, busy, orphaned, failures>>

-----------------------------------------------------------------------------
(* A call of a heartbeat throws, with or without effect; it is logged and  *)
(* the next one comes.  One of the registration ends start(): no loop ever *)
(* runs, which is a process that died.                                     *)
HeartbeatThrows(w) ==
    /\ \E pc \in {"write", "add", "rejoin"} : Beats(w, pc, "idle")
    /\ Fault
    /\ \/ beat[w] = "add" /\ active' = active \cup {w} /\ UNCHANGED key
       \/ beat[w] # "add" /\ key' = key \cup {w} /\ UNCHANGED active
       \/ UNCHANGED <<key, active>>
    /\ UNCHANGED <<stop, starts, busy, orphaned>>

Crash(w) ==
    /\ Up(w)
    /\ Fault
    /\ beat' = [beat EXCEPT ![w] = "off"]
    /\ stop' = [stop EXCEPT ![w] = "no"]
    /\ busy' = busy \ {w}
    /\ orphaned' = orphaned \cup (busy \cap {w})
    /\ UNCHANGED <<key, active, starts>>

-----------------------------------------------------------------------------
(* What a process does unless it dies; when it is started, told to stop    *)
(* and given jobs is up to the environment.                                *)
WorkerProgress(w) ==
    \/ AddToActive(w)
    \/ WriteKey(w)
    \/ JobsDone(w)
    \/ DeleteKey(w)
    \/ Leave(w)
    \/ Exit(w)

NextRegistry ==
    \E w \in Workers :
        \/ WorkerProgress(w)
        \/ Heartbeat(w)
        \/ StartWorker(w)
        \/ ClaimJob(w)
        \/ EndJob(w)
        \/ Shutdown(w)
        \/ HeartbeatThrows(w)
        \/ Crash(w)

=============================================================================
