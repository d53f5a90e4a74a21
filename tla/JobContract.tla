---------------------------- MODULE JobContract ----------------------------
(***************************************************************************)
(* What the durable job table promises its clients, with Redis, the        *)
(* workers and every intermediate state hidden.  A job key is submitted    *)
(* once; while it is live its notification may be created, once; it is     *)
(* then settled as completed or as dead, and a settled job stays settled.  *)
(***************************************************************************)
CONSTANTS Jobs,     \* idempotency keys, one per durable job row
          Poison    \* jobs whose type or payload no handler accepts

VARIABLES state,      \* state[j] \in {"absent", "live", "completed", "dead"}
          delivered   \* the jobs whose notification row exists

vars == <<state, delivered>>

Init ==
    /\ state = [j \in Jobs |-> "absent"]
    /\ delivered = {}

\* The business transaction that owns the job commits.
Submit(j) ==
    /\ state[j] = "absent"
    /\ state' = [state EXCEPT ![j] = "live"]
    /\ UNCHANGED delivered

\* The handler's transaction commits: only for a live job, never for poison.
Deliver(j) ==
    /\ state[j] = "live"
    /\ j \notin Poison \cup delivered
    /\ delivered' = delivered \cup {j}
    /\ UNCHANGED state

\* A job is completed with its notification created, or suppressed because
\* the user disabled its type; poison is never completed.
Finish(j) ==
    /\ state[j] = "live"
    /\ j \notin Poison
    /\ state' = [state EXCEPT ![j] = "completed"]
    /\ UNCHANGED delivered

\* The job is given up.
Bury(j) ==
    /\ state[j] = "live"
    /\ state' = [state EXCEPT ![j] = "dead"]
    /\ UNCHANGED delivered

Next == \E j \in Jobs : Submit(j) \/ Deliver(j) \/ Finish(j) \/ Bury(j)

Spec == Init /\ [][Next]_vars
=============================================================================
