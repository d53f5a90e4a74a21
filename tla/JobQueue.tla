------------------------------ MODULE JobQueue ------------------------------
(***************************************************************************)
(* The durable job queue: the app.jobs table of Postgres, the three Redis  *)
(* keys (work list, retry set, dead list), the API code that creates job   *)
(* rows in its business transactions (apps/api/src/queue), and the worker  *)
(* processes that run them (apps/worker/src).                              *)
(*                                                                         *)
(* A step is one committed database transaction or one Redis command: the  *)
(* code awaits each of them, so everything else may run in between.  Time  *)
(* is abstracted: "older than staleJobMs" and "retry score has passed" are *)
(* choices of which rows or members qualify.  idempotency_key is unique,   *)
(* so a job row is identified with its key.                                *)
(***************************************************************************)
EXTENDS Naturals, Sequences, FiniteSets

CONSTANTS
    Jobs,           \* idempotency keys (= ids of their rows)
    NoJob,          \* "no job": the null of the program variables
    Poison,         \* jobs of an unknown type or with a payload handlers reject
    Producers,      \* concurrent API requests
    Workers,        \* worker processes
    MaxAttempts,    \* app.jobs.max_attempts
    QueueBound,     \* bound of the model: work list length with duplicates
    MaxFaults,      \* bound of the model: how many faults a behaviour has
    FaultKinds,     \* which faults it may have, see Fault
    LateRestart     \* TRUE: a worker is restarted only after staleJobMs

ASSUME JobsAssumption == NoJob \notin Jobs /\ Poison \subseteq Jobs
ASSUME AttemptsAssumption == MaxAttempts \in Nat \ {0}
ASSUME BoundsAssumption == QueueBound \in Nat /\ MaxFaults \in Nat

VARIABLES
    status,     \* app.jobs.status, "absent" when there is no row
    attempts,   \* app.jobs.attempts
    notified,   \* how many app.notifications rows carry the job's key
    skipped,    \* jobs a handler finished without a row: type disabled
    queue,      \* Redis JOB_QUEUE_KEY, next to pop first
    retry,      \* Redis JOB_RETRY_KEY, a sorted set
    deadList,   \* Redis JOB_DEAD_KEY, as a set
    waking,     \* waking[p]: id a request has committed and not yet pushed
    pc,         \* pc[w]: where worker w is, see PCs
    cur,        \* cur[w]: the job processOne works on
    snap,       \* snap[w]: job.attempts as processOne loaded it
    due,        \* due[w]: members reapRetries has read and not yet removed
    reaped,     \* reaped[w]: members runScheduler has still to reset
    pushes,     \* pushes[w]: <<job, caller>> still to be pushed to Redis
    faults      \* faults that may still happen

rowVars == <<status, attempts>>
effectVars == <<notified, skipped>>
redisVars == <<queue, retry, deadList>>
pollVars == <<pc, cur, snap>>
timerVars == <<due, reaped, pushes>>
vars == <<rowVars, effectVars, redisVars, waking, pollVars, timerVars, faults>>

Statuses == {"absent", "queued", "processing", "completed", "dead"}
Terminal == {"completed", "dead"}
Live == {"queued", "processing"}
\* Who asked for a push: it decides what a failing push aborts.
Callers == {"recover", "requeue", "scheduler"}
PCs == {"down", "recovering", "recoverPush", "starting", "stuck",
        "idle", "load", "claim", "handle", "complete", "fail", "reject",
        "toRetry", "toDead"}
\* start() has installed the interval and entered the poll loop.
Looping(w) == pc[w] \notin {"down", "recovering", "recoverPush", "starting", "stuck"}
PushesOf(w, caller) == {t \in pushes[w] : t[2] = caller}
Rows(st) == {j \in Jobs : status[j] = st}

Init ==
    /\ status = [j \in Jobs |-> "absent"]
    /\ attempts = [j \in Jobs |-> 0]
    /\ notified = [j \in Jobs |-> 0]
    /\ skipped = {}
    /\ queue = <<>> /\ retry = {} /\ deadList = {}
    /\ waking = [p \in Producers |-> NoJob]
    /\ pc = [w \in Workers |-> "down"]
    /\ cur = [w \in Workers |-> NoJob]
    /\ snap = [w \in Workers |-> 0]
    /\ due = [w \in Workers |-> {}]
    /\ reaped = [w \in Workers |-> {}]
    /\ pushes = [w \in Workers |-> {}]
    /\ faults = MaxFaults

(***************************************************************************)
(* Faults.  "db": a transaction fails and is rolled back.  "commit": it    *)
(* commits but COMMIT's reply is lost, so the caller sees an error.        *)
(* "redis": a Redis command fails.  "startup": one fails in recoverStale.  *)
(* "flush": Redis loses its data.  "crash": a worker process dies.         *)
(***************************************************************************)
Fault(kind) ==
    /\ kind \in FaultKinds
    /\ faults > 0
    /\ faults' = faults - 1

NoFault == UNCHANGED faults

\* redis.lPush(JOB_QUEUE_KEY, id); brPop takes from the other end.  Beyond
\* QueueBound entries the model adds no further copy of a waiting id.
Lpush(j) ==
    /\ queue' = IF Len(queue) >= QueueBound /\ \E i \in 1..Len(queue) : queue[i] = j
                THEN queue
                ELSE Append(queue, j)
    /\ UNCHANGED <<retry, deadList>>

Goto(w, label) == pc' = [pc EXCEPT ![w] = label]

-----------------------------------------------------------------------------
(***************************************************************************)
(* API requests                                                            *)
(***************************************************************************)

\* Defect for the model check: a request wakes an id although its
\* transaction was rolled back.
ApiCommitWakesRolledBack(p, j) ==
    /\ waking[p] = NoJob
    /\ status[j] \notin Terminal
    /\ \E committed \in BOOLEAN :
          status' = IF committed /\ status[j] = "absent"
                    THEN [status EXCEPT ![j] = "queued"] ELSE status
    /\ waking' = [waking EXCEPT ![p] = j]
    /\ UNCHANGED <<attempts, effectVars, redisVars, pollVars, timerVars, faults>>

\* A request's transaction commits: insertJobRow inserted the row, or found
\* the key and returns the row's id unless the job is terminal, in which
\* case there is nothing to wake (and nothing changes).
ApiCommit(p, j) ==
    /\ waking[p] = NoJob
    /\ status[j] \notin Terminal
    /\ status' = IF status[j] = "absent" THEN [status EXCEPT ![j] = "queued"] ELSE status
    /\ waking' = [waking EXCEPT ![p] = j]
    /\ UNCHANGED <<attempts, effectVars, redisVars, pollVars, timerVars, faults>>

\* wakeJob after the commit; a Redis error is swallowed, and an API process
\* that dies here has the same effect.
ApiWake(p) ==
    /\ waking[p] # NoJob
    /\ waking' = [waking EXCEPT ![p] = NoJob]
    /\ \/ Lpush(waking[p])
       \/ UNCHANGED redisVars
    /\ UNCHANGED <<rowVars, effectVars, pollVars, timerVars, faults>>

-----------------------------------------------------------------------------
(***************************************************************************)
(* Worker: startup                                                         *)
(***************************************************************************)

\* startWorker up to processor.start().
Start(w) ==
    /\ pc[w] = "down"
    /\ Goto(w, "recovering")
    /\ UNCHANGED <<rowVars, effectVars, redisVars, waking, cur, snap, timerVars, faults>>

\* recoverStale's UPDATE: stale `processing` rows become queued again.  With
\* LateRestart every such row is older than staleJobMs by now.
Recover(w) ==
    /\ pc[w] = "recovering"
    /\ \/ /\ \E S \in SUBSET Rows("processing") :
                /\ LateRestart => S = Rows("processing")
                /\ status' = [j \in Jobs |-> IF j \in S THEN "queued" ELSE status[j]]
                /\ pushes' = [pushes EXCEPT ![w] = S \X {"recover"}]
          /\ Goto(w, "recoverPush")
          /\ NoFault
       \/ /\ Fault("db")
          /\ Goto(w, "stuck")
          /\ UNCHANGED <<status, pushes>>
    /\ UNCHANGED <<attempts, effectVars, redisVars, waking, cur, snap, due, reaped>>

\* recoverStale's ids are pushed; start() goes on to requeuePending, whose
\* failing SELECT rejects start() as well.
StartRequeue(w) ==
    /\ pc[w] = "recoverPush"
    /\ pushes[w] = {}
    /\ \/ /\ \E S \in SUBSET Rows("queued") :
                pushes' = [pushes EXCEPT ![w] = S \X {"requeue"}]
          /\ Goto(w, "starting")
          /\ NoFault
       \/ /\ Fault("db")
          /\ Goto(w, "stuck")
          /\ UNCHANGED pushes
    /\ UNCHANGED <<rowVars, effectVars, redisVars, waking, cur, snap, due, reaped>>

\* start() installs the interval and enters the poll loop.
EnterLoop(w) ==
    /\ pc[w] = "starting"
    /\ pushes[w] = {}
    /\ Goto(w, "idle")
    /\ UNCHANGED <<rowVars, effectVars, redisVars, waking, cur, snap, timerVars, faults>>

\* The process dies, or shuts down on a signal: shutdown() closes the pool
\* and the Redis client under a running processOne.
Crash(w) ==
    /\ pc[w] # "down"
    /\ Fault("crash")
    /\ Goto(w, "down")
    /\ cur' = [cur EXCEPT ![w] = NoJob]
    /\ snap' = [snap EXCEPT ![w] = 0]
    /\ due' = [due EXCEPT ![w] = {}]
    /\ reaped' = [reaped EXCEPT ![w] = {}]
    /\ pushes' = [pushes EXCEPT ![w] = {}]
    /\ UNCHANGED <<rowVars, effectVars, redisVars, waking>>

-----------------------------------------------------------------------------
(***************************************************************************)
(* Worker: poll loop and processOne                                        *)
(***************************************************************************)

\* processOne returns, or throws into the poll loop, which goes on.
BackToPoll(w) ==
    /\ pc' = [pc EXCEPT ![w] = "idle"]
    /\ cur' = [cur EXCEPT ![w] = NoJob]
    /\ snap' = [snap EXCEPT ![w] = 0]

\* dequeueJob: brPop.
Dequeue(w) ==
    /\ pc[w] = "idle"
    /\ queue # <<>>
    /\ cur' = [cur EXCEPT ![w] = Head(queue)]
    /\ queue' = Tail(queue)
    /\ Goto(w, "load")
    /\ UNCHANGED <<rowVars, effectVars, retry, deadList, waking, snap, timerVars, faults>>

\* processOne's SELECT: no row and terminal rows are left alone; otherwise
\* the row is remembered as it is now.
Load(w) ==
    /\ pc[w] = "load"
    /\ \/ /\ status[cur[w]] \in Live
          /\ Goto(w, "claim")
          /\ snap' = [snap EXCEPT ![w] = attempts[cur[w]]]
          /\ UNCHANGED cur
          /\ NoFault
       \/ /\ status[cur[w]] \notin Live
          /\ BackToPoll(w)
          /\ NoFault
       \/ /\ Fault("db")
          /\ BackToPoll(w)
    /\ UNCHANGED <<rowVars, effectVars, redisVars, waking, timerVars>>

\* processOne's conditional UPDATE: one of several holders of the id wins.
Claim(w) ==
    /\ pc[w] = "claim"
    /\ \/ /\ status[cur[w]] = "queued"
          /\ status' = [status EXCEPT ![cur[w]] = "processing"]
          /\ \/ Goto(w, "handle") /\ UNCHANGED <<cur, snap>> /\ NoFault
             \/ BackToPoll(w) /\ Fault("commit")
       \/ /\ status[cur[w]] # "queued"
          /\ BackToPoll(w)
          /\ NoFault
          /\ UNCHANGED status
       \/ /\ Fault("db")
          /\ BackToPoll(w)
          /\ UNCHANGED status
    /\ UNCHANGED <<attempts, effectVars, redisVars, waking, timerVars>>

\* Defect: the notification row is keyed on something a replay changes.
InsertNotificationUnkeyed(j) ==
    notified' = [notified EXCEPT ![j] = @ + 1]

\* handleNotificationDeliver's INSERT ... ON CONFLICT (idempotency_key) DO
\* NOTHING, keyed on the durable job key.
InsertNotification(j) ==
    notified' = IF notified[j] = 0 THEN [notified EXCEPT ![j] = 1] ELSE notified

\* Defect: a failing handler is taken for a successful one.
HandleErrorSwallowed(w) ==
    /\ pc[w] = "handle"
    /\ \/ InsertNotification(cur[w])
       \/ UNCHANGED notified
    /\ Goto(w, "complete")
    /\ NoFault
    /\ UNCHANGED <<rowVars, skipped, redisVars, waking, cur, snap, timerVars>>

\* The handler's transaction: a permanent error (unknown type, bad payload),
\* the notification created, nothing to do because the user disabled the
\* type, any other error, or an error after the commit.
Handle(w) ==
    LET j == cur[w] IN
    /\ pc[w] = "handle"
    /\ \/ /\ j \in Poison
          /\ Goto(w, "reject")
          /\ NoFault
          /\ UNCHANGED effectVars
       \/ /\ j \notin Poison
          /\ \/ InsertNotification(j) /\ UNCHANGED skipped
             \/ skipped' = skipped \cup {j} /\ UNCHANGED notified
          /\ \/ Goto(w, "complete") /\ NoFault
             \/ Goto(w, "fail") /\ Fault("commit")
       \/ /\ j \notin Poison
          /\ Goto(w, "fail")
          /\ NoFault
          /\ UNCHANGED effectVars
    /\ UNCHANGED <<rowVars, redisVars, waking, cur, snap, timerVars>>

\* The UPDATE to completed has no status test; when it fails, the catch
\* block runs for a job whose handler has already committed.
Complete(w) ==
    /\ pc[w] = "complete"
    /\ \/ /\ status' = [status EXCEPT ![cur[w]] = "completed"]
          /\ \/ BackToPoll(w) /\ NoFault
             \/ Goto(w, "fail") /\ Fault("commit") /\ UNCHANGED <<cur, snap>>
       \/ /\ Fault("db")
          /\ Goto(w, "fail")
          /\ UNCHANGED <<status, cur, snap>>
    /\ UNCHANGED <<attempts, effectVars, redisVars, waking, timerVars>>

\* Defect: off by one, the last attempt is also retried.
ExhaustedOffByOne(n) == n > MaxAttempts

\* nextAttempts >= job.max_attempts
Exhausted(n) == n >= MaxAttempts

\* The catch block's UPDATE, without a status test: nextAttempts is computed
\* from the attempts loaded at the beginning.
FailRow(w) ==
    LET j == cur[w]
        nextAttempts == snap[w] + 1
        bury == pc[w] = "reject" \/ Exhausted(nextAttempts)
    IN  /\ status' = [status EXCEPT ![j] = IF bury THEN "dead" ELSE "queued"]
        /\ attempts' = [attempts EXCEPT ![j] = nextAttempts]
        /\ \/ Goto(w, IF bury THEN "toDead" ELSE "toRetry") /\ UNCHANGED <<cur, snap>> /\ NoFault
           \/ BackToPoll(w) /\ Fault("commit")

\* The catch block: when its own transaction fails the row stays as it is.
Fail(w) ==
    /\ pc[w] \in {"fail", "reject"}
    /\ \/ FailRow(w)
       \/ BackToPoll(w) /\ Fault("db") /\ UNCHANGED rowVars
    /\ UNCHANGED <<effectVars, redisVars, waking, timerVars>>

\* Defect: the retry is scheduled after the job variable was cleared.
ScheduleRetryCleared(w) ==
    /\ pc[w] = "toRetry"
    /\ BackToPoll(w)
    /\ retry' = retry \cup {cur'[w]}
    /\ NoFault
    /\ UNCHANGED <<rowVars, effectVars, queue, deadList, waking, timerVars>>

\* scheduleRetry: zAdd; an error is swallowed by the poll loop.
ScheduleRetry(w) ==
    /\ pc[w] = "toRetry"
    /\ \/ retry' = retry \cup {cur[w]} /\ NoFault
       \/ Fault("redis") /\ UNCHANGED retry
    /\ BackToPoll(w)
    /\ UNCHANGED <<rowVars, effectVars, queue, deadList, waking, timerVars>>

\* moveToDead: lPush to the dead list.
MoveToDead(w) ==
    /\ pc[w] = "toDead"
    /\ \/ deadList' = deadList \cup {cur[w]} /\ NoFault
       \/ Fault("redis") /\ UNCHANGED deadList
    /\ BackToPoll(w)
    /\ UNCHANGED <<rowVars, effectVars, queue, retry, waking, timerVars>>

-----------------------------------------------------------------------------
(***************************************************************************)
(* Worker: the interval, runScheduler and requeuePending                   *)
(***************************************************************************)

\* reapRetries' zRangeByScore: some members' score has passed.
ReadDue(w) ==
    /\ Looping(w)
    /\ due[w] = {}
    /\ \E S \in SUBSET retry \ {{}} : due' = [due EXCEPT ![w] = S]
    /\ UNCHANGED <<rowVars, effectVars, redisVars, waking, pollVars, reaped, pushes, faults>>

\* reapRetries' zRem of what it read; the members may be gone by now, which
\* zRem does not report.  If it fails, runScheduler ends.
RemoveDue(w) ==
    /\ due[w] # {}
    /\ due' = [due EXCEPT ![w] = {}]
    /\ \/ /\ retry' = retry \ due[w]
          /\ reaped' = [reaped EXCEPT ![w] = @ \cup due[w]]
          /\ NoFault
       \/ Fault("redis") /\ UNCHANGED <<retry, reaped>>
    /\ UNCHANGED <<rowVars, effectVars, queue, deadList, waking, pollVars, pushes>>

\* Defect: the scheduler resets whatever row the member names.
ResetDueUnguarded(w, j) ==
    /\ j \in reaped[w]
    /\ PushesOf(w, "scheduler") = {}
    /\ status' = [status EXCEPT ![j] = "queued"]
    /\ pushes' = [pushes EXCEPT ![w] = @ \cup {<<j, "scheduler">>}]
    /\ reaped' = [reaped EXCEPT ![w] = @ \ {j}]
    /\ NoFault
    /\ UNCHANGED <<attempts, effectVars, redisVars, waking, pollVars, due>>

\* runScheduler's UPDATE for one member: any row that is not terminal, a
\* `processing` one included, becomes queued and is pushed next.
ResetDue(w, j) ==
    /\ j \in reaped[w]
    /\ PushesOf(w, "scheduler") = {}
    /\ \/ /\ status[j] \in Live
          /\ status' = [status EXCEPT ![j] = "queued"]
          /\ pushes' = [pushes EXCEPT ![w] = @ \cup {<<j, "scheduler">>}]
          /\ reaped' = [reaped EXCEPT ![w] = @ \ {j}]
          /\ NoFault
       \/ /\ status[j] \notin Live
          /\ reaped' = [reaped EXCEPT ![w] = @ \ {j}]
          /\ NoFault
          /\ UNCHANGED <<status, pushes>>
       \/ /\ Fault("db")
          /\ reaped' = [reaped EXCEPT ![w] = {}]
          /\ UNCHANGED <<status, pushes>>
    /\ UNCHANGED <<attempts, effectVars, redisVars, waking, pollVars, due>>

\* Defect: the interval only reaps retries, requeuePending runs at start.
RequeuePendingStartOnly(w, S) == Looping(w) /\ S = {} /\ UNCHANGED vars

\* requeuePending's SELECT on a tick of the interval: some queued rows are
\* older than staleJobMs.  A failing SELECT leaves them for the next tick.
RequeuePending(w, S) ==
    /\ Looping(w)
    /\ S \subseteq Rows("queued")
    /\ pushes' = [pushes EXCEPT ![w] = @ \cup (S \X {"requeue"})]
    /\ UNCHANGED <<rowVars, effectVars, redisVars, waking, pollVars, due, reaped, faults>>

\* enqueueJob(redis, id) for any of the three callers.
Push(w, t) ==
    /\ t \in pushes[w]
    /\ Lpush(t[1])
    /\ pushes' = [pushes EXCEPT ![w] = @ \ {t}]
    /\ UNCHANGED <<rowVars, effectVars, waking, pollVars, due, reaped, faults>>

\* The same when Redis fails: requeuePending swallows it, runScheduler ends
\* and forgets the members it has already removed, start() rejects and the
\* process stays alive on its heartbeat without ever processing a job.
PushFails(w, t) ==
    /\ t \in pushes[w]
    /\ \/ /\ t[2] = "requeue"
          /\ Fault("redis")
          /\ pushes' = [pushes EXCEPT ![w] = @ \ {t}]
          /\ UNCHANGED <<pc, reaped>>
       \/ /\ t[2] = "scheduler"
          /\ Fault("redis")
          /\ pushes' = [pushes EXCEPT ![w] = @ \ {t}]
          /\ reaped' = [reaped EXCEPT ![w] = {}]
          /\ UNCHANGED pc
       \/ /\ t[2] = "recover"
          /\ Fault("startup")
          /\ pushes' = [pushes EXCEPT ![w] = {}]
          /\ Goto(w, "stuck")
          /\ UNCHANGED reaped
    /\ UNCHANGED <<rowVars, effectVars, redisVars, waking, cur, snap, due>>

\* Redis restarts without its data.
RedisFlush ==
    /\ Fault("flush")
    /\ queue' = <<>> /\ retry' = {} /\ deadList' = {}
    /\ UNCHANGED <<rowVars, effectVars, waking, pollVars, timerVars>>

-----------------------------------------------------------------------------
ApiNext(p) == ApiWake(p) \/ \E j \in Jobs : ApiCommit(p, j)

StartNext(w) == Start(w) \/ Recover(w) \/ StartRequeue(w) \/ EnterLoop(w)

PollNext(w) ==
    \/ Dequeue(w) \/ Load(w) \/ Claim(w) \/ Handle(w)
    \/ Complete(w) \/ Fail(w) \/ ScheduleRetry(w) \/ MoveToDead(w)

TimerNext(w) ==
    \/ ReadDue(w) \/ RemoveDue(w)
    \/ \E j \in Jobs : ResetDue(w, j)
    \/ \E S \in SUBSET Jobs : RequeuePending(w, S)
    \/ \E t \in pushes[w] : Push(w, t) \/ PushFails(w, t)

Next ==
    \/ \E p \in Producers : ApiNext(p)
    \/ \E w \in Workers : StartNext(w) \/ Crash(w) \/ PollNext(w) \/ TimerNext(w)
    \/ RedisFlush

Spec == Init /\ [][Next]_vars

(***************************************************************************)
(* Fairness.  A worker process is restarted when it is down (the service   *)
(* manager), its poll loop never stops, its interval fires for ever and    *)
(* every stale queued row is selected by some tick.  Nothing is assumed of *)
(* API requests, of crashes or of faults.                                  *)
(***************************************************************************)
Fairness ==
    \A w \in Workers :
        /\ WF_vars(StartNext(w))
        /\ WF_vars(PollNext(w))
        /\ WF_vars(ReadDue(w))
        /\ WF_vars(RemoveDue(w))
        /\ \A j \in Jobs :
              /\ WF_vars(ResetDue(w, j))
              /\ WF_vars(RequeuePending(w, {j}))
              /\ \A c \in Callers : WF_vars(Push(w, <<j, c>>))

FairSpec == Spec /\ Fairness

-----------------------------------------------------------------------------
(***************************************************************************)
(* Properties                                                              *)
(***************************************************************************)

RowsOK == status \in [Jobs -> Statuses] /\ attempts \in [Jobs -> Nat]
EffectsOK == notified \in [Jobs -> Nat] /\ skipped \subseteq Jobs
RedisOK == queue \in Seq(Jobs) /\ retry \subseteq Jobs /\ deadList \subseteq Jobs
PollOK ==
    /\ pc \in [Workers -> PCs]
    /\ cur \in [Workers -> Jobs \cup {NoJob}]
    /\ snap \in [Workers -> Nat]
TimersOK ==
    /\ due \in [Workers -> SUBSET Jobs]
    /\ reaped \in [Workers -> SUBSET Jobs]
    /\ pushes \in [Workers -> SUBSET (Jobs \X Callers)]

\* Every program variable and every stored value has its type.
TypeOK ==
    /\ RowsOK /\ EffectsOK /\ RedisOK /\ PollOK /\ TimersOK
    /\ waking \in [Producers -> Jobs \cup {NoJob}]
    /\ faults \in Nat

\* The id is in Redis, or held by code that may push it there.
Referenced(j) ==
    \/ \E i \in 1..Len(queue) : queue[i] = j
    \/ j \in retry \cup deadList
    \/ \E p \in Producers : waking[p] = j
    \/ \E w \in Workers : \/ cur[w] = j
                          \/ j \in due[w] \cup reaped[w]
                          \/ \E c \in Callers : <<j, c>> \in pushes[w]

\* "Only a real job id (one that exists in app.jobs) is ever pushed to
\* Redis" (queue/enqueue.ts): every id in Redis or on its way to it names a
\* committed row.
NoPhantomIds == \A j \in Jobs : Referenced(j) => status[j] # "absent"

\* A completed job had its effect: the handler's transaction committed a
\* notification or found its type disabled, whatever workers raced for it.
CompletedWasHandled ==
    \A j \in Jobs : status[j] = "completed" => notified[j] > 0 \/ j \in skipped

\* handlers/notifications.ts: "Exactly-once notification creation must be
\* keyed on the durable job identity": replays by crashed, retried or
\* concurrent workers never create a second notification.
NotifiedAtMostOnce == \A j \in Jobs : notified[j] <= 1

\* A job is given up only when it is poison or has used all its attempts,
\* and a job that can still run has attempts left, although two workers may
\* overwrite each other's count.
DeadOnlyWhenExhausted ==
    \A j \in Jobs :
        /\ status[j] = "dead" => j \in Poison \/ attempts[j] = MaxAttempts
        /\ status[j] \in Live => attempts[j] < MaxAttempts

\* With one worker process the table implements JobContract: a settled job
\* is never run or changed again.
Contract == INSTANCE JobContract WITH
    state <- [j \in Jobs |-> IF status[j] \in Live THEN "live" ELSE status[j]],
    delivered <- {j \in Jobs : notified[j] > 0}
ImplementsContract == Contract!Spec

\* docs/audit/redis-recovery-acceptance.md: the outbox "guarantees a job is
\* never lost": every committed job is eventually completed or dead.
EventuallySettled ==
    \A j \in Jobs : status[j] \in Live ~> status[j] \in Terminal
=============================================================================
