--------------------------- MODULE JobQueueProofs ---------------------------
(***************************************************************************)
(* Theorems about JobQueue, for every set of jobs, producers and workers   *)
(* and every combination and number of faults.                             *)
(***************************************************************************)
EXTENDS JobQueue, TLAPS

USE DEF NoFault

-----------------------------------------------------------------------------
(* Type correctness *)

\* While processOne runs, cur holds a job.
Working == {"load", "claim", "handle", "complete", "fail", "reject", "toRetry", "toDead"}
CurIsJob == \A w \in Workers : pc[w] \in Working => cur[w] \in Jobs

\* Pushing an id keeps the work list a sequence of job ids.
LEMMA LpushType ==
    ASSUME RedisOK, NEW j \in Jobs, Lpush(j)
    PROVE  RedisOK'
BY DEF RedisOK, Lpush

\* Faults only ever use up the budget.
LEMMA FaultType ==
    ASSUME faults \in Nat, NEW kind, Fault(kind)
    PROVE  faults' \in Nat
BY DEF Fault

\* Moving the program counter keeps the poll variables well typed.
LEMMA GotoType ==
    ASSUME PollOK, NEW w \in Workers, NEW label \in PCs, Goto(w, label), UNCHANGED <<cur, snap>>
    PROVE  PollOK'
BY DEF PollOK, Goto

LEMMA BackToPollType ==
    ASSUME PollOK, CurIsJob, NEW w \in Workers, BackToPoll(w)
    PROVE  PollOK' /\ CurIsJob'
BY DEF PollOK, BackToPoll, PCs, CurIsJob, Working

\* So does moving it within processOne.
LEMMA GotoCur ==
    ASSUME PollOK, CurIsJob, NEW w \in Workers, NEW label, Goto(w, label), UNCHANGED cur,
           pc[w] \in Working \/ label \notin Working
    PROVE  CurIsJob'
BY DEF PollOK, Goto, CurIsJob

\* Every state of every behaviour is well typed, and a worker inside
\* processOne has a job.
THEOREM TypeCorrect == Spec => [](TypeOK /\ CurIsJob)
<1>1. Init => TypeOK /\ CurIsJob
  BY BoundsAssumption DEF Init, TypeOK, RowsOK, EffectsOK, RedisOK, PollOK, TimersOK,
     CurIsJob, Statuses, PCs, Working
<1>2. TypeOK /\ CurIsJob /\ [Next]_vars => (TypeOK /\ CurIsJob)'
  <2> SUFFICES ASSUME TypeOK, CurIsJob, [Next]_vars PROVE TypeOK' /\ CurIsJob'
    OBVIOUS
  <2> USE DEF rowVars, effectVars, redisVars, pollVars, timerVars
  <2>1. ASSUME NEW p \in Producers, NEW j \in Jobs, ApiCommit(p, j)
         PROVE  TypeOK' /\ CurIsJob'
    <3>1. RowsOK'
      BY <2>1 DEF ApiCommit, TypeOK, RowsOK, Statuses
    <3>2. EffectsOK' /\ RedisOK' /\ PollOK' /\ TimersOK' /\ CurIsJob'
      BY <2>1 DEF ApiCommit, TypeOK, EffectsOK, RedisOK, PollOK, TimersOK, CurIsJob
    <3>3. waking' \in [Producers -> Jobs \cup {NoJob}]
      BY <2>1 DEF ApiCommit, TypeOK
    <3>4. QED
      BY <2>1, <3>1, <3>2, <3>3 DEF ApiCommit, TypeOK
  <2>2. ASSUME NEW p \in Producers, ApiWake(p)
         PROVE  TypeOK' /\ CurIsJob'
    <3>1. waking[p] \in Jobs
      BY <2>2 DEF ApiWake, TypeOK
    <3>2. RedisOK'
      BY <2>2, LpushType, <3>1 DEF ApiWake, TypeOK, RedisOK
    <3>3. RowsOK' /\ EffectsOK' /\ PollOK' /\ TimersOK' /\ CurIsJob'
      BY <2>2 DEF ApiWake, TypeOK, RowsOK, EffectsOK, PollOK, TimersOK, CurIsJob
    <3>4. waking' \in [Producers -> Jobs \cup {NoJob}]
      BY <2>2 DEF ApiWake, TypeOK
    <3>5. QED
      BY <2>2, <3>1, <3>2, <3>3, <3>4 DEF ApiWake, TypeOK
  <2>3. ASSUME NEW w \in Workers, Start(w)
         PROVE  TypeOK' /\ CurIsJob'
    <3>1. PollOK' /\ CurIsJob'
      BY <2>3, GotoType, GotoCur DEF Start, TypeOK, PCs, Working
    <3>2. RowsOK' /\ EffectsOK' /\ RedisOK' /\ TimersOK'
      BY <2>3 DEF Start, TypeOK, RowsOK, EffectsOK, RedisOK, TimersOK
    <3>3. QED
      BY <2>3, <3>1, <3>2 DEF Start, TypeOK
  <2>4. ASSUME NEW w \in Workers, Recover(w)
         PROVE  TypeOK' /\ CurIsJob'
    <3>1. faults' \in Nat
      BY <2>4, FaultType DEF Recover, TypeOK
    <3>2. PollOK' /\ CurIsJob'
      BY <2>4, GotoType, GotoCur DEF Recover, TypeOK, PCs, Working
    <3>3. RowsOK'
      BY <2>4 DEF Recover, TypeOK, RowsOK, Statuses
    <3>4. TimersOK'
      BY <2>4 DEF Recover, TypeOK, TimersOK, Callers, Rows
    <3>5. EffectsOK' /\ RedisOK'
      BY <2>4 DEF Recover, TypeOK, EffectsOK, RedisOK
    <3>6. QED
      BY <2>4, <3>1, <3>2, <3>3, <3>4, <3>5 DEF Recover, TypeOK
  <2>5. ASSUME NEW w \in Workers, StartRequeue(w)
         PROVE  TypeOK' /\ CurIsJob'
    <3>1. faults' \in Nat
      BY <2>5, FaultType DEF StartRequeue, TypeOK
    <3>2. PollOK' /\ CurIsJob'
      BY <2>5, GotoType, GotoCur DEF StartRequeue, TypeOK, PCs, Working
    <3>3. TimersOK'
      BY <2>5 DEF StartRequeue, TypeOK, TimersOK, Callers, Rows
    <3>4. RowsOK' /\ EffectsOK' /\ RedisOK'
      BY <2>5 DEF StartRequeue, TypeOK, RowsOK, EffectsOK, RedisOK
    <3>5. QED
      BY <2>5, <3>1, <3>2, <3>3, <3>4 DEF StartRequeue, TypeOK
  <2>6. ASSUME NEW w \in Workers, EnterLoop(w)
         PROVE  TypeOK' /\ CurIsJob'
    <3>1. PollOK' /\ CurIsJob'
      BY <2>6, GotoType, GotoCur DEF EnterLoop, TypeOK, PCs, Working
    <3>2. RowsOK' /\ EffectsOK' /\ RedisOK' /\ TimersOK'
      BY <2>6 DEF EnterLoop, TypeOK, RowsOK, EffectsOK, RedisOK, TimersOK
    <3>3. QED
      BY <2>6, <3>1, <3>2 DEF EnterLoop, TypeOK
  <2>7. ASSUME NEW w \in Workers, Crash(w)
         PROVE  TypeOK' /\ CurIsJob'
    <3>1. faults' \in Nat
      BY <2>7, FaultType DEF Crash, TypeOK
    <3>2. PollOK' /\ CurIsJob'
      BY <2>7 DEF Crash, Goto, TypeOK, PollOK, CurIsJob, PCs, Working
    <3>3. TimersOK'
      BY <2>7 DEF Crash, TypeOK, TimersOK
    <3>4. RowsOK' /\ EffectsOK' /\ RedisOK'
      BY <2>7 DEF Crash, TypeOK, RowsOK, EffectsOK, RedisOK
    <3>5. QED
      BY <2>7, <3>1, <3>2, <3>3, <3>4 DEF Crash, TypeOK
  <2>8. ASSUME NEW w \in Workers, Dequeue(w)
         PROVE  TypeOK' /\ CurIsJob'
    <3>1. PollOK' /\ CurIsJob'
      BY <2>8 DEF Dequeue, Goto, TypeOK, PollOK, RedisOK, CurIsJob, PCs, Working
    <3>2. RedisOK'
      BY <2>8 DEF Dequeue, TypeOK, RedisOK
    <3>3. RowsOK' /\ EffectsOK' /\ TimersOK'
      BY <2>8 DEF Dequeue, TypeOK, RowsOK, EffectsOK, TimersOK
    <3>4. QED
      BY <2>8, <3>1, <3>2, <3>3 DEF Dequeue, TypeOK
  <2>9. ASSUME NEW w \in Workers, Load(w)
         PROVE  TypeOK' /\ CurIsJob'
    <3>1. faults' \in Nat
      BY <2>9, FaultType DEF Load, TypeOK
    <3>2. PollOK' /\ CurIsJob'
      BY <2>9 DEF Load, Goto, TypeOK, PollOK, RowsOK, CurIsJob, PCs, Working, BackToPoll
    <3>3. RowsOK' /\ EffectsOK' /\ RedisOK' /\ TimersOK'
      BY <2>9 DEF Load, TypeOK, RowsOK, EffectsOK, RedisOK, TimersOK
    <3>4. QED
      BY <2>9, <3>1, <3>2, <3>3 DEF Load, TypeOK
  <2>10. ASSUME NEW w \in Workers, Claim(w)
         PROVE  TypeOK' /\ CurIsJob'
    <3>1. faults' \in Nat
      BY <2>10, FaultType DEF Claim, TypeOK
    <3>2. PollOK' /\ CurIsJob'
      BY <2>10, GotoType, GotoCur, BackToPollType DEF Claim, TypeOK, PCs, Working
    <3>3. RowsOK'
      BY <2>10 DEF Claim, TypeOK, RowsOK, Statuses
    <3>4. EffectsOK' /\ RedisOK' /\ TimersOK'
      BY <2>10 DEF Claim, TypeOK, EffectsOK, RedisOK, TimersOK
    <3>5. QED
      BY <2>10, <3>1, <3>2, <3>3, <3>4 DEF Claim, TypeOK
  <2>11. ASSUME NEW w \in Workers, Handle(w)
         PROVE  TypeOK' /\ CurIsJob'
    <3>1. faults' \in Nat
      BY <2>11, FaultType DEF Handle, TypeOK
    <3>2. cur[w] \in Jobs
      BY <2>11 DEF Handle, CurIsJob, Working
    <3>3. PollOK' /\ CurIsJob'
      BY <2>11, GotoType, GotoCur DEF Handle, TypeOK, PCs, Working
    <3>4. EffectsOK'
      BY <2>11, <3>2 DEF Handle, InsertNotification, TypeOK, EffectsOK
    <3>5. RowsOK' /\ RedisOK' /\ TimersOK'
      BY <2>11 DEF Handle, TypeOK, RowsOK, RedisOK, TimersOK
    <3>6. QED
      BY <2>11, <3>1, <3>2, <3>3, <3>4, <3>5 DEF Handle, TypeOK
  <2>12. ASSUME NEW w \in Workers, Complete(w)
         PROVE  TypeOK' /\ CurIsJob'
    <3>1. faults' \in Nat
      BY <2>12, FaultType DEF Complete, TypeOK
    <3>2. PollOK' /\ CurIsJob'
      BY <2>12, GotoType, GotoCur, BackToPollType DEF Complete, TypeOK, PCs, Working
    <3>3. RowsOK'
      BY <2>12 DEF Complete, TypeOK, RowsOK, Statuses
    <3>4. EffectsOK' /\ RedisOK' /\ TimersOK'
      BY <2>12 DEF Complete, TypeOK, EffectsOK, RedisOK, TimersOK
    <3>5. QED
      BY <2>12, <3>1, <3>2, <3>3, <3>4 DEF Complete, TypeOK
  <2>13. ASSUME NEW w \in Workers, Fail(w)
         PROVE  TypeOK' /\ CurIsJob'
    <3>1. faults' \in Nat
      BY <2>13, FaultType DEF Fail, FailRow, TypeOK
    <3>2. PollOK' /\ CurIsJob'
      BY <2>13, GotoType, GotoCur, BackToPollType
         DEF Fail, FailRow, TypeOK, PCs, Working
    <3>3. snap[w] + 1 \in Nat
      BY <2>13 DEF TypeOK, PollOK
    <3>4. RowsOK'
      BY <2>13, <3>3 DEF Fail, FailRow, TypeOK, RowsOK, Statuses
    <3>5. EffectsOK' /\ RedisOK' /\ TimersOK'
      BY <2>13 DEF Fail, TypeOK, EffectsOK, RedisOK, TimersOK
    <3>6. QED
      BY <2>13, <3>1, <3>2, <3>3, <3>4, <3>5 DEF Fail, TypeOK
  <2>14. ASSUME NEW w \in Workers, ScheduleRetry(w)
         PROVE  TypeOK' /\ CurIsJob'
    <3>1. faults' \in Nat
      BY <2>14, FaultType DEF ScheduleRetry, TypeOK
    <3>2. PollOK' /\ CurIsJob'
      BY <2>14, BackToPollType DEF ScheduleRetry, TypeOK
    <3>3. RedisOK'
      BY <2>14 DEF ScheduleRetry, TypeOK, RedisOK, CurIsJob, Working
    <3>4. RowsOK' /\ EffectsOK' /\ TimersOK'
      BY <2>14 DEF ScheduleRetry, TypeOK, RowsOK, EffectsOK, TimersOK
    <3>5. QED
      BY <2>14, <3>1, <3>2, <3>3, <3>4 DEF ScheduleRetry, TypeOK
  <2>15. ASSUME NEW w \in Workers, MoveToDead(w)
         PROVE  TypeOK' /\ CurIsJob'
    <3>1. faults' \in Nat
      BY <2>15, FaultType DEF MoveToDead, TypeOK
    <3>2. PollOK' /\ CurIsJob'
      BY <2>15, BackToPollType DEF MoveToDead, TypeOK
    <3>3. RedisOK'
      BY <2>15 DEF MoveToDead, TypeOK, RedisOK, CurIsJob, Working
    <3>4. RowsOK' /\ EffectsOK' /\ TimersOK'
      BY <2>15 DEF MoveToDead, TypeOK, RowsOK, EffectsOK, TimersOK
    <3>5. QED
      BY <2>15, <3>1, <3>2, <3>3, <3>4 DEF MoveToDead, TypeOK
  <2>16. ASSUME NEW w \in Workers, ReadDue(w)
         PROVE  TypeOK' /\ CurIsJob'
    <3>1. TimersOK'
      BY <2>16 DEF ReadDue, TypeOK, TimersOK, RedisOK
    <3>2. RowsOK' /\ EffectsOK' /\ RedisOK' /\ PollOK' /\ CurIsJob'
      BY <2>16 DEF ReadDue, TypeOK, RowsOK, EffectsOK, RedisOK, PollOK, CurIsJob
    <3>3. QED
      BY <2>16, <3>1, <3>2 DEF ReadDue, TypeOK
  <2>17. ASSUME NEW w \in Workers, RemoveDue(w)
         PROVE  TypeOK' /\ CurIsJob'
    <3>1. faults' \in Nat
      BY <2>17, FaultType DEF RemoveDue, TypeOK
    <3>2. TimersOK'
      BY <2>17 DEF RemoveDue, TypeOK, TimersOK
    <3>3. RedisOK'
      BY <2>17 DEF RemoveDue, TypeOK, RedisOK
    <3>4. RowsOK' /\ EffectsOK' /\ PollOK' /\ CurIsJob'
      BY <2>17 DEF RemoveDue, TypeOK, RowsOK, EffectsOK, PollOK, CurIsJob
    <3>5. QED
      BY <2>17, <3>1, <3>2, <3>3, <3>4 DEF RemoveDue, TypeOK
  <2>18. ASSUME NEW w \in Workers, NEW j \in Jobs, ResetDue(w, j)
         PROVE  TypeOK' /\ CurIsJob'
    <3>1. faults' \in Nat
      BY <2>18, FaultType DEF ResetDue, TypeOK
    <3>2. TimersOK'
      BY <2>18 DEF ResetDue, TypeOK, TimersOK, Callers
    <3>3. RowsOK'
      BY <2>18 DEF ResetDue, TypeOK, RowsOK, Statuses
    <3>4. EffectsOK' /\ RedisOK' /\ PollOK' /\ CurIsJob'
      BY <2>18 DEF ResetDue, TypeOK, EffectsOK, RedisOK, PollOK, CurIsJob
    <3>5. QED
      BY <2>18, <3>1, <3>2, <3>3, <3>4 DEF ResetDue, TypeOK
  <2>19. ASSUME NEW w \in Workers, NEW S \in SUBSET Jobs, RequeuePending(w, S)
         PROVE  TypeOK' /\ CurIsJob'
    <3>1. TimersOK'
      BY <2>19 DEF RequeuePending, TypeOK, TimersOK, Callers
    <3>2. RowsOK' /\ EffectsOK' /\ RedisOK' /\ PollOK' /\ CurIsJob'
      BY <2>19 DEF RequeuePending, TypeOK, RowsOK, EffectsOK, RedisOK, PollOK, CurIsJob
    <3>3. QED
      BY <2>19, <3>1, <3>2 DEF RequeuePending, TypeOK
  <2>20. ASSUME NEW w \in Workers, NEW t \in pushes[w], Push(w, t)
         PROVE  TypeOK' /\ CurIsJob'
    <3>1. t[1] \in Jobs
      BY <2>20 DEF TypeOK, TimersOK
    <3>2. RedisOK'
      BY <2>20, LpushType, <3>1 DEF Push, TypeOK
    <3>3. TimersOK'
      BY <2>20 DEF Push, TypeOK, TimersOK
    <3>4. RowsOK' /\ EffectsOK' /\ PollOK' /\ CurIsJob'
      BY <2>20 DEF Push, TypeOK, RowsOK, EffectsOK, PollOK, CurIsJob
    <3>5. QED
      BY <2>20, <3>1, <3>2, <3>3, <3>4 DEF Push, TypeOK
  <2>21. ASSUME NEW w \in Workers, NEW t \in pushes[w], PushFails(w, t)
         PROVE  TypeOK' /\ CurIsJob'
    <3>1. faults' \in Nat
      BY <2>21, FaultType DEF PushFails, TypeOK
    <3>2. PollOK' /\ CurIsJob'
      BY <2>21 DEF PushFails, TypeOK, PollOK, CurIsJob, Goto, PCs, Working
    <3>3. TimersOK'
      BY <2>21 DEF PushFails, TypeOK, TimersOK
    <3>4. RowsOK' /\ EffectsOK' /\ RedisOK'
      BY <2>21 DEF PushFails, TypeOK, RowsOK, EffectsOK, RedisOK
    <3>5. QED
      BY <2>21, <3>1, <3>2, <3>3, <3>4 DEF PushFails, TypeOK
  <2>22. CASE RedisFlush
    <3>1. faults' \in Nat
      BY <2>22, FaultType DEF RedisFlush, TypeOK
    <3>2. QED
      BY <2>22, <3>1 DEF RedisFlush, TypeOK, RowsOK, EffectsOK, RedisOK, PollOK, TimersOK, CurIsJob
  <2>23. CASE UNCHANGED vars
    BY <2>23 DEF vars, TypeOK, RowsOK, EffectsOK, RedisOK, PollOK, TimersOK, CurIsJob
  <2>24. QED
    BY <2>1, <2>2, <2>3, <2>4, <2>5, <2>6, <2>7, <2>8, <2>9, <2>10, <2>11, <2>12,
       <2>13, <2>14, <2>15, <2>16, <2>17, <2>18, <2>19, <2>20, <2>21, <2>22, <2>23
       DEF Next, ApiNext, StartNext, PollNext, TimerNext
<1>3. QED
  BY <1>1, <1>2, PTL DEF Spec

-----------------------------------------------------------------------------
(* Effects: a completed job was handled, and notified at most once *)

Handled(j) == notified[j] > 0 \/ j \in skipped

\* What makes CompletedWasHandled inductive: a worker about to complete a
\* job is past the commit of its handler, and no step undoes an effect.
HandledFirst == \A w \in Workers : pc[w] = "complete" => Handled(cur[w])

EffectInv == CompletedWasHandled /\ NotifiedAtMostOnce /\ HandledFirst

\* Whatever races for a job, it is completed only after its handler's
\* transaction, and gets at most one notification.
THEOREM EffectsSafe == Spec => [](CompletedWasHandled /\ NotifiedAtMostOnce)
<1>1. Init => EffectInv
  BY DEF Init, EffectInv, CompletedWasHandled, NotifiedAtMostOnce, HandledFirst
<1>2. TypeOK /\ CurIsJob /\ EffectInv /\ [Next]_vars => EffectInv'
  <2> SUFFICES ASSUME TypeOK, CurIsJob, EffectInv, [Next]_vars PROVE EffectInv'
    OBVIOUS
  <2> RowsOK /\ EffectsOK /\ PollOK
    BY DEF TypeOK
  <2> USE DEF rowVars, effectVars, redisVars, pollVars, timerVars,
              EffectInv, CompletedWasHandled, NotifiedAtMostOnce, HandledFirst, Handled
  <2>1. ASSUME NEW p \in Producers, NEW j \in Jobs, ApiCommit(p, j) PROVE EffectInv'
    BY <2>1 DEF ApiCommit, Goto, RowsOK, PollOK
  <2>2. ASSUME NEW p \in Producers, ApiWake(p) PROVE EffectInv'
    BY <2>2 DEF ApiWake, Goto, RowsOK, PollOK
  <2>3. ASSUME NEW w \in Workers, Start(w) PROVE EffectInv'
    BY <2>3 DEF Start, Goto, RowsOK, PollOK
  <2>4. ASSUME NEW w \in Workers, Recover(w) PROVE EffectInv'
    BY <2>4 DEF Recover, Goto, RowsOK, PollOK
  <2>5. ASSUME NEW w \in Workers, StartRequeue(w) PROVE EffectInv'
    BY <2>5 DEF StartRequeue, Goto, RowsOK, PollOK
  <2>6. ASSUME NEW w \in Workers, EnterLoop(w) PROVE EffectInv'
    BY <2>6 DEF EnterLoop, Goto, RowsOK, PollOK
  <2>7. ASSUME NEW w \in Workers, Crash(w) PROVE EffectInv'
    BY <2>7 DEF Crash, Goto, RowsOK, PollOK
  <2>8. ASSUME NEW w \in Workers, Dequeue(w) PROVE EffectInv'
    BY <2>8 DEF Dequeue, Goto, RowsOK, PollOK
  <2>9. ASSUME NEW w \in Workers, Load(w) PROVE EffectInv'
    BY <2>9 DEF Load, BackToPoll, Goto, RowsOK, PollOK
  <2>10. ASSUME NEW w \in Workers, Claim(w) PROVE EffectInv'
    <3>1. HandledFirst'
      BY <2>10 DEF Claim, BackToPoll, Goto, PollOK
    <3>2. CompletedWasHandled' /\ NotifiedAtMostOnce'
      BY <2>10 DEF Claim, RowsOK
    <3>3. QED
      BY <3>1, <3>2
  <2>11. ASSUME NEW w \in Workers, Handle(w) PROVE EffectInv'
    <3>1. cur[w] \in Jobs
      BY <2>11 DEF Handle, CurIsJob, Working
    <3>2. NotifiedAtMostOnce' /\ \A j \in Jobs : Handled(j) => Handled(j)'
      BY <2>11, <3>1 DEF Handle, InsertNotification, EffectsOK
    <3>3. pc'[w] = "complete" => Handled(cur[w])'
      BY <2>11, <3>1 DEF Handle, InsertNotification, EffectsOK, Goto, PollOK
    <3>4. HandledFirst'
      <4> SUFFICES ASSUME NEW v \in Workers, pc'[v] = "complete" PROVE Handled(cur[v])'
        OBVIOUS
      <4>1. CASE v = w
        BY <3>3, <4>1
      <4>2. CASE v # w
        <5>1. pc[v] = "complete" /\ cur'[v] = cur[v]
          BY <2>11, <4>2 DEF Handle, Goto, PollOK
        <5>2. cur[v] \in Jobs
          BY <5>1 DEF CurIsJob, Working
        <5>3. QED
          BY <2>11, <3>2, <5>1, <5>2 DEF Handle
      <4>3. QED
        BY <4>1, <4>2
    <3>5. CompletedWasHandled'
      BY <2>11, <3>2 DEF Handle
    <3>6. QED
      BY <3>2, <3>4, <3>5
  <2>12. ASSUME NEW w \in Workers, Complete(w) PROVE EffectInv'
    <3>1. cur[w] \in Jobs /\ Handled(cur[w])
      BY <2>12 DEF Complete, CurIsJob, Working
    <3>2. HandledFirst'
      BY <2>12 DEF Complete, BackToPoll, Goto, PollOK
    <3>3. CompletedWasHandled' /\ NotifiedAtMostOnce'
      BY <2>12, <3>1 DEF Complete, RowsOK
    <3>4. QED
      BY <3>2, <3>3
  <2>13. ASSUME NEW w \in Workers, Fail(w) PROVE EffectInv'
    <3>1. HandledFirst'
      BY <2>13 DEF Fail, FailRow, BackToPoll, Goto, PollOK
    <3>2. CompletedWasHandled' /\ NotifiedAtMostOnce'
      BY <2>13 DEF Fail, FailRow, RowsOK
    <3>3. QED
      BY <3>1, <3>2
  <2>14. ASSUME NEW w \in Workers, ScheduleRetry(w) PROVE EffectInv'
    BY <2>14 DEF ScheduleRetry, BackToPoll, Goto, RowsOK, PollOK
  <2>15. ASSUME NEW w \in Workers, MoveToDead(w) PROVE EffectInv'
    BY <2>15 DEF MoveToDead, BackToPoll, Goto, RowsOK, PollOK
  <2>16. ASSUME NEW w \in Workers, ReadDue(w) PROVE EffectInv'
    BY <2>16 DEF ReadDue, Goto, RowsOK, PollOK
  <2>17. ASSUME NEW w \in Workers, RemoveDue(w) PROVE EffectInv'
    BY <2>17 DEF RemoveDue, Goto, RowsOK, PollOK
  <2>18. ASSUME NEW w \in Workers, NEW j \in Jobs, ResetDue(w, j) PROVE EffectInv'
    BY <2>18 DEF ResetDue, Goto, RowsOK, PollOK
  <2>19. ASSUME NEW w \in Workers, NEW S \in SUBSET Jobs, RequeuePending(w, S) PROVE EffectInv'
    BY <2>19 DEF RequeuePending, Goto, RowsOK, PollOK
  <2>20. ASSUME NEW w \in Workers, NEW t \in pushes[w], Push(w, t) PROVE EffectInv'
    BY <2>20 DEF Push, Goto, RowsOK, PollOK
  <2>21. ASSUME NEW w \in Workers, NEW t \in pushes[w], PushFails(w, t) PROVE EffectInv'
    BY <2>21 DEF PushFails, Goto, RowsOK, PollOK
  <2>22. CASE RedisFlush
    BY <2>22 DEF RedisFlush
  <2>23. CASE UNCHANGED vars
    BY <2>23 DEF vars
  <2>24. QED
    BY <2>1, <2>2, <2>3, <2>4, <2>5, <2>6, <2>7, <2>8, <2>9, <2>10, <2>11, <2>12,
       <2>13, <2>14, <2>15, <2>16, <2>17, <2>18, <2>19, <2>20, <2>21, <2>22, <2>23
       DEF Next, ApiNext, StartNext, PollNext, TimerNext
<1>3. QED
  BY <1>1, <1>2, TypeCorrect, PTL DEF Spec, EffectInv

\* A row says completed only if the handler's transaction took effect,
\* whichever worker wrote it.
THEOREM CompletionsHandled == Spec => []CompletedWasHandled
  BY EffectsSafe, PTL

-----------------------------------------------------------------------------
(* Attempts: a job dies only of poison or of its last attempt *)

\* A worker that has loaded a job remembers a count below the maximum, and
\* rejects only poison.  A row not yet created has used no attempt.
SnapBelowMax ==
    \A w \in Workers :
        /\ pc[w] \in {"claim", "handle", "complete", "fail", "reject"} => snap[w] < MaxAttempts
        /\ pc[w] = "reject" => cur[w] \in Poison
FreshRows == \A j \in Jobs : status[j] = "absent" => attempts[j] = 0

AttemptInv == DeadOnlyWhenExhausted /\ SnapBelowMax /\ FreshRows

\* No job is buried early and no live job has run out of attempts, although
\* processOne writes a count it read several steps before.
THEOREM AttemptsSafe == Spec => []DeadOnlyWhenExhausted
<1>1. Init => AttemptInv
  BY AttemptsAssumption DEF Init, AttemptInv, DeadOnlyWhenExhausted, SnapBelowMax, FreshRows, Live
<1>2. TypeOK /\ CurIsJob /\ AttemptInv /\ [Next]_vars => AttemptInv'
  <2> SUFFICES ASSUME TypeOK, CurIsJob, AttemptInv, [Next]_vars PROVE AttemptInv'
    OBVIOUS
  <2> RowsOK /\ PollOK
    BY DEF TypeOK
  <2> USE AttemptsAssumption DEF rowVars, effectVars, redisVars, pollVars, timerVars,
              AttemptInv, DeadOnlyWhenExhausted, SnapBelowMax, FreshRows, Live
  <2>1. ASSUME NEW p \in Producers, NEW j \in Jobs, ApiCommit(p, j) PROVE AttemptInv'
    BY <2>1 DEF ApiCommit, Goto, RowsOK, PollOK
  <2>2. ASSUME NEW p \in Producers, ApiWake(p) PROVE AttemptInv'
    BY <2>2 DEF ApiWake, Goto, RowsOK, PollOK
  <2>3. ASSUME NEW w \in Workers, Start(w) PROVE AttemptInv'
    BY <2>3 DEF Start, Goto, RowsOK, PollOK
  <2>4. ASSUME NEW w \in Workers, Recover(w) PROVE AttemptInv'
    <3>1. SnapBelowMax'
      BY <2>4 DEF Recover, Goto, PollOK
    <3>2. DeadOnlyWhenExhausted' /\ FreshRows'
      BY <2>4 DEF Recover, Rows, RowsOK
    <3>3. QED
      BY <3>1, <3>2
  <2>5. ASSUME NEW w \in Workers, StartRequeue(w) PROVE AttemptInv'
    BY <2>5 DEF StartRequeue, Goto, RowsOK, PollOK
  <2>6. ASSUME NEW w \in Workers, EnterLoop(w) PROVE AttemptInv'
    BY <2>6 DEF EnterLoop, Goto, RowsOK, PollOK
  <2>7. ASSUME NEW w \in Workers, Crash(w) PROVE AttemptInv'
    BY <2>7 DEF Crash, Goto, RowsOK, PollOK
  <2>8. ASSUME NEW w \in Workers, Dequeue(w) PROVE AttemptInv'
    BY <2>8 DEF Dequeue, Goto, RowsOK, PollOK
  <2>9. ASSUME NEW w \in Workers, Load(w) PROVE AttemptInv'
    <3>1. cur[w] \in Jobs
      BY <2>9 DEF Load, CurIsJob, Working
    <3>2. SnapBelowMax'
      BY <2>9, <3>1 DEF Load, BackToPoll, Goto, RowsOK, PollOK
    <3>3. DeadOnlyWhenExhausted' /\ FreshRows'
      BY <2>9, <3>1 DEF Load, Exhausted, RowsOK, PollOK
    <3>4. QED
      BY <3>2, <3>3
  <2>10. ASSUME NEW w \in Workers, Claim(w) PROVE AttemptInv'
    <3>1. cur[w] \in Jobs
      BY <2>10 DEF Claim, CurIsJob, Working
    <3>2. SnapBelowMax'
      BY <2>10, <3>1 DEF Claim, BackToPoll, Goto, RowsOK, PollOK
    <3>3. DeadOnlyWhenExhausted' /\ FreshRows'
      BY <2>10, <3>1 DEF Claim, Exhausted, RowsOK, PollOK
    <3>4. QED
      BY <3>2, <3>3
  <2>11. ASSUME NEW w \in Workers, Handle(w) PROVE AttemptInv'
    <3>1. cur[w] \in Jobs
      BY <2>11 DEF Handle, CurIsJob, Working
    <3>2. SnapBelowMax'
      BY <2>11, <3>1 DEF Handle, Goto, RowsOK, PollOK
    <3>3. DeadOnlyWhenExhausted' /\ FreshRows'
      BY <2>11, <3>1 DEF Handle, Exhausted, RowsOK, PollOK
    <3>4. QED
      BY <3>2, <3>3
  <2>12. ASSUME NEW w \in Workers, Complete(w) PROVE AttemptInv'
    <3>1. cur[w] \in Jobs
      BY <2>12 DEF Complete, CurIsJob, Working
    <3>2. SnapBelowMax'
      BY <2>12, <3>1 DEF Complete, BackToPoll, Goto, RowsOK, PollOK
    <3>3. DeadOnlyWhenExhausted' /\ FreshRows'
      BY <2>12, <3>1 DEF Complete, Exhausted, RowsOK, PollOK
    <3>4. QED
      BY <3>2, <3>3
  <2>13. ASSUME NEW w \in Workers, Fail(w) PROVE AttemptInv'
    <3>1. cur[w] \in Jobs
      BY <2>13 DEF Fail, CurIsJob, Working
    <3>2. SnapBelowMax'
      BY <2>13, <3>1 DEF Fail, FailRow, BackToPoll, Goto, RowsOK, PollOK
    <3>3. DeadOnlyWhenExhausted' /\ FreshRows'
      BY <2>13, <3>1 DEF Fail, FailRow, Exhausted, RowsOK, PollOK
    <3>4. QED
      BY <3>2, <3>3
  <2>14. ASSUME NEW w \in Workers, ScheduleRetry(w) PROVE AttemptInv'
    BY <2>14 DEF ScheduleRetry, BackToPoll, Goto, RowsOK, PollOK
  <2>15. ASSUME NEW w \in Workers, MoveToDead(w) PROVE AttemptInv'
    BY <2>15 DEF MoveToDead, BackToPoll, Goto, RowsOK, PollOK
  <2>16. ASSUME NEW w \in Workers, ReadDue(w) PROVE AttemptInv'
    BY <2>16 DEF ReadDue, Goto, RowsOK, PollOK
  <2>17. ASSUME NEW w \in Workers, RemoveDue(w) PROVE AttemptInv'
    BY <2>17 DEF RemoveDue, Goto, RowsOK, PollOK
  <2>18. ASSUME NEW w \in Workers, NEW j \in Jobs, ResetDue(w, j) PROVE AttemptInv'
    BY <2>18 DEF ResetDue, Goto, RowsOK, PollOK
  <2>19. ASSUME NEW w \in Workers, NEW S \in SUBSET Jobs, RequeuePending(w, S) PROVE AttemptInv'
    BY <2>19 DEF RequeuePending, Goto, RowsOK, PollOK
  <2>20. ASSUME NEW w \in Workers, NEW t \in pushes[w], Push(w, t) PROVE AttemptInv'
    BY <2>20 DEF Push, Goto, RowsOK, PollOK
  <2>21. ASSUME NEW w \in Workers, NEW t \in pushes[w], PushFails(w, t) PROVE AttemptInv'
    BY <2>21 DEF PushFails, Goto, RowsOK, PollOK
  <2>22. CASE RedisFlush
    BY <2>22 DEF RedisFlush
  <2>23. CASE UNCHANGED vars
    BY <2>23 DEF vars
  <2>24. QED
    BY <2>1, <2>2, <2>3, <2>4, <2>5, <2>6, <2>7, <2>8, <2>9, <2>10, <2>11, <2>12,
       <2>13, <2>14, <2>15, <2>16, <2>17, <2>18, <2>19, <2>20, <2>21, <2>22, <2>23
       DEF Next, ApiNext, StartNext, PollNext, TimerNext
<1>3. QED
  BY <1>1, <1>2, TypeCorrect, PTL DEF Spec, AttemptInv

-----------------------------------------------------------------------------
(* No phantom ids *)

InQueue(j) == \E i \in 1..Len(queue) : queue[i] = j
\* The places other than the work list that hold ids.
Held(j) ==
    \/ j \in retry \cup deadList
    \/ \E p \in Producers : waking[p] = j
    \/ \E w \in Workers : \/ cur[w] = j
                          \/ j \in due[w] \cup reaped[w]
                          \/ \E c \in Callers : <<j, c>> \in pushes[w]

\* A push adds the pushed id to the work list and nothing else.
LEMMA LpushAdds ==
    ASSUME RedisOK, NEW k \in Jobs, Lpush(k)
    PROVE  \A j \in Jobs : InQueue(j)' => InQueue(j) \/ j = k
BY DEF RedisOK, Lpush, InQueue

\* A pop adds nothing, and what it returns was in the list.
LEMMA PopRemoves ==
    ASSUME RedisOK, queue # <<>>
    PROVE  /\ InQueue(Head(queue))
           /\ queue' = Tail(queue) => \A j \in Jobs : InQueue(j)' => InQueue(j)
BY DEF RedisOK, InQueue

\* Redis, the workers and the requests only ever hold ids of rows that were
\* committed before: the outbox never wakes an id ahead of its commit.
THEOREM NoPhantoms == Spec => []NoPhantomIds
<1>1. Init => NoPhantomIds
  BY JobsAssumption DEF Init, NoPhantomIds, Referenced
<1>2. TypeOK /\ CurIsJob /\ NoPhantomIds /\ [Next]_vars => NoPhantomIds'
  <2> SUFFICES ASSUME TypeOK, CurIsJob, NoPhantomIds, [Next]_vars PROVE NoPhantomIds'
    OBVIOUS
  <2> RowsOK /\ PollOK /\ RedisOK /\ TimersOK /\ waking \in [Producers -> Jobs \cup {NoJob}]
    BY DEF TypeOK
  <2>a. \A j \in Jobs : Referenced(j) <=> InQueue(j) \/ Held(j)
    BY DEF Referenced, InQueue, Held
  <2>b. \A j \in Jobs : InQueue(j) \/ Held(j) => status[j] # "absent"
    BY <2>a DEF NoPhantomIds
  <2>c. ASSUME \A j \in Jobs : status[j] # "absent" => status'[j] # "absent",
               \A j \in Jobs : InQueue(j)' \/ Held(j)' =>
                                InQueue(j) \/ Held(j) \/ status'[j] # "absent"
        PROVE  NoPhantomIds'
    BY <2>b, <2>c DEF NoPhantomIds, Referenced, InQueue, Held
  <2> USE DEF rowVars, effectVars, redisVars, pollVars, timerVars
  <2>1. ASSUME NEW p \in Producers, NEW j \in Jobs, ApiCommit(p, j) PROVE NoPhantomIds'
    <3>1. \A i \in Jobs : status[i] # "absent" => status'[i] # "absent"
      BY <2>1 DEF ApiCommit, RowsOK
    <3>2. \A i \in Jobs : InQueue(i)' => InQueue(i)
      BY <2>1 DEF ApiCommit, InQueue
    <3>3. \A i \in Jobs : Held(i)' => Held(i) \/ InQueue(i) \/ status'[i] # "absent"
      BY <2>1 DEF ApiCommit, Held, RowsOK
    <3>4. QED
      BY <2>c, <3>1, <3>2, <3>3
  <2>2. ASSUME NEW p \in Producers, ApiWake(p) PROVE NoPhantomIds'
    <3>1. \A i \in Jobs : status[i] # "absent" => status'[i] # "absent"
      BY <2>2 DEF ApiWake
    <3>2. waking[p] \in Jobs
      BY <2>2 DEF ApiWake
    <3>3. \A i \in Jobs : InQueue(i)' => InQueue(i) \/ Held(i)
      BY <2>2, <3>2, LpushAdds DEF ApiWake, InQueue, Held
    <3>4. \A i \in Jobs : Held(i)' => Held(i) \/ InQueue(i) \/ status'[i] # "absent"
      BY <2>2, JobsAssumption DEF ApiWake, Lpush, Held
    <3>5. QED
      BY <2>c, <3>1, <3>2, <3>3, <3>4
  <2>3. ASSUME NEW w \in Workers, Start(w) PROVE NoPhantomIds'
    <3>1. \A i \in Jobs : status[i] # "absent" => status'[i] # "absent"
      BY <2>3 DEF Start
    <3>2. \A i \in Jobs : InQueue(i)' => InQueue(i)
      BY <2>3 DEF Start, InQueue
    <3>3. \A i \in Jobs : Held(i)' => Held(i) \/ InQueue(i) \/ status'[i] # "absent"
      BY <2>3 DEF Start, Held
    <3>4. QED
      BY <2>c, <3>1, <3>2, <3>3
  <2>4. ASSUME NEW w \in Workers, Recover(w) PROVE NoPhantomIds'
    <3>1. \A i \in Jobs : status[i] # "absent" => status'[i] # "absent"
      BY <2>4 DEF Recover, RowsOK
    <3>2. \A i \in Jobs : InQueue(i)' => InQueue(i)
      BY <2>4 DEF Recover, InQueue
    <3>3. \A i \in Jobs : Held(i)' => Held(i) \/ InQueue(i) \/ status'[i] # "absent"
      BY <2>4 DEF Recover, Held, Rows, RowsOK, TimersOK, Callers
    <3>4. QED
      BY <2>c, <3>1, <3>2, <3>3
  <2>5. ASSUME NEW w \in Workers, StartRequeue(w) PROVE NoPhantomIds'
    <3>1. \A i \in Jobs : status[i] # "absent" => status'[i] # "absent"
      BY <2>5 DEF StartRequeue
    <3>2. \A i \in Jobs : InQueue(i)' => InQueue(i)
      BY <2>5 DEF StartRequeue, InQueue
    <3>3. \A i \in Jobs : Held(i)' => Held(i) \/ InQueue(i) \/ status'[i] # "absent"
      BY <2>5 DEF StartRequeue, Held, Rows, TimersOK, Callers
    <3>4. QED
      BY <2>c, <3>1, <3>2, <3>3
  <2>6. ASSUME NEW w \in Workers, EnterLoop(w) PROVE NoPhantomIds'
    <3>1. \A i \in Jobs : status[i] # "absent" => status'[i] # "absent"
      BY <2>6 DEF EnterLoop
    <3>2. \A i \in Jobs : InQueue(i)' => InQueue(i)
      BY <2>6 DEF EnterLoop, InQueue
    <3>3. \A i \in Jobs : Held(i)' => Held(i) \/ InQueue(i) \/ status'[i] # "absent"
      BY <2>6 DEF EnterLoop, Held
    <3>4. QED
      BY <2>c, <3>1, <3>2, <3>3
  <2>7. ASSUME NEW w \in Workers, Crash(w) PROVE NoPhantomIds'
    <3>1. \A i \in Jobs : status[i] # "absent" => status'[i] # "absent"
      BY <2>7 DEF Crash
    <3>2. \A i \in Jobs : InQueue(i)' => InQueue(i)
      BY <2>7 DEF Crash, InQueue
    <3>3. \A i \in Jobs : Held(i)' => Held(i) \/ InQueue(i) \/ status'[i] # "absent"
      BY <2>7, JobsAssumption DEF Crash, Held, PollOK, TimersOK
    <3>4. QED
      BY <2>c, <3>1, <3>2, <3>3
  <2>8. ASSUME NEW w \in Workers, Dequeue(w) PROVE NoPhantomIds'
    <3>1. \A i \in Jobs : status[i] # "absent" => status'[i] # "absent"
      BY <2>8 DEF Dequeue
    <3>2. \A i \in Jobs : InQueue(i)' => InQueue(i)
      BY <2>8, PopRemoves DEF Dequeue
    <3>3. InQueue(Head(queue)) /\ Head(queue) \in Jobs
      BY <2>8, PopRemoves DEF Dequeue, RedisOK
    <3>4. \A i \in Jobs : Held(i)' => Held(i) \/ InQueue(i) \/ status'[i] # "absent"
      BY <2>8, <3>3 DEF Dequeue, Held, PollOK
    <3>5. QED
      BY <2>c, <3>1, <3>2, <3>3, <3>4
  <2>9. ASSUME NEW w \in Workers, Load(w) PROVE NoPhantomIds'
    <3>1. \A i \in Jobs : status[i] # "absent" => status'[i] # "absent"
      BY <2>9 DEF Load
    <3>2. \A i \in Jobs : InQueue(i)' => InQueue(i)
      BY <2>9 DEF Load, InQueue
    <3>3. \A i \in Jobs : Held(i)' => Held(i) \/ InQueue(i) \/ status'[i] # "absent"
      BY <2>9, JobsAssumption DEF Load, Held, BackToPoll, PollOK
    <3>4. QED
      BY <2>c, <3>1, <3>2, <3>3
  <2>10. ASSUME NEW w \in Workers, Claim(w) PROVE NoPhantomIds'
    <3>1. \A i \in Jobs : status[i] # "absent" => status'[i] # "absent"
      BY <2>10 DEF Claim, RowsOK
    <3>2. \A i \in Jobs : InQueue(i)' => InQueue(i)
      BY <2>10 DEF Claim, InQueue
    <3>3. \A i \in Jobs : Held(i)' => Held(i) \/ InQueue(i) \/ status'[i] # "absent"
      BY <2>10, JobsAssumption DEF Claim, Held, BackToPoll, PollOK
    <3>4. QED
      BY <2>c, <3>1, <3>2, <3>3
  <2>11. ASSUME NEW w \in Workers, Handle(w) PROVE NoPhantomIds'
    <3>1. \A i \in Jobs : status[i] # "absent" => status'[i] # "absent"
      BY <2>11 DEF Handle
    <3>2. \A i \in Jobs : InQueue(i)' => InQueue(i)
      BY <2>11 DEF Handle, InQueue
    <3>3. \A i \in Jobs : Held(i)' => Held(i) \/ InQueue(i) \/ status'[i] # "absent"
      BY <2>11 DEF Handle, Held
    <3>4. QED
      BY <2>c, <3>1, <3>2, <3>3
  <2>12. ASSUME NEW w \in Workers, Complete(w) PROVE NoPhantomIds'
    <3>1. \A i \in Jobs : status[i] # "absent" => status'[i] # "absent"
      BY <2>12 DEF Complete, RowsOK
    <3>2. \A i \in Jobs : InQueue(i)' => InQueue(i)
      BY <2>12 DEF Complete, InQueue
    <3>3. \A i \in Jobs : Held(i)' => Held(i) \/ InQueue(i) \/ status'[i] # "absent"
      BY <2>12, JobsAssumption DEF Complete, Held, BackToPoll, PollOK
    <3>4. QED
      BY <2>c, <3>1, <3>2, <3>3
  <2>13. ASSUME NEW w \in Workers, Fail(w) PROVE NoPhantomIds'
    <3>1. \A i \in Jobs : status[i] # "absent" => status'[i] # "absent"
      BY <2>13 DEF Fail, FailRow, RowsOK
    <3>2. \A i \in Jobs : InQueue(i)' => InQueue(i)
      BY <2>13 DEF Fail, InQueue
    <3>3. \A i \in Jobs : Held(i)' => Held(i) \/ InQueue(i) \/ status'[i] # "absent"
      BY <2>13, JobsAssumption DEF Fail, FailRow, Held, BackToPoll, PollOK
    <3>4. QED
      BY <2>c, <3>1, <3>2, <3>3
  <2>14. ASSUME NEW w \in Workers, ScheduleRetry(w) PROVE NoPhantomIds'
    <3>1. \A i \in Jobs : status[i] # "absent" => status'[i] # "absent"
      BY <2>14 DEF ScheduleRetry
    <3>2. \A i \in Jobs : InQueue(i)' => InQueue(i)
      BY <2>14 DEF ScheduleRetry, InQueue
    <3>3. \A i \in Jobs : Held(i)' => Held(i) \/ InQueue(i) \/ status'[i] # "absent"
      BY <2>14, JobsAssumption DEF ScheduleRetry, Held, BackToPoll, PollOK
    <3>4. QED
      BY <2>c, <3>1, <3>2, <3>3
  <2>15. ASSUME NEW w \in Workers, MoveToDead(w) PROVE NoPhantomIds'
    <3>1. \A i \in Jobs : status[i] # "absent" => status'[i] # "absent"
      BY <2>15 DEF MoveToDead
    <3>2. \A i \in Jobs : InQueue(i)' => InQueue(i)
      BY <2>15 DEF MoveToDead, InQueue
    <3>3. \A i \in Jobs : Held(i)' => Held(i) \/ InQueue(i) \/ status'[i] # "absent"
      BY <2>15, JobsAssumption DEF MoveToDead, Held, BackToPoll, PollOK
    <3>4. QED
      BY <2>c, <3>1, <3>2, <3>3
  <2>16. ASSUME NEW w \in Workers, ReadDue(w) PROVE NoPhantomIds'
    <3>1. \A i \in Jobs : status[i] # "absent" => status'[i] # "absent"
      BY <2>16 DEF ReadDue
    <3>2. \A i \in Jobs : InQueue(i)' => InQueue(i)
      BY <2>16 DEF ReadDue, InQueue
    <3>3. \A i \in Jobs : Held(i)' => Held(i) \/ InQueue(i) \/ status'[i] # "absent"
      BY <2>16 DEF ReadDue, Held, TimersOK
    <3>4. QED
      BY <2>c, <3>1, <3>2, <3>3
  <2>17. ASSUME NEW w \in Workers, RemoveDue(w) PROVE NoPhantomIds'
    <3>1. \A i \in Jobs : status[i] # "absent" => status'[i] # "absent"
      BY <2>17 DEF RemoveDue
    <3>2. \A i \in Jobs : InQueue(i)' => InQueue(i)
      BY <2>17 DEF RemoveDue, InQueue
    <3>3. \A i \in Jobs : Held(i)' => Held(i) \/ InQueue(i) \/ status'[i] # "absent"
      BY <2>17 DEF RemoveDue, Held, TimersOK
    <3>4. QED
      BY <2>c, <3>1, <3>2, <3>3
  <2>18. ASSUME NEW w \in Workers, NEW j \in Jobs, ResetDue(w, j) PROVE NoPhantomIds'
    <3>1. \A i \in Jobs : status[i] # "absent" => status'[i] # "absent"
      BY <2>18 DEF ResetDue, RowsOK
    <3>2. \A i \in Jobs : InQueue(i)' => InQueue(i)
      BY <2>18 DEF ResetDue, InQueue
    <3>3. \A i \in Jobs : Held(i)' => Held(i) \/ InQueue(i) \/ status'[i] # "absent"
      <4>1. \A v \in Workers : reaped'[v] \subseteq reaped[v]
        BY <2>18 DEF ResetDue, TimersOK
      <4>2. \A v \in Workers, i \in Jobs, c \in Callers :
                <<i, c>> \in pushes'[v] => <<i, c>> \in pushes[v] \/ i = j
        BY <2>18 DEF ResetDue, TimersOK
      <4>3. j \in reaped[w] /\ UNCHANGED <<redisVars, waking, cur, due>>
        BY <2>18 DEF ResetDue
      <4>4. QED
        BY <4>1, <4>2, <4>3 DEF Held
    <3>4. QED
      BY <2>c, <3>1, <3>2, <3>3
  <2>19. ASSUME NEW w \in Workers, NEW S \in SUBSET Jobs, RequeuePending(w, S) PROVE NoPhantomIds'
    <3>1. \A i \in Jobs : status[i] # "absent" => status'[i] # "absent"
      BY <2>19 DEF RequeuePending
    <3>2. \A i \in Jobs : InQueue(i)' => InQueue(i)
      BY <2>19 DEF RequeuePending, InQueue
    <3>3. \A i \in Jobs : Held(i)' => Held(i) \/ InQueue(i) \/ status'[i] # "absent"
      BY <2>19 DEF RequeuePending, Held, TimersOK, Rows, Callers
    <3>4. QED
      BY <2>c, <3>1, <3>2, <3>3
  <2>20. ASSUME NEW w \in Workers, NEW t \in pushes[w], Push(w, t) PROVE NoPhantomIds'
    <3>1. \A i \in Jobs : status[i] # "absent" => status'[i] # "absent"
      BY <2>20 DEF Push
    <3>2. t[1] \in Jobs /\ t[2] \in Callers /\ t = <<t[1], t[2]>>
      BY DEF TimersOK
    <3>3. \A i \in Jobs : InQueue(i)' => InQueue(i) \/ Held(i)
      BY <2>20, <3>2, LpushAdds DEF Push, Held
    <3>4. \A i \in Jobs : Held(i)' => Held(i) \/ InQueue(i) \/ status'[i] # "absent"
      BY <2>20 DEF Push, Lpush, Held, TimersOK
    <3>5. QED
      BY <2>c, <3>1, <3>2, <3>3, <3>4
  <2>21. ASSUME NEW w \in Workers, NEW t \in pushes[w], PushFails(w, t) PROVE NoPhantomIds'
    <3>1. \A i \in Jobs : status[i] # "absent" => status'[i] # "absent"
      BY <2>21 DEF PushFails
    <3>2. \A i \in Jobs : InQueue(i)' => InQueue(i)
      BY <2>21 DEF PushFails, InQueue
    <3>3. \A i \in Jobs : Held(i)' => Held(i) \/ InQueue(i) \/ status'[i] # "absent"
      <4>1. \A v \in Workers : reaped'[v] \subseteq reaped[v] /\ pushes'[v] \subseteq pushes[v]
        BY <2>21 DEF PushFails, TimersOK
      <4>2. UNCHANGED <<redisVars, waking, cur, due>>
        BY <2>21 DEF PushFails
      <4>3. QED
        BY <4>1, <4>2 DEF Held
    <3>4. QED
      BY <2>c, <3>1, <3>2, <3>3
  <2>22. CASE RedisFlush
    BY <2>b, <2>22 DEF RedisFlush, NoPhantomIds, Referenced, InQueue, Held
  <2>23. CASE UNCHANGED vars
    BY <2>23 DEF vars, NoPhantomIds, Referenced
  <2>24. QED
    BY <2>1, <2>2, <2>3, <2>4, <2>5, <2>6, <2>7, <2>8, <2>9, <2>10, <2>11, <2>12,
       <2>13, <2>14, <2>15, <2>16, <2>17, <2>18, <2>19, <2>20, <2>21, <2>22, <2>23
       DEF Next, ApiNext, StartNext, PollNext, TimerNext
<1>3. QED
  BY <1>1, <1>2, TypeCorrect, PTL DEF Spec

-----------------------------------------------------------------------------
(* One worker process implements the contract *)

SoleWorker == \A v, w \in Workers : v = w
NoLostReply == "commit" \notin FaultKinds

\* The row of the job a worker runs is not settled, and a job about to be
\* completed is not poison: nobody else settles it meanwhile.
OwnJobLive ==
    \A w \in Workers :
        /\ pc[w] \in {"handle", "complete", "fail", "reject"} => status[cur[w]] \in Live
        /\ pc[w] = "complete" => cur[w] \notin Poison

\* Only ApiCommit, Recover, Claim, Complete, Fail and ResetDue write rows.
LEMMA OwnJob ==
    ASSUME SoleWorker, NoLostReply
    PROVE  Spec => []OwnJobLive
<1>1. Init => OwnJobLive
  BY DEF Init, OwnJobLive
<1>2. TypeOK /\ CurIsJob /\ OwnJobLive /\ [Next]_vars => OwnJobLive'
  <2> SUFFICES ASSUME TypeOK, CurIsJob, OwnJobLive, [Next]_vars PROVE OwnJobLive'
    OBVIOUS
  <2> RowsOK /\ PollOK
    BY DEF TypeOK
  <2>a. ~Fault("commit")
    BY NoLostReply DEF NoLostReply, Fault
  <2> USE SoleWorker DEF rowVars, effectVars, redisVars, pollVars, timerVars, OwnJobLive, Live
  <2>1. ASSUME NEW p \in Producers, NEW j \in Jobs, ApiCommit(p, j) PROVE OwnJobLive'
    BY <2>1 DEF ApiCommit, Goto, RowsOK, PollOK, SoleWorker, CurIsJob, Working
  <2>2. ASSUME NEW p \in Producers, ApiWake(p) PROVE OwnJobLive'
    BY <2>2 DEF ApiWake, Goto, RowsOK, PollOK, SoleWorker
  <2>3. ASSUME NEW w \in Workers, Start(w) PROVE OwnJobLive'
    BY <2>3 DEF Start, Goto, RowsOK, PollOK, SoleWorker
  <2>4. ASSUME NEW w \in Workers, Recover(w) PROVE OwnJobLive'
    BY <2>4 DEF Recover, Goto, RowsOK, PollOK, SoleWorker, CurIsJob, Working
  <2>5. ASSUME NEW w \in Workers, StartRequeue(w) PROVE OwnJobLive'
    BY <2>5 DEF StartRequeue, Goto, RowsOK, PollOK, SoleWorker
  <2>6. ASSUME NEW w \in Workers, EnterLoop(w) PROVE OwnJobLive'
    BY <2>6 DEF EnterLoop, Goto, RowsOK, PollOK, SoleWorker
  <2>7. ASSUME NEW w \in Workers, Crash(w) PROVE OwnJobLive'
    BY <2>7 DEF Crash, Goto, RowsOK, PollOK, SoleWorker
  <2>8. ASSUME NEW w \in Workers, Dequeue(w) PROVE OwnJobLive'
    BY <2>8 DEF Dequeue, Goto, RowsOK, PollOK, SoleWorker
  <2>9. ASSUME NEW w \in Workers, Load(w) PROVE OwnJobLive'
    BY <2>9 DEF Load, BackToPoll, Goto, RowsOK, PollOK, SoleWorker
  <2>10. ASSUME NEW w \in Workers, Claim(w) PROVE OwnJobLive'
    BY <2>10, <2>a DEF Claim, BackToPoll, Goto, RowsOK, PollOK, SoleWorker, CurIsJob, Working
  <2>11. ASSUME NEW w \in Workers, Handle(w) PROVE OwnJobLive'
    BY <2>11, <2>a DEF Handle, Goto, RowsOK, PollOK, SoleWorker
  <2>12. ASSUME NEW w \in Workers, Complete(w) PROVE OwnJobLive'
    BY <2>12, <2>a DEF Complete, BackToPoll, Goto, RowsOK, PollOK, SoleWorker
  <2>13. ASSUME NEW w \in Workers, Fail(w) PROVE OwnJobLive'
    BY <2>13, <2>a DEF Fail, FailRow, BackToPoll, Goto, RowsOK, PollOK, SoleWorker
  <2>14. ASSUME NEW w \in Workers, ScheduleRetry(w) PROVE OwnJobLive'
    BY <2>14 DEF ScheduleRetry, BackToPoll, Goto, RowsOK, PollOK, SoleWorker
  <2>15. ASSUME NEW w \in Workers, MoveToDead(w) PROVE OwnJobLive'
    BY <2>15 DEF MoveToDead, BackToPoll, Goto, RowsOK, PollOK, SoleWorker
  <2>16. ASSUME NEW w \in Workers, ReadDue(w) PROVE OwnJobLive'
    BY <2>16 DEF ReadDue, Goto, RowsOK, PollOK, SoleWorker
  <2>17. ASSUME NEW w \in Workers, RemoveDue(w) PROVE OwnJobLive'
    BY <2>17 DEF RemoveDue, Goto, RowsOK, PollOK, SoleWorker
  <2>18. ASSUME NEW w \in Workers, NEW j \in Jobs, ResetDue(w, j) PROVE OwnJobLive'
    BY <2>18 DEF ResetDue, Goto, RowsOK, PollOK, SoleWorker, CurIsJob, Working
  <2>19. ASSUME NEW w \in Workers, NEW S \in SUBSET Jobs, RequeuePending(w, S) PROVE OwnJobLive'
    BY <2>19 DEF RequeuePending, Goto, RowsOK, PollOK, SoleWorker
  <2>20. ASSUME NEW w \in Workers, NEW t \in pushes[w], Push(w, t) PROVE OwnJobLive'
    BY <2>20 DEF Push, Goto, RowsOK, PollOK, SoleWorker
  <2>21. ASSUME NEW w \in Workers, NEW t \in pushes[w], PushFails(w, t) PROVE OwnJobLive'
    BY <2>21 DEF PushFails, Goto, RowsOK, PollOK, SoleWorker
  <2>22. CASE RedisFlush
    BY <2>22 DEF RedisFlush
  <2>23. CASE UNCHANGED vars
    BY <2>23 DEF vars
  <2>24. QED
    BY <2>1, <2>2, <2>3, <2>4, <2>5, <2>6, <2>7, <2>8, <2>9, <2>10, <2>11, <2>12,
       <2>13, <2>14, <2>15, <2>16, <2>17, <2>18, <2>19, <2>20, <2>21, <2>22, <2>23
       DEF Next, ApiNext, StartNext, PollNext, TimerNext
<1>3. QED
  BY <1>1, <1>2, TypeCorrect, PTL DEF Spec

\* A lone worker whose commits are always acknowledged implements the
\* contract, through any number of crashes, failed transactions and Redis
\* failures: a settled job is never run, delivered or changed again.
THEOREM OneWorkerImplementsContract ==
    ASSUME SoleWorker, NoLostReply
    PROVE  Spec => ImplementsContract
<1>1. Init => Contract!Init
  BY DEF Init, Contract!Init, Live
<1>2. TypeOK /\ CurIsJob /\ OwnJobLive /\ [Next]_vars => [Contract!Next]_(Contract!vars)
  <2> SUFFICES ASSUME TypeOK, CurIsJob, OwnJobLive, [Next]_vars
               PROVE  Contract!Next \/ UNCHANGED Contract!vars
    OBVIOUS
  <2> RowsOK /\ EffectsOK /\ PollOK
    BY DEF TypeOK
  <2>a. ~Fault("commit")
    BY NoLostReply DEF NoLostReply, Fault
  <2>b. ASSUME UNCHANGED <<status, notified>> PROVE UNCHANGED Contract!vars
    BY <2>b DEF Contract!vars
  <2> USE DEF rowVars, effectVars, redisVars, pollVars, timerVars
  <2>1. ASSUME NEW p \in Producers, NEW j \in Jobs, ApiCommit(p, j)
         PROVE  Contract!Next \/ UNCHANGED Contract!vars
    <3>1. CASE status[j] = "absent"
      <4>1. Contract!Submit(j)
        BY <2>1, <3>1 DEF ApiCommit, Contract!Submit, Live, RowsOK
      <4>2. QED
        BY <4>1 DEF Contract!Next
    <3>2. CASE status[j] # "absent"
      BY <2>1, <2>b, <3>2 DEF ApiCommit
    <3>3. QED
      BY <3>1, <3>2
  <2>2. ASSUME NEW p \in Producers, ApiWake(p)
         PROVE  Contract!Next \/ UNCHANGED Contract!vars
    BY <2>2, <2>b DEF ApiWake
  <2>3. ASSUME NEW w \in Workers, Start(w)
         PROVE  Contract!Next \/ UNCHANGED Contract!vars
    BY <2>3, <2>b DEF Start
  <2>4. ASSUME NEW w \in Workers, Recover(w)
         PROVE  Contract!Next \/ UNCHANGED Contract!vars
    BY <2>4 DEF Recover, Rows, Contract!vars, Live, RowsOK
  <2>5. ASSUME NEW w \in Workers, StartRequeue(w)
         PROVE  Contract!Next \/ UNCHANGED Contract!vars
    BY <2>5, <2>b DEF StartRequeue
  <2>6. ASSUME NEW w \in Workers, EnterLoop(w)
         PROVE  Contract!Next \/ UNCHANGED Contract!vars
    BY <2>6, <2>b DEF EnterLoop
  <2>7. ASSUME NEW w \in Workers, Crash(w)
         PROVE  Contract!Next \/ UNCHANGED Contract!vars
    BY <2>7, <2>b DEF Crash
  <2>8. ASSUME NEW w \in Workers, Dequeue(w)
         PROVE  Contract!Next \/ UNCHANGED Contract!vars
    BY <2>8, <2>b DEF Dequeue
  <2>9. ASSUME NEW w \in Workers, Load(w)
         PROVE  Contract!Next \/ UNCHANGED Contract!vars
    BY <2>9, <2>b DEF Load
  <2>10. ASSUME NEW w \in Workers, Claim(w)
         PROVE  Contract!Next \/ UNCHANGED Contract!vars
    BY <2>10 DEF Claim, Contract!vars, Live, RowsOK
  <2>11. ASSUME NEW w \in Workers, Handle(w)
         PROVE  Contract!Next \/ UNCHANGED Contract!vars
    <3>1. cur[w] \in Jobs /\ status[cur[w]] \in Live
      BY <2>11 DEF Handle, OwnJobLive, CurIsJob, Working
    <3>2. CASE UNCHANGED notified
      BY <2>11, <2>b, <3>2 DEF Handle
    <3>3. CASE notified' # notified
      <4>1. /\ cur[w] \notin Poison /\ notified[cur[w]] = 0
            /\ notified' = [notified EXCEPT ![cur[w]] = 1] /\ UNCHANGED status
        BY <2>11, <3>3 DEF Handle, InsertNotification
      <4>2. PICK j \in Jobs : j = cur[w]
        BY <3>1
      <4>3. Contract!Deliver(j)
        BY <3>1, <4>1, <4>2 DEF Contract!Deliver, EffectsOK
      <4>4. QED
        BY <4>3 DEF Contract!Next
    <3>4. QED
      BY <3>2, <3>3
  <2>12. ASSUME NEW w \in Workers, Complete(w)
         PROVE  Contract!Next \/ UNCHANGED Contract!vars
    <3>1. cur[w] \in Jobs /\ status[cur[w]] \in Live /\ cur[w] \notin Poison
      BY <2>12 DEF Complete, OwnJobLive, CurIsJob, Working
    <3>2. CASE status' = [status EXCEPT ![cur[w]] = "completed"]
      <4>1. PICK j \in Jobs : j = cur[w]
        BY <3>1
      <4>2. Contract!Finish(j)
        BY <2>12, <3>1, <3>2, <4>1 DEF Complete, Contract!Finish, Live, RowsOK
      <4>3. QED
        BY <4>2 DEF Contract!Next
    <3>3. CASE UNCHANGED status
      BY <2>12, <2>b, <3>3 DEF Complete
    <3>4. QED
      BY <2>12, <3>2, <3>3 DEF Complete
  <2>13. ASSUME NEW w \in Workers, Fail(w)
         PROVE  Contract!Next \/ UNCHANGED Contract!vars
    <3>1. cur[w] \in Jobs /\ status[cur[w]] \in Live
      BY <2>13 DEF Fail, OwnJobLive, CurIsJob, Working
    <3>2. CASE status' = [status EXCEPT ![cur[w]] = "dead"]
      <4>1. PICK j \in Jobs : j = cur[w]
        BY <3>1
      <4>2. Contract!Bury(j)
        BY <2>13, <3>1, <3>2, <4>1 DEF Fail, Contract!Bury, Live, RowsOK
      <4>3. QED
        BY <4>2 DEF Contract!Next
    <3>3. CASE status' = [status EXCEPT ![cur[w]] = "queued"]
      BY <2>13, <3>1, <3>3 DEF Fail, Contract!vars, Live, RowsOK
    <3>4. CASE UNCHANGED status
      BY <2>13, <2>b, <3>4 DEF Fail
    <3>5. QED
      BY <2>13, <3>2, <3>3, <3>4 DEF Fail, FailRow
  <2>14. ASSUME NEW w \in Workers, ScheduleRetry(w)
         PROVE  Contract!Next \/ UNCHANGED Contract!vars
    BY <2>14, <2>b DEF ScheduleRetry
  <2>15. ASSUME NEW w \in Workers, MoveToDead(w)
         PROVE  Contract!Next \/ UNCHANGED Contract!vars
    BY <2>15, <2>b DEF MoveToDead
  <2>16. ASSUME NEW w \in Workers, ReadDue(w)
         PROVE  Contract!Next \/ UNCHANGED Contract!vars
    BY <2>16, <2>b DEF ReadDue
  <2>17. ASSUME NEW w \in Workers, RemoveDue(w)
         PROVE  Contract!Next \/ UNCHANGED Contract!vars
    BY <2>17, <2>b DEF RemoveDue
  <2>18. ASSUME NEW w \in Workers, NEW j \in Jobs, ResetDue(w, j)
         PROVE  Contract!Next \/ UNCHANGED Contract!vars
    BY <2>18 DEF ResetDue, Contract!vars, Live, RowsOK
  <2>19. ASSUME NEW w \in Workers, NEW S \in SUBSET Jobs, RequeuePending(w, S)
         PROVE  Contract!Next \/ UNCHANGED Contract!vars
    BY <2>19, <2>b DEF RequeuePending
  <2>20. ASSUME NEW w \in Workers, NEW t \in pushes[w], Push(w, t)
         PROVE  Contract!Next \/ UNCHANGED Contract!vars
    BY <2>20, <2>b DEF Push
  <2>21. ASSUME NEW w \in Workers, NEW t \in pushes[w], PushFails(w, t)
         PROVE  Contract!Next \/ UNCHANGED Contract!vars
    BY <2>21, <2>b DEF PushFails
  <2>22. CASE RedisFlush
    BY <2>22, <2>b DEF RedisFlush
  <2>23. CASE UNCHANGED vars
    BY <2>23, <2>b DEF vars
  <2>24. QED
    BY <2>1, <2>2, <2>3, <2>4, <2>5, <2>6, <2>7, <2>8, <2>9, <2>10, <2>11, <2>12,
       <2>13, <2>14, <2>15, <2>16, <2>17, <2>18, <2>19, <2>20, <2>21, <2>22, <2>23
       DEF Next, ApiNext, StartNext, PollNext, TimerNext
<1>3. QED
  BY <1>1, <1>2, TypeCorrect, OwnJob, PTL DEF Spec, ImplementsContract, Contract!Spec
=============================================================================
