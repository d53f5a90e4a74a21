---------------------------- MODULE BudgetProofs ----------------------------
(***************************************************************************)
(* Theorems about BudgetController for every finite set of reservations,   *)
(* every request, price and ceiling.                                       *)
(***************************************************************************)
EXTENDS BudgetController, FiniteSetTheorems, TLAPS

-----------------------------------------------------------------------------
(* What one more event changes in the derived state *)

\* The events of an extended ledger are the old ones and the new one.
LEMMA AppendEvents ==
    ASSUME NEW evs \in Seq(Events), NEW e \in Events
    PROVE  /\ Append(evs, e) \in Seq(Events)
           /\ Len(Append(evs, e)) = Len(evs) + 1
           /\ DOMAIN Append(evs, e) = DOMAIN evs \cup {Len(evs) + 1}
           /\ \A i \in DOMAIN evs : Append(evs, e)[i] = evs[i]
           /\ Append(evs, e)[Len(evs) + 1] = e
  OBVIOUS

LEMMA AppendHasReserve ==
    ASSUME NEW evs \in Seq(Events), NEW e \in Events, NEW r
    PROVE  HasReserve(Append(evs, e), r) <=> HasReserve(evs, r) \/ (IsReserve(e) /\ e.id = r)
  BY AppendEvents DEF HasReserve

LEMMA AppendIsClosed ==
    ASSUME NEW evs \in Seq(Events), NEW e \in Events, NEW r
    PROVE  IsClosed(Append(evs, e), r) <=> IsClosed(evs, r) \/ (~IsReserve(e) /\ e.id = r)
  BY AppendEvents DEF IsClosed

LEMMA AppendCircuit ==
    ASSUME NEW evs \in Seq(Events), NEW e \in Events
    PROVE  CircuitOpen(Append(evs, e)) <=> CircuitOpen(evs) \/ e.overrun
  BY AppendEvents DEF CircuitOpen

LEMMA AppendCounts ==
    ASSUME NEW evs \in Seq(Events), NEW e \in Events, NEW r, NEW s
    PROVE  Counts(Append(evs, e), r, s) <=>
              Counts(evs, r, s) \/ (IsReserve(e) /\ e.id = r /\ s \in ScopesOf(r, e.day))
  BY AppendEvents DEF Counts

LEMMA AppendCharged ==
    ASSUME NEW evs \in Seq(Events), NEW e \in Events, NEW r, NEW d, NEW n
    PROVE  Charged(Append(evs, e), r, d, n) <=>
              \/ ~IsClosed(evs, r) /\ ~(~IsReserve(e) /\ e.id = r) /\ n <= Reserved[r][d]
              \/ \E k \in DOMAIN evs : evs[k].kind = "settled" /\ evs[k].id = r /\ n <= evs[k].use[d]
              \/ e.kind = "settled" /\ e.id = r /\ n <= e.use[d]
  BY AppendEvents, AppendIsClosed DEF Charged

\* A new reservation id, or the closing of an active one, keeps the ledger
\* acceptable to replay.
LEMMA AppendReplayable ==
    ASSUME NEW evs \in Seq(Events), NEW e \in Events, Replayable(evs),
           IF IsReserve(e) THEN ~HasReserve(evs, e.id) ELSE e.id \in Active(evs)
    PROVE  Replayable(Append(evs, e))
<1> DEFINE new == Append(evs, e)
<1>1. /\ new \in Seq(Events) /\ Len(evs) \in Nat
      /\ DOMAIN new = 1..(Len(evs) + 1) /\ DOMAIN evs = 1..Len(evs)
      /\ \A i \in 1..Len(evs) : new[i] = evs[i]
      /\ new[Len(evs) + 1] = e
  BY AppendEvents
<1>2. ASSUME NEW i \in 1..Len(evs), evs[i].id = e.id
      PROVE  IsReserve(evs[i]) # IsReserve(e)
  BY <1>1, <1>2 DEF Active, HasReserve, IsClosed
<1> HIDE DEF new
<1>3. ASSUME NEW i \in DOMAIN new, NEW k \in DOMAIN new,
             new[i].id = new[k].id, IsReserve(new[i]) = IsReserve(new[k])
      PROVE  i = k
  <2>1. CASE i \in 1..Len(evs) /\ k \in 1..Len(evs)
    BY <1>1, <1>3, <2>1 DEF Replayable
  <2>2. CASE i = Len(evs) + 1 /\ k \in 1..Len(evs)
    BY <1>1, <1>2, <1>3, <2>2
  <2>3. CASE k = Len(evs) + 1 /\ i \in 1..Len(evs)
    BY <1>1, <1>2, <1>3, <2>3
  <2> QED BY <1>1, <1>3, <2>1, <2>2, <2>3
<1>4. ASSUME NEW k \in DOMAIN new, ~IsReserve(new[k])
      PROVE  \E i \in 1..(k - 1) : IsReserve(new[i]) /\ new[i].id = new[k].id
  <2>1. CASE k \in 1..Len(evs)
    <3>1. PICK i \in 1..(k - 1) : IsReserve(evs[i]) /\ evs[i].id = evs[k].id
      BY <1>1, <1>4, <2>1 DEF Replayable
    <3> QED BY <1>1, <2>1, <3>1
  <2>2. CASE k = Len(evs) + 1
    <3>1. PICK i \in 1..Len(evs) : IsReserve(evs[i]) /\ evs[i].id = e.id
      BY <1>1, <1>4, <2>2 DEF Active, HasReserve
    <3> QED BY <1>1, <2>2, <3>1
  <2> QED BY <1>1, <2>1, <2>2
<1> QED BY <1>3, <1>4 DEF Replayable, new

-----------------------------------------------------------------------------
(* Totals *)

\* The units of a scope are finitely many, so fewer of them are fewer.
LEMMA UnitsFinite ==
    ASSUME NEW evs, NEW s, NEW d
    PROVE  IsFiniteSet(Units(evs, s, d))
<1>1. IsFiniteSet(1..MaxAmount)
  BY FS_Interval, SetsAssumption
<1>2. IsFiniteSet(Reservations \X (1..MaxAmount))
  BY <1>1, FS_Product, SetsAssumption
<1> QED BY <1>2, FS_Subset DEF Units

LEMMA TotalMonotone ==
    ASSUME NEW old, NEW new, NEW s, NEW d, Units(new, s, d) \subseteq Units(old, s, d)
    PROVE  /\ Total(new, s, d) \in Nat /\ Total(old, s, d) \in Nat
           /\ Total(new, s, d) <= Total(old, s, d)
  BY UnitsFinite, FS_Subset, FS_CardinalityType DEF Total

\* A new reservation only adds to its own scopes, and only in dimensions in
\* which it reserves something.
LEMMA ReserveUnits ==
    ASSUME NEW evs \in Seq(Events), Replayable(evs), NEW r \in Reservations, NEW day \in Days,
           ~HasReserve(evs, r), NEW s, NEW d \in Dims,
           s \notin ScopesOf(r, day) \/ Reserved[r][d] = 0
    PROVE  Units(Append(evs, ReserveEvent(r, day)), s, d) = Units(evs, s, d)
<1> DEFINE e == ReserveEvent(r, day)
           new == Append(evs, e)
<1>1. e \in Events /\ IsReserve(e) /\ e.id = r /\ e.day = day /\ e.kind # "settled"
  BY RequestsAssumption DEF ReserveEvent, Events, IsReserve
<1>2. ~Counts(evs, r, s)
  BY DEF Counts, HasReserve
<1>3. ~IsClosed(evs, r)
  BY DEF Replayable, IsClosed, HasReserve
<1> HIDE DEF e
<1>4. ASSUME NEW q \in Reservations, NEW n \in 1..MaxAmount, q # r
      PROVE  /\ Counts(new, q, s) <=> Counts(evs, q, s)
             /\ Charged(new, q, d, n) <=> Charged(evs, q, d, n)
  BY <1>1, <1>4, AppendCounts, AppendCharged DEF Charged
<1>5. ASSUME NEW n \in 1..MaxAmount
      PROVE  ~(Counts(new, r, s) /\ Charged(new, r, d, n))
  <2>1. CASE s \notin ScopesOf(r, day)
    BY <1>1, <1>2, <2>1, AppendCounts
  <2>2. CASE Reserved[r][d] = 0
    <3>1. ~\E k \in DOMAIN evs : evs[k].kind = "settled" /\ evs[k].id = r
      BY <1>3 DEF IsClosed, IsReserve
    <3> QED BY <1>1, <2>2, <3>1, AppendCharged, SetsAssumption
  <2> QED BY <2>1, <2>2
<1> HIDE DEF new
<1>6. ASSUME NEW x \in Reservations \X (1..MaxAmount)
      PROVE  Counts(new, x[1], s) /\ Charged(new, x[1], d, x[2]) <=>
             Counts(evs, x[1], s) /\ Charged(evs, x[1], d, x[2])
  BY <1>2, <1>4, <1>5
<1>7. Units(new, s, d) = Units(evs, s, d)
  BY <1>6 DEF Units
<1> QED BY <1>7 DEF new, e

\* Closing a reservation without overrun never charges more.
LEMMA CloseUnits ==
    ASSUME NEW evs \in Seq(Events), NEW e \in Events, ~IsReserve(e), e.id \in Active(evs),
           e.kind = "settled" => \A c \in Dims : e.use[c] <= Reserved[e.id][c],
           NEW s, NEW d \in Dims
    PROVE  Units(Append(evs, e), s, d) \subseteq Units(evs, s, d)
<1> DEFINE new == Append(evs, e)
<1> SUFFICES ASSUME NEW x \in Reservations \X (1..MaxAmount),
                    Counts(new, x[1], s), Charged(new, x[1], d, x[2])
             PROVE  Counts(evs, x[1], s) /\ Charged(evs, x[1], d, x[2])
  BY DEF Units
<1>1. Counts(evs, x[1], s)
  BY AppendCounts
<1>2. CASE x[1] # e.id
  BY <1>1, <1>2, AppendCharged DEF Charged
<1>3. CASE x[1] = e.id
  <2>1. ~IsClosed(evs, e.id) /\ e.id \in Reservations
    BY DEF Active
  <2>2. ~\E k \in DOMAIN evs : evs[k].kind = "settled" /\ evs[k].id = e.id
    BY <2>1 DEF IsClosed, IsReserve
  <2>3. e.kind = "settled" /\ x[2] <= e.use[d]
    BY <1>3, <2>2, AppendCharged
  <2>4. /\ e.use[d] \in Nat /\ Reserved[e.id][d] \in Nat /\ x[2] \in Nat
        /\ e.use[d] <= Reserved[e.id][d]
    BY <2>1, <2>3, RequestsAssumption, SetsAssumption DEF Events, Usage, Amounts
  <2>5. x[2] <= Reserved[e.id][d]
    BY <2>3, <2>4
  <2> QED BY <1>1, <1>3, <2>1, <2>5 DEF Charged
<1> QED BY <1>2, <1>3

\* A reservation that passed validateCandidateLimits keeps every scope below
\* its ceiling.
LEMMA ReserveWithinCeilings ==
    ASSUME NEW evs \in Seq(Events), Replayable(evs), NEW r \in Reservations, NEW day \in Days,
           ~HasReserve(evs, r), Fits(evs, r, day), WithinCeilings(evs)
    PROVE  WithinCeilings(Append(evs, ReserveEvent(r, day)))
<1> DEFINE new == Append(evs, ReserveEvent(r, day))
<1> SUFFICES ASSUME NEW s \in Scopes, NEW d \in Dims, <<s[1], d>> \in Limited
             PROVE  Units(new, s, d) = {} \/ Total(new, s, d) <= Ceilings[s[1]][d]
  BY DEF WithinCeilings
<1>1. CASE s \in ScopesOf(r, day) /\ <<s[1], d>> \in Checks(r)
  BY <1>1 DEF Fits
<1>2. CASE s \notin ScopesOf(r, day)
  <2>1. Units(new, s, d) = Units(evs, s, d)
    BY <1>2, ReserveUnits
  <2> QED BY <2>1 DEF WithinCeilings, Total
<1>3. CASE s \in ScopesOf(r, day) /\ <<s[1], d>> \notin Checks(r)
  <2>1. \/ <<s[1], d>> = <<"task", "wall">> /\ IsCloud(r)
        \/ d = "retries" /\ ~IsRetry(r)
    <3>1. s[1] \in {"cloudTask", "cloudDay", "cloudMonth"} => IsCloud(r)
      BY <1>3 DEF ScopesOf
    <3> QED BY <1>3, <3>1 DEF Limited, Checks, BasicKinds
  <2>2. Reserved[r][d] = 0
    <3>1. Reserved[r][d] \in Nat
      BY RequestsAssumption, SetsAssumption DEF Usage, Amounts
    <3> QED BY <2>1, <3>1, RequestsAssumption DEF IsCloud, IsRetry
  <2>3. Units(new, s, d) = Units(evs, s, d)
    BY <2>2, ReserveUnits
  <2> QED BY <2>3 DEF WithinCeilings, Total
<1> QED BY <1>1, <1>2, <1>3

\* So does closing a reservation without overrun.
LEMMA CloseWithinCeilings ==
    ASSUME NEW evs \in Seq(Events), NEW e \in Events, ~IsReserve(e), e.id \in Active(evs),
           e.kind = "settled" => \A c \in Dims : e.use[c] <= Reserved[e.id][c],
           WithinCeilings(evs)
    PROVE  WithinCeilings(Append(evs, e))
<1> DEFINE new == Append(evs, e)
<1> SUFFICES ASSUME NEW s \in Scopes, NEW d \in Dims, <<s[1], d>> \in Limited
             PROVE  Units(new, s, d) = {} \/ Total(new, s, d) <= Ceilings[s[1]][d]
  BY DEF WithinCeilings
<1>1. Units(new, s, d) \subseteq Units(evs, s, d)
  BY CloseUnits
<1>2. /\ Total(new, s, d) \in Nat /\ Total(evs, s, d) \in Nat
      /\ Total(new, s, d) <= Total(evs, s, d)
  BY <1>1, TotalMonotone
<1>3. Ceilings[s[1]][d] \in Int
  <2>1. s[1] \in Kinds
    BY DEF Scopes, ScopesOf, Kinds
  <2> QED BY <2>1, LimitsAssumption
<1>4. Units(evs, s, d) = {} \/ Total(evs, s, d) <= Ceilings[s[1]][d]
  BY DEF WithinCeilings
<1> HIDE DEF new
<1> QED BY <1>1, <1>2, <1>3, <1>4

-----------------------------------------------------------------------------
(* Type correctness *)

USE DEF diskVars, memVars

LEMMA EventTypes ==
    ASSUME NEW r \in Reservations
    PROVE  /\ \A day \in Days : ReserveEvent(r, day) \in Events
           /\ \A u \in ActualUsage(r) : SettleEvent(r, u) \in Events
           /\ ReleaseEvent(r) \in Events
  BY RequestsAssumption, SetsAssumption
     DEF ReserveEvent, SettleEvent, ReleaseEvent, Events, ActualUsage, Usage, Amounts, Overrun

LEMMA PendType ==
    ASSUME TypeOK, NEW e \in Events, NEW by \in {"call", "operator"}, Pend(e, by)
    PROVE  inflight' \subseteq Transitions
<1>1. Append(mem, e) \in Seq(Events)
  BY DEF TypeOK
<1>2. [event |-> e, events |-> Append(mem, e), by |-> by] \in Transitions
  BY <1>1 DEF Transitions
<1> QED BY <1>2 DEF TypeOK, Pend

LEMMA FailedWriteType ==
    ASSUME TypeOK, NEW e \in Events, FailedWrite(e)
    PROVE  file' \in Seq(Events) /\ corrupt' \in BOOLEAN
<1>1. file' \in Seq(Events)
  BY DEF TypeOK, FailedWrite
<1>2. corrupt' \in BOOLEAN
  BY Zenon DEF TypeOK, FailedWrite
<1> QED BY <1>1, <1>2

\* Every state of every behaviour is well typed.
THEOREM TypeCorrect == Spec => []TypeOK
<1>1. Init => TypeOK
  <2> SUFFICES ASSUME Init PROVE TypeOK
    OBVIOUS
  <2>1. corrupt \in BOOLEAN /\ storageFailed \in BOOLEAN
    BY DEF Init
  <2>2. file \in Seq(Events) /\ mem \in Seq(Events) /\ pc \in [Reservations -> PCs]
    BY DEF Init, PCs
  <2> QED BY <2>1, <2>2 DEF Init, TypeOK
<1>2. TypeOK /\ [Next]_vars => TypeOK'
  <2> SUFFICES ASSUME TypeOK, [Next]_vars PROVE TypeOK'
    OBVIOUS
  <2>1. ASSUME NEW r \in Reservations, Invoke(r) PROVE TypeOK'
    BY <2>1 DEF TypeOK, Invoke, Goto, PCs
  <2>2. ASSUME NEW r \in Reservations, NEW day \in Days, Reserve(r, day) PROVE TypeOK'
    <3>1. CASE Pend(ReserveEvent(r, day), "call") /\ UNCHANGED pc
      BY <2>2, <3>1, EventTypes, PendType DEF TypeOK, Reserve
    <3>2. CASE Goto(r, "done") /\ UNCHANGED inflight
      BY <2>2, <3>2 DEF TypeOK, Reserve, Goto, PCs
    <3> QED BY <2>2, <3>1, <3>2 DEF Reserve
  <2>3. ASSUME NEW r \in Reservations, NEW u \in ActualUsage(r), Settle(r, u) PROVE TypeOK'
    <3>1. CASE Pend(SettleEvent(r, u), "call") /\ UNCHANGED pc
      BY <2>3, <3>1, EventTypes, PendType DEF TypeOK, Settle
    <3>2. CASE Goto(r, "releasing") /\ UNCHANGED inflight
      BY <2>3, <3>2 DEF TypeOK, Settle, Goto, PCs
    <3> QED BY <2>3, <3>1, <3>2 DEF Settle
  <2>4. ASSUME NEW r \in Reservations, Release(r) PROVE TypeOK'
    <3>1. CASE Pend(ReleaseEvent(r), "call") /\ UNCHANGED pc
      BY <2>4, <3>1, EventTypes, PendType DEF TypeOK, Release
    <3>2. CASE Goto(r, "done") /\ UNCHANGED inflight
      BY <2>4, <3>2 DEF TypeOK, Release, Goto, PCs
    <3> QED BY <2>4, <3>1, <3>2 DEF Release
  <2>5. ASSUME NEW r \in Reservations, NEW u \in TrueUsage(r), RecoverSettle(r, u) PROVE TypeOK'
    <3>1. u \in ActualUsage(r)
      BY DEF TrueUsage
    <3> QED BY <2>5, <3>1, EventTypes, PendType DEF TypeOK, RecoverSettle
  <2>6. ASSUME NEW r \in Reservations, RecoverRelease(r) PROVE TypeOK'
    BY <2>6, EventTypes, PendType DEF TypeOK, RecoverRelease
  <2>7. ASSUME NEW r \in Reservations, StartAttempt(r) PROVE TypeOK'
    BY <2>7 DEF TypeOK, StartAttempt, Goto, PCs, AuditFails
  <2>8. ASSUME NEW r \in Reservations, Fetch(r) PROVE TypeOK'
    BY <2>8 DEF TypeOK, Fetch, Goto, PCs
  <2>9. ASSUME NEW r \in Reservations, Finish(r) PROVE TypeOK'
    BY <2>9 DEF TypeOK, Finish, Goto, PCs, AuditFails
  <2>10. CASE Initialize
    BY <2>10 DEF TypeOK, Initialize, Active
  <2>11. ASSUME NEW t \in inflight, AppendOk(t) PROVE TypeOK'
    <3>1. t.event \in Events /\ t.events \in Seq(Events) /\ t.event.id \in Reservations
      BY DEF TypeOK, Transitions, Events
    <3>2. \A label \in PCs : After(label) \in PCs
      BY DEF After, PCs
    <3>3. pc' \in [Reservations -> PCs]
      BY <2>11, <3>1, <3>2 DEF TypeOK, AppendOk, Goto
    <3>4. /\ file' \in Seq(Events) /\ mem' \in Seq(Events)
          /\ recovered' \subseteq Reservations /\ inflight' \subseteq Transitions
      BY <2>11, <3>1 DEF TypeOK, AppendOk
    <3> QED BY <2>11, <3>3, <3>4 DEF TypeOK, AppendOk
  <2>12. ASSUME NEW t \in inflight, AppendFails(t) PROVE TypeOK'
    <3>1. t.event \in Events /\ t.event.id \in Reservations
      BY DEF TypeOK, Transitions, Events
    <3>2. file' \in Seq(Events) /\ corrupt' \in BOOLEAN
      BY <2>12, <3>1, FailedWriteType DEF AppendFails
    <3>3. pc' \in [Reservations -> PCs]
      BY <2>12, <3>1 DEF TypeOK, AppendFails, Goto, PCs
    <3> QED BY <2>12, <3>2, <3>3 DEF TypeOK, AppendFails
  <2>13. CASE Crash
    <3>1. file' \in Seq(Events) /\ corrupt' \in BOOLEAN
      BY <2>13, FailedWriteType DEF Crash, TypeOK, Transitions
    <3>2. storageFailed' \in BOOLEAN
      BY <2>13, Zenon DEF Crash
    <3>3. mem' \in Seq(Events) /\ pc' \in [Reservations -> PCs]
      BY <2>13 DEF Crash, PCs
    <3> QED BY <2>13, <3>1, <3>2, <3>3 DEF TypeOK, Crash
  <2>14. CASE UNCHANGED vars
    BY <2>14 DEF TypeOK, vars
  <2> QED
    BY <2>1, <2>2, <2>3, <2>4, <2>5, <2>6, <2>7, <2>8, <2>9, <2>10, <2>11, <2>12, <2>13, <2>14
    DEF Next, Step, Recovery, Persist
<1> QED BY <1>1, <1>2, PTL DEF Spec

-----------------------------------------------------------------------------
(* The inductive invariant *)

\* The new event of a pending transition may be added to the ledger evs.
Addable(evs, e) ==
    \/ \E r \in Reservations, day \in Days :
          e = ReserveEvent(r, day) /\ ~HasReserve(evs, r) /\ Fits(evs, r, day)
    \/ \E r \in Active(evs) : \E u \in ActualUsage(r) : e = SettleEvent(r, u)
    \/ \E r \in Active(evs) : e = ReleaseEvent(r)

\* A pending transition is alone and was validated against what the file
\* still holds.
PendingValid ==
    \A t \in inflight :
        /\ inflight = {t}
        /\ up = "ready" /\ ~storageFailed /\ file = mem
        /\ t.events = Append(mem, t.event)
        /\ Addable(mem, t.event)

\* A call that went past reserve() has its reservation in the file.
CallsReserved ==
    \A r \in Reservations : pc[r] \notin {"idle", "reserving", "done"} => HasReserve(file, r)

BudgetInv ==
    /\ PendingValid
    /\ MemoryIsLedger
    /\ LedgerReplayable
    /\ LimitsHold
    /\ CallsReserved
    /\ BilledWasReserved

\* An event that may be added keeps the file replayable and within limits.
LEMMA AddableSafe ==
    ASSUME NEW evs \in Seq(Events), NEW e, Addable(evs, e), Replayable(evs),
           ~CircuitOpen(evs) => WithinCeilings(evs)
    PROVE  /\ e \in Events
           /\ HasReserve(Append(evs, e), e.id)
           /\ Replayable(Append(evs, e))
           /\ ~CircuitOpen(Append(evs, e)) => WithinCeilings(Append(evs, e))
<1>1. ASSUME NEW r \in Reservations, NEW day \in Days,
             e = ReserveEvent(r, day), ~HasReserve(evs, r), Fits(evs, r, day)
      PROVE  /\ e \in Events
             /\ HasReserve(Append(evs, e), e.id)
             /\ Replayable(Append(evs, e))
             /\ ~CircuitOpen(Append(evs, e)) => WithinCeilings(Append(evs, e))
  <2>1. e \in Events /\ IsReserve(e) /\ e.id = r
    BY <1>1, EventTypes DEF ReserveEvent, IsReserve
  <2>2. HasReserve(Append(evs, e), e.id)
    BY <2>1, AppendHasReserve
  <2>3. Replayable(Append(evs, e))
    BY <1>1, <2>1, AppendReplayable
  <2>4. ASSUME ~CircuitOpen(Append(evs, e)) PROVE WithinCeilings(Append(evs, e))
    <3>1. WithinCeilings(evs)
      BY <2>1, <2>4, AppendCircuit
    <3> QED BY <1>1, <3>1, ReserveWithinCeilings
  <2> QED BY <2>1, <2>2, <2>3, <2>4
<1>2. ASSUME e \in Events, ~IsReserve(e), e.id \in Active(evs),
             ~e.overrun => (e.kind = "settled" => \A c \in Dims : e.use[c] <= Reserved[e.id][c])
      PROVE  /\ HasReserve(Append(evs, e), e.id)
             /\ Replayable(Append(evs, e))
             /\ ~CircuitOpen(Append(evs, e)) => WithinCeilings(Append(evs, e))
  <2>1. HasReserve(Append(evs, e), e.id)
    BY <1>2, AppendHasReserve DEF Active
  <2>2. Replayable(Append(evs, e))
    BY <1>2, AppendReplayable
  <2>3. ASSUME ~CircuitOpen(Append(evs, e)) PROVE WithinCeilings(Append(evs, e))
    <3>1. WithinCeilings(evs) /\ ~e.overrun
      BY <1>2, <2>3, AppendCircuit
    <3> QED BY <1>2, <3>1, CloseWithinCeilings
  <2> QED BY <2>1, <2>2, <2>3
<1>3. ASSUME NEW r \in Active(evs), NEW u \in ActualUsage(r), e = SettleEvent(r, u)
      PROVE  /\ e \in Events /\ ~IsReserve(e) /\ e.id \in Active(evs)
             /\ ~e.overrun => (e.kind = "settled" => \A c \in Dims : e.use[c] <= Reserved[e.id][c])
  <2>1. r \in Reservations
    BY DEF Active
  <2>2. e \in Events /\ ~IsReserve(e) /\ e.id = r /\ e.use = u /\ e.overrun = Overrun(r, u)
    BY <1>3, <2>1, EventTypes DEF SettleEvent, IsReserve
  <2>3. \A c \in Dims : u[c] \in Int /\ Reserved[r][c] \in Int
    BY <2>1, RequestsAssumption, SetsAssumption DEF ActualUsage, Usage, Amounts
  <2> QED BY <2>2, <2>3 DEF Overrun
<1>4. ASSUME NEW r \in Active(evs), e = ReleaseEvent(r)
      PROVE  /\ e \in Events /\ ~IsReserve(e) /\ e.id \in Active(evs)
             /\ ~e.overrun => (e.kind = "settled" => \A c \in Dims : e.use[c] <= Reserved[e.id][c])
  <2>1. r \in Reservations
    BY DEF Active
  <2> QED BY <1>4, <2>1, EventTypes DEF ReleaseEvent, IsReserve
<1> QED BY <1>1, <1>2, <1>3, <1>4 DEF Addable

\* A transition that starts is alone and valid.
LEMMA PendKeeps ==
    ASSUME TypeOK, BudgetInv, Serialized, ~storageFailed, NEW e, NEW by, Pend(e, by),
           Addable(mem, e), UNCHANGED <<file, up, mem, storageFailed>>
    PROVE  PendingValid' /\ MemoryIsLedger'
<1>1. file = mem
  BY DEF BudgetInv, MemoryIsLedger, Serialized
<1>2. inflight' = {[event |-> e, events |-> Append(mem, e), by |-> by]}
  BY DEF Pend, Serialized
<1> QED BY <1>1, <1>2 DEF PendingValid, MemoryIsLedger, Serialized

\* Steps that leave the file, the memory and the queue alone.
LEMMA QuietKeeps ==
    ASSUME BudgetInv, UNCHANGED <<file, up, mem, storageFailed, inflight>>
    PROVE  PendingValid' /\ MemoryIsLedger' /\ LedgerReplayable' /\ LimitsHold'
  BY DEF BudgetInv, PendingValid, MemoryIsLedger, LedgerReplayable, LimitsHold

\* Moving a call keeps CallsReserved if the call has its reservation.
LEMMA GotoKeeps ==
    ASSUME TypeOK, BudgetInv, NEW r \in Reservations, NEW label, Goto(r, label), UNCHANGED file,
           label \in {"idle", "reserving", "done"} \/ HasReserve(file, r)
    PROVE  CallsReserved'
  BY DEF TypeOK, BudgetInv, CallsReserved, Goto

\* A write that fails leaves a file that is replayable, within its limits,
\* and holds every reservation it held.
LEMMA FailedWriteKeeps ==
    ASSUME TypeOK, BudgetInv, NEW t \in inflight, FailedWrite(t.event)
    PROVE  /\ LedgerReplayable' /\ LimitsHold'
           /\ \A r \in Reservations : HasReserve(file, r) => HasReserve(file', r)
           /\ file' = file \/ (file' # <<>> /\ file' = Append(mem, file'[Len(file')]))
<1>1. file = mem /\ file \in Seq(Events) /\ Addable(file, t.event)
  BY DEF TypeOK, BudgetInv, PendingValid
<1>2. CASE file' = file
  BY <1>2 DEF BudgetInv, LedgerReplayable, LimitsHold
<1>3. CASE file' = Append(file, t.event)
  <2>1. /\ t.event \in Events
        /\ Replayable(file')
        /\ ~CircuitOpen(file') => WithinCeilings(file')
    BY <1>1, <1>3, AddableSafe DEF BudgetInv, LedgerReplayable, LimitsHold
  <2>2. \A r \in Reservations : HasReserve(file, r) => HasReserve(file', r)
    BY <1>1, <1>3, <2>1, AppendHasReserve
  <2>3. file' # <<>> /\ file' = Append(mem, file'[Len(file')])
    BY <1>1, <1>3, <2>1, AppendEvents
  <2> QED BY <2>1, <2>2, <2>3 DEF LedgerReplayable, LimitsHold
<1> QED BY <1>2, <1>3 DEF FailedWrite

\* Crashes, failed and torn writes, concurrent calls and recovery keep the
\* ledger replayable, the memory equal to it, every scope within its ceiling
\* and every billed call reserved.
THEOREM BudgetSafe == Spec => []BudgetInv
<1>1. Init => BudgetInv
  <2> SUFFICES ASSUME Init PROVE BudgetInv
    OBVIOUS
  <2>1. file = <<>> /\ DOMAIN file = {}
    BY DEF Init
  <2>2. \A s, d : Units(file, s, d) = {}
    BY <2>1 DEF Units, Counts
  <2>3. LimitsHold
    BY <2>2 DEF LimitsHold, WithinCeilings
  <2>4. LedgerReplayable
    BY <2>1 DEF LedgerReplayable, Replayable
  <2>5. PendingValid /\ MemoryIsLedger /\ CallsReserved /\ BilledWasReserved
    BY DEF Init, PendingValid, MemoryIsLedger, CallsReserved, BilledWasReserved
  <2> QED BY <2>3, <2>4, <2>5 DEF BudgetInv
<1>2. TypeOK /\ BudgetInv /\ [Next]_vars => BudgetInv'
  <2> SUFFICES ASSUME TypeOK, BudgetInv, [Next]_vars PROVE BudgetInv'
    OBVIOUS
  <2>1. ASSUME NEW r \in Reservations, NEW label, Goto(r, label),
               label \in {"idle", "reserving", "done"} \/ HasReserve(file, r),
               UNCHANGED <<file, up, mem, storageFailed, inflight, billed>>
        PROVE  BudgetInv'
    <3>1. CallsReserved'
      BY <2>1, GotoKeeps
    <3>2. PendingValid' /\ MemoryIsLedger' /\ LedgerReplayable' /\ LimitsHold'
      BY <2>1, QuietKeeps
    <3>3. BilledWasReserved'
      BY <2>1 DEF BudgetInv, BilledWasReserved
    <3> QED BY <3>1, <3>2, <3>3 DEF BudgetInv
  <2>2. ASSUME NEW e, NEW by, Pend(e, by), Serialized, ~storageFailed, Addable(mem, e),
               UNCHANGED <<file, up, mem, storageFailed, pc, billed>>
        PROVE  BudgetInv'
    <3>1. PendingValid' /\ MemoryIsLedger'
      BY <2>2, PendKeeps
    <3>2. LedgerReplayable' /\ LimitsHold' /\ CallsReserved' /\ BilledWasReserved'
      BY <2>2 DEF BudgetInv, LedgerReplayable, LimitsHold, CallsReserved, BilledWasReserved
    <3> QED BY <3>1, <3>2 DEF BudgetInv
  <2>3. ASSUME NEW r \in Reservations, Invoke(r) PROVE BudgetInv'
    BY <2>1, <2>3 DEF Invoke
  <2>4. ASSUME NEW r \in Reservations, NEW day \in Days, Reserve(r, day) PROVE BudgetInv'
    <3>1. CASE Admissible(r, day) /\ Pend(ReserveEvent(r, day), "call") /\ UNCHANGED pc
      <4>1. ~storageFailed /\ Addable(mem, ReserveEvent(r, day))
        BY <3>1 DEF Admissible, Addable
      <4> QED BY <2>2, <2>4, <3>1, <4>1 DEF Reserve
    <3>2. CASE Goto(r, "done") /\ UNCHANGED inflight
      BY <2>1, <2>4, <3>2 DEF Reserve
    <3> QED BY <2>4, <3>1, <3>2 DEF Reserve
  <2>5. ASSUME NEW r \in Reservations, NEW u \in ActualUsage(r), Settle(r, u) PROVE BudgetInv'
    <3>1. CASE Closable(r) /\ Pend(SettleEvent(r, u), "call") /\ UNCHANGED pc
      <4>1. ~storageFailed /\ Addable(mem, SettleEvent(r, u))
        BY <3>1 DEF Closable, Addable
      <4> QED BY <2>2, <2>5, <3>1, <4>1 DEF Settle
    <3>2. CASE Goto(r, "releasing") /\ UNCHANGED inflight
      <4>1. HasReserve(file, r)
        BY <2>5 DEF Settle, BudgetInv, CallsReserved
      <4> QED BY <2>1, <2>5, <3>2, <4>1 DEF Settle
    <3> QED BY <2>5, <3>1, <3>2 DEF Settle
  <2>6. ASSUME NEW r \in Reservations, Release(r) PROVE BudgetInv'
    <3>1. CASE Closable(r) /\ Pend(ReleaseEvent(r), "call") /\ UNCHANGED pc
      <4>1. ~storageFailed /\ Addable(mem, ReleaseEvent(r))
        BY <3>1 DEF Closable, Addable
      <4> QED BY <2>2, <2>6, <3>1, <4>1 DEF Release
    <3>2. CASE Goto(r, "done") /\ UNCHANGED inflight
      BY <2>1, <2>6, <3>2 DEF Release
    <3> QED BY <2>6, <3>1, <3>2 DEF Release
  <2>7. ASSUME NEW r \in Reservations, NEW u \in TrueUsage(r), RecoverSettle(r, u) PROVE BudgetInv'
    <3>1. ~storageFailed /\ Addable(mem, SettleEvent(r, u))
      BY <2>7 DEF RecoverSettle, Closable, Addable, TrueUsage
    <3> QED BY <2>2, <2>7, <3>1 DEF RecoverSettle
  <2>8. ASSUME NEW r \in Reservations, RecoverRelease(r) PROVE BudgetInv'
    <3>1. ~storageFailed /\ Addable(mem, ReleaseEvent(r))
      BY <2>8 DEF RecoverRelease, Closable, Addable
    <3> QED BY <2>2, <2>8, <3>1 DEF RecoverRelease
  <2>9. ASSUME NEW r \in Reservations, StartAttempt(r) PROVE BudgetInv'
    <3>1. HasReserve(file, r) /\ UNCHANGED file
      BY <2>9 DEF StartAttempt, BudgetInv, CallsReserved, AuditFails
    <3> QED BY <2>1, <2>9, <3>1 DEF StartAttempt
  <2>10. ASSUME NEW r \in Reservations, Fetch(r) PROVE BudgetInv'
    <3>1. HasReserve(file, r)
      BY <2>10 DEF Fetch, BudgetInv, CallsReserved
    <3>2. CallsReserved'
      BY <2>10, <3>1, GotoKeeps DEF Fetch
    <3>3. BilledWasReserved'
      BY <2>10, <3>1 DEF Fetch, BudgetInv, BilledWasReserved
    <3>4. PendingValid' /\ MemoryIsLedger' /\ LedgerReplayable' /\ LimitsHold'
      BY <2>10, QuietKeeps DEF Fetch
    <3> QED BY <3>2, <3>3, <3>4 DEF BudgetInv
  <2>11. ASSUME NEW r \in Reservations, Finish(r) PROVE BudgetInv'
    <3>1. HasReserve(file, r) /\ UNCHANGED file
      BY <2>11 DEF Finish, BudgetInv, CallsReserved, AuditFails
    <3> QED BY <2>1, <2>11, <3>1 DEF Finish
  <2>12. CASE Initialize
    <3>1. inflight = {} /\ inflight' = {}
      BY <2>12 DEF Initialize, BudgetInv, PendingValid
    <3>2. PendingValid' /\ MemoryIsLedger'
      BY <2>12, <3>1 DEF Initialize, PendingValid, MemoryIsLedger
    <3>3. LedgerReplayable' /\ LimitsHold' /\ CallsReserved' /\ BilledWasReserved'
      BY <2>12 DEF Initialize, BudgetInv, LedgerReplayable, LimitsHold, CallsReserved,
         BilledWasReserved
    <3> QED BY <3>2, <3>3 DEF BudgetInv
  <2>13. ASSUME NEW t \in inflight, AppendOk(t) PROVE BudgetInv'
    <3>1. /\ inflight = {t} /\ file = mem /\ file \in Seq(Events)
          /\ Addable(file, t.event) /\ t.events = Append(mem, t.event)
      BY DEF TypeOK, BudgetInv, PendingValid
    <3>2. /\ t.event \in Events
          /\ HasReserve(file', t.event.id)
          /\ Replayable(file')
          /\ ~CircuitOpen(file') => WithinCeilings(file')
      BY <2>13, <3>1, AddableSafe DEF AppendOk, BudgetInv, LedgerReplayable, LimitsHold
    <3>3. \A r \in Reservations : HasReserve(file, r) => HasReserve(file', r)
      BY <2>13, <3>1, <3>2, AppendHasReserve DEF AppendOk
    <3>4. PendingValid' /\ MemoryIsLedger'
      BY <2>13, <3>1 DEF AppendOk, PendingValid, MemoryIsLedger
    <3>5. CallsReserved'
      BY <2>13, <3>2, <3>3 DEF AppendOk, Goto, TypeOK, BudgetInv, CallsReserved
    <3>6. BilledWasReserved'
      BY <2>13, <3>3 DEF AppendOk, TypeOK, BudgetInv, BilledWasReserved
    <3> QED BY <3>2, <3>4, <3>5, <3>6 DEF BudgetInv, LedgerReplayable, LimitsHold
  <2>14. ASSUME NEW t \in inflight, AppendFails(t) PROVE BudgetInv'
    <3>1. inflight = {t} /\ inflight' = {}
      BY <2>14 DEF AppendFails, BudgetInv, PendingValid
    <3>2. /\ LedgerReplayable' /\ LimitsHold'
          /\ \A r \in Reservations : HasReserve(file, r) => HasReserve(file', r)
          /\ file' = file \/ (file' # <<>> /\ file' = Append(mem, file'[Len(file')]))
      BY <2>14, FailedWriteKeeps DEF AppendFails
    <3>3. PendingValid' /\ MemoryIsLedger'
      BY <2>14, <3>1, <3>2 DEF AppendFails, BudgetInv, PendingValid, MemoryIsLedger
    <3>4. CallsReserved' /\ BilledWasReserved'
      BY <2>14, <3>2 DEF AppendFails, Goto, TypeOK, BudgetInv, CallsReserved, BilledWasReserved
    <3> QED BY <3>2, <3>3, <3>4 DEF BudgetInv
  <2>15. CASE Crash
    <3>1. /\ LedgerReplayable' /\ LimitsHold'
          /\ \A r \in Reservations : HasReserve(file, r) => HasReserve(file', r)
      <4>1. CASE UNCHANGED file
        BY <4>1 DEF BudgetInv, LedgerReplayable, LimitsHold
      <4>2. CASE \E t \in inflight : FailedWrite(t.event)
        BY <4>2, FailedWriteKeeps
      <4> QED BY <2>15, <4>1, <4>2 DEF Crash
    <3>2. PendingValid' /\ MemoryIsLedger'
      BY <2>15 DEF Crash, PendingValid, MemoryIsLedger
    <3>3. CallsReserved' /\ BilledWasReserved'
      BY <2>15, <3>1 DEF Crash, TypeOK, BudgetInv, CallsReserved, BilledWasReserved
    <3> QED BY <3>1, <3>2, <3>3 DEF BudgetInv
  <2>16. CASE UNCHANGED vars
    <3>1. PendingValid' /\ MemoryIsLedger' /\ LedgerReplayable' /\ LimitsHold'
      BY <2>16, QuietKeeps DEF vars
    <3> QED BY <2>16, <3>1 DEF vars, BudgetInv, CallsReserved, BilledWasReserved
  <2> QED
    BY <2>3, <2>4, <2>5, <2>6, <2>7, <2>8, <2>9, <2>10, <2>11, <2>12, <2>13, <2>14, <2>15, <2>16
    DEF Next, Step, Recovery, Persist
<1> QED BY <1>1, <1>2, TypeCorrect, PTL DEF Spec

\* The ledger a restart finds is always one that replay accepts.
THEOREM AlwaysReplayable == Spec => []LedgerReplayable
  BY BudgetSafe, PTL DEF BudgetInv

\* Derived state is never ahead of the ledger, nor behind it by more than one
\* event of an append that failed.
THEOREM MemoryFollowsLedger == Spec => []MemoryIsLedger
  BY BudgetSafe, PTL DEF BudgetInv

\* Without an overrun no scope ever exceeds its ceiling.
THEOREM CeilingsHold == Spec => []LimitsHold
  BY BudgetSafe, PTL DEF BudgetInv

\* No provider is called without a durable reservation.
THEOREM NoUnreservedCall == Spec => []BilledWasReserved
  BY BudgetSafe, PTL DEF BudgetInv

-----------------------------------------------------------------------------
(* Who holds a reservation *)

\* r was left by an earlier process, or its call is between reserve() and the
\* end of settle() or release(), or has leaked it.
Held(r) ==
    r \in recovered \/ pc[r] \in {"reserved", "fetching", "settling", "releasing", "leaked"}

\* A pending reservation is that of a call that waits for it, and one of an
\* automatic call passed its tests on what is still the state.
PendingReserve ==
    \A t \in inflight : IsReserve(t.event) =>
        /\ t.by = "call" /\ pc[t.event.id] = "reserving"
        /\ t.event.id \in Automatic => ~CircuitOpen(mem) /\ Active(mem) \cap recovered = {}

ActiveHeld == up = "ready" /\ ~storageFailed => \A r \in Active(mem) : Held(r)

OwnerInv == ActiveHeld /\ PendingReserve

\* A call moves, and if it lets go of its reservation that is not active.
LEMMA MoveKeepsOwner ==
    ASSUME TypeOK, OwnerInv, NEW r \in Reservations, NEW label, Goto(r, label),
           UNCHANGED <<memVars, inflight>>, pc[r] = "reserving" => inflight = {},
           \/ label \in {"reserved", "fetching", "settling", "releasing", "leaked"}
           \/ ~Held(r)
           \/ r \in recovered
           \/ storageFailed
           \/ r \notin Active(mem)
    PROVE  OwnerInv'
<1>1. pc'[r] = label /\ \A x \in Reservations \ {r} : pc'[x] = pc[x]
  BY DEF Goto, TypeOK
<1>2. ActiveHeld'
  BY <1>1 DEF OwnerInv, ActiveHeld, Held, Active
<1>3. \A t \in inflight : t.event.id \in Reservations
  BY DEF TypeOK, Transitions, Events
<1>4. PendingReserve'
  BY <1>1, <1>3 DEF OwnerInv, PendingReserve
<1> QED BY <1>2, <1>4 DEF OwnerInv

\* A transition starts.
LEMMA PendKeepsOwner ==
    ASSUME OwnerInv, Serialized, NEW e, NEW by, Pend(e, by), UNCHANGED <<memVars, pc>>,
           IsReserve(e) =>
              /\ by = "call" /\ pc[e.id] = "reserving"
              /\ e.id \in Automatic => ~CircuitOpen(mem) /\ Active(mem) \cap recovered = {}
    PROVE  OwnerInv'
<1>1. inflight' = {[event |-> e, events |-> Append(mem, e), by |-> by]}
  BY DEF Pend, Serialized
<1>2. PendingReserve'
  BY <1>1 DEF PendingReserve
<1> QED BY <1>2 DEF OwnerInv, ActiveHeld, Held

\* Settlements and releases are not reservations.
LEMMA ClosingEvents ==
    \A r, u : ~IsReserve(SettleEvent(r, u)) /\ ~IsReserve(ReleaseEvent(r))
  BY DEF IsReserve, SettleEvent, ReleaseEvent

\* Whatever fails, crashes or races, an active reservation is held by a call
\* that is at work on it, was recovered or has leaked.
THEOREM OwnersKnown == Spec => []OwnerInv
<1>1. Init => OwnerInv
  BY DEF Init, OwnerInv, ActiveHeld, PendingReserve
<1>2. TypeOK /\ BudgetInv /\ OwnerInv /\ [Next]_vars => OwnerInv'
  <2> SUFFICES ASSUME TypeOK, BudgetInv, OwnerInv, [Next]_vars PROVE OwnerInv'
    OBVIOUS
  <2>1. ASSUME NEW r \in Reservations, Invoke(r) PROVE OwnerInv'
    <3>1. pc[r] = "idle" /\ Goto(r, "reserving") /\ UNCHANGED <<memVars, inflight>>
      BY <2>1 DEF Invoke
    <3>2. r \in recovered \/ ~Held(r)
      BY <3>1 DEF Held
    <3> QED BY <3>1, <3>2, MoveKeepsOwner
  <2>2. ASSUME NEW r \in Reservations, NEW day \in Days, Reserve(r, day) PROVE OwnerInv'
    <3>1. CASE Admissible(r, day) /\ Pend(ReserveEvent(r, day), "call") /\ UNCHANGED pc
      <4>1. ReserveEvent(r, day).id = r
        BY DEF ReserveEvent
      <4> QED BY <2>2, <3>1, <4>1, PendKeepsOwner DEF Reserve, Admissible
    <3>2. CASE Goto(r, "done") /\ UNCHANGED inflight
      <4>1. r \in recovered \/ ~Held(r)
        BY <2>2 DEF Reserve, Held
      <4> QED BY <2>2, <3>2, <4>1, MoveKeepsOwner DEF Reserve, Serialized
    <3> QED BY <2>2, <3>1, <3>2 DEF Reserve
  <2>3. ASSUME NEW r \in Reservations, NEW u \in ActualUsage(r), Settle(r, u) PROVE OwnerInv'
    <3>1. CASE Pend(SettleEvent(r, u), "call") /\ UNCHANGED pc
      BY <2>3, <3>1, ClosingEvents, PendKeepsOwner DEF Settle
    <3>2. CASE Goto(r, "releasing") /\ UNCHANGED inflight
      BY <2>3, <3>2, MoveKeepsOwner DEF Settle
    <3> QED BY <2>3, <3>1, <3>2 DEF Settle
  <2>4. ASSUME NEW r \in Reservations, Release(r) PROVE OwnerInv'
    <3>1. CASE Pend(ReleaseEvent(r), "call") /\ UNCHANGED pc
      BY <2>4, <3>1, ClosingEvents, PendKeepsOwner DEF Release
    <3>2. CASE ~Closable(r) /\ Goto(r, "done") /\ UNCHANGED inflight
      <4>1. storageFailed \/ r \notin Active(mem)
        BY <3>2 DEF Closable
      <4> QED BY <2>4, <3>2, <4>1, MoveKeepsOwner DEF Release
    <3> QED BY <2>4, <3>1, <3>2 DEF Release
  <2>5. ASSUME NEW r \in Reservations, Recovery(r) PROVE OwnerInv'
    BY <2>5, ClosingEvents, PendKeepsOwner DEF Recovery, RecoverSettle, RecoverRelease
  <2>6. ASSUME NEW r \in Reservations, StartAttempt(r) PROVE OwnerInv'
    BY <2>6, MoveKeepsOwner DEF StartAttempt
  <2>7. ASSUME NEW r \in Reservations, Fetch(r) PROVE OwnerInv'
    BY <2>7, MoveKeepsOwner DEF Fetch
  <2>8. ASSUME NEW r \in Reservations, Finish(r) PROVE OwnerInv'
    <3>1. r \in recovered \/ ~Held(r)
      BY <2>8 DEF Finish, Held
    <3> QED BY <2>8, <3>1, MoveKeepsOwner DEF Finish
  <2>9. CASE Initialize
    <3>1. inflight = {} /\ inflight' = {}
      BY <2>9 DEF Initialize, BudgetInv, PendingValid
    <3>2. ActiveHeld'
      BY <2>9 DEF Initialize, ActiveHeld, Held
    <3> QED BY <3>1, <3>2 DEF OwnerInv, PendingReserve
  <2>10. ASSUME NEW t \in inflight, AppendOk(t) PROVE OwnerInv'
    <3> DEFINE r == t.event.id
    <3>1. /\ inflight = {t} /\ inflight' = {} /\ mem \in Seq(Events) /\ t.event \in Events
          /\ mem' = Append(mem, t.event) /\ UNCHANGED <<up, storageFailed>>
      BY <2>10 DEF AppendOk, TypeOK, BudgetInv, PendingValid, Transitions
    <3>2. r \in Reservations /\ \A x \in Reservations \ {r} : pc'[x] = pc[x]
      BY <2>10, <3>1 DEF AppendOk, Goto, TypeOK, Events
    <3>3. ASSUME NEW x \in Active(mem'), x # r PROVE x \in Active(mem) /\ (Held(x) => Held(x)')
      <4>1. x \in Reservations /\ x \in Active(mem)
        BY <3>1, <3>3, AppendHasReserve, AppendIsClosed DEF Active
      <4>2. x \in recovered => x \in recovered'
        BY <2>10, <3>3 DEF AppendOk
      <4> QED BY <3>2, <3>3, <4>1, <4>2 DEF Held
    <3>4. CASE IsReserve(t.event)
      <4>1. t.by = "call" /\ pc[r] = "reserving"
        BY <3>4 DEF OwnerInv, PendingReserve
      <4>2. pc'[r] = "reserved"
        BY <2>10, <3>2, <4>1 DEF AppendOk, Goto, After, TypeOK
      <4> QED BY <3>1, <3>3, <4>2 DEF OwnerInv, ActiveHeld, Held, PendingReserve
    <3>5. CASE ~IsReserve(t.event)
      <4>1. r \notin Active(mem')
        BY <3>1, <3>5, AppendIsClosed DEF Active
      <4> QED BY <3>1, <3>3, <4>1 DEF OwnerInv, ActiveHeld, PendingReserve
    <3> QED BY <3>4, <3>5
  <2>11. ASSUME NEW t \in inflight, AppendFails(t) PROVE OwnerInv'
    <3>1. inflight' = {}
      BY <2>11 DEF AppendFails, BudgetInv, PendingValid
    <3> QED BY <2>11, <3>1 DEF AppendFails, OwnerInv, ActiveHeld, PendingReserve
  <2>12. CASE Crash
    BY <2>12 DEF Crash, OwnerInv, ActiveHeld, PendingReserve
  <2>13. CASE UNCHANGED vars
    BY <2>13 DEF vars, OwnerInv, ActiveHeld, Held, PendingReserve
  <2> QED
    BY <2>1, <2>2, <2>3, <2>4, <2>5, <2>6, <2>7, <2>8, <2>9, <2>10, <2>11, <2>12, <2>13
    DEF Next, Step, Persist
<1> QED BY <1>1, <1>2, TypeCorrect, BudgetSafe, PTL DEF Spec

\* Every reservation that is held has an owner, or blocks automatic calls, or
\* is the one the cloud adapter leaks.
THEOREM HoldsOwned == Spec => []HoldsHaveOwners
<1>1. OwnerInv => HoldsHaveOwners
  BY DEF OwnerInv, ActiveHeld, Held, HoldsHaveOwners, Running
<1> QED BY <1>1, OwnersKnown, PTL

\* An automatic call is admitted only while no overrun has been recorded and
\* nothing an earlier process left is active.
THEOREM AutomaticWhenClean == Spec => []AutomaticOnlyWhenClean
<1>1. BudgetInv /\ OwnerInv => AutomaticOnlyWhenClean
  <2> SUFFICES ASSUME BudgetInv, OwnerInv, NEW t \in inflight,
                      IsReserve(t.event), t.event.id \in Automatic
               PROVE  ~CircuitOpen(file) /\ \A r \in Active(file) : Running(r) \/ pc[r] = "leaked"
    BY DEF AutomaticOnlyWhenClean
  <2>1. up = "ready" /\ ~storageFailed /\ file = mem
    BY DEF BudgetInv, PendingValid
  <2>2. ~CircuitOpen(mem) /\ Active(mem) \cap recovered = {}
    BY DEF OwnerInv, PendingReserve
  <2>3. \A r \in Active(mem) : Held(r)
    BY <2>1 DEF OwnerInv, ActiveHeld
  <2> QED BY <2>1, <2>2, <2>3 DEF Held, Running
<1> QED BY <1>1, BudgetSafe, OwnersKnown, PTL
=============================================================================
