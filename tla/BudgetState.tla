---------------------------- MODULE BudgetState ----------------------------
(***************************************************************************)
(* What packages/ai-cost-system/src/budget.ts derives from the events of   *)
(* the accounting ledger (deriveBudgetState): which reservations are       *)
(* active, what each scope has used, whether the discrepancy circuit is    *)
(* open, and whether one more reservation fits the configured ceilings.    *)
(*                                                                         *)
(* A reservation id stands for its request: task, provider, retry and      *)
(* automatic flags and estimated usage are functions of the id.  Usage is  *)
(* a function from dimensions to amounts, "tokens" being the input and the *)
(* output count (both are limited the same way), "wall" local wall-time.   *)
(***************************************************************************)
EXTENDS Integers, Sequences, FiniteSets

CONSTANTS
    Reservations,   \* reservation ids
    Tasks, Providers, Days,
    Task,           \* Task[r], the request's taskId
    Provider,       \* Provider[r]
    Cloud,          \* the providers other than local-ai
    Automatic,      \* the ids requested with automatic = true
    Eligible,       \* the ids whose provider, route, data class, model, budget
                    \* class and pricing pass validateProviderRequest and resolve
    Reserved,       \* Reserved[r], the worst-case usage r reserves
    Month,          \* Month[d], the month of day d
    Ceilings,       \* Ceilings[kind][dim], the least configured ceiling; a
                    \* limit that is not configured (null) is -1
    NoDay,          \* the day of an event whose date is not used
    MaxAmount       \* Number.MAX_SAFE_INTEGER: no usage is larger

Dims == {"tokens", "cost", "calls", "retries", "wall"}
Amounts == 0..MaxAmount
Usage == [Dims -> Amounts]
Kinds == {"request", "task", "providerTask", "providerDay", "providerMonth",
          "cloudTask", "cloudDay", "cloudMonth"}

ASSUME SetsAssumption ==
    /\ IsFiniteSet(Reservations)
    /\ Cloud \subseteq Providers
    /\ Automatic \subseteq Reservations
    /\ Eligible \subseteq Reservations
    /\ MaxAmount \in Nat
ASSUME RequestsAssumption ==
    /\ Task \in [Reservations -> Tasks]
    /\ Provider \in [Reservations -> Providers]
    /\ Reserved \in [Reservations -> Usage]
    /\ \A r \in Reservations :
          /\ Reserved[r]["calls"] = 1
          /\ Provider[r] \in Cloud => Reserved[r]["wall"] = 0
ASSUME LimitsAssumption == Ceilings \in [Kinds -> [Dims -> Int]]

\* A ledger event about a reservation: use is the reserved or the actual
\* usage, day the UTC day of occurred_at, which only counts when reserving.
Events == [kind : {"reserve", "settled", "released"}, id : Reservations,
           day : Days \cup {NoDay}, use : Usage, overrun : BOOLEAN]

IsCloud(r) == Provider[r] \in Cloud
IsRetry(r) == Reserved[r]["retries"] > 0

\* Usage above the reserve in any dimension.
Overrun(r, u) == \E d \in Dims : u[d] > Reserved[r][d]

\* The usage settle() may be told: a call counts as one, a retry as a retry.
ActualUsage(r) ==
    {u \in Usage : u["calls"] = 1 /\ u["retries"] = Reserved[r]["retries"]}

\* What a recovering operator reports: a cloud call took no local wall-time.
TrueUsage(r) == {u \in ActualUsage(r) : IsCloud(r) => u["wall"] = 0}

ReserveEvent(r, day) ==
    [kind |-> "reserve", id |-> r, day |-> day, use |-> Reserved[r], overrun |-> FALSE]
SettleEvent(r, u) ==
    [kind |-> "settled", id |-> r, day |-> NoDay, use |-> u, overrun |-> Overrun(r, u)]
ReleaseEvent(r) ==
    [kind |-> "released", id |-> r, day |-> NoDay, use |-> [d \in Dims |-> 0], overrun |-> FALSE]

-----------------------------------------------------------------------------
(* deriveBudgetState *)

IsReserve(e) == e.kind = "reserve"
HasReserve(evs, r) == \E i \in DOMAIN evs : IsReserve(evs[i]) /\ evs[i].id = r
IsClosed(evs, r) == \E i \in DOMAIN evs : ~IsReserve(evs[i]) /\ evs[i].id = r

\* activeReservations and discrepancyCircuitOpen
Active(evs) == {r \in Reservations : HasReserve(evs, r) /\ ~IsClosed(evs, r)}
CircuitOpen(evs) == \E i \in DOMAIN evs : evs[i].overrun

\* ledger.replay and deriveBudgetState accept the events: no id is reserved
\* or closed twice, and nothing is closed before it is reserved.
Replayable(evs) ==
    /\ \A i, k \in DOMAIN evs :
          evs[i].id = evs[k].id /\ IsReserve(evs[i]) = IsReserve(evs[k]) => i = k
    /\ \A k \in DOMAIN evs : ~IsReserve(evs[k]) =>
          \E i \in 1..(k - 1) : IsReserve(evs[i]) /\ evs[i].id = evs[k].id

\* The totals a reservation of r made on day adds to (addRecordToTotals).
ScopesOf(r, day) ==
    {<<"request", r>>, <<"task", Task[r]>>, <<"providerTask", Task[r], Provider[r]>>,
     <<"providerDay", Provider[r], day>>, <<"providerMonth", Provider[r], Month[day]>>}
    \cup (IF IsCloud(r)
          THEN {<<"cloudTask", Task[r]>>, <<"cloudDay", day>>, <<"cloudMonth", Month[day]>>}
          ELSE {})
Scopes == UNION {ScopesOf(r, day) : r \in Reservations, day \in Days}

\* r counts in scope s: its usage belongs to the day of the reservation.
Counts(evs, r, s) ==
    \E i \in DOMAIN evs : /\ IsReserve(evs[i]) /\ evs[i].id = r
                          /\ s \in ScopesOf(r, evs[i].day)

\* n is within what r is charged in dimension d: the reserve while it is
\* active, the actual usage once settled, nothing once released.
Charged(evs, r, d, n) ==
    \/ ~IsClosed(evs, r) /\ n <= Reserved[r][d]
    \/ \E k \in DOMAIN evs : evs[k].kind = "settled" /\ evs[k].id = r /\ n <= evs[k].use[d]

\* The total of a scope in a dimension, as the number of units charged: the
\* pairs <<r, n>> with n from 1 to what r is charged.
Units(evs, s, d) ==
    {x \in Reservations \X (1..MaxAmount) : Counts(evs, x[1], s) /\ Charged(evs, x[1], d, x[2])}
Total(evs, s, d) == Cardinality(Units(evs, s, d))

-----------------------------------------------------------------------------
(* validateCandidateLimits *)

BasicKinds == {"task", "providerTask", "providerDay", "providerMonth"}

\* Defect: the limits over all cloud providers are left out.
ChecksNoCloudTotals(r) ==
    {<<"request", "tokens">>} \cup (BasicKinds \X {"tokens", "cost", "calls"})

\* The limits that are checked for a reservation of r.
Checks(r) ==
    {<<"request", "tokens">>} \cup (BasicKinds \X {"tokens", "cost", "calls"})
    \cup (IF IsCloud(r)
          THEN ({"cloudDay", "cloudMonth"} \X {"tokens", "cost", "calls"})
               \cup {<<"cloudTask", "calls">>}
          ELSE {<<"task", "wall">>})
    \cup (IF IsRetry(r) THEN {"task", "providerTask"} \X {"retries"} ELSE {})

Fits(evs, r, day) ==
    \A s \in ScopesOf(r, day), d \in Dims :
        <<s[1], d>> \in Checks(r) =>
            Total(Append(evs, ReserveEvent(r, day)), s, d) <= Ceilings[s[1]][d]

\* Every limit that exists.
Limited ==
    {<<"request", "tokens">>, <<"cloudTask", "calls">>, <<"task", "wall">>}
    \cup ((BasicKinds \cup {"cloudDay", "cloudMonth"}) \X {"tokens", "cost", "calls"})
    \cup ({"task", "providerTask"} \X {"retries"})

\* No scope has used more than its ceiling.
WithinCeilings(evs) ==
    \A s \in Scopes, d \in Dims :
        <<s[1], d>> \in Limited =>
            Units(evs, s, d) = {} \/ Total(evs, s, d) <= Ceilings[s[1]][d]
=============================================================================
