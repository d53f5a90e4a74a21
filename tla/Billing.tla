------------------------------ MODULE Billing ------------------------------
(***************************************************************************)
(* Subscriptions and payments (apps/api/src/billing/service.ts), the admin *)
(* override of a subscription (apps/api/src/admin/service.ts) and the paid *)
(* feature that depends on them, owner alerts.                             *)
(*                                                                         *)
(* Transactions run at READ COMMITTED.  A webhook's transaction is split   *)
(* at the points where another transaction's commit can matter: the insert *)
(* of its event row, the read of the subscription, and the write with the  *)
(* commit.  Until it ends, its event row is locked by the unique key.  The *)
(* payment provider delivers an event any number of times, in any order    *)
(* and to several API processes at once.                                   *)
(***************************************************************************)
EXTENDS Naturals, Sequences, FiniteSets

CONSTANTS
    Users,
    Payments,     \* provider payment ids, each made by one checkout
    Events,       \* provider event ids
    Deliveries,   \* webhook requests handled at the same time
    NoEvent,
    Owner,        \* Owner[p], the user who checked out
    EventType,    \* EventType[e], what parseEvent makes of it
    PaymentOf,    \* PaymentOf[e], the payment id the event names
    PriceIn,      \* PriceIn[e]: "plan" if the event names the plan's amount and
                  \* currency, "other" if it names another one, else "absent"
    MaxFaults,    \* bound of the model: transactions that are rolled back
    MaxOverrides  \* bound of the model: interventions of an admin

\* A subscription row is named by its payment, or by its user when an admin
\* created it (at most one, since only a user without any row gets one).
Rows == Payments \cup Users
Statuses == {"none", "pending", "active", "cancelled", "expired"}
Endings == {"cancelled", "expired"}
UserOf(r) == IF r \in Payments THEN Owner[r] ELSE r

ASSUME BillingAssumption ==
    /\ Users \cap Payments = {} /\ NoEvent \notin Events
    /\ Owner \in [Payments -> Users]
    /\ EventType \in [Events -> {"succeeded", "unknown"} \cup Endings]
    /\ PaymentOf \in [Events -> Payments]
    /\ PriceIn \in [Events -> {"plan", "other", "absent"}]
    /\ MaxFaults \in Nat /\ MaxOverrides \in Nat

VARIABLES
    opened,    \* payments the provider has opened a checkout for
    order,     \* subscription rows, oldest first (created_at)
    sub,       \* app.subscriptions.status, "none" when there is no row
    byAdmin,   \* rows with provider = 'admin'
    free,      \* rows whose plan is the free one
    lapsed,    \* rows whose expires_at has passed
    intent,    \* intent[p]: status of the checkout's payments row
    row,       \* row[e]: status of the event's payments row
    jobs,      \* notification jobs in app.jobs, by their key <<kind, subscription>>
    pc, ev,    \* pc[d], ev[d]: where delivery d is and which event it has
    applied,   \* how many committed deliveries of e changed a subscription
    alerting,  \* requests for an owner alert that passed the entitlement test
    alerts,    \* users with a row in app.owner_alerts
    faults,    \* rollbacks that may still happen
    overrides  \* interventions that may still happen

subVars == <<order, sub, byAdmin, free, lapsed>>
payVars == <<intent, row, jobs, applied>>
alertVars == <<alerting, alerts>>
bounds == <<faults, overrides>>
vars == <<opened, subVars, payVars, pc, ev, alertVars, bounds>>

Init ==
    /\ opened = {} /\ order = <<>>
    /\ sub = [r \in Rows |-> "none"]
    /\ byAdmin = {} /\ free = {} /\ lapsed = {}
    /\ intent = [p \in Payments |-> "none"]
    /\ row = [e \in Events |-> "none"]
    /\ jobs = {}
    /\ pc = [d \in Deliveries |-> "idle"]
    /\ ev = [d \in Deliveries |-> NoEvent]
    /\ applied = [e \in Events |-> 0]
    /\ alerting = {} /\ alerts = {}
    /\ faults = MaxFaults /\ overrides = MaxOverrides

-----------------------------------------------------------------------------
(* createCheckout *)

\* provider.createCheckout returns a new payment id; from now on the provider
\* may send events about it.
OpenCheckout(p) ==
    /\ p \notin opened
    /\ opened' = opened \cup {p}
    /\ UNCHANGED <<subVars, payVars, pc, ev, alertVars, bounds>>

\* The transaction that records subscription and intent, unless there is
\* already some payments row for that payment id.
RecordCheckout(p) ==
    /\ p \in opened
    /\ intent[p] = "none"
    /\ \A e \in Events : PaymentOf[e] = p => row[e] = "none"
    /\ order' = Append(order, p)
    /\ sub' = [sub EXCEPT ![p] = "pending"]
    /\ intent' = [intent EXCEPT ![p] = "pending"]
    /\ UNCHANGED <<opened, byAdmin, free, lapsed, row, jobs, applied, pc, ev, alertVars, bounds>>

-----------------------------------------------------------------------------
(* handleWebhook *)

\* Defect: a webhook finds pending subscriptions only.
FoundPending(p) == sub[p] = "pending" /\ p \notin byAdmin

\* The subscription a webhook finds: by payment id and by the provider's name.
Found(p) == sub[p] # "none" /\ p \notin byAdmin

\* Delivery d's transaction ends: it commits or is rolled back.
EndDelivery(d) ==
    /\ pc' = [pc EXCEPT ![d] = "idle"]
    /\ ev' = [ev EXCEPT ![d] = NoEvent]

\* A request with a valid signature; others change nothing.
Receive(d, e) ==
    /\ pc[d] = "idle"
    /\ PaymentOf[e] \in opened
    /\ pc' = [pc EXCEPT ![d] = "record"]
    /\ ev' = [ev EXCEPT ![d] = e]
    /\ UNCHANGED <<opened, subVars, payVars, alertVars, bounds>>

\* Defect: two deliveries of an event do not see each other.
LockedNot(d, e) == FALSE

\* Some other open transaction has inserted e's row.
Locked(d, e) ==
    \E o \in Deliveries \ {d} : ev[o] = e /\ pc[o] \in {"apply", "activate"}

\* Defect: the event row is committed before its effect.
RecordCommitted(d) ==
    LET e == ev[d] IN
    /\ pc[d] = "record"
    /\ ~Locked(d, e)
    /\ \/ /\ row[e] = "none" /\ Found(PaymentOf[e])
          /\ pc' = [pc EXCEPT ![d] = "apply"]
          /\ row' = [row EXCEPT ![e] = "received"]
          /\ UNCHANGED ev
       \/ (row[e] # "none" \/ ~Found(PaymentOf[e])) /\ EndDelivery(d) /\ UNCHANGED row
    /\ UNCHANGED <<opened, subVars, intent, jobs, applied, alertVars, bounds>>

\* The event row is inserted: a known event is a duplicate, and without a
\* subscription the fallback user id violates the foreign key.
Record(d) ==
    LET e == ev[d] IN
    /\ pc[d] = "record"
    /\ ~Locked(d, e)
    /\ \/ row[e] = "none" /\ Found(PaymentOf[e]) /\ pc' = [pc EXCEPT ![d] = "apply"] /\ UNCHANGED ev
       \/ row[e] # "none" /\ EndDelivery(d)
       \/ row[e] = "none" /\ ~Found(PaymentOf[e]) /\ EndDelivery(d)
    /\ UNCHANGED <<opened, subVars, payVars, alertVars, bounds>>

\* The row of delivery d's event becomes visible with the given status.
CommitRow(d, status) ==
    /\ row' = [row EXCEPT ![ev[d]] = status]
    /\ EndDelivery(d)

\* Defect: the amount is not compared.
ReadSubscriptionAnyAmount(d) ==
    /\ pc[d] = "apply"
    /\ EventType[ev[d]] = "succeeded"
    /\ pc' = [pc EXCEPT ![d] = "activate"]
    /\ UNCHANGED <<opened, subVars, payVars, ev, alertVars, bounds>>

\* The event names an amount or a currency, and not the plan's.  One that
\* names none is not compared.
Mismatched(e) == PriceIn[e] = "other"

\* applyPaymentSucceeded up to its writes: nothing to do for a subscription
\* that is gone or active, a wrong amount is recorded as failed.
ReadSubscription(d) ==
    LET p == PaymentOf[ev[d]] IN
    /\ pc[d] = "apply"
    /\ EventType[ev[d]] = "succeeded"
    /\ \/ ~Found(p) /\ CommitRow(d, "received")
       \/ Found(p) /\ sub[p] = "active" /\ CommitRow(d, "received")
       \/ Found(p) /\ sub[p] # "active" /\ Mismatched(ev[d]) /\ CommitRow(d, "failed")
       \/ /\ Found(p) /\ sub[p] # "active" /\ ~Mismatched(ev[d])
          /\ pc' = [pc EXCEPT ![d] = "activate"]
          /\ UNCHANGED <<ev, row>>
    /\ UNCHANGED <<opened, subVars, intent, jobs, applied, alertVars, bounds>>

\* insertJob in the webhook's transaction.  A key that is known inserts no
\* row, although the job it names may have been run long ago.
InsertJob(kind, p) == jobs' = jobs \cup {<<kind, p>>}

\* The writes of applyPaymentSucceeded: by the row's id, whatever its status
\* and provider are by now, and all payments rows of that payment.
Activate(d) ==
    LET e == ev[d]
        p == PaymentOf[e]
    IN  /\ pc[d] = "activate"
        /\ sub' = [sub EXCEPT ![p] = "active"]
        /\ lapsed' = lapsed \ {p}
        /\ intent' = [intent EXCEPT ![p] = "succeeded"]
        /\ row' = [x \in Events |->
                      IF x = e \/ (PaymentOf[x] = p /\ row[x] # "none")
                      THEN "succeeded" ELSE row[x]]
        /\ InsertJob("activated", p)
        /\ applied' = [applied EXCEPT ![e] = @ + 1]
        /\ EndDelivery(d)
        /\ UNCHANGED <<opened, order, byAdmin, free, alertVars, bounds>>

\* Defect: the user is not told.
EndSubscriptionSilently(d) ==
    LET e == ev[d]
        p == PaymentOf[e]
    IN  /\ pc[d] = "apply"
        /\ EventType[e] \in Endings
        /\ sub' = [sub EXCEPT ![p] = EventType[e]]
        /\ CommitRow(d, "received")
        /\ UNCHANGED <<opened, order, byAdmin, free, lapsed, intent, jobs, applied, alertVars, bounds>>

\* applySubscriptionCancelled and applySubscriptionExpired: one conditional
\* UPDATE with its job.
EndSubscription(d) ==
    LET e == ev[d]
        p == PaymentOf[e]
    IN  /\ pc[d] = "apply"
        /\ EventType[e] \in Endings
        /\ \/ /\ Found(p) /\ sub[p] # EventType[e]
              /\ sub' = [sub EXCEPT ![p] = EventType[e]]
              /\ InsertJob(EventType[e], p)
              /\ applied' = [applied EXCEPT ![e] = @ + 1]
           \/ /\ ~Found(p) \/ sub[p] = EventType[e]
              /\ UNCHANGED <<sub, jobs, applied>>
        /\ CommitRow(d, "received")
        /\ UNCHANGED <<opened, order, byAdmin, free, lapsed, intent, alertVars, bounds>>

\* Any other event is only recorded.
Ignore(d) ==
    /\ pc[d] = "apply"
    /\ EventType[ev[d]] = "unknown"
    /\ CommitRow(d, "received")
    /\ UNCHANGED <<opened, subVars, intent, jobs, applied, alertVars, bounds>>

\* The transaction fails and nothing of it remains; the provider gets an
\* error and sends the event again.
Rollback(d) ==
    /\ pc[d] # "idle"
    /\ faults > 0
    /\ faults' = faults - 1
    /\ EndDelivery(d)
    /\ UNCHANGED <<opened, subVars, payVars, alertVars, overrides>>

-----------------------------------------------------------------------------
(* The admin and the user *)

RowsOf(u) == {i \in DOMAIN order : UserOf(order[i]) = u}
IsNewest(i, S) == i \in S /\ \A k \in S : k <= i

\* Defect: the status is any string, as in the other admin endpoints.
OverrideAnyStatus(u, status, toFree) ==
    /\ overrides > 0
    /\ overrides' = overrides - 1
    /\ \E i \in DOMAIN order :
          IsNewest(i, RowsOf(u)) /\ sub' = [sub EXCEPT ![order[i]] = "verified"]
    /\ UNCHANGED <<opened, order, byAdmin, free, lapsed, payVars, pc, ev, alertVars, faults>>

\* overrideSubscription: the user's newest row, or a new one, gets plan and
\* status and no longer belongs to the payment provider.
Override(u, status, toFree) ==
    /\ overrides > 0
    /\ overrides' = overrides - 1
    /\ \E r \in Rows :
          /\ \/ \E i \in DOMAIN order : IsNewest(i, RowsOf(u)) /\ r = order[i] /\ UNCHANGED order
             \/ RowsOf(u) = {} /\ r = u /\ order' = Append(order, u)
          /\ sub' = [sub EXCEPT ![r] = status]
          /\ byAdmin' = byAdmin \cup {r}
          /\ free' = IF toFree THEN free \cup {r} ELSE free \ {r}
          /\ lapsed' = IF status = "active" THEN lapsed \ {r} ELSE lapsed
    /\ UNCHANGED <<opened, payVars, pc, ev, alertVars, faults>>

\* expires_at passes; no code changes the status then.
Lapse(r) ==
    /\ sub[r] = "active"
    /\ lapsed' = lapsed \cup {r}
    /\ UNCHANGED <<opened, order, sub, byAdmin, free, payVars, pc, ev, alertVars, bounds>>

\* Defect: the user's newest subscription counts whatever its status is.
EntitledAnyStatus(u) ==
    \E i \in DOMAIN order : IsNewest(i, RowsOf(u)) /\ order[i] \notin free

\* getEntitlements: the plan of the newest active row that has not expired.
Entitled(u) ==
    LET current == {i \in RowsOf(u) : sub[order[i]] = "active" /\ order[i] \notin lapsed}
    IN  \E i \in DOMAIN order : IsNewest(i, current) /\ order[i] \notin free

\* createOwnerAlert: the entitlement is tested before the transaction.
RequireEntitlement(u) ==
    /\ Entitled(u)
    /\ alerting' = alerting \cup {u}
    /\ UNCHANGED <<opened, subVars, payVars, pc, ev, alerts, bounds>>

CreateOwnerAlert(u) ==
    /\ u \in alerting
    /\ alerting' = alerting \ {u}
    /\ alerts' = alerts \cup {u}
    /\ UNCHANGED <<opened, subVars, payVars, pc, ev, bounds>>

-----------------------------------------------------------------------------
Handle(d) ==
    Record(d) \/ ReadSubscription(d) \/ Activate(d) \/ EndSubscription(d) \/ Ignore(d)

Next ==
    \/ \E p \in Payments : OpenCheckout(p) \/ RecordCheckout(p)
    \/ \E d \in Deliveries : Handle(d) \/ Rollback(d) \/ \E e \in Events : Receive(d, e)
    \/ \E u \in Users :
          \/ RequireEntitlement(u) \/ CreateOwnerAlert(u)
          \/ \E status \in Statuses \ {"none"}, toFree \in BOOLEAN : Override(u, status, toFree)
    \/ \E r \in Rows : Lapse(r)

Spec == Init /\ [][Next]_vars

\* The provider repeats an event until it is acknowledged, and a transaction
\* that is not rolled back ends.
Redeliver(e) == row[e] = "none" /\ \E d \in Deliveries : Receive(d, e)
FairSpec ==
    /\ Spec
    /\ \A d \in Deliveries : WF_vars(Handle(d))
    /\ \A e \in Events : SF_vars(Redeliver(e))

-----------------------------------------------------------------------------
(***************************************************************************)
(* Properties                                                              *)
(***************************************************************************)

\* Every variable has its type.
TypeOK ==
    /\ opened \subseteq Payments /\ order \in Seq(Rows)
    /\ sub \in [Rows -> Statuses]
    /\ byAdmin \subseteq Rows /\ free \subseteq Rows /\ lapsed \subseteq Rows
    /\ intent \in [Payments -> {"none", "pending", "succeeded"}]
    /\ row \in [Events -> {"none", "received", "failed", "succeeded"}]
    /\ jobs \subseteq ({"activated"} \cup Endings) \X Payments
    /\ pc \in [Deliveries -> {"idle", "record", "apply", "activate"}]
    /\ ev \in [Deliveries -> Events \cup {NoEvent}]
    /\ applied \in [Events -> Nat]
    /\ alerting \subseteq Users /\ alerts \subseteq Users
    /\ faults \in Nat /\ overrides \in Nat

\* An event that reports a payment for p and names no other price.
Pays(e, p) == PaymentOf[e] = p /\ EventType[e] = "succeeded" /\ ~Mismatched(e)

\* A subscription the provider manages is active only if a payment was
\* recorded for it that named no other amount or currency than the plan's,
\* whatever mismatched, cancelled or repeated events raced with it.
ActiveWasPaid ==
    \A p \in Payments :
        sub[p] = "active" /\ p \notin byAdmin =>
            \E e \in Events : Pays(e, p) /\ row[e] = "succeeded"

\* "idempotent": however often and however concurrently an event is
\* delivered, it changes a subscription at most once.
AppliedOnce == \A e \in Events : applied[e] <= 1

\* A recorded event is not delivered again, so its effect must not be lost:
\* the subscription of a recorded payment has been activated, or an admin has
\* taken it over.
RecordedPaymentApplied ==
    \A e \in Events : \A p \in Payments :
        Pays(e, p) /\ row[e] # "none" => <<"activated", p>> \in jobs \/ p \in byAdmin

\* The user is told at least once of every state the provider brings the
\* subscription to: the job of the first such change is committed with it.
\* A later change to the same state meets the job's key and adds none.
StateNotified ==
    \A p \in Payments \ byAdmin :
        /\ sub[p] = "active" => <<"activated", p>> \in jobs
        /\ sub[p] \in Endings => <<sub[p], p>> \in jobs

\* Nobody has an owner alert whose subscription no payment has activated and
\* whom no admin granted a plan.
AlertsWerePaid ==
    \A u \in alerts :
        \E r \in Rows : UserOf(r) = u /\ (r \in byAdmin \/ <<"activated", r>> \in jobs)

\* All events of a recorded checkout are eventually recorded, in whatever
\* order they and the checkout's own commit arrive, unless an admin takes the
\* subscription over.
EventuallyRecorded ==
    \A p \in Payments :
        sub[p] # "none" ~>
            p \in byAdmin \/ \A e \in Events : PaymentOf[e] = p => row[e] # "none"
=============================================================================
