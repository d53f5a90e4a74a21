--------------------------- MODULE BillingProofs ---------------------------
(***************************************************************************)
(* Theorems about Billing, for every set of users, payments, events and    *)
(* concurrent deliveries, and any number of rollbacks and overrides.       *)
(***************************************************************************)
EXTENDS Billing, TLAPS

USE DEF subVars, payVars, alertVars, bounds

-----------------------------------------------------------------------------
(* Type correctness *)

\* An open transaction has an event.
HasEvent == \A d \in Deliveries : pc[d] # "idle" => ev[d] \in Events

\* Ending a delivery keeps the types of its variables.
LEMMA EndDeliveryType ==
    ASSUME TypeOK, HasEvent, NEW d \in Deliveries, EndDelivery(d)
    PROVE  /\ pc' \in [Deliveries -> {"idle", "record", "apply", "activate"}]
           /\ ev' \in [Deliveries -> Events \cup {NoEvent}]
           /\ HasEvent'
BY DEF TypeOK, HasEvent, EndDelivery

\* Every reachable state of checkouts, webhooks and overrides has its types.
THEOREM TypeCorrect == Spec => [](TypeOK /\ HasEvent)
<1> USE BillingAssumption DEF BillingAssumption
<1>1. Init => TypeOK /\ HasEvent
  BY DEF Init, TypeOK, HasEvent, Rows, Statuses
<1>2. TypeOK /\ HasEvent /\ [Next]_vars => TypeOK' /\ HasEvent'
  <2> SUFFICES ASSUME TypeOK, HasEvent, [Next]_vars PROVE TypeOK' /\ HasEvent'
    OBVIOUS
  <2>1. ASSUME NEW p \in Payments, OpenCheckout(p) PROVE TypeOK' /\ HasEvent'
    BY <2>1 DEF OpenCheckout, TypeOK, HasEvent
  <2>2. ASSUME NEW p \in Payments, RecordCheckout(p) PROVE TypeOK' /\ HasEvent'
    BY <2>2 DEF RecordCheckout, TypeOK, HasEvent, Rows, Statuses
  <2>3. ASSUME NEW d \in Deliveries, Record(d) PROVE TypeOK' /\ HasEvent'
    BY <2>3, EndDeliveryType DEF Record, TypeOK, HasEvent
  <2>4. ASSUME NEW d \in Deliveries, ReadSubscription(d) PROVE TypeOK' /\ HasEvent'
    <3>1. ev[d] \in Events
      BY <2>4 DEF ReadSubscription, HasEvent
    <3>2. CASE pc' = [pc EXCEPT ![d] = "activate"] /\ UNCHANGED <<ev, row>>
      <4>1. HasEvent'
        BY <3>1, <3>2 DEF HasEvent, TypeOK
      <4> QED BY <2>4, <3>2, <4>1 DEF ReadSubscription, TypeOK
    <3>3. CASE CommitRow(d, "received") \/ CommitRow(d, "failed")
      <4>1. EndDelivery(d) /\ row' \in [Events -> {"none", "received", "failed", "succeeded"}]
        BY <3>1, <3>3 DEF CommitRow, TypeOK
      <4> QED BY <2>4, <4>1, EndDeliveryType DEF ReadSubscription, TypeOK
    <3> QED BY <2>4, <3>2, <3>3 DEF ReadSubscription
  <2>5. ASSUME NEW d \in Deliveries, Activate(d) PROVE TypeOK' /\ HasEvent'
    <3>1. ev[d] \in Events /\ PaymentOf[ev[d]] \in Payments
      BY <2>5 DEF Activate, HasEvent
    <3> QED BY <2>5, <3>1, EndDeliveryType DEF Activate, InsertJob, TypeOK, Rows, Statuses
  <2>6. ASSUME NEW d \in Deliveries, EndSubscription(d) PROVE TypeOK' /\ HasEvent'
    <3>1. ev[d] \in Events /\ PaymentOf[ev[d]] \in Payments
      BY <2>6 DEF EndSubscription, HasEvent
    <3>2. EventType[ev[d]] \in Endings
      BY <2>6 DEF EndSubscription
    <3>3. jobs' \subseteq ({"activated"} \cup Endings) \X Payments
      BY <2>6, <3>1, <3>2 DEF EndSubscription, InsertJob, TypeOK
    <3>4. sub' \in [Rows -> Statuses]
      BY <2>6, <3>1, <3>2 DEF EndSubscription, TypeOK, Rows, Statuses, Endings
    <3>5. applied' \in [Events -> Nat]
      <4>1. applied' = [applied EXCEPT ![ev[d]] = @ + 1] \/ applied' = applied
        BY <2>6 DEF EndSubscription
      <4>2. applied \in [Events -> Nat]
        BY DEF TypeOK
      <4>3. applied[ev[d]] + 1 \in Nat
        BY <3>1, <4>2
      <4> QED BY <3>1, <4>1, <4>2, <4>3
    <3>6. EndDelivery(d) /\ row' \in [Events -> {"none", "received", "failed", "succeeded"}]
      BY <2>6, <3>1 DEF EndSubscription, CommitRow, TypeOK
    <3>7. UNCHANGED <<opened, order, byAdmin, free, lapsed, intent, alertVars, bounds>>
      BY <2>6 DEF EndSubscription
    <3> QED BY <3>3, <3>4, <3>5, <3>6, <3>7, EndDeliveryType DEF TypeOK, alertVars, bounds
  <2>7. ASSUME NEW d \in Deliveries, Ignore(d) PROVE TypeOK' /\ HasEvent'
    <3>1. ev[d] \in Events
      BY <2>7 DEF Ignore, HasEvent
    <3> QED BY <2>7, <3>1, EndDeliveryType DEF Ignore, CommitRow, TypeOK
  <2>8. ASSUME NEW d \in Deliveries, Rollback(d) PROVE TypeOK' /\ HasEvent'
    BY <2>8, EndDeliveryType DEF Rollback, TypeOK
  <2>9. ASSUME NEW d \in Deliveries, NEW e \in Events, Receive(d, e) PROVE TypeOK' /\ HasEvent'
    BY <2>9 DEF Receive, TypeOK, HasEvent
  <2>10. ASSUME NEW u \in Users, RequireEntitlement(u) PROVE TypeOK' /\ HasEvent'
    BY <2>10 DEF RequireEntitlement, TypeOK, HasEvent
  <2>11. ASSUME NEW u \in Users, CreateOwnerAlert(u) PROVE TypeOK' /\ HasEvent'
    BY <2>11 DEF CreateOwnerAlert, TypeOK, HasEvent
  <2>12. ASSUME NEW u \in Users, NEW status \in Statuses \ {"none"}, NEW toFree \in BOOLEAN,
                Override(u, status, toFree)
         PROVE  TypeOK' /\ HasEvent'
    <3>1. order' = order \/ order' = Append(order, u)
      BY <2>12 DEF Override
    <3>2. u \in Rows
      BY DEF Rows
    <3>3. order \in Seq(Rows)
      BY DEF TypeOK
    <3>4. Append(order, u) \in Seq(Rows)
      BY <3>2, <3>3
    <3>5. order' \in Seq(Rows)
      BY <3>1, <3>3, <3>4
    <3> QED BY <2>12, <3>5 DEF Override, TypeOK, HasEvent
  <2>13. ASSUME NEW r \in Rows, Lapse(r) PROVE TypeOK' /\ HasEvent'
    BY <2>13 DEF Lapse, TypeOK, HasEvent
  <2>14. CASE UNCHANGED vars
    BY <2>14 DEF vars, TypeOK, HasEvent
  <2> QED
    BY <2>1, <2>2, <2>3, <2>4, <2>5, <2>6, <2>7, <2>8, <2>9, <2>10, <2>11, <2>12, <2>13, <2>14
       DEF Next, Handle
<1> QED BY <1>1, <1>2, PTL DEF Spec

-----------------------------------------------------------------------------
(* Webhooks *)

\* The transaction of delivery d has inserted its event row.
Open(d) == pc[d] \in {"apply", "activate"}

\* An open transaction is the only one for its event, whose row nobody else
\* can see, and its subscription exists; one about to activate was paid for.
OpenValid ==
    \A d \in Deliveries : Open(d) =>
        /\ row[ev[d]] = "none"
        /\ sub[PaymentOf[ev[d]]] # "none"
        /\ \A o \in Deliveries : Open(o) /\ ev[o] = ev[d] => o = d
        /\ pc[d] = "activate" => Pays(ev[d], PaymentOf[ev[d]])

\* An event that changed a subscription is recorded.
AppliedRecorded == \A e \in Events : applied[e] > 0 => row[e] # "none"

WebhookInv ==
    /\ OpenValid /\ AppliedRecorded /\ AppliedOnce
    /\ ActiveWasPaid /\ StateNotified /\ RecordedPaymentApplied

\* What the properties of one event and one subscription rest on does not
\* change in a step that leaves rows, jobs, subscriptions and effects alone
\* and opens no transaction.
LEMMA QuietKeeps ==
    ASSUME WebhookInv, UNCHANGED <<sub, byAdmin, row, jobs, applied>>,
           \A d \in Deliveries : Open(d)' => pc'[d] = pc[d] /\ ev'[d] = ev[d]
    PROVE  WebhookInv'
<1>1. OpenValid'
  BY DEF WebhookInv, OpenValid, Open, Pays
<1> QED
  BY <1>1 DEF WebhookInv, AppliedRecorded, AppliedOnce, ActiveWasPaid, StateNotified,
              RecordedPaymentApplied, Pays

\* A webhook delivered any number of times, in any order and concurrently:
\* each event counts once, no payment of another price activates, every state
\* is notified once, and no recorded payment is swallowed.
THEOREM WebhookSafe == Spec => []WebhookInv
<1> USE BillingAssumption DEF BillingAssumption
<1>1. Init => WebhookInv
  BY DEF Init, WebhookInv, OpenValid, Open, AppliedRecorded, AppliedOnce, ActiveWasPaid,
         StateNotified, RecordedPaymentApplied, Rows, Endings
<1>2. TypeOK /\ HasEvent /\ TypeOK' /\ WebhookInv /\ [Next]_vars => WebhookInv'
  <2> SUFFICES ASSUME TypeOK, HasEvent, TypeOK', WebhookInv, [Next]_vars PROVE WebhookInv'
    OBVIOUS
  <2>1. ASSUME NEW p \in Payments, OpenCheckout(p) PROVE WebhookInv'
    BY <2>1, QuietKeeps DEF OpenCheckout
  <2>2. ASSUME NEW p \in Payments, RecordCheckout(p) PROVE WebhookInv'
    <3>1. sub'[p] = "pending" /\ \A q \in Payments \ {p} : sub'[q] = sub[q]
      BY <2>2 DEF RecordCheckout, TypeOK, Rows
    <3>2. OpenValid'
      BY <2>2, <3>1 DEF RecordCheckout, WebhookInv, OpenValid, Open, Pays, HasEvent
    <3>3. ActiveWasPaid' /\ StateNotified'
      BY <2>2, <3>1 DEF RecordCheckout, WebhookInv, ActiveWasPaid, StateNotified, Pays, Endings
    <3> QED
      BY <2>2, <3>2, <3>3 DEF RecordCheckout, WebhookInv, AppliedRecorded, AppliedOnce,
                              RecordedPaymentApplied, Pays
  <2>3. ASSUME NEW d \in Deliveries, Record(d) PROVE WebhookInv'
    <3>1. CASE pc' = [pc EXCEPT ![d] = "apply"] /\ UNCHANGED ev /\ row[ev[d]] = "none"
                 /\ Found(PaymentOf[ev[d]])
      <4>1. pc'[d] = "apply" /\ \A o \in Deliveries \ {d} : pc'[o] = pc[o]
        BY <3>1 DEF TypeOK
      <4>2. sub[PaymentOf[ev[d]]] # "none"
        BY <3>1 DEF Found
      <4>3. \A o \in Deliveries \ {d} : Open(o) => ev[o] # ev[d]
        BY <2>3 DEF Record, Locked, Open
      <4>4. UNCHANGED <<row, sub, ev>>
        BY <2>3, <3>1 DEF Record, subVars, payVars
      <4>5. OpenValid'
        BY <3>1, <4>1, <4>2, <4>3, <4>4 DEF WebhookInv, OpenValid, Open, Pays
      <4> QED
        BY <2>3, <4>5 DEF Record, subVars, payVars, WebhookInv, AppliedRecorded, AppliedOnce,
                          ActiveWasPaid, StateNotified, RecordedPaymentApplied, Pays
    <3>2. CASE EndDelivery(d)
      BY <2>3, <3>2, QuietKeeps DEF Record, subVars, EndDelivery, Open, TypeOK
    <3> QED BY <2>3, <3>1, <3>2 DEF Record
  <2>4. ASSUME NEW d \in Deliveries, ReadSubscription(d) PROVE WebhookInv'
    <3> DEFINE e == ev[d]
               p == PaymentOf[e]
    <3>1. /\ e \in Events /\ p \in Payments /\ row[e] = "none" /\ sub[p] # "none"
          /\ \A o \in Deliveries \ {d} : Open(o) => ev[o] # e
      BY <2>4 DEF ReadSubscription, HasEvent, WebhookInv, OpenValid, Open
    <3>2. OpenValid'
      <4>1. CASE pc' = [pc EXCEPT ![d] = "activate"] /\ UNCHANGED <<ev, row>> /\ ~Mismatched(e)
        <5>1. pc'[d] = "activate" /\ \A o \in Deliveries \ {d} : pc'[o] = pc[o]
          BY <4>1 DEF TypeOK
        <5>2. Pays(e, p) /\ UNCHANGED sub
          BY <2>4, <4>1 DEF ReadSubscription, subVars, Pays
        <5> QED BY <3>1, <4>1, <5>1, <5>2 DEF WebhookInv, OpenValid, Open, Pays
      <4>2. CASE EndDelivery(d) /\ \E s \in {"received", "failed"} : row' = [row EXCEPT ![e] = s]
        <5>1. \A o \in Deliveries : Open(o)' => o # d /\ pc'[o] = pc[o] /\ ev'[o] = ev[o]
          BY <4>2 DEF EndDelivery, Open, TypeOK
        <5>2. \A x \in Events \ {e} : row'[x] = row[x]
          BY <4>2 DEF TypeOK
        <5>3. UNCHANGED sub
          BY <2>4 DEF ReadSubscription, subVars
        <5> QED BY <3>1, <5>1, <5>2, <5>3 DEF WebhookInv, OpenValid, Open, Pays, HasEvent
      <4> QED BY <2>4, <4>1, <4>2 DEF ReadSubscription, CommitRow
    <3>3. \A x \in Events : row'[x] = row[x] \/ (x = e /\ row'[x] # "none" /\ row[x] = "none")
      BY <2>4, <3>1 DEF ReadSubscription, CommitRow, TypeOK
    <3>4. row'[e] # "none" => p \in byAdmin \/ <<"activated", p>> \in jobs \/ Mismatched(e)
      BY <2>4, <3>1 DEF ReadSubscription, CommitRow, Found, WebhookInv, StateNotified
    <3>5. RecordedPaymentApplied'
      BY <2>4, <3>1, <3>3, <3>4 DEF ReadSubscription, WebhookInv, RecordedPaymentApplied, Pays
    <3>6. ActiveWasPaid' /\ StateNotified' /\ AppliedRecorded' /\ AppliedOnce'
      BY <2>4, <3>3 DEF ReadSubscription, WebhookInv, ActiveWasPaid, StateNotified,
                        AppliedRecorded, AppliedOnce, Pays
    <3> QED BY <3>2, <3>5, <3>6 DEF WebhookInv
  <2>5. ASSUME NEW d \in Deliveries, Activate(d) PROVE WebhookInv'
    <3> DEFINE e == ev[d]
               p == PaymentOf[e]
    <3>1. /\ e \in Events /\ p \in Payments /\ row[e] = "none" /\ Pays(e, p)
          /\ \A o \in Deliveries \ {d} : Open(o) => ev[o] # e
      BY <2>5 DEF Activate, HasEvent, WebhookInv, OpenValid, Open
    <3>2. /\ row'[e] = "succeeded"
          /\ \A x \in Events \ {e} : row'[x] = row[x] \/ (row[x] # "none" /\ row'[x] = "succeeded")
      BY <2>5, <3>1 DEF Activate
    <3>3. sub'[p] = "active" /\ \A q \in Payments \ {p} : sub'[q] = sub[q]
      BY <2>5, <3>1 DEF Activate, TypeOK, Rows
    <3>4. jobs' = jobs \cup {<<"activated", p>>} /\ byAdmin' = byAdmin
      BY <2>5 DEF Activate, InsertJob
    <3>5. applied'[e] = applied[e] + 1 /\ \A x \in Events \ {e} : applied'[x] = applied[x]
      BY <2>5, <3>1 DEF Activate, TypeOK
    <3>6. OpenValid'
      BY <2>5, <3>1, <3>2, <3>3 DEF Activate, EndDelivery, TypeOK, HasEvent, WebhookInv,
                                    OpenValid, Open, Pays
    <3>7. AppliedRecorded' /\ AppliedOnce'
      <4>1. applied[e] = 0
        BY <3>1 DEF TypeOK, WebhookInv, AppliedRecorded
      <4> QED BY <3>1, <3>2, <3>5, <4>1 DEF WebhookInv, AppliedRecorded, AppliedOnce
    <3>8. ActiveWasPaid'
      BY <3>1, <3>2, <3>3, <3>4 DEF WebhookInv, ActiveWasPaid, Pays
    <3>9. StateNotified'
      BY <3>3, <3>4 DEF WebhookInv, StateNotified, Endings
    <3>10. RecordedPaymentApplied'
      BY <3>1, <3>2, <3>4 DEF WebhookInv, RecordedPaymentApplied, Pays
    <3> QED BY <3>6, <3>7, <3>8, <3>9, <3>10 DEF WebhookInv
  <2>6. ASSUME NEW d \in Deliveries, EndSubscription(d) PROVE WebhookInv'
    <3> DEFINE e == ev[d]
               p == PaymentOf[e]
    <3>1. /\ e \in Events /\ p \in Payments /\ row[e] = "none" /\ EventType[e] \in Endings
          /\ \A o \in Deliveries \ {d} : Open(o) => ev[o] # e
      BY <2>6 DEF EndSubscription, HasEvent, WebhookInv, OpenValid, Open
    <3>2. row'[e] = "received" /\ \A x \in Events \ {e} : row'[x] = row[x]
      BY <2>6, <3>1 DEF EndSubscription, CommitRow, TypeOK
    <3>3. /\ \A q \in Payments \ {p} : sub'[q] = sub[q]
          /\ sub'[p] = sub[p] \/ (sub'[p] = EventType[e] /\ <<EventType[e], p>> \in jobs')
      BY <2>6, <3>1 DEF EndSubscription, InsertJob, TypeOK, Rows
    <3>4. jobs \subseteq jobs' /\ byAdmin' = byAdmin
      BY <2>6 DEF EndSubscription, InsertJob
    <3>5. /\ applied'[e] = applied[e] \/ applied'[e] = applied[e] + 1
          /\ \A x \in Events \ {e} : applied'[x] = applied[x]
      BY <2>6, <3>1 DEF EndSubscription, TypeOK
    <3>6. OpenValid'
      BY <2>6, <3>1, <3>2, <3>3 DEF EndSubscription, CommitRow, EndDelivery, TypeOK, HasEvent,
                                    WebhookInv, OpenValid, Open, Pays, Endings
    <3>7. AppliedRecorded' /\ AppliedOnce'
      <4>1. applied[e] = 0
        BY <3>1 DEF TypeOK, WebhookInv, AppliedRecorded
      <4> QED BY <3>1, <3>2, <3>5, <4>1 DEF WebhookInv, AppliedRecorded, AppliedOnce
    <3>8. ActiveWasPaid'
      BY <3>1, <3>2, <3>3, <3>4 DEF WebhookInv, ActiveWasPaid, Pays, Endings
    <3>9. StateNotified'
      BY <3>1, <3>3, <3>4 DEF WebhookInv, StateNotified, Endings
    <3>10. RecordedPaymentApplied'
      BY <3>1, <3>2, <3>4 DEF WebhookInv, RecordedPaymentApplied, Pays, Endings
    <3> QED BY <3>6, <3>7, <3>8, <3>9, <3>10 DEF WebhookInv
  <2>7. ASSUME NEW d \in Deliveries, Ignore(d) PROVE WebhookInv'
    <3>1. ev[d] \in Events /\ row[ev[d]] = "none"
      BY <2>7 DEF Ignore, HasEvent, WebhookInv, OpenValid, Open
    <3>2. row'[ev[d]] = "received" /\ \A x \in Events \ {ev[d]} : row'[x] = row[x]
      BY <2>7, <3>1 DEF Ignore, CommitRow, TypeOK
    <3>3. OpenValid'
      BY <2>7, <3>1, <3>2 DEF Ignore, CommitRow, EndDelivery, TypeOK, HasEvent, WebhookInv,
                              OpenValid, Open, Pays
    <3> QED
      BY <2>7, <3>1, <3>2, <3>3 DEF Ignore, WebhookInv, AppliedRecorded, AppliedOnce,
                                    ActiveWasPaid, StateNotified, RecordedPaymentApplied, Pays
  <2>8. ASSUME NEW d \in Deliveries, Rollback(d) PROVE WebhookInv'
    BY <2>8, QuietKeeps DEF Rollback, EndDelivery, Open, TypeOK
  <2>9. ASSUME NEW d \in Deliveries, NEW e \in Events, Receive(d, e) PROVE WebhookInv'
    BY <2>9, QuietKeeps DEF Receive, Open, TypeOK
  <2>10. ASSUME NEW u \in Users, RequireEntitlement(u) PROVE WebhookInv'
    BY <2>10, QuietKeeps DEF RequireEntitlement
  <2>11. ASSUME NEW u \in Users, CreateOwnerAlert(u) PROVE WebhookInv'
    BY <2>11, QuietKeeps DEF CreateOwnerAlert
  <2>12. ASSUME NEW u \in Users, NEW status \in Statuses \ {"none"}, NEW toFree \in BOOLEAN,
                Override(u, status, toFree)
         PROVE  WebhookInv'
    <3>1. PICK r \in Rows : /\ sub' = [sub EXCEPT ![r] = status]
                            /\ byAdmin' = byAdmin \cup {r}
      BY <2>12 DEF Override
    <3>2. \A q \in Rows : sub'[q] = sub[q] \/ (q \in byAdmin' /\ sub'[q] # "none")
      BY <3>1 DEF TypeOK
    <3>3. UNCHANGED <<row, jobs, applied, pc, ev>>
      BY <2>12 DEF Override
    <3>4. OpenValid'
      BY <3>2, <3>3 DEF WebhookInv, OpenValid, Open, Pays, HasEvent, Rows
    <3>5. ActiveWasPaid' /\ StateNotified' /\ RecordedPaymentApplied'
      BY <3>1, <3>2, <3>3 DEF WebhookInv, ActiveWasPaid, StateNotified,
                              RecordedPaymentApplied, Pays, Rows
    <3> QED BY <3>3, <3>4, <3>5 DEF WebhookInv, AppliedRecorded, AppliedOnce
  <2>13. ASSUME NEW r \in Rows, Lapse(r) PROVE WebhookInv'
    BY <2>13, QuietKeeps DEF Lapse
  <2>14. CASE UNCHANGED vars
    BY <2>14, QuietKeeps DEF vars
  <2> QED
    BY <2>1, <2>2, <2>3, <2>4, <2>5, <2>6, <2>7, <2>8, <2>9, <2>10, <2>11, <2>12, <2>13, <2>14
       DEF Next, Handle
<1> QED BY <1>1, <1>2, TypeCorrect, PTL DEF Spec

\* However often and concurrently an event is delivered, it changes a
\* subscription at most once.
THEOREM EventsApplyOnce == Spec => []AppliedOnce
<1>1. WebhookInv => AppliedOnce
  BY DEF WebhookInv
<1> QED BY <1>1, WebhookSafe, PTL

\* A subscription the provider manages is active only with a recorded
\* payment event that named no other price than the plan's.
THEOREM OnlyPaidActive == Spec => []ActiveWasPaid
<1>1. WebhookInv => ActiveWasPaid
  BY DEF WebhookInv
<1> QED BY <1>1, WebhookSafe, PTL

\* The subscription of a recorded payment has been activated or overridden.
THEOREM NoPaymentSwallowed == Spec => []RecordedPaymentApplied
<1>1. WebhookInv => RecordedPaymentApplied
  BY DEF WebhookInv
<1> QED BY <1>1, WebhookSafe, PTL

\* The job that tells the user of a state is in the outbox as soon as the
\* provider has brought the subscription to that state; there is one for each
\* state, however often the subscription comes back to it.
THEOREM StatesNotified == Spec => []StateNotified
<1>1. WebhookInv => StateNotified
  BY DEF WebhookInv
<1> QED BY <1>1, WebhookSafe, PTL

-----------------------------------------------------------------------------
(* Owner alerts *)

\* u was granted a plan by an admin or has paid for one.
Granted(u) == \E r \in Rows : UserOf(r) = u /\ (r \in byAdmin \/ <<"activated", r>> \in jobs)

\* A row without a payment is an admin's, and whoever has an alert, or has
\* passed the test for one, was granted a plan or paid.
AlertInv ==
    /\ \A u \in Users : sub[u] # "none" => u \in byAdmin
    /\ \A u \in alerting \cup alerts : Granted(u)

\* A grant is never taken back: the admin's rows and the jobs only grow.
LEMMA GrantsStay ==
    ASSUME [Next]_vars
    PROVE  byAdmin \subseteq byAdmin' /\ jobs \subseteq jobs'
<1>1. ASSUME NEW p \in Payments, OpenCheckout(p) \/ RecordCheckout(p)
      PROVE  byAdmin \subseteq byAdmin' /\ jobs \subseteq jobs'
  BY <1>1 DEF OpenCheckout, RecordCheckout
<1>2. ASSUME NEW d \in Deliveries, Handle(d) \/ Rollback(d) \/ \E e \in Events : Receive(d, e)
      PROVE  byAdmin \subseteq byAdmin' /\ jobs \subseteq jobs'
  BY <1>2 DEF Handle, Record, ReadSubscription, Activate, InsertJob, EndSubscription, Ignore, Rollback, Receive
<1>3. ASSUME NEW u \in Users, RequireEntitlement(u) \/ CreateOwnerAlert(u)
      PROVE  byAdmin \subseteq byAdmin' /\ jobs \subseteq jobs'
  BY <1>3 DEF RequireEntitlement, CreateOwnerAlert
<1>4. ASSUME NEW u \in Users, NEW status, NEW toFree, Override(u, status, toFree)
      PROVE  byAdmin \subseteq byAdmin' /\ jobs \subseteq jobs'
  BY <1>4 DEF Override
<1>5. ASSUME NEW r \in Rows, Lapse(r)
      PROVE  byAdmin \subseteq byAdmin' /\ jobs \subseteq jobs'
  BY <1>5 DEF Lapse
<1>6. CASE UNCHANGED vars
  BY <1>6 DEF vars
<1> QED BY <1>1, <1>2, <1>3, <1>4, <1>5, <1>6 DEF Next

\* Whoever is entitled has paid or was granted a plan.
LEMMA EntitledWasGranted ==
    ASSUME TypeOK, StateNotified, AlertInv, NEW u \in Users, Entitled(u)
    PROVE  Granted(u)
<1>1. PICK i \in DOMAIN order : i \in RowsOf(u) /\ sub[order[i]] = "active"
  BY DEF Entitled, IsNewest
<1>2. order[i] \in Rows /\ UserOf(order[i]) = u
  BY <1>1 DEF TypeOK, RowsOf
<1>3. order[i] \in byAdmin \/ <<"activated", order[i]>> \in jobs
  BY <1>1, <1>2 DEF Rows, StateNotified, AlertInv
<1> QED BY <1>2, <1>3 DEF Granted

\* Nobody has an owner alert who neither paid nor was granted a plan, although
\* the entitlement is tested before the transaction that creates the alert.
THEOREM AlertsPaid == Spec => []AlertsWerePaid
<1> USE BillingAssumption DEF BillingAssumption
<1>1. Init => AlertInv
  BY DEF Init, AlertInv, Rows
<1>2. TypeOK /\ HasEvent /\ StateNotified /\ AlertInv /\ [Next]_vars => AlertInv'
  <2> SUFFICES ASSUME TypeOK, HasEvent, StateNotified, AlertInv, [Next]_vars PROVE AlertInv'
    OBVIOUS
  <2>1. \A u \in Users : Granted(u) => Granted(u)'
    BY GrantsStay DEF Granted, UserOf
  <2>2. \A u \in (alerting \cup alerts)' : Granted(u)'
    <3>1. ASSUME NEW u \in Users, RequireEntitlement(u)
          PROVE  Granted(u) /\ (alerting \cup alerts)' = alerting \cup alerts \cup {u}
      BY <3>1, EntitledWasGranted DEF RequireEntitlement
    <3>2. (\A u \in Users : ~RequireEntitlement(u)) => (alerting \cup alerts)' \subseteq alerting \cup alerts
      BY DEF Next, vars, OpenCheckout, RecordCheckout, Handle, Record, ReadSubscription, Activate,
             EndSubscription, Ignore, Rollback, Receive, CreateOwnerAlert, Override, Lapse
    <3>3. \A u \in alerting \cup alerts : Granted(u)'
      <4>1. \A u \in alerting \cup alerts : u \in Users /\ Granted(u)
        BY DEF AlertInv, TypeOK
      <4> QED BY <2>1, <4>1
    <3>4. ASSUME NEW u \in Users, RequireEntitlement(u) PROVE \A x \in (alerting \cup alerts)' : Granted(x)'
      <4>1. Granted(u)'
        BY <2>1, <3>1, <3>4
      <4> QED BY <3>1, <3>3, <3>4, <4>1
    <3> QED BY <3>2, <3>3, <3>4
  <2>3. \A u \in Users : sub'[u] # "none" => u \in byAdmin'
    <3>1. ASSUME NEW p \in Payments, RecordCheckout(p)
          PROVE  \A u \in Users : sub'[u] = sub[u]
      BY <3>1 DEF RecordCheckout, TypeOK, Rows
    <3>2. ASSUME NEW d \in Deliveries, Handle(d) \/ Rollback(d) \/ \E e \in Events : Receive(d, e)
          PROVE  \A u \in Users : sub'[u] = sub[u]
      <4>1. CASE UNCHANGED sub
        BY <4>1
      <4>2. CASE Activate(d) \/ EndSubscription(d)
        <5>1. PaymentOf[ev[d]] \in Payments
          BY <4>2 DEF Activate, EndSubscription, HasEvent
        <5> QED BY <4>2, <5>1 DEF Activate, EndSubscription, TypeOK, Rows
      <4> QED BY <3>2, <4>1, <4>2 DEF Handle, Record, ReadSubscription, Ignore, Rollback, Receive
    <3>3. ASSUME NEW u \in Users, NEW status, NEW toFree, Override(u, status, toFree)
          PROVE  \A x \in Users : sub'[x] = sub[x] \/ x \in byAdmin'
      BY <3>3 DEF Override, TypeOK, Rows
    <3>4. CASE UNCHANGED sub
      BY <3>4, GrantsStay DEF AlertInv
    <3> QED
      BY <3>1, <3>2, <3>3, <3>4, GrantsStay
         DEF AlertInv, Next, vars, OpenCheckout, RequireEntitlement, CreateOwnerAlert, Lapse
  <2> QED BY <2>2, <2>3 DEF AlertInv
<1>3. AlertInv => AlertsWerePaid
  BY DEF AlertInv, AlertsWerePaid, Granted
<1> QED BY <1>1, <1>2, <1>3, TypeCorrect, StatesNotified, PTL DEF Spec
=============================================================================
