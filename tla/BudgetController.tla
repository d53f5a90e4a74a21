-------------------------- MODULE BudgetController --------------------------
(***************************************************************************)
(* The budget of the AI cost system: the BudgetController of one process,  *)
(* the ledger file it appends to and replays (ledger.ts), and the adapter  *)
(* calls that reserve, call a provider and settle or release (providers/). *)
(*                                                                         *)
(* A controller transition is two steps, validation and the awaited        *)
(* append with what follows it; serializeTransition lets no other          *)
(* transition start in between.  The process may die at any point; what    *)
(* survives is the file.                                                   *)
(***************************************************************************)
EXTENDS BudgetState

VARIABLES
    file,           \* budget events of .ai-cost/ledger.jsonl, in order
    corrupt,        \* the file holds a torn or merged line: replay refuses it
    up,             \* "off", "ready", or "refused" (REPLAY_FAILED)
    mem,            \* BudgetController.events
    recovered,      \* recoveredReservationIds
    storageFailed,
    inflight,       \* transitions between validation and the end of append
    pc,             \* pc[r]: where the adapter call that uses r is
    billed          \* calls for which the provider has done billable work

diskVars == <<file, corrupt>>
memVars == <<up, mem, recovered, storageFailed>>
vars == <<diskVars, memVars, inflight, pc, billed>>

PCs == {"idle", "reserving", "reserved", "fetching", "settling", "releasing",
        "completing", "failing", "leaked", "done"}
\* The call still runs and will close its reservation.
Running(r) == pc[r] \notin {"idle", "leaked", "done"}

Init ==
    /\ file = <<>> /\ corrupt = FALSE
    /\ up = "off" /\ mem = <<>> /\ recovered = {} /\ storageFailed = FALSE
    /\ inflight = {}
    /\ pc = [r \in Reservations |-> "idle"]
    /\ billed = {}

Goto(r, label) == pc' = [pc EXCEPT ![r] = label]

\* A write that fails: nothing reached the file, only the sync failed, or
\* the record was torn.
FailedWrite(e) ==
    \/ UNCHANGED diskVars
    \/ file' = Append(file, e) /\ UNCHANGED corrupt
    \/ corrupt' = TRUE /\ UNCHANGED file

-----------------------------------------------------------------------------
(* BudgetController *)

\* Defect: what was active before the restart is forgotten.
InitializeForgetsActive ==
    /\ up \in {"off", "refused"}
    /\ up' = (IF corrupt THEN "refused" ELSE "ready")
    /\ mem' = file /\ recovered' = {} /\ storageFailed' = FALSE
    /\ UNCHANGED <<diskVars, inflight, pc, billed>>

\* Defect: the recovered set is filled with records instead of ids.
InitializeKeepsRecords ==
    /\ up \in {"off", "refused"}
    /\ up' = (IF corrupt THEN "refused" ELSE "ready")
    /\ mem' = file /\ storageFailed' = FALSE
    /\ recovered' = {file[i] : i \in DOMAIN file}
    /\ UNCHANGED <<diskVars, inflight, pc, billed>>

\* initialize: replay the ledger.  Whatever is active now was left by an
\* earlier process.
Initialize ==
    /\ up \in {"off", "refused"}
    /\ \/ /\ ~corrupt /\ Replayable(file)
          /\ up' = "ready"
          /\ mem' = file
          /\ recovered' = Active(file)
          /\ storageFailed' = FALSE
       \/ /\ corrupt \/ ~Replayable(file)
          /\ up' = "refused"
          /\ UNCHANGED <<mem, recovered, storageFailed>>
    /\ UNCHANGED <<diskVars, inflight, pc, billed>>

\* Defects: transitions run concurrently; a failed one stops the queue.
SerializedNot == up = "ready"
SerializedStuck == up = "ready" /\ inflight = {} /\ ~storageFailed

\* serializeTransition: no transition starts while another one is pending.
Serialized == up = "ready" /\ inflight = {}

\* The transition has passed validation and awaits ledger.append.
Pend(e, by) ==
    inflight' = inflight \cup {[event |-> e, events |-> Append(mem, e), by |-> by]}

\* Defects: a used id is accepted again; recovered reservations are ignored.
AdmissibleReusesId(r, day) == ~storageFailed /\ r \in Eligible /\ Fits(mem, r, day)
AdmissibleIgnoresRecovery(r, day) ==
    /\ ~HasReserve(mem, r) /\ ~storageFailed /\ r \in Eligible
    /\ r \in Automatic => ~CircuitOpen(mem)
    /\ Fits(mem, r, day)

\* prepareReservation's checks: a reservation id is used once, automatic
\* calls are blocked by the circuit and by recovered reservations.
Admissible(r, day) ==
    /\ ~HasReserve(mem, r)
    /\ ~storageFailed
    /\ r \in Automatic => ~CircuitOpen(mem) /\ Active(mem) \cap recovered = {}
    /\ r \in Eligible
    /\ Fits(mem, r, day)

\* reserve() called by an adapter.
Reserve(r, day) ==
    /\ pc[r] = "reserving"
    /\ Serialized
    /\ \/ /\ Admissible(r, day)
          /\ Pend(ReserveEvent(r, day), "call")
          /\ UNCHANGED pc
       \/ /\ ~Admissible(r, day)
          /\ Goto(r, "done")
          /\ UNCHANGED inflight
    /\ UNCHANGED <<diskVars, memVars, billed>>

\* settle() and release() go on only for an active reservation.
Closable(r) == ~storageFailed /\ r \in Active(mem)

\* settle() called by an adapter with the usage the provider reported; an
\* error sends the adapter to its catch block.
Settle(r, u) ==
    /\ pc[r] = "settling"
    /\ Serialized
    /\ \/ Closable(r) /\ Pend(SettleEvent(r, u), "call") /\ UNCHANGED pc
       \/ ~Closable(r) /\ Goto(r, "releasing") /\ UNCHANGED inflight
    /\ UNCHANGED <<diskVars, memVars, billed>>

\* release() called from the catch block; an error ends the call.
Release(r) ==
    /\ pc[r] = "releasing"
    /\ Serialized
    /\ \/ Closable(r) /\ Pend(ReleaseEvent(r), "call") /\ UNCHANGED pc
       \/ ~Closable(r) /\ Goto(r, "done") /\ UNCHANGED inflight
    /\ UNCHANGED <<diskVars, memVars, billed>>

\* Explicit recovery of a reservation an earlier process left active: it is
\* settled, or released when it is known not to have been billed.
RecoverSettle(r, u) ==
    /\ Serialized
    /\ r \in recovered
    /\ Closable(r)
    /\ Pend(SettleEvent(r, u), "operator")
    /\ UNCHANGED <<diskVars, memVars, pc, billed>>

RecoverRelease(r) ==
    /\ Serialized
    /\ r \in recovered \ billed
    /\ Closable(r)
    /\ Pend(ReleaseEvent(r), "operator")
    /\ UNCHANGED <<diskVars, memVars, pc, billed>>

\* Where a call goes on when its transition has been appended.
After(label) ==
    CASE label = "reserving" -> "reserved"
      [] label = "settling" -> "completing"
      [] label = "releasing" -> "failing"
      [] OTHER -> label

\* appendAndApply: the event is on disk, the state follows.
AppendOk(t) ==
    LET r == t.event.id IN
    /\ t \in inflight
    /\ inflight' = inflight \ {t}
    /\ file' = Append(file, t.event)
    /\ mem' = t.events
    /\ recovered' = IF IsReserve(t.event) THEN recovered ELSE recovered \ {r}
    /\ IF t.by = "call" THEN Goto(r, After(pc[r])) ELSE UNCHANGED pc
    /\ UNCHANGED <<corrupt, up, storageFailed, billed>>

\* Defects: a failed append is applied; the caller takes it for a success.
AppendFailsApplied(t) ==
    /\ t \in inflight
    /\ inflight' = inflight \ {t}
    /\ FailedWrite(t.event)
    /\ storageFailed' = TRUE /\ mem' = t.events
    /\ IF t.by = "call" THEN Goto(t.event.id, "done") ELSE UNCHANGED pc
    /\ UNCHANGED <<up, recovered, billed>>
AppendFailsIgnored(t) ==
    /\ t \in inflight
    /\ inflight' = inflight \ {t}
    /\ FailedWrite(t.event)
    /\ storageFailed' = TRUE
    /\ IF t.by = "call" THEN Goto(t.event.id, After(pc[t.event.id])) ELSE UNCHANGED pc
    /\ UNCHANGED <<up, mem, recovered, billed>>

\* The append fails: the controller is blocked and its state unchanged.  The
\* caller's catch block, if it has one, only meets the blocked controller.
AppendFails(t) ==
    /\ t \in inflight
    /\ inflight' = inflight \ {t}
    /\ FailedWrite(t.event)
    /\ storageFailed' = TRUE
    /\ IF t.by = "call" THEN Goto(t.event.id, "done") ELSE UNCHANGED pc
    /\ UNCHANGED <<up, mem, recovered, billed>>

-----------------------------------------------------------------------------
(* Adapter calls: invoke of OllamaAdapter and DeepSeekAdapter *)

\* An adapter's own ledger.append of a record the controller ignores.
AuditFails == corrupt' \in {corrupt, TRUE} /\ UNCHANGED file

\* invoke: estimate and ask for the reservation.
Invoke(r) ==
    /\ up = "ready"
    /\ pc[r] = "idle"
    /\ Goto(r, "reserving")
    /\ UNCHANGED <<diskVars, memVars, inflight, billed>>

\* AttemptStarted is appended.  The local adapter does it inside its try
\* block, as it does the test of the request's size; the cloud adapter
\* before it, so its reservation is never closed when the append fails.
StartAttempt(r) ==
    /\ pc[r] = "reserved"
    /\ \/ Goto(r, "fetching") /\ UNCHANGED diskVars
       \/ Goto(r, "leaked") /\ IsCloud(r) /\ AuditFails
       \/ Goto(r, "releasing") /\ ~IsCloud(r) /\ (AuditFails \/ UNCHANGED diskVars)
    /\ UNCHANGED <<memVars, inflight, billed>>

\* The provider call: it never got there or was refused; it was answered; or
\* the provider did the work and the answer was late, cut off or malformed.
Fetch(r) ==
    /\ pc[r] = "fetching"
    /\ \/ Goto(r, "releasing") /\ UNCHANGED billed
       \/ Goto(r, "settling") /\ billed' = billed \cup {r}
       \/ Goto(r, "releasing") /\ billed' = billed \cup {r}
    /\ UNCHANGED <<diskVars, memVars, inflight>>

\* AttemptCompleted is appended: after a settlement its failure leads to the
\* catch block and to release(), after a release it ends the call.
Finish(r) ==
    /\ \/ pc[r] = "completing" /\ Goto(r, "done") /\ UNCHANGED diskVars
       \/ pc[r] = "completing" /\ Goto(r, "releasing") /\ AuditFails
       \/ pc[r] = "failing" /\ Goto(r, "done") /\ (AuditFails \/ UNCHANGED diskVars)
    /\ UNCHANGED <<memVars, inflight, billed>>

\* The process dies; a pending append may or may not have reached the file.
Crash ==
    /\ up = "ready"
    /\ up' = "off" /\ mem' = <<>> /\ recovered' = {} /\ storageFailed' = FALSE
    /\ inflight' = {}
    /\ pc' = [r \in Reservations |-> "idle"]
    /\ \/ UNCHANGED diskVars
       \/ \E t \in inflight : FailedWrite(t.event)
    /\ UNCHANGED billed

-----------------------------------------------------------------------------
Step(r) ==
    \/ Release(r) \/ \E day \in Days : Reserve(r, day)
    \/ \E u \in ActualUsage(r) : Settle(r, u)
    \/ StartAttempt(r) \/ Fetch(r) \/ Finish(r)

Recovery(r) == (\E u \in TrueUsage(r) : RecoverSettle(r, u)) \/ RecoverRelease(r)

Persist == \E t \in inflight : AppendOk(t) \/ AppendFails(t)

Next ==
    \/ \E r \in Reservations : Invoke(r) \/ Step(r) \/ Recovery(r)
    \/ Initialize \/ Persist \/ Crash

Spec == Init /\ [][Next]_vars

\* A started call goes on: a fetch ends at the latest when its timer aborts
\* it, and an append is a file operation that returns.
FairSpec == Spec /\ WF_vars(Persist) /\ \A r \in Reservations : WF_vars(Step(r))

-----------------------------------------------------------------------------
(***************************************************************************)
(* Properties                                                              *)
(***************************************************************************)

Transitions == [event : Events, events : Seq(Events), by : {"call", "operator"}]

\* Every variable has its type.
TypeOK ==
    /\ file \in Seq(Events) /\ corrupt \in BOOLEAN
    /\ up \in {"off", "ready", "refused"}
    /\ mem \in Seq(Events) /\ recovered \subseteq Reservations /\ storageFailed \in BOOLEAN
    /\ inflight \subseteq Transitions
    /\ pc \in [Reservations -> PCs]
    /\ billed \subseteq Reservations

\* Whatever was written before a failed append, a failed call or a crash, an
\* undamaged ledger is accepted by the next replay: no reservation id is
\* used twice and none is closed twice or before it exists.
LedgerReplayable == Replayable(file)

\* "Ledger append failure blocks the controller before any derived state
\* mutation": the state in memory is the state a restart would find, except
\* for one event of an append that failed, after which the controller does
\* nothing more.
MemoryIsLedger ==
    up = "ready" =>
        \/ file = mem
        \/ /\ storageFailed
           /\ inflight = {}
           /\ file # <<>> /\ file = Append(mem, file[Len(file)])

\* Concurrent reservations, settlements on another day, restarts and failed
\* appends never take a scope above its ceiling; only an overrun, which
\* opens the discrepancy circuit, can.
LimitsHold == ~CircuitOpen(file) => WithinCeilings(file)

\* No provider does billable work without a reservation in the ledger.
BilledWasReserved == \A r \in billed : HasReserve(file, r)

\* A reservation that is held is held by a call that will close it or blocks
\* automatic calls until it is recovered.  The one exception is the cloud
\* call whose AttemptStarted record could not be written.
HoldsHaveOwners ==
    up = "ready" /\ ~storageFailed =>
        \A r \in Active(mem) : r \in recovered \/ Running(r) \/ pc[r] = "leaked"

\* "Reservations left active by a crash remain active after replay and block
\* new automatic calls until explicitly settled or released", and so does an
\* overrun.
AutomaticOnlyWhenClean ==
    \A t \in inflight :
        IsReserve(t.event) /\ t.event.id \in Automatic =>
            /\ ~CircuitOpen(file)
            /\ \A r \in Active(file) : Running(r) \/ pc[r] = "leaked"

\* A call that has started ends, whatever fails: a failed transition does
\* not block the ones queued behind it.
CallsFinish == \A r \in Reservations : Running(r) ~> ~Running(r)

\* An overrun is usage "above any reserved dimension"; local wall-time is
\* reserved "when applicable", which for a cloud call it is not.
OverrunIsReal ==
    \A i \in DOMAIN file :
        LET r == file[i].id
            dims == {"tokens", "cost"} \cup (IF IsCloud(r) THEN {} ELSE {"wall"})
        IN  file[i].overrun => \E d \in dims : file[i].use[d] > Reserved[r][d]
=============================================================================
