---------------------------- MODULE CacheProofs ----------------------------
(***************************************************************************)
(* What lookups may return and who may hold the storage queue, for any     *)
(* number of runtimes, calls, keys, entries and faults.                    *)
(***************************************************************************)
EXTENDS VerifiedCache, TLAPS

Positions ==
    {"idle", "source", "sibling", "authorize", "target", "write", "temp", "log",
     "find", "conflict", "trust", "reuse"}

\* Where a call has a new entry, checked against its source, authorized.
Submitting == {"source", "sibling", "authorize", "target", "write", "temp", "log"}
Checked == Submitting \ {"source"}
Authorised == {"target", "write", "temp", "log"}

-----------------------------------------------------------------------------
(* Types *)

\* The entry a call may have at a position.  Only begin() submits a pending
\* one, and it has no source.
EntryFor(where) ==
    CASE where = "idle"                  -> {None}
      [] where = "find"                  -> Lookups
      [] where \in {"source", "sibling"} -> {e \in Entries : e.state # "pending"}
      [] OTHER                           -> Entries

CallsType ==
    /\ pc \in [Calls -> Positions]
    /\ entry \in [Calls -> Entries \cup Lookups \cup {None}]
    /\ \A c \in Calls : entry[c] \in EntryFor(pc[c])

StoreType ==
    /\ dir \subseteq Entries /\ temps \subseteq Entries /\ ledger \subseteq Entries
    /\ torn \in BOOLEAN /\ up \subseteq Runtimes
    /\ events \in [Runtimes -> SUBSET Entries]
    /\ approvals \in [Runtimes -> BOOLEAN]
    /\ queue \in [Runtimes -> Calls \cup {None}]
    /\ used \in 0 .. MaxEntries /\ faults \in 0 .. MaxFaults
    /\ published \subseteq Entries /\ served \subseteq Entries

TypeInv == CallsType /\ StoreType

LEMMA TypeInvImplies == TypeInv => TypeOK
BY DEF TypeInv, TypeOK, CallsType, StoreType, EntryFor, Positions

LEMMA InitType == CacheAssumption /\ Init => TypeInv
<1> SUFFICES ASSUME CacheAssumption, Init PROVE TypeInv
  OBVIOUS
<1>1. CallsType
  BY DEF Init, CallsType, EntryFor, Positions
<1>2. used \in 0 .. MaxEntries /\ faults \in 0 .. MaxFaults
  BY DEF CacheAssumption, Init
<1>3. events \in [Runtimes -> SUBSET Entries] /\ queue \in [Runtimes -> Calls \cup {None}]
  BY DEF Init
<1>4. approvals \in [Runtimes -> BOOLEAN]
  BY DEF Init
<1>5. /\ dir \subseteq Entries /\ temps \subseteq Entries /\ ledger \subseteq Entries
      /\ torn \in BOOLEAN /\ up \subseteq Runtimes
      /\ published \subseteq Entries /\ served \subseteq Entries
  BY DEF Init
<1> QED BY <1>1, <1>2, <1>3, <1>4, <1>5 DEF TypeInv, StoreType

\* A call that goes on with an entry that fits, or ends.
LEMMA MovedType ==
    ASSUME CallsType, NEW c \in Calls, NEW w \in Positions, NEW e \in EntryFor(w),
           Goto(c, w), entry' = [entry EXCEPT ![c] = e] \/ (UNCHANGED entry /\ e = entry[c])
    PROVE  CallsType'
<1>1. EntryFor(w) \subseteq Entries \cup Lookups \cup {None}
  BY DEF EntryFor
<1>2. pc' = [pc EXCEPT ![c] = w] /\ entry' = [entry EXCEPT ![c] = e]
  BY DEF Goto, CallsType
<1>3. pc' \in [Calls -> Positions] /\ entry' \in [Calls -> Entries \cup Lookups \cup {None}]
  BY <1>1, <1>2 DEF CallsType
<1>4. ASSUME NEW d \in Calls PROVE entry'[d] \in EntryFor(pc'[d])
  BY <1>2 DEF CallsType
<1> QED BY <1>3, <1>4 DEF CallsType, EntryFor

LEMMA ReturnType ==
    ASSUME CallsType, NEW c \in Calls, Return(c) PROVE CallsType'
BY MovedType DEF Return, EntryFor, Positions

\* From one position of an entry to a later one.
LEMMA GoneOnType ==
    ASSUME CallsType, NEW c \in Calls,
           NEW w \in Positions \ {"idle", "find", "source", "sibling"},
           pc[c] \notin {"idle", "find"}, Goto(c, w), UNCHANGED entry
    PROVE  CallsType'
<1>1. entry[c] \in EntryFor(w)
  BY DEF CallsType, EntryFor
<1> QED BY <1>1, MovedType

LEMMA EntryType ==
    ASSUME CallsType, NEW c \in Calls, pc[c] \notin {"idle", "find"} PROVE entry[c] \in Entries
BY DEF CallsType, EntryFor

LEMMA SubmitType ==
    ASSUME CacheAssumption, TypeInv, NEW c \in Calls, NEW w \in {"target", "source"}, NEW m \in Metas,
           NEW s \in States, w = "source" => s # "pending", NEW res \in Results \cup {None},
           NEW det \in Proofs \cup Cacheable \cup Transient \cup {None},
           NEW par \in Ids \cup {0}, Submit(c, w, m, s, res, det, par)
    PROVE  TypeInv'
<1> DEFINE e == [id |-> used + 1, meta |-> m, state |-> s, result |-> res,
                 detail |-> det, parent |-> par]
<1>1. used + 1 \in Ids /\ used' = used + 1
  BY DEF Submit, TypeInv, StoreType, Ids, CacheAssumption
<1>2. e \in Entries /\ e.state = s
  BY <1>1 DEF Entries
<1>3. CallsType'
  <2>1. e \in EntryFor(w)
    BY <1>2 DEF EntryFor
  <2>2. Goto(c, w) /\ entry' = [entry EXCEPT ![c] = e]
    BY DEF Submit, Start
  <2> QED BY <2>1, <2>2, MovedType DEF TypeInv, Positions
<1>4. StoreType'
  BY <1>1 DEF Submit, Start, TypeInv, StoreType, Ids, disk, memory, ghosts, CacheAssumption
<1> QED BY <1>3, <1>4 DEF TypeInv

\* The steps of a call that change nothing but its position.
LEMMA CheckType ==
    ASSUME TypeInv, NEW c \in Calls,
           CheckSource(c) \/ CheckSibling(c) \/ CheckTarget(c) \/ CheckConflict(c) \/ Trust(c)
    PROVE  TypeInv'
<1>1. StoreType'
  BY DEF CheckSource, CheckSibling, CheckTarget, CheckConflict, Trust, TypeInv, StoreType,
         disk, memory, ghosts
<1>2. CallsType'
  <2>1. CASE Return(c) BY <2>1, ReturnType DEF TypeInv
  <2>2. CASE CheckSource(c) /\ ~Return(c)
    <3>1. Goto(c, "sibling") /\ UNCHANGED entry /\ entry[c] \in EntryFor("sibling")
      BY <2>2 DEF CheckSource, TypeInv, CallsType, EntryFor
    <3> QED BY <3>1, MovedType DEF TypeInv, Positions
  <2>3. CASE CheckSibling(c) /\ ~Return(c)
    <3>1. entry[c] \in Entries /\ entry[c].state # "pending"
      BY <2>3 DEF TypeInv, CallsType, EntryFor, CheckSibling
    <3>2. Goto(c, "write") \/ Goto(c, "target") \/ Goto(c, "authorize")
      BY <2>3, <3>1 DEF CheckSibling, Entries, States
    <3> QED BY <2>3, <3>2, GoneOnType DEF CheckSibling, TypeInv, Positions
  <2>4. CASE (CheckTarget(c) \/ CheckConflict(c) \/ Trust(c)) /\ ~Return(c)
    BY <2>4, GoneOnType DEF CheckTarget, CheckConflict, Trust, TypeInv, Positions
  <2> QED BY <2>1, <2>2, <2>3, <2>4
<1> QED BY <1>1, <1>2 DEF TypeInv

\* The steps that touch files or answer a lookup.
LEMMA WorkType ==
    ASSUME TypeInv, CacheAssumption, NEW c \in Calls,
           \/ Authorize(c) \/ OpenTemp(c) \/ Rename(c) \/ LogWrite(c)
           \/ FindHead(c) \/ Reuse(c) \/ FailWrite(c) \/ FailLog(c) \/ FailLookup(c)
    PROVE  TypeInv'
<1>0. RuntimeOf[c] \in Runtimes
  BY DEF CacheAssumption
<1>1. CASE Authorize(c)
  <2>1. entry[c] \in Entries BY <1>1, EntryType DEF Authorize, TypeInv
  <2>2. StoreType' BY <1>1, <2>1 DEF Authorize, TypeInv, StoreType, disk, memory
  <2>3. CallsType' BY <1>1, GoneOnType, ReturnType DEF Authorize, TypeInv, Positions
  <2> QED BY <2>2, <2>3 DEF TypeInv
<1>2. CASE OpenTemp(c)
  <2>1. entry[c] \in Entries BY <1>2, EntryType DEF OpenTemp, TypeInv
  <2>2. StoreType' BY <1>0, <1>2, <2>1 DEF OpenTemp, TypeInv, StoreType, ghosts
  <2>3. CallsType' BY <1>2, GoneOnType DEF OpenTemp, TypeInv, Positions
  <2> QED BY <2>2, <2>3 DEF TypeInv
<1>3. CASE Rename(c)
  <2>1. entry[c] \in Entries BY <1>3, EntryType DEF Rename, TypeInv
  <2>2. StoreType' BY <1>0, <1>3, <2>1 DEF Rename, TypeInv, StoreType, ghosts
  <2>3. CallsType' BY <1>3, GoneOnType DEF Rename, TypeInv, Positions
  <2> QED BY <2>2, <2>3 DEF TypeInv
<1>4. CASE LogWrite(c)
  <2>1. entry[c] \in Entries BY <1>4, EntryType DEF LogWrite, TypeInv
  <2>2. StoreType' BY <1>0, <1>4, <2>1 DEF LogWrite, TypeInv, StoreType, ghosts
  <2>3. CallsType' BY <1>4, ReturnType DEF LogWrite, TypeInv
  <2> QED BY <2>2, <2>3 DEF TypeInv
<1>5. CASE FindHead(c)
  <2>1. StoreType' BY <1>5 DEF FindHead, TypeInv, StoreType, disk, memory, ghosts
  <2>2. CASE Return(c) BY <2>1, <2>2, ReturnType DEF TypeInv
  <2>3. CASE ~Return(c)
    <3>1. PICK e \in dir : Goto(c, "conflict") /\ entry' = [entry EXCEPT ![c] = e]
      BY <1>5, <2>3 DEF FindHead
    <3>2. e \in EntryFor("conflict")
      BY <3>1 DEF EntryFor, TypeInv, StoreType
    <3> QED BY <2>1, <3>1, <3>2, MovedType DEF TypeInv, Positions
  <2> QED BY <2>2, <2>3
<1>6. CASE Reuse(c)
  <2>1. entry[c] \in Entries BY <1>6, EntryType DEF Reuse, TypeInv
  <2>2. StoreType' BY <1>6, <2>1 DEF Reuse, TypeInv, StoreType, disk, memory
  <2>3. CallsType' BY <1>6, ReturnType DEF Reuse, TypeInv
  <2> QED BY <2>2, <2>3 DEF TypeInv
<1>7. CASE FailWrite(c)
  <2>1. entry[c] \in Entries BY <1>7, EntryType DEF FailWrite, TypeInv
  <2>2. faults' \in 0 .. MaxFaults
    BY <1>7 DEF FailWrite, TypeInv, StoreType, CacheAssumption
  <2>3. StoreType' BY <1>0, <1>7, <2>1, <2>2 DEF FailWrite, TypeInv, StoreType, ghosts
  <2>4. CallsType' BY <1>7, ReturnType DEF FailWrite, TypeInv
  <2> QED BY <2>3, <2>4 DEF TypeInv
<1>8. CASE FailLog(c)
  <2>1. entry[c] \in Entries BY <1>8, EntryType DEF FailLog, TypeInv
  <2>2. faults' \in 0 .. MaxFaults
    BY <1>8 DEF FailLog, TypeInv, StoreType, CacheAssumption
  <2>3. StoreType'
    BY <1>8, <2>1, <2>2 DEF FailLog, LedgerAfterFailure, TypeInv, StoreType, memory, ghosts
  <2>4. CallsType' BY <1>8, ReturnType DEF FailLog, TypeInv
  <2> QED BY <2>3, <2>4 DEF TypeInv
<1>9. CASE FailLookup(c)
  <2>1. faults' \in 0 .. MaxFaults
    BY <1>9 DEF FailLookup, TypeInv, StoreType, CacheAssumption
  <2>2. StoreType'
    BY <1>9, <2>1 DEF FailLookup, LedgerAfterFailure, TypeInv, StoreType, memory, ghosts
  <2>3. CallsType' BY <1>9, ReturnType DEF FailLookup, TypeInv
  <2> QED BY <2>2, <2>3 DEF TypeInv
<1> QED BY <1>1, <1>2, <1>3, <1>4, <1>5, <1>6, <1>7, <1>8, <1>9

LEMMA CrashType ==
    ASSUME TypeInv, CacheAssumption, NEW r \in Runtimes, Crash(r) PROVE TypeInv'
<1> DEFINE mine == {c \in Calls : RuntimeOf[c] = r}
           logging == {entry[c] : c \in {d \in mine : pc[d] = "log"}}
<1>1. logging \subseteq Entries
  BY EntryType DEF TypeInv
<1>2. ledger' \subseteq Entries /\ torn' \in BOOLEAN
  BY <1>1 DEF Crash, LedgerAfterFailure, TypeInv, StoreType
<1>3. faults' \in 0 .. MaxFaults
  BY DEF Crash, TypeInv, StoreType, CacheAssumption
<1>4. events' \in [Runtimes -> SUBSET Entries] /\ queue' \in [Runtimes -> Calls \cup {None}]
  BY DEF Crash, TypeInv, StoreType
<1>5. approvals' \in [Runtimes -> BOOLEAN] /\ up' \subseteq Runtimes
  BY DEF Crash, TypeInv, StoreType
<1>6. UNCHANGED <<dir, temps, used, published, served>>
  BY DEF Crash, ghosts
<1>7. StoreType'
  BY <1>2, <1>3, <1>4, <1>5, <1>6 DEF TypeInv, StoreType
<1>8. CallsType'
  <2>1. /\ pc' = [c \in Calls |-> IF c \in mine THEN "idle" ELSE pc[c]]
        /\ entry' = [c \in Calls |-> IF c \in mine THEN None ELSE entry[c]]
    BY DEF Crash
  <2>2. /\ pc' \in [Calls -> Positions]
        /\ entry' \in [Calls -> Entries \cup Lookups \cup {None}]
    BY <2>1 DEF TypeInv, CallsType, Positions
  <2>3. ASSUME NEW c \in Calls PROVE entry'[c] \in EntryFor(pc'[c])
    BY <2>1 DEF TypeInv, CallsType, EntryFor
  <2> QED BY <2>2, <2>3 DEF CallsType, EntryFor
<1> QED BY <1>7, <1>8 DEF TypeInv

LEMMA OpenType ==
    ASSUME TypeInv, NEW r \in Runtimes, NEW a \in BOOLEAN, Open(r, a) PROVE TypeInv'
<1>1. events' \in [Runtimes -> SUBSET Entries]
  BY DEF Open, TypeInv, StoreType
<1>2. approvals' \in [Runtimes -> BOOLEAN] /\ up' \subseteq Runtimes
  BY DEF Open, TypeInv, StoreType
<1>3. StoreType'
  BY <1>1, <1>2 DEF Open, TypeInv, StoreType, disk, ghosts
<1>4. CallsType'
  BY DEF Open, TypeInv, CallsType, EntryFor
<1> QED BY <1>3, <1>4 DEF TypeInv

LEMMA StoreDirectlyType ==
    ASSUME TypeInv, CacheAssumption, NEW s \in dir, NEW p \in Proofs, StoreDirectly(s, p)
    PROVE  TypeInv'
<1> DEFINE e == [id |-> used + 1, meta |-> s.meta, state |-> "verified",
                 result |-> s.result, detail |-> p, parent |-> s.id]
<1>1. used + 1 \in Ids /\ used' = used + 1
  BY DEF StoreDirectly, TypeInv, StoreType, Ids, CacheAssumption
<1>2. s \in Entries BY DEF TypeInv, StoreType
<1>3. e \in Entries
  BY <1>1, <1>2 DEF Entries, States
<1>4. StoreType'
  BY <1>1, <1>3 DEF StoreDirectly, TypeInv, StoreType, Ids, memory, ghosts, CacheAssumption
<1>5. CallsType'
  BY DEF StoreDirectly, TypeInv, CallsType, EntryFor
<1> QED BY <1>4, <1>5 DEF TypeInv

\* A call that begins.
LEMMA StartType ==
    ASSUME TypeInv, CacheAssumption, NEW c \in Calls,
           \/ \E m \in Metas : Begin(c, m) \/ \E s \in {"verified", "negative"} : Lookup(c, m, s)
           \/ \E source \in dir :
                 \/ \E r \in Results :
                       StoreUnverified(c, source, r) \/ \E p \in Proofs : PublishVerified(c, source, r, p)
                 \/ \E reason \in Cacheable \cup Transient : StoreNegative(c, source, reason)
    PROVE  TypeInv'
<1>1. ASSUME NEW m \in Metas, Begin(c, m) PROVE TypeInv'
  BY <1>1, SubmitType DEF Begin, States
<1>2. ASSUME NEW m \in Metas, NEW s \in {"verified", "negative"}, Lookup(c, m, s) PROVE TypeInv'
  <2> DEFINE l == [id |-> 0, meta |-> m, state |-> s]
  <2>1. l \in EntryFor("find")
    BY DEF EntryFor, Lookups
  <2>2. Goto(c, "find") /\ entry' = [entry EXCEPT ![c] = l]
    BY <1>2 DEF Lookup, Start
  <2>3. CallsType'
    BY <2>1, <2>2, MovedType DEF TypeInv, Positions
  <2>4. StoreType'
    BY <1>2 DEF Lookup, Start, TypeInv, StoreType, disk, memory, ghosts
  <2> QED BY <2>3, <2>4 DEF TypeInv
<1>3. ASSUME NEW source \in dir PROVE source.meta \in Metas /\ source.id \in Ids
  BY DEF TypeInv, StoreType, Entries
<1>4. ASSUME NEW source \in dir, NEW r \in Results, StoreUnverified(c, source, r) PROVE TypeInv'
  BY <1>3, <1>4, SubmitType DEF StoreUnverified, States
<1>5. ASSUME NEW source \in dir, NEW r \in Results, NEW p \in Proofs,
             PublishVerified(c, source, r, p)
      PROVE  TypeInv'
  BY <1>3, <1>5, SubmitType DEF PublishVerified, States
<1>6. ASSUME NEW source \in dir, NEW reason \in Cacheable \cup Transient,
             StoreNegative(c, source, reason)
      PROVE  TypeInv'
  BY <1>3, <1>6, SubmitType DEF StoreNegative, States
<1> QED BY <1>1, <1>2, <1>4, <1>5, <1>6

LEMMA StepType == ASSUME CacheAssumption, TypeInv, [Next]_vars PROVE TypeInv'
<1>1. CASE UNCHANGED vars
  BY <1>1 DEF vars, disk, memory, ghosts, TypeInv, CallsType, StoreType, EntryFor
<1>2. CASE Next
  BY <1>2, CheckType, WorkType, StartType, CrashType, OpenType, StoreDirectlyType
  DEF Next, Progress
<1> QED BY <1>1, <1>2

\* Every state of the files, the runtimes and the calls is type correct.
THEOREM TypeCorrect == Spec => []TypeOK
<1>1. Spec => []TypeInv
  BY InitType, StepType, CacheAssumption, PTL DEF Spec
<1> QED BY <1>1, TypeInvImplies, PTL

-----------------------------------------------------------------------------
(* What is in the ledger *)

\* The result of a verified entry is the one stored for its request.
Sourced(e) ==
    e.state = "verified" =>
        \E p \in dir : p.id = e.parent /\ p.state = "unverified" /\ p.result = e.result

\* publishVerified has accepted it.
Accepted(e) ==
    e.state = "verified" => e \in published /\ ValidEvidence(e.detail)

Vouched(e) == e \in dir /\ Sourced(e) /\ Accepted(e)

\* What is known of a call's entry where it is.
CallVouched(c) ==
    /\ pc[c] \in Checked => Sourced(entry[c])
    /\ pc[c] = "authorize" => ValidEvidence(entry[c].detail)
    /\ pc[c] \in Authorised => Accepted(entry[c])
    /\ pc[c] = "log" => entry[c] \in dir
    /\ pc[c] \in {"trust", "reuse"} => entry[c] \in ledger

\* Only vouched entries have a write event, in the file or in a memory.
VouchInv ==
    /\ \A c \in Calls : CallVouched(c)
    /\ \A e \in ledger : Vouched(e)
    /\ \A r \in Runtimes : events[r] \subseteq ledger
    /\ served \subseteq ledger

\* Nothing is ever removed from these.
Grows == dir \subseteq dir' /\ ledger \subseteq ledger' /\ published \subseteq published'

LEMMA StartGrows ==
    ASSUME NEW c, NEW w, NEW e, Start(c, w, e)
    PROVE  UNCHANGED <<dir, temps, ledger, torn, up, events, approvals, queue, published, served>>
BY DEF Start, disk, memory, ghosts

LEMMA StepGrows == [Next]_vars => Grows
<1> SUFFICES ASSUME [Next]_vars PROVE Grows
  OBVIOUS
<1>1. CASE UNCHANGED vars
  BY <1>1 DEF vars, disk, ghosts, Grows
<1>2. ASSUME NEW c \in Calls, Progress(c) PROVE Grows
  BY <1>2 DEF Progress, CheckSource, CheckSibling, Authorize, CheckTarget, OpenTemp, Rename,
     LogWrite, FindHead, CheckConflict, Trust, Reuse, disk, memory, ghosts, Grows
<1>3. ASSUME NEW c \in Calls, FailWrite(c) \/ FailLog(c) \/ FailLookup(c) PROVE Grows
  BY <1>3 DEF FailWrite, FailLog, FailLookup, LedgerAfterFailure, ghosts, Grows
<1>4. ASSUME NEW c, NEW w, NEW e, Start(c, w, e) PROVE Grows
  BY <1>4, StartGrows DEF Grows
<1>5. ASSUME NEW c, NEW w, NEW m, NEW st, NEW res, NEW det, NEW par,
             Submit(c, w, m, st, res, det, par)
      PROVE  Grows
  BY <1>4, <1>5 DEF Submit
<1>6. ASSUME NEW c, NEW m, NEW st, Begin(c, m) \/ Lookup(c, m, st) PROVE Grows
  BY <1>4, <1>5, <1>6 DEF Begin, Lookup
<1>7. ASSUME NEW c, NEW source, NEW x, NEW p,
             StoreUnverified(c, source, x) \/ PublishVerified(c, source, x, p)
             \/ StoreNegative(c, source, x)
      PROVE  Grows
  BY <1>5, <1>7 DEF StoreUnverified, PublishVerified, StoreNegative
<1>8. ASSUME NEW r, NEW a, Crash(r) \/ Open(r, a) PROVE Grows
  BY <1>8 DEF Crash, Open, LedgerAfterFailure, disk, ghosts, Grows
<1>9. ASSUME NEW x, NEW p, StoreDirectly(x, p) PROVE Grows
  BY <1>9 DEF StoreDirectly, ghosts, Grows
<1> QED BY <1>1, <1>2, <1>3, <1>6, <1>7, <1>8, <1>9 DEF Next

\* What is vouched for stays so.
LEMMA VouchedStays ==
    ASSUME Grows, NEW e
    PROVE  /\ Sourced(e) => Sourced(e)'
           /\ Accepted(e) => Accepted(e)'
           /\ Vouched(e) => Vouched(e)'
BY DEF Grows, Sourced, Accepted, Vouched

\* So does what is known of a call that does not move.
LEMMA CallStays ==
    ASSUME Grows, NEW d \in Calls, CallVouched(d), pc'[d] = pc[d], entry'[d] = entry[d]
    PROVE  CallVouched(d)'
BY DEF Grows, CallVouched, Sourced, Accepted

LEMMA NothingKnown ==
    ASSUME NEW d \in Calls, pc'[d] \in {"idle", "find", "source", "conflict"}
    PROVE  CallVouched(d)'
BY DEF CallVouched, Checked, Submitting, Authorised

\* The other calls do not move.
LEMMA OthersStay ==
    ASSUME CallsType, NEW c \in Calls, NEW w, Goto(c, w),
           UNCHANGED entry \/ \E e : entry' = [entry EXCEPT ![c] = e]
    PROVE  /\ pc'[c] = w
           /\ \A d \in Calls : d # c => pc'[d] = pc[d] /\ entry'[d] = entry[d]
BY DEF Goto, CallsType

\* A step of call c disturbs what is known of c only.
LEMMA OthersVouched ==
    ASSUME CallsType, Grows, NEW c \in Calls, NEW w, Goto(c, w), CallVouched(c)',
           UNCHANGED entry \/ \E e : entry' = [entry EXCEPT ![c] = e],
           \A d \in Calls : CallVouched(d)
    PROVE  \A d \in Calls : CallVouched(d)'
<1> SUFFICES ASSUME NEW d \in Calls, d # c PROVE CallVouched(d)'
  OBVIOUS
<1>1. pc'[d] = pc[d] /\ entry'[d] = entry[d]
  BY OthersStay
<1> QED BY <1>1, CallStays

LEMMA ReturnVouched ==
    ASSUME CallsType, Grows, NEW c \in Calls, Return(c), \A d \in Calls : CallVouched(d)
    PROVE  \A d \in Calls : CallVouched(d)'
<1>1. pc'[c] = "idle"
  BY OthersStay DEF Return
<1> QED BY <1>1, NothingKnown, OthersVouched DEF Return

\* The ledger and the memories do not change.
LEMMA SameLedger ==
    ASSUME VouchInv, Grows, UNCHANGED <<ledger, events, served>>
    PROVE  /\ \A e \in ledger' : Vouched(e)'
           /\ \A r \in Runtimes : events'[r] \subseteq ledger'
           /\ served' \subseteq ledger'
BY VouchedStays DEF VouchInv

\* The checks of a submitted entry establish what its write relies on.
LEMMA CheckVouched ==
    ASSUME TypeInv, VouchInv, Grows, NEW c \in Calls,
           CheckSource(c) \/ CheckSibling(c) \/ Authorize(c) \/ CheckTarget(c)
    PROVE  VouchInv'
<1>1. UNCHANGED <<ledger, events, served>>
  BY DEF CheckSource, CheckSibling, Authorize, CheckTarget, disk, memory, ghosts
<1>2. \A d \in Calls : CallVouched(d)'
  <2>1. CASE Return(c)
    BY <2>1, ReturnVouched DEF TypeInv, VouchInv
  <2>2. CASE CheckSource(c) /\ ~Return(c)
    <3>1. SourceValid(entry[c]) /\ Goto(c, "sibling") /\ UNCHANGED entry
      BY <2>2 DEF CheckSource
    <3>2. Sourced(entry[c])
      BY <3>1 DEF SourceValid, Sourced, Allowed
    <3>3. pc'[c] = "sibling" /\ entry'[c] = entry[c]
      BY <3>1, OthersStay DEF TypeInv
    <3>4. CallVouched(c)'
      BY <3>2, <3>3 DEF CallVouched, Checked, Submitting, Authorised, Sourced, Grows
    <3> QED BY <3>1, <3>4, OthersVouched DEF TypeInv, VouchInv
  <2>3. CASE CheckSibling(c) /\ ~Return(c)
    <3>1. /\ SiblingValid(c) /\ UNCHANGED entry /\ pc[c] = "sibling"
          /\ entry[c] \in Entries /\ entry[c].state # "pending"
      BY <2>3 DEF CheckSibling, TypeInv, CallsType, EntryFor
    <3>2. PICK w : /\ Goto(c, w) /\ w \in {"write", "target", "authorize"}
                   /\ w = "authorize" <=> entry[c].state = "verified"
      BY <2>3, <3>1 DEF CheckSibling, Entries, States
    <3>3. pc'[c] = w /\ entry'[c] = entry[c]
      BY <3>1, <3>2, OthersStay DEF TypeInv
    <3>4. Sourced(entry[c]) /\ (w = "authorize" => ValidEvidence(entry[c].detail))
      BY <3>1, <3>2 DEF VouchInv, CallVouched, Checked, Submitting, SiblingValid
    <3>5. CallVouched(c)'
      BY <3>2, <3>3, <3>4 DEF CallVouched, Checked, Submitting, Authorised, Sourced, Accepted, Grows
    <3> QED BY <3>1, <3>2, <3>5, OthersVouched DEF TypeInv, VouchInv
  <2>4. CASE Authorize(c) /\ ~Return(c)
    <3>1. /\ Goto(c, "target") /\ UNCHANGED entry /\ pc[c] = "authorize"
          /\ entry[c] \in published'
      BY <2>4 DEF Authorize
    <3>2. Sourced(entry[c]) /\ ValidEvidence(entry[c].detail)
      BY <3>1 DEF VouchInv, CallVouched, Checked, Submitting
    <3>3. pc'[c] = "target" /\ entry'[c] = entry[c]
      BY <3>1, OthersStay DEF TypeInv
    <3>4. CallVouched(c)'
      BY <3>1, <3>2, <3>3
      DEF CallVouched, Checked, Submitting, Authorised, Sourced, Accepted, Grows
    <3> QED BY <3>1, <3>4, OthersVouched DEF TypeInv, VouchInv
  <2>5. CASE CheckTarget(c) /\ ~Return(c)
    <3>1. Goto(c, "write") /\ UNCHANGED entry /\ pc[c] = "target"
      BY <2>5 DEF CheckTarget
    <3>2. Sourced(entry[c]) /\ Accepted(entry[c])
      BY <3>1 DEF VouchInv, CallVouched, Checked, Submitting, Authorised
    <3>3. pc'[c] = "write" /\ entry'[c] = entry[c]
      BY <3>1, OthersStay DEF TypeInv
    <3>4. CallVouched(c)'
      BY <3>2, <3>3 DEF CallVouched, Checked, Submitting, Authorised, Sourced, Accepted, Grows
    <3> QED BY <3>1, <3>4, OthersVouched DEF TypeInv, VouchInv
  <2> QED BY <2>1, <2>2, <2>3, <2>4, <2>5
<1> QED BY <1>1, <1>2, SameLedger DEF VouchInv

\* The write puts a vouched entry into the directory and then the ledger.
LEMMA WriteVouched ==
    ASSUME TypeInv, CacheAssumption, VouchInv, Grows, NEW c \in Calls,
           OpenTemp(c) \/ Rename(c) \/ FailWrite(c) \/ LogWrite(c) \/ FailLog(c)
    PROVE  VouchInv'
<1>1. CASE OpenTemp(c) \/ Rename(c)
  <2>1. PICK w \in {"temp", "log"} :
           /\ Goto(c, w) /\ UNCHANGED <<entry, ledger, events, served>>
           /\ pc[c] \in {"write", "temp"} /\ (w = "log" => entry[c] \in dir')
    BY <1>1 DEF OpenTemp, Rename, ghosts
  <2>2. Sourced(entry[c]) /\ Accepted(entry[c])
    BY <2>1 DEF VouchInv, CallVouched, Checked, Submitting, Authorised
  <2>3. pc'[c] = w /\ entry'[c] = entry[c]
    BY <2>1, OthersStay DEF TypeInv
  <2>4. CallVouched(c)'
    BY <2>1, <2>2, <2>3 DEF CallVouched, Checked, Submitting, Authorised, Sourced, Accepted, Grows
  <2>5. \A d \in Calls : CallVouched(d)'
    BY <2>1, <2>4, OthersVouched DEF TypeInv, VouchInv
  <2> QED BY <2>1, <2>5, SameLedger DEF VouchInv
<1>2. CASE FailWrite(c)
  BY <1>2, ReturnVouched, SameLedger DEF FailWrite, ghosts, VouchInv, TypeInv
<1>3. CASE LogWrite(c) \/ FailLog(c)
  <2>1. /\ pc[c] = "log" /\ Return(c) /\ UNCHANGED <<dir, published, served>>
        /\ ledger' \subseteq ledger \cup {entry[c]}
    BY <1>3 DEF LogWrite, FailLog, LedgerAfterFailure, ghosts
  <2>2. Vouched(entry[c])
    BY <2>1 DEF VouchInv, CallVouched, Checked, Submitting, Authorised, Vouched
  <2>3. \A e \in ledger' : Vouched(e)
    BY <2>1, <2>2 DEF VouchInv
  <2>4. \A e \in ledger' : Vouched(e)'
    BY <2>3, VouchedStays
  <2>5. \A r \in Runtimes : events'[r] \subseteq ledger'
    <3>1. CASE LogWrite(c) BY <3>1 DEF LogWrite, VouchInv, TypeInv, StoreType
    <3>2. CASE FailLog(c) BY <3>2 DEF FailLog, memory, VouchInv, Grows
    <3> QED BY <1>3, <3>1, <3>2
  <2>6. served' \subseteq ledger'
    BY <2>1 DEF VouchInv, Grows
  <2> QED BY <2>1, <2>4, <2>5, <2>6, ReturnVouched DEF VouchInv, TypeInv
<1> QED BY <1>1, <1>2, <1>3

\* A lookup that passes its checks has found a write event in a memory.
LEMMA LookupVouched ==
    ASSUME TypeInv, CacheAssumption, VouchInv, Grows, NEW c \in Calls,
           FindHead(c) \/ CheckConflict(c) \/ Trust(c) \/ Reuse(c) \/ FailLookup(c)
    PROVE  VouchInv'
<1>0. UNCHANGED <<ledger, events>>
  BY DEF FindHead, CheckConflict, Trust, Reuse, FailLookup, LedgerAfterFailure, disk, memory
<1>1. served' \subseteq ledger'
  BY <1>0 DEF FindHead, CheckConflict, Trust, Reuse, FailLookup, ghosts, VouchInv, CallVouched
<1>2. \A d \in Calls : CallVouched(d)'
  <2>1. CASE Return(c)
    BY <2>1, ReturnVouched DEF TypeInv, VouchInv
  <2>2. CASE FindHead(c) /\ ~Return(c)
    <3>1. Goto(c, "conflict") /\ \E e : entry' = [entry EXCEPT ![c] = e]
      BY <2>2 DEF FindHead
    <3>2. CallVouched(c)'
      BY <3>1, OthersStay, NothingKnown DEF TypeInv
    <3> QED BY <3>1, <3>2, OthersVouched DEF TypeInv, VouchInv
  <2>3. CASE (CheckConflict(c) \/ Trust(c)) /\ ~Return(c)
    <3>1. PICK w \in {"trust", "reuse"} : Goto(c, w) /\ UNCHANGED entry
      BY <2>3 DEF CheckConflict, Trust
    <3>2. entry[c] \in ledger
      BY <2>3 DEF CheckConflict, Trust, HasMatchingWriteEvent, VouchInv, CallVouched, CacheAssumption
    <3>3. pc'[c] = w /\ entry'[c] = entry[c]
      BY <3>1, OthersStay DEF TypeInv
    <3>4. CallVouched(c)'
      BY <3>2, <3>3 DEF CallVouched, Checked, Submitting, Authorised, Grows
    <3> QED BY <3>1, <3>4, OthersVouched DEF TypeInv, VouchInv
  <2>4. CASE Reuse(c) \/ FailLookup(c)
    BY <2>1, <2>4 DEF Reuse, FailLookup
  <2> QED BY <2>1, <2>2, <2>3, <2>4
<1>3. \A e \in ledger' : Vouched(e)'
  BY <1>0, VouchedStays DEF VouchInv
<1> QED BY <1>0, <1>1, <1>2, <1>3 DEF VouchInv

\* A call that begins knows nothing yet.
LEMMA StartVouched ==
    ASSUME TypeInv, VouchInv, Grows, NEW c \in Calls, NEW w \in {"find", "source"}, NEW e,
           Start(c, w, e)
    PROVE  VouchInv'
<1>1. CallVouched(c)'
  BY OthersStay, NothingKnown DEF TypeInv, Start
<1> QED BY <1>1, OthersVouched, StartGrows, SameLedger DEF Start, VouchInv, TypeInv

LEMMA BeginVouched ==
    ASSUME TypeInv, VouchInv, Grows, NEW c \in Calls, NEW m \in Metas, Begin(c, m)
    PROVE  VouchInv'
<1> DEFINE e == [id |-> used + 1, meta |-> m, state |-> "pending", result |-> None,
                 detail |-> None, parent |-> 0]
<1>1. Start(c, "target", e)
  BY DEF Begin, Submit
<1>2. pc'[c] = "target" /\ entry'[c] = e
  BY <1>1, OthersStay DEF TypeInv, CallsType, Start
<1>3. CallVouched(c)'
  BY <1>2 DEF CallVouched, Checked, Submitting, Authorised, Sourced, Accepted
<1> QED BY <1>1, <1>3, OthersVouched, StartGrows, SameLedger DEF Start, VouchInv, TypeInv

\* A process that ends may have had calls between the rename and the ledger.
LEMMA CrashVouched ==
    ASSUME TypeInv, VouchInv, Grows, NEW r \in Runtimes, Crash(r) PROVE VouchInv'
<1> DEFINE mine == {c \in Calls : RuntimeOf[c] = r}
           logging == {entry[c] : c \in {d \in mine : pc[d] = "log"}}
<1>1. \A e \in logging : Vouched(e)
  BY DEF VouchInv, CallVouched, Vouched, Checked, Submitting, Authorised
<1>2. ledger' \subseteq ledger \cup logging
  BY DEF Crash, LedgerAfterFailure
<1>3. \A e \in ledger' : Vouched(e)
  BY <1>1, <1>2 DEF VouchInv
<1>4. \A e \in ledger' : Vouched(e)'
  BY <1>3, VouchedStays
<1>5. \A x \in Runtimes : events'[x] \subseteq events[x]
  BY DEF Crash, TypeInv, StoreType
<1>6. served' \subseteq ledger'
  BY DEF Crash, ghosts, VouchInv, Grows
<1>7. ASSUME NEW d \in Calls PROVE CallVouched(d)'
  <2>1. CASE d \in mine
    BY <2>1, NothingKnown DEF Crash
  <2>2. CASE d \notin mine
    BY <2>2, CallStays DEF Crash, VouchInv
  <2> QED BY <2>1, <2>2
<1> QED BY <1>4, <1>5, <1>6, <1>7 DEF VouchInv, Grows

LEMMA EnvironmentVouched ==
    ASSUME TypeInv, VouchInv, Grows,
           \/ UNCHANGED vars
           \/ \E r \in Runtimes : \E a : Open(r, a)
           \/ \E x, p : StoreDirectly(x, p)
    PROVE  VouchInv'
<1>1. UNCHANGED <<pc, entry, ledger, served>>
  BY DEF vars, Open, StoreDirectly, disk, memory, ghosts
<1>2. \A r \in Runtimes : events'[r] = events[r] \/ events'[r] = ledger
  <2>1. ASSUME NEW x \in Runtimes, NEW a, Open(x, a)
        PROVE \A r \in Runtimes : events'[r] = events[r] \/ events'[r] = ledger
    BY <2>1 DEF Open, TypeInv, StoreType
  <2> QED BY <2>1 DEF vars, StoreDirectly, memory
<1>3. \A d \in Calls : CallVouched(d)'
  BY <1>1, CallStays DEF VouchInv
<1>4. \A e \in ledger' : Vouched(e)'
  BY <1>1, VouchedStays DEF VouchInv
<1> QED BY <1>1, <1>2, <1>3, <1>4 DEF VouchInv

LEMMA InitVouched == Init => VouchInv
BY DEF Init, VouchInv, CallVouched, Checked, Submitting, Authorised

LEMMA StepVouched ==
    ASSUME CacheAssumption, TypeInv, VouchInv, [Next]_vars PROVE VouchInv'
<1>0. Grows BY StepGrows
<1>1. ASSUME NEW c \in Calls, NEW m, NEW st, Lookup(c, m, st) PROVE VouchInv'
  BY <1>0, <1>1, StartVouched DEF Lookup
<1>2. ASSUME NEW c \in Calls, NEW source, NEW x, NEW p,
             StoreUnverified(c, source, x) \/ PublishVerified(c, source, x, p)
             \/ StoreNegative(c, source, x)
      PROVE  VouchInv'
  BY <1>0, <1>2, StartVouched DEF StoreUnverified, PublishVerified, StoreNegative, Submit
<1>3. ASSUME NEW c \in Calls, Progress(c) \/ FailWrite(c) \/ FailLog(c) \/ FailLookup(c)
      PROVE  VouchInv'
  BY <1>0, <1>3, CheckVouched, WriteVouched, LookupVouched DEF Progress
<1> QED BY <1>0, <1>1, <1>2, <1>3, BeginVouched, CrashVouched, EnvironmentVouched DEF Next

\* "An entry without a corresponding successful ledger event is unaudited and
\* never reusable", for any number of runtimes, calls and faults: what lookups
\* return was published, has its write event in the ledger, and is the result
\* stored for the request.
THEOREM ServedSafe == Spec => []ServedWasPublished
<1>1. Spec => []TypeInv
  BY InitType, StepType, CacheAssumption, PTL DEF Spec
<1>2. Spec => []VouchInv
  BY <1>1, InitVouched, StepVouched, CacheAssumption, PTL DEF Spec
<1>3. VouchInv => ServedWasPublished
  BY DEF VouchInv, Vouched, Sourced, Accepted, ValidEvidence, ServedWasPublished
<1> QED BY <1>2, <1>3, PTL

-----------------------------------------------------------------------------
(* One outcome for a key *)

\* Entries that lookups have found, and those that passed the sibling check.
Found == served \cup {entry[c] : c \in {d \in Calls : pc[d] \in {"conflict", "trust", "reuse"}}}
Passed == served \cup {entry[c] : c \in {d \in Calls : pc[d] \in {"trust", "reuse"}}}

\* Of two lookups the later one sees, in the directory, what the earlier one
\* found: two entries of one key are no lineage, and one of the other outcome
\* is a sibling.
OutcomeInv ==
    /\ Found \subseteq dir
    /\ \A e \in Found : e.state \in {"verified", "negative"}
    /\ \A e, f \in Found : e.meta = f.meta /\ e.state = f.state => e = f
    /\ \A e, f \in Passed : e.meta = f.meta => e.state = f.state

\* A step by which no lookup finds or passes anything.
LEMMA NothingFound ==
    ASSUME OutcomeInv, Grows, Found' \subseteq Found, Passed' \subseteq Passed
    PROVE  OutcomeInv'
BY DEF OutcomeInv, Grows

\* The other calls do not move and this one does not come to a check.
LEMMA ElsewhereFound ==
    ASSUME CallsType, OutcomeInv, Grows, UNCHANGED served, NEW c \in Calls,
           NEW w, w \notin {"conflict", "trust", "reuse"}, Goto(c, w),
           UNCHANGED entry \/ \E e : entry' = [entry EXCEPT ![c] = e]
    PROVE  OutcomeInv'
<1>1. pc'[c] = w /\ \A d \in Calls : d # c => pc'[d] = pc[d] /\ entry'[d] = entry[d]
  BY OthersStay
<1>2. Found' \subseteq Found /\ Passed' \subseteq Passed
  BY <1>1 DEF Found, Passed
<1> QED BY <1>2, NothingFound

\* The entry at the end of a lineage of outcomes is all of it.
LEMMA HeadIsAll ==
    ASSUME NEW S, NEW ns \in {"verified-artifact", "negative"}, NEW e, NEW f \in S,
           \A g \in S : Namespace(g.state) = ns, IsHead(e, S, ns)
    PROVE  e = f
<1>1. \A g, h \in S : ~Allowed(h.state, g.state)
  BY DEF Namespace, Allowed
<1>2. \A g, h \in S : g.parent # h.id
  BY <1>1 DEF IsHead
<1>3. {g \in S : g.parent \notin {h.id : h \in S}} = S
  BY <1>2
<1> QED BY <1>3 DEF IsHead

LEMMA FindHeadFound ==
    ASSUME TypeInv, OutcomeInv, Grows, NEW c \in Calls, FindHead(c) PROVE OutcomeInv'
<1>0. UNCHANGED <<dir, served>>
  BY DEF FindHead, disk, ghosts
<1>1. CASE Return(c)
  BY <1>0, <1>1, ElsewhereFound DEF Return, TypeInv
<1>2. CASE ~Return(c)
  <2> DEFINE m == entry[c].meta
             ns == Namespace(entry[c].state)
  <2>1. PICK e \in dir : Inspects(e, m, ns) /\ Goto(c, "conflict") /\ entry' = [entry EXCEPT ![c] = e]
    BY <1>2 DEF FindHead
  <2>2. entry[c] \in Lookups
    BY DEF FindHead, TypeInv, CallsType, EntryFor
  <2>3. ns \in {"verified-artifact", "negative"}
    BY <2>2 DEF Lookups, Namespace
  <2>4. IsHead(e, Revisions(m, ns), ns)
    BY <2>1 DEF Inspects
  <2>5. e \in Revisions(m, ns)
    BY <2>4 DEF IsHead
  <2>6. e.meta = m /\ Namespace(e.state) = ns
    BY <2>5 DEF Revisions
  <2>7. \A g \in Revisions(m, ns) : Namespace(g.state) = ns
    BY DEF Revisions
  <2>8. ASSUME NEW f \in Found, f.meta = e.meta, f.state = e.state PROVE f = e
    <3>1. f \in Revisions(m, ns)
      BY <2>6, <2>8 DEF OutcomeInv, Revisions
    <3> QED BY <2>3, <2>4, <2>7, <3>1, HeadIsAll
  <2>9. e.state \in {"verified", "negative"}
    BY <2>3, <2>6 DEF Namespace
  <2>10. /\ pc'[c] = "conflict" /\ entry'[c] = e
         /\ \A d \in Calls : d # c => pc'[d] = pc[d] /\ entry'[d] = entry[d]
    BY <2>1, OthersStay DEF TypeInv, CallsType
  <2>11. Found' \subseteq Found \cup {e} /\ Passed' \subseteq Passed
    BY <1>0, <2>10 DEF Found, Passed
  <2> QED BY <1>0, <2>1, <2>8, <2>9, <2>11 DEF OutcomeInv
<1> QED BY <1>1, <1>2

LEMMA CheckConflictFound ==
    ASSUME TypeInv, OutcomeInv, Grows, NEW c \in Calls, CheckConflict(c) PROVE OutcomeInv'
<1>0. UNCHANGED <<dir, served>> /\ pc[c] = "conflict"
  BY DEF CheckConflict, disk, ghosts
<1>1. CASE Return(c)
  BY <1>0, <1>1, ElsewhereFound DEF Return, TypeInv
<1>2. CASE ~Return(c)
  <2>1. PICK w : Goto(c, w) /\ UNCHANGED entry /\ NoSibling(c)
    BY <1>2 DEF CheckConflict
  <2>2. Revisions(entry[c].meta, SiblingNamespace(entry[c].state)) = {}
    BY <2>1 DEF NoSibling, Empty
  <2>3. entry[c] \in Found
    BY <1>0 DEF Found
  <2>4. ASSUME NEW f \in Found, f.meta = entry[c].meta PROVE f.state = entry[c].state
    <3>1. f \in dir /\ f.state \in {"verified", "negative"}
          /\ entry[c].state \in {"verified", "negative"}
      BY <2>3 DEF OutcomeInv
    <3>2. Namespace(f.state) # SiblingNamespace(entry[c].state)
      BY <2>2, <2>4, <3>1 DEF Revisions
    <3> QED BY <3>1, <3>2 DEF Namespace, SiblingNamespace
  <2>5. \A d \in Calls : entry'[d] = entry[d] /\ (d # c => pc'[d] = pc[d])
    BY <2>1, OthersStay DEF TypeInv
  <2>6. Found' \subseteq Found /\ Passed' \subseteq Passed \cup {entry[c]}
    BY <1>0, <2>3, <2>5 DEF Found, Passed
  <2>7. Passed \subseteq Found
    BY DEF Found, Passed
  <2> QED BY <1>0, <2>3, <2>4, <2>6, <2>7 DEF OutcomeInv
<1> QED BY <1>1, <1>2

LEMMA ReuseFound ==
    ASSUME TypeInv, OutcomeInv, Grows, NEW c \in Calls, Trust(c) \/ Reuse(c) PROVE OutcomeInv'
<1>1. \A d \in Calls : d # c => pc'[d] = pc[d] /\ entry'[d] = entry[d]
  BY OthersStay DEF TypeInv, Trust, Reuse, Return
<1>2. pc[c] \in {"trust", "reuse"} /\ (pc'[c] = "idle" \/ entry'[c] = entry[c])
  BY OthersStay DEF TypeInv, Trust, Reuse, Return
<1>3. served' \subseteq served \cup {entry[c]}
  BY DEF Trust, Reuse, ghosts
<1>4. Found' \subseteq Found /\ Passed' \subseteq Passed
  BY <1>1, <1>2, <1>3 DEF Found, Passed
<1> QED BY <1>4, NothingFound

\* Every other step of a call.
LEMMA WriterFound ==
    ASSUME TypeInv, OutcomeInv, Grows, NEW c \in Calls,
           \/ CheckSource(c) \/ CheckSibling(c) \/ Authorize(c) \/ CheckTarget(c) \/ OpenTemp(c)
           \/ Rename(c) \/ LogWrite(c) \/ FailWrite(c) \/ FailLog(c) \/ FailLookup(c)
    PROVE  OutcomeInv'
<1>1. UNCHANGED served
  BY DEF CheckSource, CheckSibling, Authorize, CheckTarget, OpenTemp, Rename, LogWrite,
         FailWrite, FailLog, FailLookup, ghosts
<1>2. CASE Return(c)
  BY <1>1, <1>2, ElsewhereFound DEF Return, TypeInv
<1>3. CASE CheckSibling(c) /\ ~Return(c)
  <2>1. entry[c] \in Entries /\ entry[c].state # "pending"
    BY <1>3 DEF TypeInv, CallsType, EntryFor, CheckSibling
  <2>2. Goto(c, "write") \/ Goto(c, "target") \/ Goto(c, "authorize")
    BY <1>3, <2>1 DEF CheckSibling, Entries, States
  <2> QED BY <1>1, <1>3, <2>2, ElsewhereFound DEF CheckSibling, TypeInv
<1>4. CASE ~CheckSibling(c) /\ ~Return(c)
  BY <1>1, <1>4, ElsewhereFound
  DEF CheckSource, Authorize, CheckTarget, OpenTemp, Rename, LogWrite,
      FailWrite, FailLog, FailLookup, TypeInv
<1> QED BY <1>2, <1>3, <1>4

LEMMA StartFound ==
    ASSUME TypeInv, OutcomeInv, Grows, NEW c \in Calls, NEW w \in {"find", "source", "target"},
           NEW e, Start(c, w, e)
    PROVE  OutcomeInv'
BY StartGrows, ElsewhereFound DEF Start, TypeInv

LEMMA EnvironmentFound ==
    ASSUME TypeInv, OutcomeInv, Grows,
           \/ UNCHANGED vars
           \/ \E r, a : Crash(r) \/ Open(r, a)
           \/ \E x, p : StoreDirectly(x, p)
    PROVE  OutcomeInv'
<1>1. UNCHANGED served
  BY DEF vars, Crash, Open, StoreDirectly, ghosts
<1>2. \A d \in Calls : pc'[d] = "idle" \/ (pc'[d] = pc[d] /\ entry'[d] = entry[d])
  BY DEF vars, Crash, Open, StoreDirectly
<1>3. Found' \subseteq Found /\ Passed' \subseteq Passed
  BY <1>1, <1>2 DEF Found, Passed
<1> QED BY <1>3, NothingFound

LEMMA InitFound == Init => OutcomeInv
BY DEF Init, OutcomeInv, Found, Passed

LEMMA StepFound == ASSUME TypeInv, OutcomeInv, [Next]_vars PROVE OutcomeInv'
<1>0. Grows BY StepGrows
<1>1. ASSUME NEW c \in Calls, NEW m, NEW st, Lookup(c, m, st) \/ Begin(c, m) PROVE OutcomeInv'
  BY <1>0, <1>1, StartFound DEF Lookup, Begin, Submit
<1>2. ASSUME NEW c \in Calls, NEW source, NEW x, NEW p,
             StoreUnverified(c, source, x) \/ PublishVerified(c, source, x, p)
             \/ StoreNegative(c, source, x)
      PROVE  OutcomeInv'
  BY <1>0, <1>2, StartFound DEF StoreUnverified, PublishVerified, StoreNegative, Submit
<1>3. ASSUME NEW c \in Calls, Progress(c) \/ FailWrite(c) \/ FailLog(c) \/ FailLookup(c)
      PROVE  OutcomeInv'
  BY <1>0, <1>3, WriterFound, FindHeadFound, CheckConflictFound, ReuseFound DEF Progress
<1> QED BY <1>0, <1>1, <1>2, <1>3, EnvironmentFound DEF Next

\* Whatever runtimes publish at the same time, all lookups of a key that
\* return something return the same entry.
THEOREM OutcomesAgree == Spec => []OneOutcomeServed
<1>1. Spec => []TypeInv
  BY InitType, StepType, CacheAssumption, PTL DEF Spec
<1>2. Spec => []OutcomeInv
  BY <1>1, InitFound, StepFound, PTL DEF Spec
<1>3. OutcomeInv => OneOutcomeServed
  BY DEF OutcomeInv, Found, Passed, OneOutcomeServed
<1> QED BY <1>2, <1>3, PTL

-----------------------------------------------------------------------------
(* The storage queue *)

\* A call at work has an open runtime and, between the temporary file and the
\* rename, its queue; no two submitted entries have the same id, so that no
\* other call removes its file.
QueueInv ==
    /\ QueueHasWriter
    /\ \A c \in Calls : pc[c] # "idle" => RuntimeOf[c] \in up
    /\ \A c \in Calls : pc[c] = "temp" => queue[RuntimeOf[c]] = c
    /\ \A c \in Calls : pc[c] \in Submitting => entry[c].id <= used
    /\ \A c, d \in Calls :
          c # d /\ pc[c] \in Submitting /\ pc[d] \in Submitting => entry[c].id # entry[d].id

\* A call goes on with the entry it has, or ends, away from the queue.
LEMMA GoneOnQueue ==
    ASSUME TypeInv, QueueInv, NEW c \in Calls, NEW w, Goto(c, w),
           pc[c] \notin {"idle", "temp"}, w # "temp",
           w \in Submitting => UNCHANGED entry /\ pc[c] \in Submitting,
           UNCHANGED entry \/ \E e : entry' = [entry EXCEPT ![c] = e],
           UNCHANGED <<queue, temps, up, used>>
    PROVE  QueueInv'
<1>1. pc'[c] = w /\ \A d \in Calls : d # c => pc'[d] = pc[d] /\ entry'[d] = entry[d]
  BY OthersStay DEF TypeInv
<1>2. \A r \in Runtimes : queue[r] # None => queue[r] \in Calls /\ queue[r] # c
  BY DEF QueueInv, QueueHasWriter, TypeInv, StoreType
<1>3. QueueHasWriter'
  BY <1>1, <1>2 DEF QueueInv, QueueHasWriter
<1>4. \A d \in Calls : /\ pc'[d] # "idle" => RuntimeOf[d] \in up'
                       /\ pc'[d] = "temp" => queue'[RuntimeOf[d]] = d
                       /\ pc'[d] \in Submitting =>
                             pc[d] \in Submitting /\ entry'[d] = entry[d]
  BY <1>1 DEF QueueInv
<1> QED BY <1>3, <1>4 DEF QueueInv

LEMMA CheckQueue ==
    ASSUME TypeInv, QueueInv, NEW c \in Calls,
           \/ CheckSource(c) \/ CheckSibling(c) \/ Authorize(c) \/ CheckTarget(c)
           \/ FindHead(c) \/ CheckConflict(c) \/ Trust(c) \/ Reuse(c)
           \/ LogWrite(c) \/ FailLog(c) \/ FailLookup(c)
    PROVE  QueueInv'
<1>1. UNCHANGED <<queue, temps, up, used>> /\ pc[c] \notin {"idle", "temp"}
  BY DEF CheckSource, CheckSibling, Authorize, CheckTarget, FindHead, CheckConflict, Trust,
         Reuse, LogWrite, FailLog, FailLookup, disk, memory
<1>2. CASE Return(c)
  BY <1>1, <1>2, GoneOnQueue DEF Return, Submitting
<1>3. CASE FindHead(c) /\ ~Return(c)
  BY <1>1, <1>3, GoneOnQueue DEF FindHead, Submitting
<1>4. CASE CheckSibling(c) /\ ~Return(c)
  <2>1. entry[c] \in Entries /\ entry[c].state # "pending"
    BY <1>4 DEF TypeInv, CallsType, EntryFor, CheckSibling
  <2>2. Goto(c, "write") \/ Goto(c, "target") \/ Goto(c, "authorize")
    BY <1>4, <2>1 DEF CheckSibling, Entries, States
  <2>3. UNCHANGED entry /\ pc[c] \in Submitting
    BY <1>4 DEF CheckSibling, Submitting
  <2> QED BY <1>1, <2>2, <2>3, GoneOnQueue
<1>5. CASE (CheckSource(c) \/ Authorize(c) \/ CheckTarget(c)) /\ ~Return(c)
  <2>1. Goto(c, "sibling") \/ Goto(c, "target") \/ Goto(c, "write")
    BY <1>5 DEF CheckSource, Authorize, CheckTarget
  <2>2. UNCHANGED entry /\ pc[c] \in Submitting
    BY <1>5 DEF CheckSource, Authorize, CheckTarget, Submitting
  <2> QED BY <1>1, <2>1, <2>2, GoneOnQueue
<1>6. CASE (CheckConflict(c) \/ Trust(c)) /\ ~Return(c)
  <2>1. (Goto(c, "trust") \/ Goto(c, "reuse")) /\ UNCHANGED entry
    BY <1>6 DEF CheckConflict, Trust
  <2> QED BY <1>1, <2>1, GoneOnQueue DEF Submitting
<1> QED BY <1>2, <1>3, <1>4, <1>5, <1>6 DEF Reuse, LogWrite, FailLog, FailLookup

LEMMA OpenTempQueue ==
    ASSUME TypeInv, CacheAssumption, QueueInv, NEW c \in Calls, OpenTemp(c) PROVE QueueInv'
<1> DEFINE r == RuntimeOf[c]
<1>1. r \in Runtimes /\ pc[c] = "write" /\ queue[r] = None /\ UNCHANGED <<entry, up, used>>
  BY DEF OpenTemp, CacheAssumption
<1>2. pc'[c] = "temp" /\ \A d \in Calls : d # c => pc'[d] = pc[d]
  BY OthersStay DEF TypeInv, OpenTemp
<1>3. queue'[r] = c /\ \A x \in Runtimes : x # r => queue'[x] = queue[x]
  BY <1>1 DEF OpenTemp, TypeInv, StoreType
<1>4. temps' = temps \cup {entry[c]} BY DEF OpenTemp
<1>5. r \in up BY <1>1 DEF QueueInv
<1>6. \A x \in Runtimes : queue[x] # None => queue[x] \in Calls /\ queue[x] # c
  BY <1>1 DEF QueueInv, QueueHasWriter, TypeInv, StoreType
<1>7. QueueHasWriter'
  BY <1>1, <1>2, <1>3, <1>4, <1>5, <1>6 DEF QueueInv, QueueHasWriter
<1>8. ASSUME NEW d \in Calls, pc'[d] = "temp" PROVE queue'[RuntimeOf[d]] = d
  <2>1. CASE d = c BY <2>1, <1>3
  <2>2. CASE d # c
    <3>1. queue[RuntimeOf[d]] = d /\ RuntimeOf[d] \in Runtimes
      BY <1>2, <1>8, <2>2 DEF QueueInv, CacheAssumption
    <3>2. RuntimeOf[d] # r
      BY <1>1, <3>1 DEF CacheAssumption
    <3> QED BY <1>3, <3>1, <3>2
  <2> QED BY <2>1, <2>2
<1>9. \A d \in Calls : pc'[d] \in Submitting => pc[d] \in Submitting
  BY <1>1, <1>2 DEF Submitting
<1> QED BY <1>1, <1>2, <1>5, <1>7, <1>8, <1>9 DEF QueueInv

\* The rename, or its failure, frees the queue and leaves other files alone.
LEMMA WriteQueue ==
    ASSUME TypeInv, CacheAssumption, QueueInv, NEW c \in Calls, Rename(c) \/ FailWrite(c)
    PROVE  QueueInv'
<1> DEFINE r == RuntimeOf[c]
<1>1. /\ r \in Runtimes /\ pc[c] = "temp" /\ queue[r] = c /\ UNCHANGED <<up, used>>
      /\ temps \ {entry[c]} \subseteq temps'
  BY DEF Rename, FailWrite, CacheAssumption, QueueInv
<1>2. /\ pc'[c] \in {"idle", "log"} /\ (pc'[c] = "log" => entry'[c] = entry[c])
      /\ \A d \in Calls : d # c => pc'[d] = pc[d] /\ entry'[d] = entry[d]
  BY OthersStay DEF TypeInv, Rename, FailWrite, Return
<1>3. queue'[r] = None /\ \A x \in Runtimes : x # r => queue'[x] = queue[x]
  BY <1>1 DEF Rename, FailWrite, TypeInv, StoreType
<1>4. ASSUME NEW x \in Runtimes, queue'[x] # None
      PROVE  /\ x \in up' /\ RuntimeOf[queue'[x]] = x
             /\ pc'[queue'[x]] = "temp" /\ entry'[queue'[x]] \in temps'
  <2> DEFINE d == queue[x]
  <2>1. x # r /\ queue'[x] = d /\ d \in Calls
    BY <1>3, <1>4 DEF TypeInv, StoreType
  <2>2. x \in up /\ RuntimeOf[d] = x /\ pc[d] = "temp" /\ entry[d] \in temps
    BY <1>4, <2>1 DEF QueueInv, QueueHasWriter
  <2>3. d # c BY <2>1, <2>2
  <2>4. entry[d].id # entry[c].id
    BY <1>1, <2>1, <2>2, <2>3 DEF QueueInv, Submitting
  <2> QED BY <1>1, <1>2, <2>1, <2>2, <2>3, <2>4
<1>5. QueueHasWriter'
  BY <1>4 DEF QueueHasWriter
<1>6. ASSUME NEW d \in Calls, pc'[d] = "temp" PROVE queue'[RuntimeOf[d]] = d
  <2>1. d # c /\ queue[RuntimeOf[d]] = d /\ RuntimeOf[d] \in Runtimes
    BY <1>2, <1>6 DEF QueueInv, CacheAssumption
  <2> QED BY <1>1, <1>3, <2>1
<1>7. \A d \in Calls : /\ pc'[d] # "idle" => RuntimeOf[d] \in up'
                       /\ pc'[d] \in Submitting => pc[d] \in Submitting /\ entry'[d] = entry[d]
  BY <1>1, <1>2 DEF QueueInv, Submitting
<1> QED BY <1>1, <1>5, <1>6, <1>7 DEF QueueInv

\* A call that begins has the next id, or only a key to look for.
LEMMA StartQueue ==
    ASSUME TypeInv, CacheAssumption, QueueInv, NEW c \in Calls, NEW e, NEW w \in Positions \ {"temp"},
           Start(c, w, e),
           \/ w = "find" /\ UNCHANGED used
           \/ e.id = used + 1 /\ used' = used + 1
    PROVE  QueueInv'
<1>1. UNCHANGED <<queue, temps, up>> /\ pc[c] = "idle" /\ RuntimeOf[c] \in up
  BY DEF Start, disk, memory
<1>2. /\ pc'[c] = w /\ entry'[c] = e
      /\ \A d \in Calls : d # c => pc'[d] = pc[d] /\ entry'[d] = entry[d]
  BY OthersStay DEF TypeInv, Start, CallsType
<1>3. \A r \in Runtimes : queue[r] # None => queue[r] \in Calls /\ queue[r] # c
  BY <1>1 DEF QueueInv, QueueHasWriter, TypeInv, StoreType
<1>4. QueueHasWriter'
  BY <1>1, <1>2, <1>3 DEF QueueInv, QueueHasWriter
<1>5. \A d \in Calls : /\ pc'[d] # "idle" => RuntimeOf[d] \in up'
                       /\ pc'[d] = "temp" => queue'[RuntimeOf[d]] = d
  BY <1>1, <1>2 DEF QueueInv
<1>6. used \in Nat /\ used <= used' /\ \A d \in Calls : pc[d] \in Submitting => entry[d].id \in Nat
  <2>1. used \in Nat
    BY DEF TypeInv, StoreType, CacheAssumption
  <2>2. \A d \in Calls : pc[d] \in Submitting => entry[d] \in Entries
    BY EntryType DEF TypeInv, Submitting
  <2> QED BY <2>1, <2>2 DEF Entries, Ids, CacheAssumption
<1>7. \A d \in Calls : pc'[d] \in Submitting => entry'[d].id <= used'
  BY <1>2, <1>6 DEF QueueInv, Submitting
<1>8. ASSUME NEW a \in Calls, NEW b \in Calls, a # b, pc'[a] \in Submitting, pc'[b] \in Submitting
      PROVE  entry'[a].id # entry'[b].id
  <2>1. CASE a # c /\ b # c BY <1>2, <1>8, <2>1 DEF QueueInv
  <2>2. ASSUME NEW d \in Calls, d # c, pc'[d] \in Submitting, pc'[c] \in Submitting
        PROVE  entry'[d].id # entry'[c].id
    <3>1. entry'[d].id = entry[d].id /\ entry[d].id <= used /\ entry[d].id \in Nat
      BY <1>2, <1>6, <2>2 DEF QueueInv
    <3>2. entry'[c].id = used + 1
      BY <1>2, <2>2 DEF Submitting
    <3> QED BY <1>6, <3>1, <3>2
  <2> QED BY <1>8, <2>1, <2>2
<1> QED BY <1>4, <1>5, <1>7, <1>8 DEF QueueInv

LEMMA SubmitQueue ==
    ASSUME TypeInv, CacheAssumption, QueueInv, NEW c \in Calls, NEW w \in {"source", "target"},
           NEW m, NEW s, NEW res, NEW det, NEW par, Submit(c, w, m, s, res, det, par)
    PROVE  QueueInv'
<1> DEFINE e == [id |-> used + 1, meta |-> m, state |-> s, result |-> res,
                 detail |-> det, parent |-> par]
<1>1. Start(c, w, e) /\ e.id = used + 1 /\ used' = used + 1
  BY DEF Submit
<1> QED BY <1>1, StartQueue DEF Positions

LEMMA CrashQueue ==
    ASSUME TypeInv, CacheAssumption, QueueInv, NEW r \in Runtimes, Crash(r) PROVE QueueInv'
<1>1. UNCHANGED <<temps, used>> /\ up' = up \ {r} BY DEF Crash
<1>2. queue'[r] = None /\ \A x \in Runtimes : x # r => queue'[x] = queue[x]
  BY DEF Crash, TypeInv, StoreType
<1>3. \A d \in Calls : IF RuntimeOf[d] = r THEN pc'[d] = "idle"
                       ELSE pc'[d] = pc[d] /\ entry'[d] = entry[d]
  BY DEF Crash
<1>4. QueueHasWriter'
  <2> SUFFICES ASSUME NEW x \in Runtimes, queue'[x] # None
               PROVE  /\ x \in up' /\ RuntimeOf[queue'[x]] = x
                      /\ pc'[queue'[x]] = "temp" /\ entry'[queue'[x]] \in temps'
    BY DEF QueueHasWriter
  <2>1. x # r /\ queue'[x] = queue[x] /\ queue[x] \in Calls
    BY <1>2 DEF TypeInv, StoreType
  <2> QED BY <1>1, <1>3, <2>1 DEF QueueInv, QueueHasWriter
<1>5. \A d \in Calls : pc'[d] # "idle" =>
         RuntimeOf[d] # r /\ RuntimeOf[d] \in Runtimes /\ pc'[d] = pc[d] /\ entry'[d] = entry[d]
  BY <1>3 DEF CacheAssumption
<1>6. \A d \in Calls : /\ pc'[d] # "idle" => RuntimeOf[d] \in up'
                       /\ pc'[d] = "temp" => queue'[RuntimeOf[d]] = d
  BY <1>1, <1>2, <1>5 DEF QueueInv
<1>7. \A d \in Calls : pc'[d] \in Submitting => pc[d] \in Submitting /\ entry'[d] = entry[d]
  BY <1>5 DEF Submitting
<1> QED BY <1>1, <1>4, <1>6, <1>7 DEF QueueInv

LEMMA EnvironmentQueue ==
    ASSUME TypeInv, CacheAssumption, QueueInv,
           \/ UNCHANGED vars
           \/ \E r \in Runtimes : \E a : Open(r, a)
           \/ \E x, p : StoreDirectly(x, p)
    PROVE  QueueInv'
<1>1. UNCHANGED <<pc, entry, queue, temps>> /\ up \subseteq up'
  BY DEF vars, Open, StoreDirectly, disk, memory
<1>2. used' = used \/ used' = used + 1
  BY DEF vars, Open, StoreDirectly
<1>3. used \in Nat /\ \A d \in Calls : pc[d] \in Submitting => entry[d].id \in Nat
  <2>1. used \in Nat
    BY DEF TypeInv, StoreType, CacheAssumption
  <2>2. \A d \in Calls : pc[d] \in Submitting => entry[d] \in Entries
    BY EntryType DEF TypeInv, Submitting
  <2> QED BY <2>1, <2>2 DEF Entries, Ids, CacheAssumption
<1>4. \A d \in Calls : pc'[d] \in Submitting => entry'[d].id <= used'
  BY <1>1, <1>2, <1>3 DEF QueueInv
<1>5. QueueHasWriter'
  BY <1>1 DEF QueueInv, QueueHasWriter
<1> QED BY <1>1, <1>4, <1>5 DEF QueueInv

LEMMA InitQueue == Init => QueueInv
BY DEF Init, QueueInv, QueueHasWriter, Submitting

LEMMA StepQueue ==
    ASSUME CacheAssumption, TypeInv, QueueInv, [Next]_vars PROVE QueueInv'
<1>1. ASSUME NEW c \in Calls, NEW m, NEW st, Lookup(c, m, st) PROVE QueueInv'
  BY <1>1, StartQueue DEF Lookup, Positions
<1>2. ASSUME NEW c \in Calls, NEW m, Begin(c, m) PROVE QueueInv'
  BY <1>2, SubmitQueue DEF Begin
<1>3. ASSUME NEW c \in Calls, NEW source, NEW x, NEW p,
             StoreUnverified(c, source, x) \/ PublishVerified(c, source, x, p)
             \/ StoreNegative(c, source, x)
      PROVE  QueueInv'
  BY <1>3, SubmitQueue DEF StoreUnverified, PublishVerified, StoreNegative
<1>4. ASSUME NEW c \in Calls, Progress(c) \/ FailWrite(c) \/ FailLog(c) \/ FailLookup(c)
      PROVE  QueueInv'
  BY <1>4, CheckQueue, OpenTempQueue, WriteQueue DEF Progress
<1> QED BY <1>1, <1>2, <1>3, <1>4, CrashQueue, EnvironmentQueue DEF Next

\* Whatever fails or ends, whoever has a runtime's storage queue is writing.
THEOREM QueueNeverAbandoned == Spec => []QueueHasWriter
<1>1. Spec => []TypeInv
  BY InitType, StepType, CacheAssumption, PTL DEF Spec
<1>2. Spec => []QueueInv
  BY <1>1, InitQueue, StepQueue, CacheAssumption, PTL DEF Spec
<1>3. QueueInv => QueueHasWriter
  BY DEF QueueInv
<1> QED BY <1>2, <1>3, PTL
=============================================================================
