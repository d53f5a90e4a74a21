--------------------------- MODULE VerifiedCache ---------------------------
(***************************************************************************)
(* The cache of verified results (packages/ai-cost-system: cache-runtime,  *)
(* cache-storage, cache-entry, verification-evidence): immutable entries,  *)
(* one file each, whose writes are audited in the accounting ledger.       *)
(*                                                                         *)
(* Several runtimes (processes) share the directory and the ledger file.   *)
(* A step is what a call does between two awaits that matter: one read of  *)
(* a directory, one file operation, one append, one question to the        *)
(* verification authority.                                                 *)
(*                                                                         *)
(* An entry's id stands for its hash and its write event id; metadata      *)
(* stands for everything the cache key is derived from, so that with a     *)
(* namespace it is the key.  No operation writes the state "quarantined".  *)
(***************************************************************************)
EXTENDS Naturals, FiniteSets

CONSTANTS
    Runtimes,
    Calls,        \* calls that may be in progress at the same time
    RuntimeOf,    \* RuntimeOf[c], the runtime call c is made on
    Metas,        \* compatibility metadata
    Results,      \* provider results
    Proofs,       \* verification evidence: stages required, completed, failed
    Current,      \* Current[r]: metadata that agrees with r's configuration
    Sensitive,    \* metadata of data class sensitive
    Cacheable,    \* negative reasons the policy lets persist
    Transient,    \* negative reasons it does not
    None,
    MaxEntries,   \* bound of the model: entries ever written
    MaxFaults     \* bound of the model: failing operations and crashes

States == {"pending", "unverified", "verified", "negative"}
Ids == 1 .. MaxEntries

Entries ==
    [id : Ids, meta : Metas, state : States, result : Results \cup {None},
     detail : Proofs \cup Cacheable \cup Transient \cup {None}, parent : Ids \cup {0}]

ASSUME CacheAssumption ==
    /\ RuntimeOf \in [Calls -> Runtimes]
    /\ Current \in [Runtimes -> SUBSET Metas]
    /\ Sensitive \subseteq Metas
    /\ None \notin Calls /\ None \notin Entries
    /\ MaxEntries \in Nat /\ MaxFaults \in Nat

\* validateEntrySemantics: the namespace follows from the state.
Namespace(state) ==
    CASE state = "verified" -> "verified-artifact"
      [] state = "negative" -> "negative"
      [] OTHER              -> "provider-request"

\* assertAllowedCacheTransition, for the states that are written.
Allowed(from, to) ==
    <<from, to>> \in {<<"pending", "unverified">>, <<"pending", "negative">>,
                      <<"unverified", "verified">>, <<"unverified", "negative">>}

\* validateVerificationEvidence: every required stage was completed, nothing
\* else was, and each one exited with 0.
ValidEvidence(p) == p.required = p.completed /\ p.failed = {}

-----------------------------------------------------------------------------
VARIABLES
    dir,        \* entries published in the cache directory
    temps,      \* entries with a temporary file, which a crash leaves behind
    ledger,     \* entries whose write event is in the ledger file
    torn,       \* the file holds a partial record and cannot be replayed
    up,         \* runtimes that are open
    events,     \* events[r]: write events in r's memory
    approvals,  \* approvals[r]: r read an approval of sensitive caching when opened
    queue,      \* queue[r]: the call whose storage.append runs, or None
    pc, entry,  \* pc[c], entry[c]: where call c is, and the entry it handles
    used,       \* ids handed out
    faults,     \* failures that may still happen
    published,  \* entries publishVerified has accepted
    served      \* entries that lookups have returned

disk == <<dir, temps, ledger, torn>>
memory == <<up, events, approvals, queue>>
ghosts == <<published, served>>
vars == <<disk, memory, pc, entry, used, faults, ghosts>>

Init ==
    /\ dir = {} /\ temps = {} /\ ledger = {} /\ torn = FALSE
    /\ up = {}
    /\ events = [r \in Runtimes |-> {}]
    /\ approvals = [r \in Runtimes |-> FALSE]
    /\ queue = [r \in Runtimes |-> None]
    /\ pc = [c \in Calls |-> "idle"]
    /\ entry = [c \in Calls |-> None]
    /\ used = 0 /\ faults = MaxFaults
    /\ published = {} /\ served = {}

-----------------------------------------------------------------------------
(* Reading the directory *)

Revisions(m, ns) == {e \in dir : e.meta = m /\ Namespace(e.state) = ns}

\* readRevisions rejects a key directory that holds anything but revisions.
Readable(m, ns) == \A e \in temps : ~(e.meta = m /\ Namespace(e.state) = ns)

Empty(m, ns) == Readable(m, ns) /\ Revisions(m, ns) = {}

RootState(ns) ==
    CASE ns = "verified-artifact" -> "verified"
      [] ns = "negative"          -> "negative"
      [] OTHER                    -> "pending"

\* resolveUniqueHead: S is one chain of allowed transitions from a root of
\* the right state, and e is its end.
IsHead(e, S, ns) ==
    LET ids == {f.id : f \in S}
        roots == {f \in S : f.parent \notin ids}
    IN  /\ e \in S /\ \A f \in S : f.parent # e.id
        /\ \E root \in S : roots = {root} /\ root.state = RootState(ns)
        /\ \A f, g \in S : f.parent = g.id => Allowed(g.state, f.state)
        /\ \A f, g \in S : f.parent = g.parent => f = g

\* inspect returns e as the head of a lineage that is ready.
Inspects(e, m, ns) == Readable(m, ns) /\ IsHead(e, Revisions(m, ns), ns)

\* deriveCacheKeyForEntry: the key of the outcome that excludes this one.
SiblingNamespace(state) == IF state = "negative" THEN "verified-artifact" ELSE "negative"

\* assertPersistentDataPolicy, with codec and HMAC configured.
DataPolicy(r, m) == m \in Sensitive => approvals[r]

-----------------------------------------------------------------------------
(* Starting a call *)

Goto(c, where) == pc' = [pc EXCEPT ![c] = where]

\* The call rejects or returns.
Return(c) == Goto(c, "idle") /\ entry' = [entry EXCEPT ![c] = None]

Start(c, where, e) ==
    /\ pc[c] = "idle" /\ RuntimeOf[c] \in up
    /\ Goto(c, where)
    /\ entry' = [entry EXCEPT ![c] = e]
    /\ UNCHANGED <<disk, memory, faults, ghosts>>

\* The call submits a new entry.
Submit(c, where, m, state, result, detail, parent) ==
    /\ used < MaxEntries /\ used' = used + 1
    /\ DataPolicy(RuntimeOf[c], m)
    /\ Start(c, where, [id |-> used + 1, meta |-> m, state |-> state, result |-> result,
                        detail |-> detail, parent |-> parent])

Begin(c, m) == Submit(c, "target", m, "pending", None, None, 0)

StoreUnverified(c, source, result) ==
    Submit(c, "source", source.meta, "unverified", result, None, source.id)

PublishVerified(c, source, result, proof) ==
    Submit(c, "source", source.meta, "verified", result, proof, source.id)

StoreNegative(c, source, reason) ==
    Submit(c, "source", source.meta, "negative", None, reason, source.id)

\* lookupVerified and lookupNegative, up to their first ledger record.
Lookup(c, m, state) ==
    /\ Start(c, "find", [id |-> 0, meta |-> m, state |-> state])
    /\ UNCHANGED used

-----------------------------------------------------------------------------
(* Storing an entry *)

\* The submitted entry's parent is the head of its lineage, the transition is
\* allowed, and a published result is the one that was stored.
SourceValid(e) ==
    \E p \in dir :
        /\ p.id = e.parent
        /\ Inspects(p, e.meta, Namespace(p.state))
        /\ Allowed(p.state, e.state)
        /\ e.state = "verified" => e.result = p.result

CheckSource(c) ==
    /\ pc[c] = "source"
    /\ \/ SourceValid(entry[c]) /\ Goto(c, "sibling") /\ UNCHANGED entry
       \/ ~SourceValid(entry[c]) /\ Return(c)
    /\ UNCHANGED <<disk, memory, used, faults, ghosts>>

\* assertNoTerminalSibling and the checks that follow it: the evidence of a
\* verified entry, the TTL and the reason of a negative one.
SiblingValid(c) ==
    LET e == entry[c] IN
    /\ Empty(e.meta, SiblingNamespace(e.state))
    /\ e.state = "verified" => ValidEvidence(e.detail)
    /\ e.state = "negative" => e.detail \in Cacheable

CheckSibling(c) ==
    /\ pc[c] = "sibling"
    /\ \/ ~SiblingValid(c) /\ Return(c)
       \/ /\ SiblingValid(c)
          /\ Goto(c, CASE entry[c].state = "unverified" -> "write"
                       [] entry[c].state = "negative"   -> "target"
                       [] entry[c].state = "verified"   -> "authorize")
          /\ UNCHANGED entry
    /\ UNCHANGED <<disk, memory, used, faults, ghosts>>

\* authority.authorize, and the comparison with the configuration snapshot.
Authorize(c) ==
    /\ pc[c] = "authorize"
    /\ \/ /\ entry[c].meta \in Current[RuntimeOf[c]]
          /\ published' = published \cup {entry[c]}
          /\ Goto(c, "target") /\ UNCHANGED entry
       \/ Return(c) /\ UNCHANGED published
    /\ UNCHANGED <<disk, memory, used, faults, served>>

\* A lineage begins in an empty directory.
CheckTarget(c) ==
    LET e == entry[c]
        free == Empty(e.meta, Namespace(e.state))
    IN  /\ pc[c] = "target"
        /\ \/ free /\ Goto(c, "write") /\ UNCHANGED entry
           \/ ~free /\ Return(c)
        /\ UNCHANGED <<disk, memory, used, faults, ghosts>>

\* storage.append: one at a time in a runtime, into a temporary file...
OpenTemp(c) ==
    LET r == RuntimeOf[c] IN
    /\ pc[c] = "write" /\ queue[r] = None
    /\ queue' = [queue EXCEPT ![r] = c]
    /\ temps' = temps \cup {entry[c]}
    /\ Goto(c, "temp")
    /\ UNCHANGED <<dir, ledger, torn, up, events, approvals, entry, used, faults, ghosts>>

\* ... that is renamed.
Rename(c) ==
    /\ pc[c] = "temp"
    /\ dir' = dir \cup {entry[c]} /\ temps' = temps \ {entry[c]}
    /\ queue' = [queue EXCEPT ![RuntimeOf[c]] = None]
    /\ Goto(c, "log")
    /\ UNCHANGED <<ledger, torn, up, events, approvals, entry, used, faults, ghosts>>

\* Defect: a failing append leaves the queue waiting for it.
FailWriteHeld(c) ==
    /\ pc[c] = "temp"
    /\ faults > 0 /\ faults' = faults - 1
    /\ temps' = temps \ {entry[c]}
    /\ Return(c)
    /\ UNCHANGED <<dir, ledger, torn, up, events, approvals, queue, used, ghosts>>

\* storage.append fails: before the rename, with or without the temporary
\* file removed, or after it, in the verification of the published file.
FailWrite(c) ==
    /\ pc[c] = "temp"
    /\ faults > 0 /\ faults' = faults - 1
    /\ \/ temps' = temps \ {entry[c]} /\ UNCHANGED dir
       \/ UNCHANGED <<dir, temps>>
       \/ dir' = dir \cup {entry[c]} /\ temps' = temps \ {entry[c]}
    /\ queue' = [queue EXCEPT ![RuntimeOf[c]] = None]
    /\ Return(c)
    /\ UNCHANGED <<ledger, torn, up, events, approvals, used, ghosts>>

\* The write event is appended and remembered.
LogWrite(c) ==
    LET r == RuntimeOf[c] IN
    /\ pc[c] = "log"
    /\ ledger' = ledger \cup {entry[c]}
    /\ events' = [events EXCEPT ![r] = @ \cup {entry[c]}]
    /\ Return(c)
    /\ UNCHANGED <<dir, temps, torn, up, approvals, queue, used, faults, ghosts>>

\* What a failing or interrupted append of e may do to the ledger file.
LedgerAfterFailure(S) ==
    \/ UNCHANGED <<ledger, torn>>
    \/ ledger' = ledger \cup S /\ UNCHANGED torn
    \/ torn' = TRUE /\ UNCHANGED ledger

FailLog(c) ==
    /\ pc[c] = "log"
    /\ faults > 0 /\ faults' = faults - 1
    /\ LedgerAfterFailure({entry[c]})
    /\ Return(c)
    /\ UNCHANGED <<dir, temps, memory, used, ghosts>>

-----------------------------------------------------------------------------
(* Looking up a result *)

\* The head of the lineage, if there is one.
FindHead(c) ==
    LET m == entry[c].meta
        ns == Namespace(entry[c].state)
    IN  /\ pc[c] = "find"
        /\ \/ \E e \in dir :
                 /\ Inspects(e, m, ns)
                 /\ Goto(c, "conflict")
                 /\ entry' = [entry EXCEPT ![c] = e]
           \/ (~\E e \in dir : Inspects(e, m, ns)) /\ Return(c)
        /\ UNCHANGED <<disk, memory, used, faults, ghosts>>

\* Defect: a conflicting outcome is not looked for.
NoSiblingUnchecked(c) == TRUE

\* assertNoTerminalSibling, of a lookup.
NoSibling(c) == Empty(entry[c].meta, SiblingNamespace(entry[c].state))

\* Defect: any entry in the directory is trusted.
HasMatchingWriteEventNot(c) == TRUE

HasMatchingWriteEvent(c) == entry[c] \in events[RuntimeOf[c]]

\* The tests of the entry itself.  It may always have expired, or not be
\* compatible with the caller's context.
CheckConflict(c) ==
    /\ pc[c] = "conflict"
    /\ \/ /\ NoSibling(c)
          /\ HasMatchingWriteEvent(c)
          /\ entry[c].state = "verified" =>
                entry[c].meta \in Current[RuntimeOf[c]] /\ ValidEvidence(entry[c].detail)
          /\ Goto(c, IF entry[c].state = "verified" THEN "trust" ELSE "reuse")
          /\ UNCHANGED entry
       \/ Return(c)
    /\ UNCHANGED <<disk, memory, used, faults, ghosts>>

\* The authority is asked again, and a sealed payload opened if permitted.
Trust(c) ==
    /\ pc[c] = "trust"
    /\ \/ DataPolicy(RuntimeOf[c], entry[c].meta) /\ Goto(c, "reuse") /\ UNCHANGED entry
       \/ Return(c)
    /\ UNCHANGED <<disk, memory, used, faults, ghosts>>

\* The hit is recorded and the entry returned.
Reuse(c) ==
    /\ pc[c] = "reuse"
    /\ served' = served \cup {entry[c]}
    /\ Return(c)
    /\ UNCHANGED <<disk, memory, used, faults, published>>

\* An audit record of a lookup cannot be written: the call rejects.
FailLookup(c) ==
    /\ pc[c] \in {"find", "conflict", "trust", "reuse"}
    /\ faults > 0 /\ faults' = faults - 1
    /\ LedgerAfterFailure({})
    /\ Return(c)
    /\ UNCHANGED <<dir, temps, memory, used, ghosts>>

-----------------------------------------------------------------------------
(* The environment *)

\* open() replays the ledger; a torn one is refused.  The ledger's latest
\* decision on sensitive caching, which others write, is either one.
Open(r, approved) ==
    /\ r \notin up /\ ~torn
    /\ up' = up \cup {r}
    /\ events' = [events EXCEPT ![r] = ledger]
    /\ approvals' = [approvals EXCEPT ![r] = approved]
    /\ UNCHANGED <<disk, queue, pc, entry, used, faults, ghosts>>

\* Defect: the calls of a process that ended are still known.
CrashKeepsEntries(r) ==
    LET mine == {c \in Calls : RuntimeOf[c] = r} IN
    /\ r \in up /\ faults > 0 /\ faults' = faults - 1
    /\ up' = up \ {r}
    /\ pc' = [c \in Calls |-> IF c \in mine THEN "idle" ELSE pc[c]]
    /\ UNCHANGED <<dir, temps, ledger, torn, events, approvals, queue, entry, used, ghosts>>

\* The process ends; of its calls only files remain.
Crash(r) ==
    LET mine == {c \in Calls : RuntimeOf[c] = r} IN
    /\ r \in up /\ faults > 0 /\ faults' = faults - 1
    /\ up' = up \ {r}
    /\ events' = [events EXCEPT ![r] = {}] /\ approvals' = [approvals EXCEPT ![r] = FALSE]
    /\ queue' = [queue EXCEPT ![r] = None]
    /\ pc' = [c \in Calls |-> IF c \in mine THEN "idle" ELSE pc[c]]
    /\ entry' = [c \in Calls |-> IF c \in mine THEN None ELSE entry[c]]
    /\ LedgerAfterFailure({entry[c] : c \in {d \in mine : pc[d] = "log"}})
    /\ UNCHANGED <<dir, temps, used, ghosts>>

\* A well-formed revision is put into storage without the runtime.
StoreDirectly(source, proof) ==
    /\ used < MaxEntries /\ used' = used + 1
    /\ dir' = dir \cup {[id |-> used + 1, meta |-> source.meta, state |-> "verified",
                         result |-> source.result, detail |-> proof, parent |-> source.id]}
    /\ UNCHANGED <<temps, ledger, torn, memory, pc, entry, faults, ghosts>>

-----------------------------------------------------------------------------
\* What a call does next.
Progress(c) ==
    \/ CheckSource(c) \/ CheckSibling(c) \/ Authorize(c) \/ CheckTarget(c)
    \/ OpenTemp(c) \/ Rename(c) \/ LogWrite(c)
    \/ FindHead(c) \/ CheckConflict(c) \/ Trust(c) \/ Reuse(c)

Next ==
    \/ \E c \in Calls :
          \/ Progress(c)
          \/ FailWrite(c) \/ FailLog(c) \/ FailLookup(c)
          \/ \E m \in Metas :
                Begin(c, m) \/ \E s \in {"verified", "negative"} : Lookup(c, m, s)
          \/ \E source \in dir :
                \/ \E r \in Results :
                      StoreUnverified(c, source, r) \/ \E p \in Proofs : PublishVerified(c, source, r, p)
                \/ \E reason \in Cacheable \cup Transient : StoreNegative(c, source, reason)
    \/ \E r \in Runtimes : Crash(r) \/ \E a \in BOOLEAN : Open(r, a)
    \/ \E source \in dir, p \in Proofs : source.state = "unverified" /\ StoreDirectly(source, p)

Spec == Init /\ [][Next]_vars

-----------------------------------------------------------------------------
(***************************************************************************)
(* Properties                                                              *)
(***************************************************************************)

Lookups == [id : {0}, meta : Metas, state : {"verified", "negative"}]

\* Every variable has its type, and only a call in progress has an entry: a
\* submitted one, or for a lookup that has not found it yet its key.
TypeOK ==
    /\ dir \subseteq Entries /\ temps \subseteq Entries /\ ledger \subseteq Entries
    /\ torn \in BOOLEAN
    /\ up \subseteq Runtimes
    /\ events \in [Runtimes -> SUBSET Entries]
    /\ approvals \in [Runtimes -> BOOLEAN]
    /\ queue \in [Runtimes -> Calls \cup {None}]
    /\ pc \in [Calls -> {"idle", "source", "sibling", "authorize", "target", "write",
                         "temp", "log", "find", "conflict", "trust", "reuse"}]
    /\ entry \in [Calls -> Entries \cup Lookups \cup {None}]
    /\ \A c \in Calls :
          entry[c] \in (CASE pc[c] = "idle" -> {None} [] pc[c] = "find" -> Lookups [] OTHER -> Entries)
    /\ used \in 0 .. MaxEntries /\ faults \in 0 .. MaxFaults
    /\ published \subseteq Entries /\ served \subseteq Entries

\* "Cross-process safety comes from immutable revisions and deterministic
\* conflict quarantine": for one key all lookups, of any runtime, that return
\* something return the same entry.  In particular no one is told both that
\* there is a verified result and that the task failed, although publishing
\* and storing a negative outcome may pass each other's checks.
OneOutcomeServed ==
    \A e, f \in served : e.meta = f.meta => e = f

\* "An entry without a corresponding successful ledger event is unaudited and
\* never reusable": what a lookup returns has its write event in the ledger
\* file, and a verified result came through publishVerified with complete and
\* successful evidence and is the result stored for that request, whatever
\* crashed, failed, or was put into the directory by others.
ServedWasPublished ==
    \A e \in served :
        /\ e \in dir /\ e \in ledger
        /\ e.state = "verified" =>
              /\ e \in published /\ e.detail.failed = {}
              /\ \E p \in dir : p.id = e.parent /\ p.state = "unverified" /\ p.result = e.result

\* An append that fails, or whose process ends, never leaves the storage queue
\* taken: whoever has it is at work on the directory, and everyone else who
\* waits for it will have a turn.
QueueHasWriter ==
    \A r \in Runtimes :
        queue[r] # None =>
            /\ r \in up /\ RuntimeOf[queue[r]] = r
            /\ pc[queue[r]] = "temp" /\ entry[queue[r]] \in temps
=============================================================================
