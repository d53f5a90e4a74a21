------------------------------ MODULE ApiCalls ------------------------------
(***************************************************************************)
(* HTTP calls of the API and what they pass before a handler runs          *)
(* (apps/api: guard, identity/service, security/rate-limit, routes).       *)
(*                                                                         *)
(* A call is what one client asks once.  A step of it is one transaction   *)
(* or one Redis command; where READ COMMITTED lets another transaction in  *)
(* between two statements of one transaction, a step is one statement.     *)
(* Bodies are assumed valid, so that schema errors do not appear; calls    *)
(* that only read are left out.                                            *)
(***************************************************************************)
EXTENDS Naturals, FiniteSets

CONSTANTS
    Calls,
    Users,
    Tokens,        \* session tokens
    OldSessions,   \* OldSessions[t]: the user of a session at the start, or None
    Admins,        \* users with the role platform_admin, which no call gives or takes
    Limit,         \* calls a client may make in a window
    None,
    MaxFaults      \* bound of the model: failing commands and calls cut short

ASSUME ApiAssumption ==
    /\ OldSessions \in [Tokens -> Users \cup {None}] /\ Admins \subseteq Users
    /\ None \notin Users \cup Tokens \cup Calls
    /\ Limit \in Nat \ {0} /\ MaxFaults \in Nat

\* Calls without requireAuth, with adminPre and with rateLimit.
Public == {"register", "login", "ingest"}
Administrative == {"setStatus"}
Limited == Public \cup Administrative \cup {"createConversation", "send"}
Keys == Limited \X (Users \cup {None})

VARIABLES
    pc,        \* pc[c]: the step call c is at
    req,       \* req[c]: what it asks
    actor,     \* actor[c]: request.user
    mem,       \* mem[c]: what the handler has read
    wrote,     \* wrote[c]: what the call has committed
    after,     \* pairs <<c, d>>: d was made after c had ended
    faults,    \* failures that may still happen
    users,     \* users[u]: users.status, or "none"
    sessions,  \* sessions[t]: the user of a session, or None
    revoked,   \* tokens with a revoked_at
    counters,  \* counters[k]: the rate limiter's counter
    armed,     \* counters that will expire
    unarmed,   \* counters a failure has deprived of their one PEXPIRE
    barred     \* calls that at no time since they were made had a right to be

control == <<req, actor, after>>
access == <<users, sessions, revoked, barred>>
limits == <<counters, armed, unarmed>>
apiVars == <<pc, mem, wrote, control, faults, access, limits>>

ApiInit ==
    /\ pc = [c \in Calls |-> "new"] /\ req = [c \in Calls |-> None]
    /\ actor = [c \in Calls |-> None] /\ mem = [c \in Calls |-> None]
    /\ wrote = [c \in Calls |-> None] /\ after = {} /\ faults = MaxFaults
    /\ users = [u \in Users |-> IF \E t \in Tokens : OldSessions[t] = u THEN "active" ELSE "none"]
    /\ sessions = OldSessions /\ revoked = {}
    /\ counters = [k \in Keys |-> 0] /\ armed = {} /\ unarmed = {}
    /\ barred = {}

-----------------------------------------------------------------------------
Goto(c, where, v) ==
    /\ pc' = [pc EXCEPT ![c] = where]
    /\ mem' = [mem EXCEPT ![c] = v]
    /\ UNCHANGED wrote

\* The call is answered without an effect, or as its last one stands.
Return(c) == Goto(c, "done", None)

\* The last transaction of the call commits.
Finish(c, v) ==
    /\ pc' = [pc EXCEPT ![c] = "done"] /\ mem' = [mem EXCEPT ![c] = None]
    /\ wrote' = [wrote EXCEPT ![c] = v]

At(c, op, where) == pc[c] = where /\ req[c].op = op

Ended(c) == pc[c] = "done"
Committed(c, op) == wrote[c] # None /\ req[c].op = op
Overlap(c, d) == c # d /\ <<c, d>> \notin after /\ <<d, c>> \notin after

-----------------------------------------------------------------------------
(* Authentication *)

\* Defect: the account's present state is not looked at.
UserOfSessionStale(token, u) == sessions[token] = u /\ token \notin revoked

\* getUserFromSession returns u.
UserOfSession(token, u) ==
    sessions[token] = u /\ token \notin revoked /\ users[u] = "active"

\* A call with the token has a right to be, by these tables.
Entitled(token, us, ss) ==
    \E u \in Users : ss[token] = u /\ token \notin revoked /\ us[u] = "active"

\* What follows authentication.
Guarded(q) ==
    IF q.op \in Administrative THEN "admin" ELSE IF q.op \in Limited THEN "limit" ELSE "start"

Arrive(c, q) ==
    /\ pc[c] = "new"
    /\ pc' = [pc EXCEPT ![c] = IF q.op \in Public THEN Guarded(q) ELSE "auth"]
    /\ req' = [req EXCEPT ![c] = q]
    /\ after' = after \cup {<<d, c>> : d \in {d \in Calls : Ended(d)}}
    /\ barred' = IF q.op \in Public \/ Entitled(q.token, users, sessions)
                 THEN barred ELSE barred \cup {c}
    /\ UNCHANGED <<mem, wrote, actor, faults, users, sessions, revoked, limits>>

\* createAuthPreHandler.
Authenticate(c) ==
    /\ pc[c] = "auth"
    /\ \/ \E u \in Users :
             /\ UserOfSession(req[c].token, u)
             /\ Goto(c, Guarded(req[c]), None)
             /\ actor' = [actor EXCEPT ![c] = u]
       \/ /\ \A u \in Users : ~UserOfSession(req[c].token, u)
          /\ Return(c) /\ UNCHANGED actor
    /\ UNCHANGED <<req, after, faults, access, limits>>

RequirePlatformAdmin(c) ==
    /\ pc[c] = "admin"
    /\ IF actor[c] \in Admins THEN Goto(c, "limit", None) ELSE Return(c)
    /\ UNCHANGED <<control, faults, access, limits>>

\* Calls that have had a right to be once users or sessions are changed.
Unbar(us, ss) ==
    barred' = {c \in barred : ~Entitled(req[c].token, us, ss)}

-----------------------------------------------------------------------------
(* createRateLimitPre *)

\* clientKey, with the prefix; a call without a user is counted by its address.
Key(c) == <<req[c].op, actor[c]>>

Incr(c) ==
    LET n == counters[Key(c)] + 1 IN
    /\ pc[c] = "limit"
    /\ counters' = [counters EXCEPT ![Key(c)] = n]
    /\ \/ n = 1 /\ Goto(c, "arm", None)
       \/ n \in 2 .. Limit /\ Goto(c, "start", None)
       \/ n > Limit /\ n # 1 /\ Return(c)
    /\ UNCHANGED <<control, faults, access, armed, unarmed>>

\* Defect: only a counter that has reached its limit is given an expiry.
ArmAtLimit(c) ==
    /\ pc[c] = "arm" /\ Goto(c, "start", None)
    /\ armed' = IF counters[Key(c)] = Limit THEN armed \cup {Key(c)} ELSE armed
    /\ UNCHANGED <<control, faults, access, counters, unarmed>>

\* PEXPIRE.
Arm(c) ==
    /\ pc[c] = "arm" /\ Goto(c, "start", None)
    /\ armed' = armed \cup {Key(c)}
    /\ UNCHANGED <<control, faults, access, counters, unarmed>>

\* What a command has done whose reply does not come: nothing or its work.
\* PEXPIRE is sent only when INCR has answered 1.
CutShort(c) ==
    LET k == Key(c)
        Deprive == unarmed' = unarmed \cup {k}
    IN  \/ pc[c] = "limit" /\ UNCHANGED limits
        \/ /\ pc[c] = "limit" /\ counters' = [counters EXCEPT ![k] = @ + 1]
           /\ IF counters[k] = 0 THEN Deprive ELSE UNCHANGED unarmed
           /\ UNCHANGED armed
        \/ pc[c] = "arm" /\ Deprive /\ UNCHANGED <<counters, armed>>
        \/ pc[c] = "arm" /\ armed' = armed \cup {k} /\ UNCHANGED <<counters, unarmed>>

\* A Redis command fails: the call is allowed.
FailOpen(c) ==
    /\ faults > 0 /\ faults' = faults - 1
    /\ CutShort(c) /\ Goto(c, "start", None)
    /\ UNCHANGED <<control, access>>

\* The counter expires.
Elapse(k) ==
    /\ k \in armed /\ armed' = armed \ {k}
    /\ counters' = [counters EXCEPT ![k] = 0]
    /\ UNCHANGED <<pc, mem, wrote, control, faults, access, unarmed>>

\* A transaction is rolled back or the process ends: the call goes no further.
Abort(c) ==
    /\ pc[c] \notin {"new", "done"}
    /\ faults > 0 /\ faults' = faults - 1
    /\ CutShort(c) \/ (pc[c] \notin {"limit", "arm"} /\ UNCHANGED limits)
    /\ Return(c)
    /\ UNCHANGED <<control, access>>

PreHandler(c) ==
    Authenticate(c) \/ RequirePlatformAdmin(c) \/ Incr(c) \/ Arm(c) \/ FailOpen(c) \/ Abort(c)

\* A handler's frame: what no handler touches but those of Accounts.
HandlerFrame == UNCHANGED <<control, faults, access, limits>>

-----------------------------------------------------------------------------
ApiTypeOK ==
    /\ DOMAIN pc = Calls /\ DOMAIN req = Calls /\ DOMAIN mem = Calls /\ DOMAIN wrote = Calls
    /\ actor \in [Calls -> Users \cup {None}]
    /\ after \subseteq Calls \X Calls
    /\ faults \in 0 .. MaxFaults
    /\ users \in [Users -> {"none", "active", "suspended"}]
    /\ sessions \in [Tokens -> Users \cup {None}] /\ revoked \subseteq Tokens
    /\ counters \in [Keys -> Nat] /\ armed \subseteq Keys /\ unarmed \subseteq Keys
    /\ barred \subseteq Calls

\* "A suspended or banned user must not keep using an already-issued session
\* token" (getUserFromSession): a call made when its user was suspended or
\* its session revoked, and remained so, is not let in, whatever logins and
\* status changes it races with.
LockedOut == \A c \in barred : pc[c] \in {"auth", "done"} /\ wrote[c] = None

\* k will expire, or is about to be given its expiry.
Expires(k) == k \in armed \/ \E c \in Calls : pc[c] = "arm" /\ Key(c) = k

\* Every counter expires, whatever calls race between INCR and PEXPIRE,
\* except that each failure of a command or a process may have deprived one.
WindowExpires ==
    /\ \A k \in Keys : counters[k] > 0 => Expires(k) \/ k \in unarmed
    /\ Cardinality(unarmed) <= MaxFaults - faults

\* "A false-positive block on a Redis blip is worse than a brief window of
\* unlimited requests": a client over the limit is let in again one day.
BlocksEnd == \A k \in Keys : counters[k] > Limit => Expires(k)
=============================================================================
