------------------------------ MODULE Accounts ------------------------------
(***************************************************************************)
(* Registration, sessions, agencies and account status (apps/api:          *)
(* identity/service, admin/service).  A user is named by the email; an     *)
(* agency by its slug, which is UNIQUE.  Credentials are right, sessions   *)
(* do not grow old.  A password check, hashing and tokens' form are left   *)
(* out; the status "suspended" stands for "banned" too.                    *)
(***************************************************************************)
EXTENDS ApiCalls

CONSTANTS
    Agencies,      \* slugs
    OldMembers     \* memberships that exist at the start

Roles == {"member", "admin", "owner"}

\* There is a UNIQUE index on agency and user; "old" names no call.
ASSUME AccountsAssumption ==
    /\ OldMembers \subseteq [agency : Agencies, user : Users, role : Roles]
    /\ \A m, n \in OldMembers : m.agency = n.agency /\ m.user = n.user => m = n
    /\ "old" \notin Calls \cup {None}

VARIABLES
    agencies,      \* agencies[a]: the call that created it, "old", or None
    memberships    \* all active: no operation removes or invites a member

accountVars == <<agencies, memberships>>

AccountsInit ==
    /\ agencies = [a \in Agencies |-> IF \E m \in OldMembers : m.agency = a THEN "old" ELSE None]
    /\ memberships = OldMembers

-----------------------------------------------------------------------------
Exists(u) == users[u] # "none"

\* registerUser: the SELECT.
Register(c) ==
    /\ At(c, "register", "start")
    /\ IF Exists(req[c].user) THEN Return(c) ELSE Goto(c, "insert", None)
    /\ HandlerFrame /\ UNCHANGED accountVars

\* The INSERTs commit, or meet UNIQUE (email_normalized, provider).
InsertUser(c) ==
    /\ At(c, "register", "insert")
    /\ IF Exists(req[c].user)
       THEN Return(c) /\ UNCHANGED <<users, barred>>
       ELSE /\ Goto(c, "session", req[c].user)
            /\ users' = [users EXCEPT ![req[c].user] = "active"]
            /\ Unbar(users', sessions)
    /\ UNCHANGED <<control, faults, sessions, revoked, limits, accountVars>>

\* authenticateUser.
Login(c) ==
    /\ At(c, "login", "start")
    /\ IF users[req[c].user] = "active" THEN Goto(c, "session", req[c].user) ELSE Return(c)
    /\ HandlerFrame /\ UNCHANGED accountVars

\* createSession, after registerUser or authenticateUser: a new token, for
\* the user as it was then.
CreateSession(c) ==
    /\ At(c, "register", "session") \/ At(c, "login", "session")
    /\ \E t \in Tokens :
          /\ sessions[t] = None
          /\ sessions' = [sessions EXCEPT ![t] = mem[c]]
    /\ Unbar(users, sessions')
    /\ Finish(c, mem[c])
    /\ UNCHANGED <<control, faults, users, revoked, limits, accountVars>>

\* revokeSession, of the session the call was made with.
Logout(c) ==
    /\ At(c, "logout", "start")
    /\ revoked' = revoked \cup {req[c].token}
    /\ Finish(c, req[c].token)
    /\ UNCHANGED <<control, faults, users, sessions, barred, limits, accountVars>>

-----------------------------------------------------------------------------
\* createAgency: the first transaction, which may meet UNIQUE (slug).
CreateAgency(c) ==
    LET a == req[c].agency IN
    /\ At(c, "createAgency", "start")
    /\ IF agencies[a] # None
       THEN Return(c) /\ UNCHANGED agencies
       ELSE /\ Goto(c, "owner", None)
            /\ agencies' = [agencies EXCEPT ![a] = c]
    /\ HandlerFrame /\ UNCHANGED memberships

\* createAgency: the second transaction.
AddOwner(c) ==
    /\ At(c, "createAgency", "owner")
    /\ memberships' = memberships \cup
          {[agency |-> req[c].agency, user |-> actor[c], role |-> "owner"]}
    /\ Finish(c, req[c].agency)
    /\ HandlerFrame /\ UNCHANGED agencies

Membership(a, u) == {m \in memberships : m.agency = a /\ m.user = u}

\* requireActiveMembership(..., 'admin').
RequireActiveMembership(c) ==
    /\ At(c, "addMember", "start")
    /\ IF \E m \in Membership(req[c].agency, actor[c]) : m.role # "member"
       THEN Goto(c, "existing", None) ELSE Return(c)
    /\ HandlerFrame /\ UNCHANGED accountVars

\* addAgencyMember: getMembership.
GetMembership(c) ==
    /\ At(c, "addMember", "existing")
    /\ IF Membership(req[c].agency, req[c].user) # {} THEN Return(c) ELSE Goto(c, "insert", None)
    /\ HandlerFrame /\ UNCHANGED accountVars

\* addAgencyMember: the INSERT, which fails on a member or on no user.
InsertMember(c) ==
    /\ At(c, "addMember", "insert")
    /\ IF Membership(req[c].agency, req[c].user) # {} \/ ~Exists(req[c].user)
       THEN Return(c) /\ UNCHANGED memberships
       ELSE /\ memberships' = memberships \cup
                  {[agency |-> req[c].agency, user |-> req[c].user, role |-> req[c].role]}
            /\ Finish(c, req[c].role)
    /\ HandlerFrame /\ UNCHANGED agencies

-----------------------------------------------------------------------------
\* setUserStatus: the row and its audit entry in one transaction.
SetUserStatus(c) ==
    /\ At(c, "setStatus", "start") /\ req[c].entity = "user"
    /\ IF ~Exists(req[c].id)
       THEN Return(c) /\ UNCHANGED <<users, barred>>
       ELSE /\ users' = [users EXCEPT ![req[c].id] = req[c].status]
            /\ Unbar(users', sessions)
            /\ Finish(c, req[c].status)
    /\ UNCHANGED <<control, faults, sessions, revoked, limits, accountVars>>

AccountsStep(c) ==
    \/ Register(c) \/ InsertUser(c) \/ Login(c) \/ CreateSession(c) \/ Logout(c)
    \/ CreateAgency(c) \/ AddOwner(c)
    \/ RequireActiveMembership(c) \/ GetMembership(c) \/ InsertMember(c)
    \/ SetUserStatus(c)

-----------------------------------------------------------------------------
AccountsTypeOK ==
    /\ agencies \in [Agencies -> Calls \cup {"old", None}]
    /\ memberships \subseteq [agency : Agencies, user : Users, role : Roles]

\* An agency without an owner can be administered by nobody, and its slug
\* stays taken: that happens only to a call cut short between its two
\* transactions, and no race gives a user two roles in one agency.
AgenciesHaveOwners ==
    /\ \A a \in Agencies : agencies[a] \in Calls =>
          \/ \E m \in memberships : m.agency = a /\ m.role = "owner" /\ m.user = actor[agencies[a]]
          \/ wrote[agencies[a]] = None
    /\ \A m, n \in memberships : m.agency = n.agency /\ m.user = n.user => m = n
=============================================================================
