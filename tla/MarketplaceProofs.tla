------------------------- MODULE MarketplaceProofs -------------------------
(***************************************************************************)
(* Who is let in and what the rate limiter leaves behind, for any number   *)
(* of calls, users, tokens and any workload.  A handler is reduced to its  *)
(* shape first: it moves a call that is past the pre-handlers, and touches *)
(* the tables of access in one of three ways.                              *)
(***************************************************************************)
EXTENDS Marketplace, FiniteSetTheorems, TLAPS

PreSteps == {"new", "auth", "admin", "limit", "arm", "done"}

\* Call c goes on to w; if it has written something it is done.
Moves(c, w) ==
    /\ pc' = [pc EXCEPT ![c] = w]
    /\ \E v : mem' = [mem EXCEPT ![c] = v]
    /\ wrote' = wrote \/ (w = "done" /\ \E v : wrote' = [wrote EXCEPT ![c] = v])

\* Access is revoked, or changed with the barred calls looked at again.
AccessChange ==
    \/ UNCHANGED access
    \/ UNCHANGED <<users, sessions, barred>> /\ revoked \subseteq revoked'
    \/ UNCHANGED revoked /\ Unbar(users', sessions')

HandlerShape(c) ==
    /\ pc[c] \notin PreSteps
    /\ \E w : w \notin PreSteps \ {"done"} /\ Moves(c, w)
    /\ AccessChange
    /\ UNCHANGED <<control, faults, limits>>

\* The shape of a step that leaves access alone.
LEMMA FramedShape ==
    ASSUME NEW c, NEW w, pc[c] \notin PreSteps, w \notin PreSteps \ {"done"}, Moves(c, w), HandlerFrame
    PROVE  HandlerShape(c)
BY DEF HandlerShape, HandlerFrame, AccessChange

\* What Goto, Return and Finish are.
LEMMA GotoMoves == ASSUME NEW c, NEW w, NEW v, Goto(c, w, v) PROVE Moves(c, w)
BY DEF Goto, Moves

LEMMA ReturnMoves == ASSUME NEW c, Return(c) PROVE Moves(c, "done")
BY DEF Goto, Return, Moves

LEMMA FinishMoves == ASSUME NEW c, NEW v, Finish(c, v) PROVE Moves(c, "done")
BY DEF Finish, Moves

\* The steps of accounts.
LEMMA AccountsShape == ASSUME NEW c, AccountsStep(c) PROVE HandlerShape(c)
<1>1. CASE Register(c) \/ Login(c) \/ GetMembership(c) \/ RequireActiveMembership(c)
  BY <1>1, FramedShape, GotoMoves, ReturnMoves
  DEF Register, Login, GetMembership, RequireActiveMembership, At, PreSteps
<1>2. CASE CreateAgency(c) \/ AddOwner(c) \/ InsertMember(c)
  BY <1>2, FramedShape, GotoMoves, ReturnMoves, FinishMoves
  DEF CreateAgency, AddOwner, InsertMember, At, PreSteps
<1>3. CASE InsertUser(c)
  <2>1. AccessChange
    BY <1>3 DEF InsertUser, AccessChange, access
  <2>2. pc[c] \notin PreSteps /\ UNCHANGED <<control, faults, limits>>
    BY <1>3 DEF InsertUser, At, PreSteps
  <2>3. Moves(c, "done") \/ Moves(c, "session")
    BY <1>3, GotoMoves, ReturnMoves DEF InsertUser
  <2> QED BY <2>1, <2>2, <2>3 DEF HandlerShape, PreSteps
<1>4. CASE CreateSession(c)
  <2>1. AccessChange
    BY <1>4 DEF CreateSession, AccessChange, access, Unbar
  <2>2. pc[c] \notin PreSteps /\ UNCHANGED <<control, faults, limits>>
    BY <1>4 DEF CreateSession, At, PreSteps
  <2>3. Moves(c, "done")
    BY <1>4, FinishMoves DEF CreateSession
  <2> QED BY <2>1, <2>2, <2>3 DEF HandlerShape
<1>5. CASE Logout(c)
  <2>1. AccessChange
    BY <1>5 DEF Logout, AccessChange
  <2>2. pc[c] \notin PreSteps /\ UNCHANGED <<control, faults, limits>>
    BY <1>5 DEF Logout, At, PreSteps
  <2>3. Moves(c, "done")
    BY <1>5, FinishMoves DEF Logout
  <2> QED BY <2>1, <2>2, <2>3 DEF HandlerShape
<1>6. CASE SetUserStatus(c)
  <2>1. AccessChange
    BY <1>6 DEF SetUserStatus, AccessChange, access
  <2>2. pc[c] \notin PreSteps /\ UNCHANGED <<control, faults, limits>>
    BY <1>6 DEF SetUserStatus, At, PreSteps
  <2>3. Moves(c, "done")
    BY <1>6, ReturnMoves, FinishMoves DEF SetUserStatus
  <2> QED BY <2>1, <2>2, <2>3 DEF HandlerShape
<1> QED BY <1>1, <1>2, <1>3, <1>4, <1>5, <1>6 DEF AccountsStep

\* The steps of conversations and preferences.
LEMMA MessagingShape == ASSUME NEW c, MessagingStep(c) PROVE HandlerShape(c)
<1>1. CASE FindTarget(c) \/ CreateConversation(c) \/ RequireParticipant(c) \/ BeginSend(c)
  BY <1>1, FramedShape, GotoMoves, ReturnMoves, FinishMoves
  DEF FindTarget, CreateConversation, RequireParticipant, BeginSend, At, PreSteps
<1>2. CASE CommitSend(c) \/ LastMessage(c) \/ WriteMark(c)
  BY <1>2, FramedShape, GotoMoves, FinishMoves
  DEF CommitSend, LastMessage, WriteMark, At, PreSteps
<1>3. CASE SelectPreferences(c) \/ InsertPreferences(c) \/ UpdatePreferences(c)
  BY <1>3, FramedShape, GotoMoves, ReturnMoves, FinishMoves
  DEF SelectPreferences, InsertPreferences, UpdatePreferences, HavePreferences, At, PreSteps
<1> QED BY <1>1, <1>2, <1>3 DEF MessagingStep

\* The steps of listings, requests and properties.
LEMMA CatalogueShape == ASSUME NEW c, CatalogueStep(c) PROVE HandlerShape(c)
<1>1. CASE FindByUrl(c) \/ FindByPhone(c) \/ GetExternal(c)
  BY <1>1, FramedShape, GotoMoves DEF FindByUrl, FindByPhone, GetExternal, At, PreSteps
<1>2. CASE UpdateExternal(c) \/ InsertExternal(c)
  BY <1>2, FramedShape, FinishMoves DEF UpdateExternal, InsertExternal, At, PreSteps
<1>3. CASE CreateRequest(c) \/ LoadRequest(c) \/ WriteRequest(c) \/ LoadOwnedRequest(c)
  BY <1>3, FramedShape, GotoMoves, ReturnMoves, FinishMoves
  DEF CreateRequest, LoadRequest, WriteRequest, LoadOwnedRequest, At, PreSteps
<1>4. CASE FetchCandidates(c) \/ DeleteMatches(c) \/ PersistMatches(c)
  BY <1>4, FramedShape, GotoMoves, FinishMoves
  DEF FetchCandidates, DeleteMatches, PersistMatches, At, PreSteps
<1>5. CASE AgencyOfProperty(c) \/ CreateProperty(c) \/ LoadProperty(c)
  BY <1>5, FramedShape, GotoMoves, ReturnMoves, FinishMoves
  DEF AgencyOfProperty, CreateProperty, LoadProperty, At, PreSteps
<1>6. CASE UpdateProperty(c) \/ ChangePropertyStatus(c) \/ ResetPrimary(c) \/ InsertImage(c)
  BY <1>6, FramedShape, GotoMoves, FinishMoves
  DEF UpdateProperty, ChangePropertyStatus, ResetPrimary, InsertImage, At, PreSteps
<1>7. CASE SetListingStatus(c) \/ SetRequestStatus(c)
  BY <1>7, FramedShape, ReturnMoves, FinishMoves
  DEF SetListingStatus, SetRequestStatus, At, PreSteps
<1> QED BY <1>1, <1>2, <1>3, <1>4, <1>5, <1>6, <1>7 DEF CatalogueStep

-----------------------------------------------------------------------------
Counted ==
    /\ DOMAIN pc = Calls /\ pc = [c \in Calls |-> pc[c]]
    /\ DOMAIN wrote = Calls /\ wrote = [c \in Calls |-> wrote[c]]
    /\ DOMAIN mem = Calls /\ mem = [c \in Calls |-> mem[c]]
    /\ DOMAIN req = Calls /\ req = [c \in Calls |-> req[c]]
    /\ actor = [c \in Calls |-> actor[c]]
    /\ counters \in [Keys -> Nat]

\* A barred call has no right by the present tables either, and a call that
\* has not been made has written nothing.
Barred ==
    /\ \A c \in barred : ~Entitled(req[c].token, users, sessions)
    /\ \A c \in Calls : pc[c] = "new" => wrote[c] = None /\ c \notin barred

\* A counter expires or has been deprived of its expiry.
Expiring == \A k \in Keys : counters[k] > 0 => Expires(k) \/ k \in unarmed

\* Each deprived counter has cost a fault.
Deprived ==
    /\ faults \in Nat /\ IsFiniteSet(unarmed)
    /\ Cardinality(unarmed) <= MaxFaults - faults

AccessInv == Counted /\ Barred /\ LockedOut /\ Expiring /\ Deprived /\ barred \subseteq Calls

LEMMA InitAccess == Init => AccessInv
<1> SUFFICES ASSUME Init PROVE AccessInv
  OBVIOUS
<1>1. Counted /\ Barred /\ LockedOut /\ Expiring /\ barred \subseteq Calls
  BY DEF Init, ApiInit, Counted, Barred, LockedOut, Expiring
<1>2. Deprived
  BY FS_EmptySet, ApiAssumption DEF Init, ApiInit, Deprived
<1> QED BY <1>1, <1>2 DEF AccessInv

\* A fault deprives one counter at most.
LEMMA FaultDeprives ==
    ASSUME Deprived, faults > 0, faults' = faults - 1,
           unarmed' = unarmed \/ \E k : unarmed' = unarmed \cup {k}
    PROVE  Deprived'
<1>1. Cardinality(unarmed) \in Nat /\ faults \in Nat /\ MaxFaults \in Nat
  BY FS_CardinalityType, ApiAssumption DEF Deprived
<1>2. CASE unarmed' = unarmed
  BY <1>1, <1>2 DEF Deprived
<1>3. ASSUME NEW k, unarmed' = unarmed \cup {k} PROVE Deprived'
  <2>1. /\ IsFiniteSet(unarmed \cup {k})
        /\ Cardinality(unarmed \cup {k}) =
              IF k \in unarmed THEN Cardinality(unarmed) ELSE Cardinality(unarmed) + 1
    BY FS_AddElement DEF Deprived
  <2>2. Cardinality(unarmed') <= Cardinality(unarmed) + 1 /\ Cardinality(unarmed') \in Nat
    BY <2>1, <1>1, <1>3
  <2> QED BY <2>1, <2>2, <1>1, <1>3 DEF Deprived
<1> QED BY <1>2, <1>3

LEMMA HandlerAccess ==
    ASSUME AccessInv, NEW c \in Calls, HandlerShape(c)
    PROVE  AccessInv'
<1> USE DEF AccessInv, control, limits
<1>1. PICK w : w # "new" /\ Moves(c, w)
  BY DEF HandlerShape, PreSteps
<1>2. pc[c] \notin PreSteps /\ AccessChange
      /\ UNCHANGED <<req, actor, after, counters, armed, unarmed, faults>>
  BY DEF HandlerShape
<1>3. \A d \in Calls : d # c => pc'[d] = pc[d] /\ wrote'[d] = wrote[d]
  BY <1>1 DEF Moves, Counted
<1>4. pc'[c] = w
  BY <1>1 DEF Moves, Counted
<1>5. Counted'
  BY <1>1, <1>2 DEF Counted, Moves
<1>6. barred' \subseteq barred /\ \A d \in barred' : ~Entitled(req[d].token, users, sessions)'
  <2>1. CASE UNCHANGED access
    BY <1>2, <2>1 DEF access, Entitled, Barred
  <2>2. CASE UNCHANGED <<users, sessions, barred>> /\ revoked \subseteq revoked'
    BY <1>2, <2>2 DEF Entitled, Barred
  <2>3. CASE UNCHANGED revoked /\ Unbar(users', sessions')
    BY <1>2, <2>3 DEF Unbar, Entitled
  <2> QED BY <1>2, <2>1, <2>2, <2>3 DEF AccessChange
<1>7. Barred' /\ LockedOut' /\ barred' \subseteq Calls
  <2>1. \A d \in barred' : d # c
    BY <1>2, <1>6 DEF LockedOut, PreSteps
  <2>2. LockedOut' /\ barred' \subseteq Calls
    BY <1>3, <1>6, <2>1 DEF LockedOut
  <2>3. Barred'
    BY <1>1, <1>3, <1>4, <1>6 DEF Barred
  <2> QED BY <2>2, <2>3
<1>8. Expiring' /\ Deprived'
  BY <1>2, <1>3 DEF Expiring, Expires, Deprived, PreSteps, Key
<1> QED BY <1>5, <1>7, <1>8

\* A call arrives.
LEMMA ArriveAccess ==
    ASSUME AccessInv, NEW c \in Calls, NEW q, Arrive(c, q)
    PROVE  AccessInv'
<1> USE DEF AccessInv, limits
<1>1. Counted' /\ pc[c] = "new" /\ UNCHANGED <<wrote, actor, users, sessions, revoked, limits, faults>>
  BY DEF Arrive, Counted
<1>2. pc'[c] \in {"auth", "admin", "limit", "start"} /\ req'[c] = q
  BY DEF Arrive, Counted, Guarded
<1>3. \A d \in Calls : d # c => pc'[d] = pc[d] /\ req'[d] = req[d]
  BY DEF Arrive, Counted
<1>4. /\ \A d \in barred' : d # c => d \in barred
      /\ c \in barred' => pc'[c] = "auth" /\ ~Entitled(q.token, users, sessions)
  <2>1. c \notin barred
    BY <1>1 DEF Barred
  <2> QED BY <2>1 DEF Arrive, Counted
<1>5. barred' \subseteq Calls /\ LockedOut'
  BY <1>1, <1>3, <1>4 DEF LockedOut, Barred
<1>6. Barred'
  <2>1. \A d \in barred' : ~Entitled(req[d].token, users, sessions)'
    BY <1>1, <1>2, <1>3, <1>4, <1>5 DEF Barred, Entitled
  <2>2. \A d \in Calls : pc'[d] = "new" => wrote'[d] = None /\ d \notin barred'
    BY <1>1, <1>2, <1>3, <1>4 DEF Barred
  <2> QED BY <2>1, <2>2 DEF Barred
<1>7. Expiring' /\ Deprived'
  <2>1. pc[c] # "arm"
    BY <1>1
  <2> QED BY <2>1, <1>1, <1>3 DEF Expiring, Expires, Deprived, Key
<1> QED BY <1>1, <1>5, <1>6, <1>7

\* What the pre-handlers do with access: nothing.  A barred call is at
\* "auth", from where it is only sent away.
LEMMA PreHandlerMoves ==
    ASSUME AccessInv, NEW c \in Calls, PreHandler(c)
    PROVE  /\ UNCHANGED <<req, wrote, access>>
           /\ pc[c] \notin {"new", "done"} /\ \E w : w # "new" /\ pc' = [pc EXCEPT ![c] = w]
           /\ c \in barred => pc'[c] = "done"
<1> USE DEF AccessInv, control
<1>1. CASE Authenticate(c)
  <2>1. UNCHANGED <<req, wrote, access>> /\ pc[c] = "auth"
    BY <1>1 DEF Authenticate, Goto, Return
  <2>2. pc' = [pc EXCEPT ![c] = Guarded(req[c])] \/ pc' = [pc EXCEPT ![c] = "done"]
    BY <1>1 DEF Authenticate, Goto, Return
  <2>3. c \in barred => pc'[c] = "done"
    BY <1>1 DEF Authenticate, Goto, Return, Barred, Entitled, UserOfSession, Counted
  <2>4. Guarded(req[c]) # "new"
    BY DEF Guarded
  <2> QED BY <2>1, <2>2, <2>3, <2>4
<1>2. CASE RequirePlatformAdmin(c)
  BY <1>2 DEF RequirePlatformAdmin, Goto, Return, LockedOut
<1>3. CASE Incr(c)
  BY <1>3 DEF Incr, Goto, Return, LockedOut
<1>4. CASE Arm(c)
  BY <1>4 DEF Arm, Goto, LockedOut
<1>5. CASE FailOpen(c)
  BY <1>5 DEF FailOpen, CutShort, Goto, LockedOut
<1>6. CASE Abort(c)
  BY <1>6 DEF Abort, Goto, Return, Counted
<1> QED BY <1>1, <1>2, <1>3, <1>4, <1>5, <1>6 DEF PreHandler

\* What a command has done to the counters whose reply does not come.
LEMMA CutShortCounters ==
    ASSUME Counted, NEW c \in Calls, CutShort(c) \/ (pc[c] \notin {"limit", "arm"} /\ UNCHANGED limits)
    PROVE  /\ counters' \in [Keys -> Nat] /\ armed \subseteq armed' /\ unarmed \subseteq unarmed'
           /\ unarmed' = unarmed \/ \E k : unarmed' = unarmed \cup {k}
           /\ pc[c] = "arm" => Key(c) \in armed' \cup unarmed'
           /\ \A k \in Keys : counters'[k] > 0 => counters[k] > 0 \/ k \in unarmed'
<1> USE DEF limits
<1>1. CASE UNCHANGED limits /\ pc[c] # "arm"
  BY <1>1 DEF Counted
<1>2. CASE /\ pc[c] = "limit" /\ counters' = [counters EXCEPT ![Key(c)] = @ + 1]
           /\ IF counters[Key(c)] = 0 THEN unarmed' = unarmed \cup {Key(c)} ELSE UNCHANGED unarmed
           /\ UNCHANGED armed
  <2>1. ASSUME NEW k \in Keys
        PROVE  counters'[k] \in Nat /\ (counters'[k] > 0 => counters[k] > 0 \/ k \in unarmed')
    BY <2>1, <1>2 DEF Counted
  <2>2. counters' \in [Keys -> Nat]
    BY <2>1, <1>2 DEF Counted
  <2> QED BY <2>1, <2>2, <1>2
<1>3. CASE pc[c] = "arm" /\ unarmed' = unarmed \cup {Key(c)} /\ UNCHANGED <<counters, armed>>
  BY <1>3 DEF Counted
<1>4. CASE pc[c] = "arm" /\ armed' = armed \cup {Key(c)} /\ UNCHANGED <<counters, unarmed>>
  BY <1>4 DEF Counted
<1> QED BY <1>1, <1>2, <1>3, <1>4 DEF CutShort

\* What the pre-handlers do with the counters.
LEMMA PreHandlerWindow ==
    ASSUME AccessInv, NEW c \in Calls, PreHandler(c)
    PROVE  Counted' /\ Expiring' /\ Deprived'
<1> USE DEF AccessInv, control, limits
<1>1. \A d \in Calls : d # c => pc'[d] = pc[d] /\ Key(d)' = Key(d)
  BY DEF PreHandler, Authenticate, RequirePlatformAdmin, Incr, Arm, FailOpen, Abort, Goto,
         Return, Counted, Key
<1>2. CASE Authenticate(c) \/ RequirePlatformAdmin(c)
  <2>1. Counted' /\ UNCHANGED <<limits, faults>> /\ pc[c] # "arm"
    BY <1>2 DEF Authenticate, RequirePlatformAdmin, Goto, Return, Counted
  <2> QED BY <2>1, <1>1 DEF Expiring, Expires, Deprived
<1>3. CASE Incr(c)
  <2>1. Counted' /\ UNCHANGED <<armed, unarmed, req, actor, faults>> /\ pc[c] = "limit"
    <3>1. counters' = [counters EXCEPT ![Key(c)] = counters[Key(c)] + 1]
      BY <1>3 DEF Incr
    <3>2. Key(c) \in Keys => counters[Key(c)] + 1 \in Nat
      BY DEF Counted
    <3>3. counters' \in [Keys -> Nat]
      BY <3>1, <3>2 DEF Counted
    <3>4. \E w, v : pc' = [pc EXCEPT ![c] = w] /\ mem' = [mem EXCEPT ![c] = v]
      BY <1>3 DEF Incr, Goto, Return
    <3>5. UNCHANGED <<armed, unarmed, req, actor, wrote, faults>> /\ pc[c] = "limit"
      BY <1>3 DEF Incr, Goto, Return
    <3> QED BY <3>3, <3>4, <3>5 DEF Counted
  <2>2. \A k \in Keys : k # Key(c) => counters'[k] = counters[k]
    BY <1>3 DEF Incr, Counted
  <2>3. Key(c) \in Keys /\ counters[Key(c)] = 0 => pc'[c] = "arm"
    BY <1>3 DEF Incr, Goto, Return, Counted
  <2>4. Key(c)' = Key(c)
    BY <2>1 DEF Key
  <2>5. ASSUME NEW k \in Keys, counters'[k] > 0 PROVE Expires(k)' \/ k \in unarmed'
    <3>1. CASE k = Key(c) /\ counters[k] = 0
      BY <3>1, <2>3, <2>4 DEF Expires
    <3>2. CASE counters[k] > 0
      BY <3>2, <2>1, <1>1 DEF Expiring, Expires
    <3>3. counters[k] \in Nat
      BY DEF Counted
    <3> QED BY <3>1, <3>2, <3>3, <2>2, <2>5
  <2> QED BY <2>1, <2>5 DEF Expiring, Deprived
<1>4. CASE Arm(c)
  <2>1. Counted' /\ UNCHANGED <<counters, unarmed, faults>> /\ armed' = armed \cup {Key(c)}
    BY <1>4 DEF Arm, Goto, Counted
  <2> QED BY <2>1, <1>1 DEF Expiring, Expires, Deprived
<1>5. CASE FailOpen(c) \/ Abort(c)
  <2>1. /\ CutShort(c) \/ (pc[c] \notin {"limit", "arm"} /\ UNCHANGED limits)
        /\ UNCHANGED <<req, actor, wrote>> /\ faults > 0 /\ faults' = faults - 1
        /\ \E w, v : pc' = [pc EXCEPT ![c] = w] /\ mem' = [mem EXCEPT ![c] = v]
    BY <1>5 DEF FailOpen, Abort, Goto, Return
  <2>2. Counted'
    BY <2>1, CutShortCounters DEF Counted
  <2>3. Expiring'
    BY <2>1, <1>1, CutShortCounters DEF Expiring, Expires
  <2>4. Deprived'
    BY <2>1, CutShortCounters, FaultDeprives
  <2> QED BY <2>2, <2>3, <2>4
<1> QED BY <1>2, <1>3, <1>4, <1>5 DEF PreHandler

\* So they keep the invariant.
LEMMA PreHandlerAccess ==
    ASSUME AccessInv, NEW c \in Calls, PreHandler(c)
    PROVE  AccessInv'
<1> USE DEF AccessInv, access
<1>1. PICK w : w # "new" /\ pc' = [pc EXCEPT ![c] = w]
  BY PreHandlerMoves
<1>2. UNCHANGED <<req, wrote, users, sessions, revoked, barred>>
  BY PreHandlerMoves
<1>3. \A d \in Calls : d # c => pc'[d] = pc[d]
  BY <1>1 DEF Counted
<1>4. pc'[c] = w
  BY <1>1 DEF Counted
<1>5. Barred'
  BY <1>1, <1>2, <1>3, <1>4 DEF Barred, Entitled
<1>6. LockedOut'
  BY <1>2, <1>3, PreHandlerMoves DEF LockedOut
<1> QED BY <1>2, <1>5, <1>6, PreHandlerWindow

\* A counter expires.
LEMMA ElapseAccess ==
    ASSUME AccessInv, NEW k \in Keys, Elapse(k)
    PROVE  AccessInv'
<1> USE DEF AccessInv, access, control
<1>1. Counted' /\ UNCHANGED <<pc, req, actor, wrote, users, sessions, revoked, barred, unarmed, faults>>
  BY DEF Elapse, Counted
<1>2. \A l \in Keys : l # k => counters'[l] = counters[l] /\ (l \in armed => l \in armed')
  BY DEF Elapse, Counted
<1>3. counters'[k] = 0
  BY DEF Elapse, Counted
<1>4. Expiring' /\ Deprived'
  BY <1>1, <1>2, <1>3 DEF Expiring, Expires, Deprived, Key
<1>5. Barred' /\ LockedOut'
  BY <1>1 DEF Barred, LockedOut, Entitled
<1> QED BY <1>1, <1>4, <1>5

-----------------------------------------------------------------------------
\* The invariant holds of every call, user, token and workload.
THEOREM AccessSafe == Spec => []AccessInv
<1>1. ASSUME AccessInv, [Next]_vars PROVE AccessInv'
  <2>1. CASE UNCHANGED vars
    BY <1>1, <2>1 DEF vars, apiVars, control, access, limits, AccessInv, Counted, Barred,
                      LockedOut, Expiring, Expires, Deprived, Entitled, Key
  <2>2. CASE Next
    <3>1. ASSUME NEW c \in Calls, AccountsStep(c) \/ MessagingStep(c) \/ CatalogueStep(c)
          PROVE  AccessInv'
      BY <1>1, <3>1, HandlerAccess, AccountsShape, MessagingShape, CatalogueShape
    <3>2. ASSUME NEW c \in Calls, (\E q \in workload.requests : Arrive(c, q)) \/ PreHandler(c)
          PROVE  AccessInv'
      BY <1>1, <3>2, ArriveAccess, PreHandlerAccess
    <3>3. ASSUME NEW k \in Keys, Elapse(k)
          PROVE  AccessInv'
      BY <1>1, <3>3, ElapseAccess
    <3> QED BY <2>2, <3>1, <3>2, <3>3 DEF Next
  <2> QED BY <1>1, <2>1, <2>2
<1> QED BY InitAccess, <1>1, PTL DEF Spec

\* getUserFromSession: whatever logins, registrations, log-outs and status
\* changes a call races with, it is not let in if at no time since it was
\* made its token was that of an unrevoked session of an active user.
THEOREM AccessDenied == Spec => []LockedOut
BY AccessSafe, PTL DEF AccessInv

\* createRateLimitPre: however calls race, a counter above zero expires or is
\* about to be given its expiry, but for one counter at most for each command
\* whose reply was lost and each process that ended between the commands.
THEOREM WindowsEnd == Spec => []WindowExpires
<1>1. AccessInv => WindowExpires
  BY DEF AccessInv, Expiring, Deprived, WindowExpires
<1> QED BY AccessSafe, <1>1, PTL

-----------------------------------------------------------------------------
(* Conversations *)

\* A call that requireAuth has let in has a user.
Entered ==
    \A c \in Calls : pc[c] \notin {"new", "auth", "done"} /\ req[c].op \notin Public =>
        actor[c] \in Users

\* The partner of a conversation is a user, and another one once that is checked.
Targets ==
    \A c \in Calls : pc[c] # "new" /\ req[c].op = "createConversation" =>
        req[c].with \in Users /\ (pc[c] = "insert" => req[c].with # actor[c])

\* Past requireParticipant, the sender takes part.
Senders ==
    \A c \in Calls : pc[c] \in {"begin", "commit"} /\ req[c].op = "send" =>
        <<req[c].conv, actor[c]>> \in participants

\* A key is the sorted pair of the participants.
Pairs ==
    /\ participants \subseteq conversations \X Users
    /\ \A k \in conversations : k \in ConversationKeys /\ Rank[k[1]] < Rank[k[2]]
    /\ \A k \in conversations, u \in Users :
          <<k, u>> \in participants <=> u = k[1] \/ u = k[2]

\* A committed message has its jobs.
Mailed ==
    /\ messages = [c \in Calls |-> messages[c]]
    /\ \A c \in Calls : messages[c] # None =>
          /\ pc[c] = "done" /\ messages[c].conv \in conversations
          /\ \A u \in Users : <<messages[c].conv, u>> \in participants /\ u # actor[c] =>
                <<c, u>> \in jobs

TalkInv == workload \in Workloads /\ Entered /\ Targets /\ Senders /\ Pairs /\ Mailed

LEMMA InitTalk == Init => TalkInv
<1> SUFFICES ASSUME Init PROVE TalkInv
  OBVIOUS
<1>1. /\ workload \in Workloads /\ pc = [c \in Calls |-> "new"] /\ req = [c \in Calls |-> None]
      /\ messages = [c \in Calls |-> None] /\ conversations = workload.conversations
      /\ participants = {p \in conversations \X Users : p[2] \in {p[1][1], p[1][2]}}
  BY DEF Init, ApiInit, MessagingInit
<1>2. Entered /\ Targets /\ Senders /\ Mailed
  BY <1>1 DEF Entered, Targets, Senders, Mailed
<1>3. Pairs
  BY <1>1, MarketplaceAssumption DEF Pairs
<1> QED BY <1>1, <1>2, <1>3 DEF TalkInv

\* One call moves; the tables of conversations stay as they are.
LEMMA MoveTalk ==
    ASSUME TalkInv, Counted, NEW c \in Calls, NEW w, pc' = [pc EXCEPT ![c] = w],
           UNCHANGED <<messagingVars, workload>>, pc[c] # "done",
           \A d \in Calls : d # c => req'[d] = req[d] /\ actor'[d] = actor[d],
           w \notin {"new", "auth", "done"} /\ req'[c].op \notin Public => actor'[c] \in Users,
           req'[c].op = "createConversation" =>
               req'[c].with \in Users /\ (w = "insert" => req'[c].with # actor'[c]),
           w \in {"begin", "commit"} /\ req'[c].op = "send" =>
               <<req'[c].conv, actor'[c]>> \in participants
    PROVE  TalkInv'
<1> USE DEF TalkInv, messagingVars
<1>1. pc'[c] = w /\ \A d \in Calls : d # c => pc'[d] = pc[d]
  BY DEF Counted
<1>2. Entered' /\ Targets' /\ Senders'
  BY <1>1 DEF Entered, Targets, Senders
<1>3. Pairs'
  BY DEF Pairs
<1>4. Mailed'
  BY <1>1 DEF Mailed
<1> QED BY <1>2, <1>3, <1>4

\* Handlers of other components do not serve these calls.
LEMMA OtherOps ==
    ASSUME NEW c, AccountsStep(c) \/ CatalogueStep(c)
    PROVE  req[c].op \notin {"createConversation", "send"}
<1>1. CASE AccountsStep(c)
  BY <1>1 DEF AccountsStep, Register, InsertUser, Login, CreateSession, Logout, CreateAgency,
     AddOwner, RequireActiveMembership, GetMembership, InsertMember, SetUserStatus, At
<1>2. CASE CatalogueStep(c)
  BY <1>2 DEF CatalogueStep, FindByUrl, FindByPhone, GetExternal, UpdateExternal, InsertExternal,
     CreateRequest, LoadRequest, WriteRequest, LoadOwnedRequest, FetchCandidates, DeleteMatches,
     PersistMatches, AgencyOfProperty, CreateProperty, LoadProperty, UpdateProperty,
     ChangePropertyStatus, ResetPrimary, InsertImage, SetListingStatus, SetRequestStatus, At
<1> QED BY <1>1, <1>2

\* A handler that changes no conversation and has its premises for the next step.
LEMMA HandlerTalk ==
    ASSUME TalkInv, Counted, NEW c \in Calls, HandlerShape(c), UNCHANGED <<messagingVars, workload>>,
           req[c].op = "createConversation" /\ pc'[c] = "insert" => req[c].with # actor[c],
           req[c].op = "send" /\ pc'[c] \in {"begin", "commit"} =>
               <<req[c].conv, actor[c]>> \in participants
    PROVE  TalkInv'
<1>1. PICK w : w # "new" /\ Moves(c, w)
  BY DEF HandlerShape, PreSteps
<1>2. pc[c] \notin PreSteps /\ UNCHANGED <<req, actor, after>>
  BY DEF HandlerShape, control
<1>3. pc' = [pc EXCEPT ![c] = w] /\ pc'[c] = w
  BY <1>1 DEF Moves, Counted
<1>4. req[c].op \notin Public => actor[c] \in Users
  BY <1>2 DEF TalkInv, Entered, PreSteps
<1>5. req[c].op = "createConversation" => req[c].with \in Users
  BY <1>2 DEF TalkInv, Targets, PreSteps
<1> QED BY <1>2, <1>3, <1>4, <1>5, MoveTalk DEF PreSteps

\* createConversation's insert.
LEMMA CreateTalk ==
    ASSUME TalkInv, Counted, NEW c \in Calls, CreateConversation(c), UNCHANGED workload
    PROVE  TalkInv'
<1> DEFINE k == DirectPairKey(actor[c], req[c].with)
<1>1. /\ pc[c] = "insert" /\ req[c].op = "createConversation" /\ pc' = [pc EXCEPT ![c] = "done"]
      /\ conversations' = conversations \cup {k}
      /\ participants' = IF k \in conversations THEN participants
                         ELSE participants \cup {<<k, actor[c]>>, <<k, req[c].with>>}
      /\ UNCHANGED <<req, actor, messages, jobs, workload>>
  BY DEF CreateConversation, At, Finish, HandlerFrame, control, mail
<1>2. actor[c] \in Users /\ req[c].with \in Users /\ actor[c] # req[c].with
  BY <1>1 DEF TalkInv, Entered, Targets, Public
<1>3. k \in ConversationKeys /\ Rank[k[1]] < Rank[k[2]] /\ {k[1], k[2]} = {actor[c], req[c].with}
  BY <1>2, MessagingAssumption DEF DirectPairKey, ConversationKeys
<1> HIDE DEF k
<1>4. pc'[c] = "done" /\ \A d \in Calls : d # c => pc'[d] = pc[d]
  BY <1>1 DEF Counted
<1>5. participants \subseteq participants' /\ conversations \subseteq conversations'
  BY <1>1
<1>6. Entered' /\ Targets' /\ Senders'
  BY <1>1, <1>4, <1>5 DEF TalkInv, Entered, Targets, Senders
<1>7. Pairs'
  <2>1. participants' \subseteq conversations' \X Users
    BY <1>1, <1>2 DEF TalkInv, Pairs
  <2>2. \A l \in conversations' : l \in ConversationKeys /\ Rank[l[1]] < Rank[l[2]]
    BY <1>1, <1>3 DEF TalkInv, Pairs
  <2>3. ASSUME NEW l \in conversations', NEW u \in Users
        PROVE  <<l, u>> \in participants' <=> u = l[1] \/ u = l[2]
    <3>1. CASE l \in conversations
      BY <3>1, <1>1 DEF TalkInv, Pairs
    <3>2. CASE l \notin conversations
      BY <3>2, <1>1, <1>3 DEF TalkInv, Pairs
    <3> QED BY <3>1, <3>2
  <2> QED BY <2>1, <2>2, <2>3 DEF Pairs
<1>8. Mailed'
  <2>1. \A l \in conversations, u \in Users : <<l, u>> \in participants' => <<l, u>> \in participants
    BY <1>1
  <2> QED BY <1>1, <1>4, <1>5, <2>1 DEF TalkInv, Mailed
<1> QED BY <1>1, <1>6, <1>7, <1>8 DEF TalkInv

\* sendMessage's commit.
LEMMA SendTalk ==
    ASSUME TalkInv, Counted, NEW c \in Calls, CommitSend(c), UNCHANGED workload
    PROVE  TalkInv'
<1>1. /\ pc[c] = "commit" /\ req[c].op = "send" /\ pc' = [pc EXCEPT ![c] = "done"]
      /\ UNCHANGED <<req, actor, conversations, participants, workload>>
      /\ messages' = [messages EXCEPT ![c] = [conv |-> req[c].conv, at |-> mem[c]]]
  BY DEF CommitSend, At, Finish, HandlerFrame, control, talk
<1>2. /\ jobs \subseteq jobs'
      /\ \A u \in Users : <<req[c].conv, u>> \in participants /\ u # actor[c] => <<c, u>> \in jobs'
  <2>1. jobs' = jobs \cup {<<c, p[2]>> : p \in {p \in participants :
                                                  p[1] = req[c].conv /\ p[2] # actor[c]}}
    BY DEF CommitSend
  <2>2. ASSUME NEW u \in Users, <<req[c].conv, u>> \in participants, u # actor[c]
        PROVE  <<c, u>> \in jobs'
    <3>1. <<req[c].conv, u>> \in {p \in participants : p[1] = req[c].conv /\ p[2] # actor[c]}
      BY <2>2
    <3> QED BY <3>1, <2>1
  <2> QED BY <2>1, <2>2
<1>3. req[c].conv \in conversations
  BY <1>1 DEF TalkInv, Senders, Pairs
<1>4. pc'[c] = "done" /\ \A d \in Calls : d # c => pc'[d] = pc[d]
  BY <1>1 DEF Counted
<1>5. Entered' /\ Targets' /\ Senders' /\ Pairs'
  BY <1>1, <1>4 DEF TalkInv, Entered, Targets, Senders, Pairs
<1>6. messages'[c].conv = req[c].conv /\ \A d \in Calls : d # c => messages'[d] = messages[d]
  BY <1>1 DEF TalkInv, Mailed
<1>7. Mailed'
  <2>1. messages' = [d \in Calls |-> messages'[d]]
    BY <1>1 DEF TalkInv, Mailed
  <2>2. ASSUME NEW d \in Calls, messages'[d] # None
        PROVE  /\ pc'[d] = "done" /\ messages'[d].conv \in conversations'
               /\ \A u \in Users : <<messages'[d].conv, u>> \in participants' /\ u # actor'[d] =>
                     <<d, u>> \in jobs'
    <3>1. CASE d = c
      BY <3>1, <1>1, <1>2, <1>3, <1>4, <1>6
    <3>2. CASE d # c
      BY <2>2, <3>2, <1>1, <1>2, <1>4, <1>6 DEF TalkInv, Mailed
    <3> QED BY <3>1, <3>2
  <2> QED BY <2>1, <2>2 DEF Mailed
<1> QED BY <1>1, <1>5, <1>7 DEF TalkInv

\* Steps of Messaging that leave conversations and messages alone.
LEMMA UnchangedTalk ==
    ASSUME TalkInv, UNCHANGED <<conversations, participants, messages, jobs>>,
           UNCHANGED <<pc, req, actor, workload>>
    PROVE  TalkInv'
BY DEF TalkInv, Entered, Targets, Senders, Pairs, Mailed

\* A handler's move as far as conversations are concerned.
LEMMA MessagingTalk ==
    ASSUME TalkInv, Counted, NEW c \in Calls, MessagingStep(c), UNCHANGED workload
    PROVE  TalkInv'
<1>1. CASE CreateConversation(c)
  BY <1>1, CreateTalk
<1>2. CASE CommitSend(c)
  BY <1>2, SendTalk
<1>3. CASE ~CreateConversation(c) /\ ~CommitSend(c)
  <2>1. UNCHANGED <<conversations, participants, messages, jobs>>
    BY <1>3 DEF MessagingStep, FindTarget, RequireParticipant, BeginSend, LastMessage, WriteMark,
       SelectPreferences, InsertPreferences, UpdatePreferences, messagingVars, talk, mail
  <2>2. HandlerShape(c)
    BY MessagingShape
  <2>3. PICK w : w # "new" /\ Moves(c, w)
    BY <2>2 DEF HandlerShape, PreSteps
  <2>4. pc'[c] = w /\ \A d \in Calls : d # c => pc'[d] = pc[d]
    BY <2>3 DEF Moves, Counted
  <2>5. pc[c] \notin PreSteps /\ UNCHANGED <<req, actor>>
    BY <2>2 DEF HandlerShape, control
  <2>6. req[c].op = "createConversation" /\ w = "insert" => req[c].with # actor[c]
    BY <1>3, <2>4 DEF MessagingStep, FindTarget, RequireParticipant, BeginSend, LastMessage,
       WriteMark, SelectPreferences, InsertPreferences, UpdatePreferences, At, Goto, Return, Counted
  <2>7. req[c].op = "send" /\ w \in {"begin", "commit"} =>
            <<req[c].conv, actor[c]>> \in participants
    <3>1. CASE RequireParticipant(c)
      BY <3>1, <2>4 DEF RequireParticipant, Goto, Return, Counted
    <3>2. CASE BeginSend(c)
      BY <3>2 DEF BeginSend, At, TalkInv, Senders
    <3>3. CASE ~RequireParticipant(c) /\ ~BeginSend(c)
      BY <1>3, <3>3 DEF MessagingStep, FindTarget, LastMessage, WriteMark, SelectPreferences,
         InsertPreferences, UpdatePreferences, At
    <3> QED BY <3>1, <3>2, <3>3
  <2>8. Entered'
    BY <2>4, <2>5 DEF TalkInv, Entered, PreSteps
  <2>9. Targets'
    BY <2>4, <2>5, <2>6 DEF TalkInv, Targets, PreSteps
  <2>10. Senders'
    BY <2>1, <2>4, <2>5, <2>7 DEF TalkInv, Senders
  <2>11. Pairs' /\ Mailed'
    BY <2>1, <2>4, <2>5 DEF TalkInv, Pairs, Mailed, PreSteps
  <2> QED BY <2>8, <2>9, <2>10, <2>11 DEF TalkInv
<1> QED BY <1>1, <1>2, <1>3

\* The pre-handlers give the call its user.
LEMMA PreHandlerTalk ==
    ASSUME TalkInv, AccessInv, NEW c \in Calls, PreHandler(c), UNCHANGED <<messagingVars, workload>>
    PROVE  TalkInv'
<1> USE DEF AccessInv
<1>1. PICK w : pc' = [pc EXCEPT ![c] = w] /\ pc[c] \notin {"new", "done"}
  BY PreHandlerMoves
<1>2. req' = req /\ pc'[c] = w
  BY <1>1, PreHandlerMoves DEF Counted
<1>3. w \notin {"insert", "begin", "commit"}
  BY <1>2 DEF PreHandler, Authenticate, RequirePlatformAdmin, Incr, Arm, FailOpen, Abort, Goto,
     Return, Guarded, Counted
<1>4. \A d \in Calls : d # c => actor'[d] = actor[d]
  BY DEF PreHandler, Authenticate, RequirePlatformAdmin, Incr, Arm, FailOpen, Abort, control, Counted
<1>5. w \notin {"new", "auth", "done"} /\ req[c].op \notin Public => actor'[c] \in Users
  <2>1. CASE Authenticate(c)
    BY <2>1, <1>2 DEF Authenticate, Goto, Return, Counted
  <2>2. CASE ~Authenticate(c)
    <3>1. actor' = actor /\ pc[c] \notin {"new", "done"}
      BY <2>2, <1>1 DEF PreHandler, RequirePlatformAdmin, Incr, Arm, FailOpen, Abort, control
    <3>2. pc[c] # "auth" \/ w = "done"
      BY <2>2, <1>2 DEF PreHandler, RequirePlatformAdmin, Incr, Arm, FailOpen, CutShort, Abort, Goto,
         Return, Counted
    <3> QED BY <3>1, <3>2 DEF TalkInv, Entered
  <2> QED BY <2>1, <2>2
<1>6. req[c].op = "createConversation" => req[c].with \in Users
  BY <1>1 DEF TalkInv, Targets
<1> QED BY <1>1, <1>2, <1>3, <1>4, <1>5, <1>6, MoveTalk

\* A call arrives.
LEMMA ArriveTalk ==
    ASSUME TalkInv, Counted, NEW c \in Calls, NEW q \in workload.requests, Arrive(c, q),
           UNCHANGED <<messagingVars, workload>>
    PROVE  TalkInv'
<1>1. PICK w : /\ pc' = [pc EXCEPT ![c] = w] /\ pc[c] = "new"
               /\ w \in {"auth", "admin", "limit", "start"} /\ (q.op \notin Public => w = "auth")
  BY DEF Arrive, Guarded
<1>2. req'[c] = q /\ actor' = actor /\ \A d \in Calls : d # c => req'[d] = req[d]
  BY DEF Arrive, Counted
<1>3. q.op = "createConversation" => q.with \in Users
  BY MarketplaceAssumption DEF TalkInv, WellFormed
<1> QED BY <1>1, <1>2, <1>3, MoveTalk

-----------------------------------------------------------------------------
\* The inductive invariant of conversations, for every workload.
THEOREM TalkSafe == Spec => []TalkInv
<1>1. ASSUME TalkInv, AccessInv, [Next]_vars PROVE TalkInv'
  <2>1. CASE UNCHANGED vars
    BY <1>1, <2>1, UnchangedTalk DEF vars, apiVars, control, messagingVars
  <2>2. CASE Next
    <3> USE DEF domainVars
    <3>1. ASSUME NEW c \in Calls, AccountsStep(c) \/ CatalogueStep(c), UNCHANGED <<messagingVars, workload>>
          PROVE  TalkInv'
      BY <1>1, <3>1, HandlerTalk, AccountsShape, CatalogueShape, OtherOps DEF AccessInv
    <3>2. ASSUME NEW c \in Calls, MessagingStep(c), UNCHANGED workload
          PROVE  TalkInv'
      BY <1>1, <3>2, MessagingTalk DEF AccessInv
    <3>3. ASSUME NEW c \in Calls, NEW q \in workload.requests, Arrive(c, q), UNCHANGED <<messagingVars, workload>>
          PROVE  TalkInv'
      BY <1>1, <3>3, ArriveTalk DEF AccessInv
    <3>4. ASSUME NEW c \in Calls, PreHandler(c), UNCHANGED <<messagingVars, workload>>
          PROVE  TalkInv'
      BY <1>1, <3>4, PreHandlerTalk
    <3>5. ASSUME NEW k \in Keys, Elapse(k), UNCHANGED <<messagingVars, workload>>
          PROVE  TalkInv'
      BY <1>1, <3>5, UnchangedTalk DEF Elapse, control, messagingVars
    <3> QED BY <2>2, <3>1, <3>2, <3>3, <3>4, <3>5 DEF Next
  <2> QED BY <1>1, <2>1, <2>2
<1> QED BY InitTalk, AccessSafe, <1>1, PTL DEF Spec

\* createConversation and sendMessage: for any number of users and racing
\* calls, two users share at most one conversation, both take part in it,
\* and every message is committed with a job for the other.
THEOREM ConversationsUnique == Spec => []OneConversation
<1>1. ASSUME TalkInv PROVE OneConversation
  <2>1. ASSUME NEW k \in conversations PROVE ParticipantsOf(k) = {k[1], k[2]} /\ k[1] # k[2]
    <3>1. k[1] \in Users /\ k[2] \in Users /\ k[1] # k[2]
      BY <1>1, MessagingAssumption DEF TalkInv, Pairs, ConversationKeys
    <3>2. \A u \in Users : u \in ParticipantsOf(k) <=> <<k, u>> \in participants
      BY <1>1 DEF TalkInv, Pairs, ParticipantsOf
    <3>3. ParticipantsOf(k) \subseteq Users
      BY <1>1 DEF TalkInv, Pairs, ParticipantsOf
    <3> QED BY <1>1, <3>1, <3>2, <3>3 DEF TalkInv, Pairs
  <2>2. \A k \in conversations : Cardinality(ParticipantsOf(k)) = 2
    <3> SUFFICES ASSUME NEW k \in conversations PROVE Cardinality({k[1], k[2]}) = 2
      BY <2>1
    <3>1. IsFiniteSet({k[1]}) /\ Cardinality({k[1]}) = 1
      BY FS_Singleton
    <3>2. Cardinality({k[1]} \cup {k[2]}) = 1 + 1
      BY <3>1, <2>1, FS_AddElement
    <3>3. {k[1]} \cup {k[2]} = {k[1], k[2]}
      OBVIOUS
    <3> QED BY <3>2, <3>3
  <2>3. \A k, l \in conversations : ParticipantsOf(k) = ParticipantsOf(l) => k = l
    <3> SUFFICES ASSUME NEW k \in conversations, NEW l \in conversations,
                        {k[1], k[2]} = {l[1], l[2]}
                 PROVE  k = l
      BY <2>1
    <3>1. /\ k \in Users \X Users /\ l \in Users \X Users
          /\ Rank[k[1]] < Rank[k[2]] /\ Rank[l[1]] < Rank[l[2]]
      BY <1>1 DEF TalkInv, Pairs, ConversationKeys
    <3>2. k[1] = l[1] /\ k[2] = l[2]
      BY <3>1, MessagingAssumption
    <3> QED BY <3>1, <3>2
  <2>4. \A c \in Calls : messages[c] # None =>
            \A u \in ParticipantsOf(messages[c].conv) \ {actor[c]} : <<c, u>> \in jobs
    BY <1>1 DEF TalkInv, Pairs, Mailed, ParticipantsOf
  <2> QED BY <2>2, <2>3, <2>4 DEF OneConversation
<1> QED BY TalkSafe, <1>1, PTL
=============================================================================
