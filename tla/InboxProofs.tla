---------------------------- MODULE InboxProofs ----------------------------
(***************************************************************************)
(* Read marks and preferences under racing calls, for any number of calls, *)
(* users and any workload.  First, what every step does to the calls and   *)
(* to the order between them; the invariants of the tables rest on that.   *)
(***************************************************************************)
EXTENDS MarketplaceProofs

\* A step of call c, as far as the calls are concerned.
Step(c) ==
    /\ pc[c] # "done" /\ pc'[c] # "new"
    /\ \A d \in Calls : d # c =>
          /\ pc'[d] = pc[d] /\ req'[d] = req[d] /\ actor'[d] = actor[d]
          /\ mem'[d] = mem[d] /\ wrote'[d] = wrote[d]
    /\ wrote'[c] = wrote[c] \/ pc'[c] = "done"
    /\ pc[c] # "new" => req'[c] = req[c] /\ after' = after
    /\ pc[c] \notin {"new", "auth"} => actor'[c] = actor[c]
    /\ pc[c] = "new" => after' = after \cup {<<d, c>> : d \in {d \in Calls : Ended(d)}}
    /\ after \subseteq after'

\* A step before the handler.
Early(c) == Step(c) /\ pc'[c] \in PreSteps \cup {"start"} /\ wrote'[c] = wrote[c]

\* A step in the handler.
Inside(c) ==
    /\ Step(c) /\ pc[c] \notin PreSteps
    /\ UNCHANGED <<req, actor, after>>

\* Nothing about a call changes.
Aside == UNCHANGED <<pc, req, actor, mem, wrote, after>>

LEMMA InsideStep == ASSUME Counted, NEW c \in Calls, HandlerShape(c) PROVE Inside(c)
<1>1. PICK w : w # "new" /\ Moves(c, w)
  BY DEF HandlerShape, PreSteps
<1>2. pc[c] \notin PreSteps /\ UNCHANGED <<req, actor, after>>
  BY DEF HandlerShape, control
<1>3. pc'[c] = w /\ \A d \in Calls : d # c => pc'[d] = pc[d]
  BY <1>1 DEF Moves, Counted
<1>4. \A d \in Calls : d # c => mem'[d] = mem[d]
  BY <1>1 DEF Moves, Counted
<1>5. /\ \A d \in Calls : d # c => wrote'[d] = wrote[d]
      /\ wrote'[c] = wrote[c] \/ w = "done"
  BY <1>1 DEF Moves, Counted
<1> QED BY <1>1, <1>2, <1>3, <1>4, <1>5 DEF Inside, Step, PreSteps

LEMMA ArriveStep == ASSUME Counted, NEW c \in Calls, NEW q, Arrive(c, q) PROVE Early(c) /\ req'[c] = q
<1>1. /\ pc[c] = "new" /\ pc'[c] \in {"auth", "admin", "limit", "start"} /\ req'[c] = q
      /\ \A d \in Calls : d # c => pc'[d] = pc[d] /\ req'[d] = req[d]
  BY DEF Arrive, Guarded, Counted
<1>2. UNCHANGED <<actor, mem, wrote>> /\ after' = after \cup {<<d, c>> : d \in {d \in Calls : Ended(d)}}
  BY DEF Arrive
<1> QED BY <1>1, <1>2 DEF Early, Step, PreSteps

LEMMA PreHandlerStep == ASSUME AccessInv, NEW c \in Calls, PreHandler(c) PROVE Early(c) /\ pc[c] # "new"
<1>1. UNCHANGED <<req, wrote, after>> /\ pc[c] \notin {"new", "done"} /\ pc'[c] # "new"
  <2>1. after' = after
    BY DEF PreHandler, Authenticate, RequirePlatformAdmin, Incr, Arm, FailOpen, Abort, control
  <2>2. pc'[c] # "new"
    BY PreHandlerMoves DEF AccessInv, Counted
  <2> QED BY <2>1, <2>2, PreHandlerMoves
<1>2. \A d \in Calls : d # c => pc'[d] = pc[d] /\ mem'[d] = mem[d]
  BY DEF PreHandler, Authenticate, RequirePlatformAdmin, Incr, Arm, FailOpen, Abort, Goto, Return,
     AccessInv, Counted
<1>3. /\ \A d \in Calls : d # c => actor'[d] = actor[d]
      /\ pc[c] # "auth" => actor'[c] = actor[c]
  BY DEF PreHandler, Authenticate, RequirePlatformAdmin, Incr, Arm, FailOpen, Abort, control,
     AccessInv, Counted
<1>4. pc'[c] \in PreSteps \cup {"start"}
  BY DEF PreHandler, Authenticate, RequirePlatformAdmin, Incr, Arm, FailOpen, Abort, Goto, Return,
     Guarded, AccessInv, Counted, PreSteps
<1> QED BY <1>1, <1>2, <1>3, <1>4 DEF Early, Step

\* Every step of the system is of one of these kinds.
LEMMA StepKinds ==
    ASSUME AccessInv, [Next]_vars
    PROVE  /\ UNCHANGED workload
           /\ \/ Aside /\ UNCHANGED domainVars
              \/ \E c \in Calls :
                    \/ /\ Early(c) /\ UNCHANGED domainVars
                       /\ pc[c] = "new" => req'[c] \in workload.requests
                    \/ Inside(c) /\ AccountsStep(c) /\ UNCHANGED <<messagingVars, catalogueVars>>
                    \/ Inside(c) /\ MessagingStep(c) /\ UNCHANGED <<accountVars, catalogueVars>>
                    \/ Inside(c) /\ CatalogueStep(c) /\ UNCHANGED messagingVars
<1>1. CASE UNCHANGED vars
  BY <1>1 DEF vars, apiVars, control, domainVars, Aside
<1>2. CASE Next
  <2>1. ASSUME NEW k \in Keys, Elapse(k), UNCHANGED domainVars
        PROVE  Aside /\ UNCHANGED domainVars
    BY <2>1 DEF Elapse, control, Aside
  <2>2. ASSUME NEW c \in Calls, NEW q \in workload.requests, Arrive(c, q)
        PROVE  Early(c) /\ req'[c] = q /\ pc[c] = "new"
    BY <2>2, ArriveStep DEF AccessInv, Arrive
  <2>3. ASSUME NEW c \in Calls, PreHandler(c) PROVE Early(c) /\ pc[c] # "new"
    BY <2>3, PreHandlerStep
  <2>4. ASSUME NEW c \in Calls, AccountsStep(c) \/ MessagingStep(c) \/ CatalogueStep(c)
        PROVE  Inside(c)
    BY <2>4, InsideStep, AccountsShape, MessagingShape, CatalogueShape DEF AccessInv
  <2> QED BY <1>2, <2>1, <2>2, <2>3, <2>4 DEF Next
<1> QED BY <1>1, <1>2

-----------------------------------------------------------------------------
(* The order between calls *)

\* A call comes after another only when that one has ended; it writes last;
\* and it asks what a schema lets through.
Ordered ==
    /\ workload \in Workloads
    /\ after \subseteq Calls \X Calls
    /\ \A c, d \in Calls : <<c, d>> \in after => pc[c] = "done" /\ pc[d] # "new"
    /\ \A c \in Calls : wrote[c] # None => pc[c] = "done"
    /\ \A c \in Calls : pc[c] # "new" => WellFormed(req[c])

LEMMA InitOrdered == Init => Ordered
BY DEF Init, ApiInit, Ordered

LEMMA StepOrdered ==
    ASSUME Ordered, NEW c \in Calls, Step(c), UNCHANGED workload,
           pc[c] = "new" => req'[c] \in workload.requests
    PROVE  Ordered'
<1> USE DEF Ordered, Step
<1>1. after' \subseteq Calls \X Calls
  OBVIOUS
<1>2. ASSUME NEW d \in Calls, NEW e \in Calls, <<d, e>> \in after'
      PROVE  pc'[d] = "done" /\ pc'[e] # "new"
  <2>1. CASE <<d, e>> \in after
    BY <2>1
  <2>2. CASE <<d, e>> \notin after
    BY <1>2, <2>2 DEF Ended
  <2> QED BY <2>1, <2>2
<1>3. \A d \in Calls : wrote'[d] # None => pc'[d] = "done"
  OBVIOUS
<1>4. \A d \in Calls : pc'[d] # "new" => WellFormed(req'[d])
  BY MarketplaceAssumption
<1> QED BY <1>1, <1>2, <1>3, <1>4 DEF WellFormed

THEOREM OrderSafe == Spec => []Ordered
<1>1. ASSUME Ordered, AccessInv, [Next]_vars PROVE Ordered'
  <2>1. CASE Aside
    BY <1>1, <2>1, StepKinds DEF Aside, Ordered, WellFormed
  <2>2. ASSUME NEW c \in Calls, Early(c), pc[c] = "new" => req'[c] \in workload.requests
        PROVE  Ordered'
    BY <1>1, <2>2, StepKinds, StepOrdered DEF Early
  <2>3. ASSUME NEW c \in Calls, Inside(c) PROVE Ordered'
    BY <1>1, <2>3, StepKinds, StepOrdered DEF Inside, PreSteps
  <2> QED BY <1>1, <2>1, <2>2, <2>3, StepKinds
<1> QED BY InitOrdered, AccessSafe, <1>1, PTL DEF Spec

\* A call in progress overlaps with every call it did not come after.
LEMMA InProgress ==
    ASSUME Ordered, NEW c \in Calls, NEW d \in Calls, c # d, pc[c] # "done", <<d, c>> \notin after
    PROVE  Overlap(c, d) /\ Overlap(d, c)
BY DEF Ordered, Overlap

\* Steps do not change the order of calls that have been made.
LEMMA OrderKept ==
    ASSUME Ordered, NEW c \in Calls, Step(c), NEW d \in Calls, NEW e \in Calls, pc[e] # "new"
    PROVE  <<d, e>> \in after' <=> <<d, e>> \in after
BY DEF Ordered, Step

LEMMA OverlapKept ==
    ASSUME Ordered, NEW c \in Calls, Step(c), NEW d \in Calls, NEW e \in Calls,
           pc[d] # "new", pc[e] # "new"
    PROVE  Overlap(d, e)' <=> Overlap(d, e)
BY OrderKept DEF Overlap

\* What has been committed stays, and only the call that moves commits.
LEMMA CommitsKept ==
    ASSUME Ordered, NEW c \in Calls, Step(c), NEW d \in Calls, wrote[d] # None
    PROVE  d # c /\ pc[d] = "done" /\ pc'[d] = "done"
           /\ wrote'[d] = wrote[d] /\ req'[d] = req[d] /\ actor'[d] = actor[d]
BY DEF Ordered, Step

-----------------------------------------------------------------------------
(* Messages and read marks *)

\* created_at is a time of the clock, already when the transaction has begun.
Stamped ==
    /\ clock \in Nat /\ jobs \subseteq Calls \X Users
    /\ \A c \in Calls : messages[c] # None => messages[c].at \in 1 .. clock
    /\ \A c \in Calls : At(c, "send", "commit") => mem[c] \in 1 .. clock

\* v is no time at all, or that of a message in conversation k.
Seen(k, v) == v = 0 \/ \E e \in MessagesOf(k) : messages[e].at = v

SameMark(c, d) == req[c].conv = req[d].conv /\ actor[c] = actor[d]

\* Past requireParticipant a reader takes part; what it has read is at least
\* what the calls before it have written.
Marking(c) ==
    /\ At(c, "markRead", "last") \/ At(c, "markRead", "write") =>
          <<req[c].conv, actor[c]>> \in participants
    /\ At(c, "markRead", "write") =>
          /\ Seen(req[c].conv, mem[c])
          /\ \A d \in Calls : Committed(d, "markRead") /\ SameMark(d, c) /\ <<d, c>> \in after =>
                wrote[d] <= mem[c]
    /\ Committed(c, "markRead") =>
          Seen(req[c].conv, wrote[c]) /\ <<req[c].conv, actor[c]>> \in participants

\* What KeepsEarlier says of one call's mark.
KeepsMark(c) ==
    Committed(c, "markRead") =>
        \/ wrote[c] <= readMark[<<req[c].conv, actor[c]>>]
        \/ \E d \in Calls : /\ Committed(d, "markRead") /\ Overlap(c, d)
                           /\ actor[d] = actor[c] /\ req[d].conv = req[c].conv

MarkInv ==
    /\ Stamped
    /\ readMark \in [ConversationKeys \X Users -> 0 .. clock]
    /\ \A c \in Calls : Marking(c) /\ KeepsMark(c)

\* Conversations and messages are only added to.
Grows ==
    /\ participants \subseteq participants' /\ clock' \in Nat /\ clock <= clock'
    /\ \A d \in Calls : messages[d] # None => messages'[d] = messages[d]

LEMMA InitMark == Init => MarkInv
<1> SUFFICES ASSUME Init PROVE MarkInv
  OBVIOUS
<1>1. /\ pc = [c \in Calls |-> "new"] /\ wrote = [c \in Calls |-> None]
      /\ messages = [c \in Calls |-> None] /\ jobs = {} /\ clock = 0
      /\ readMark = [p \in ConversationKeys \X Users |-> 0]
  BY DEF Init, ApiInit, MessagingInit
<1>2. Stamped /\ readMark \in [ConversationKeys \X Users -> 0 .. clock]
  BY <1>1 DEF Stamped, At
<1>3. \A c \in Calls : Marking(c) /\ KeepsMark(c)
  BY <1>1 DEF Marking, KeepsMark, At, Committed
<1> QED BY <1>2, <1>3 DEF MarkInv

LEMMA SeenKept ==
    ASSUME NEW k, NEW v, Seen(k, v), Grows
    PROVE  Seen(k, v)'
BY DEF Seen, Grows, MessagesOf

\* A time that has been seen is one of the clock.
LEMMA SeenTime ==
    ASSUME Stamped, NEW k, NEW v, Seen(k, v)
    PROVE  v \in 0 .. clock
BY DEF Seen, Stamped, MessagesOf

\* The calls that do not move.
LEMMA OthersMarking ==
    ASSUME Ordered, MarkInv, NEW c \in Calls, Step(c), Grows, NEW d \in Calls, d # c
    PROVE  Marking(d)'
<1>1. /\ pc'[d] = pc[d] /\ req'[d] = req[d] /\ actor'[d] = actor[d]
      /\ mem'[d] = mem[d] /\ wrote'[d] = wrote[d]
  BY DEF Step
<1>2. Marking(d)
  BY DEF MarkInv
<1>3. At(d, "markRead", "last")' \/ At(d, "markRead", "write")' =>
          <<req'[d].conv, actor'[d]>> \in participants'
  BY <1>1, <1>2 DEF Marking, At, Grows
<1>4. ASSUME At(d, "markRead", "write")'
      PROVE  /\ Seen(req[d].conv, mem[d])'
             /\ \A e \in Calls : Committed(e, "markRead")' /\ SameMark(e, d)' /\ <<e, d>> \in after' =>
                   wrote'[e] <= mem'[d]
  <2>1. At(d, "markRead", "write") /\ pc[d] # "new"
    BY <1>1, <1>4 DEF At
  <2>2. Seen(req[d].conv, mem[d])'
    BY <2>1, <1>1, <1>2, SeenKept DEF Marking, Seen, MessagesOf
  <2>3. ASSUME NEW e \in Calls, Committed(e, "markRead")', SameMark(e, d)', <<e, d>> \in after'
        PROVE  wrote'[e] <= mem'[d]
    <3>1. <<e, d>> \in after
      BY <2>1, <2>3, OrderKept
    <3>2. pc[e] = "done" /\ e # c
      BY <3>1 DEF Ordered, Step
    <3>3. wrote'[e] = wrote[e] /\ req'[e] = req[e] /\ actor'[e] = actor[e]
      BY <3>2 DEF Step
    <3>4. Committed(e, "markRead") /\ SameMark(e, d)
      BY <1>1, <2>3, <3>3 DEF Committed, SameMark
    <3> QED BY <1>1, <1>2, <2>1, <3>1, <3>3, <3>4 DEF Marking
  <2> QED BY <2>2, <2>3
<1>5. Committed(d, "markRead")' => Seen(req[d].conv, wrote[d])' /\ <<req'[d].conv, actor'[d]>> \in participants'
  <2>1. Seen(req[d].conv, wrote[d]) => Seen(req[d].conv, wrote[d])'
    BY <1>1, SeenKept DEF Seen, MessagesOf
  <2> QED BY <1>1, <1>2, <2>1 DEF Marking, Committed, Grows
<1> QED BY <1>3, <1>4, <1>5 DEF Marking

LEMMA OthersMark ==
    ASSUME Ordered, MarkInv, NEW c \in Calls, Step(c), NEW d \in Calls, d # c,
           readMark'[<<req[d].conv, actor[d]>>] = readMark[<<req[d].conv, actor[d]>>]
    PROVE  KeepsMark(d)'
<1> SUFFICES ASSUME Committed(d, "markRead")'
             PROVE  \/ wrote'[d] <= readMark'[<<req'[d].conv, actor'[d]>>]
                    \/ \E e \in Calls : /\ Committed(e, "markRead")' /\ Overlap(d, e)'
                                        /\ actor'[e] = actor'[d] /\ req'[e].conv = req'[d].conv
  BY DEF KeepsMark
<1>1. req'[d] = req[d] /\ actor'[d] = actor[d] /\ wrote'[d] = wrote[d] /\ wrote[d] # None
  BY DEF Step, Committed
<1>2. Committed(d, "markRead") /\ KeepsMark(d)
  BY <1>1 DEF Committed, MarkInv
<1>3. CASE wrote[d] <= readMark[<<req[d].conv, actor[d]>>]
  BY <1>1, <1>3
<1>4. ASSUME NEW e \in Calls, Committed(e, "markRead"), Overlap(d, e),
             actor[e] = actor[d], req[e].conv = req[d].conv
      PROVE  /\ Committed(e, "markRead")' /\ Overlap(d, e)'
             /\ actor'[e] = actor'[d] /\ req'[e].conv = req'[d].conv
  BY <1>1, <1>4, CommitsKept, OverlapKept DEF Committed
<1> QED BY <1>2, <1>3, <1>4 DEF KeepsMark

\* A step that writes no mark.
LEMMA QuietMark ==
    ASSUME Ordered, MarkInv, NEW c \in Calls, Step(c), Grows, Stamped', readMark' = readMark,
           Marking(c)', ~Committed(c, "markRead")'
    PROVE  MarkInv'
<1>1. readMark' \in [ConversationKeys \X Users -> 0 .. clock']
  BY DEF MarkInv, Grows, Stamped
<1>2. \A d \in Calls : Marking(d)'
  BY OthersMarking
<1>3. \A d \in Calls : KeepsMark(d)'
  <2>1. KeepsMark(c)'
    BY DEF KeepsMark
  <2> QED BY <2>1, OthersMark
<1> QED BY <1>1, <1>2, <1>3 DEF MarkInv

LEMMA QuietStamped ==
    ASSUME Ordered, Stamped, NEW c \in Calls, Step(c), UNCHANGED <<messages, jobs, clock>>,
           ~At(c, "send", "commit")'
    PROVE  Stamped'
<1>1. \A d \in Calls : At(d, "send", "commit")' => At(d, "send", "commit") /\ mem'[d] = mem[d]
  BY DEF Step, At
<1> QED BY <1>1 DEF Stamped

\* A step of a call that is no reader.
LEMMA OtherMark ==
    ASSUME Ordered, MarkInv, NEW c \in Calls, Step(c), Grows, Stamped', readMark' = readMark,
           (pc'[c] \in PreSteps \cup {"start"} /\ wrote'[c] = wrote[c]) \/ req'[c].op # "markRead"
    PROVE  MarkInv'
<1>1. wrote[c] = None
  BY DEF Ordered, Step
<1>2. ~Committed(c, "markRead")'
  BY <1>1 DEF Committed
<1>3. ~At(c, "markRead", "last")' /\ ~At(c, "markRead", "write")'
  BY DEF At, PreSteps
<1>4. Marking(c)'
  BY <1>2, <1>3 DEF Marking
<1> QED BY <1>2, <1>4, QuietMark

\* Steps that leave conversations and messages alone.
LEMMA NothingGrows ==
    ASSUME Stamped, UNCHANGED <<participants, messages, clock>>
    PROVE  Grows
BY DEF Stamped, Grows

LEMMA EarlyMark ==
    ASSUME Ordered, MarkInv, NEW c \in Calls, Early(c), UNCHANGED messagingVars
    PROVE  MarkInv'
<1>1. Step(c) /\ ~At(c, "send", "commit")'
  BY DEF Early, At, PreSteps
<1>2. Stamped'
  BY <1>1, QuietStamped DEF messagingVars, MarkInv
<1>3. Grows
  BY NothingGrows DEF messagingVars, MarkInv
<1> QED BY <1>1, <1>2, <1>3, OtherMark DEF messagingVars, Early

\* Steps of other components are of calls that are neither senders nor readers.
LEMMA ElsewhereOps ==
    ASSUME NEW c, AccountsStep(c) \/ CatalogueStep(c)
    PROVE  req[c].op \notin {"send", "markRead", "getPrefs", "setPrefs"}
<1>1. CASE AccountsStep(c)
  BY <1>1 DEF AccountsStep, Register, InsertUser, Login, CreateSession, Logout, CreateAgency,
     AddOwner, RequireActiveMembership, GetMembership, InsertMember, SetUserStatus, At
<1>2. CASE CatalogueStep(c)
  BY <1>2 DEF CatalogueStep, FindByUrl, FindByPhone, GetExternal, UpdateExternal, InsertExternal,
     CreateRequest, LoadRequest, WriteRequest, LoadOwnedRequest, FetchCandidates, DeleteMatches,
     PersistMatches, AgencyOfProperty, CreateProperty, LoadProperty, UpdateProperty,
     ChangePropertyStatus, ResetPrimary, InsertImage, SetListingStatus, SetRequestStatus, At
<1> QED BY <1>1, <1>2

LEMMA ElsewhereMark ==
    ASSUME Ordered, MarkInv, NEW c \in Calls, Inside(c), UNCHANGED messagingVars,
           req[c].op \notin {"send", "markRead"}
    PROVE  MarkInv'
<1>1. Step(c) /\ req'[c] = req[c] /\ ~At(c, "send", "commit")'
  BY DEF Inside, At
<1>2. Stamped'
  BY <1>1, QuietStamped DEF messagingVars, MarkInv
<1>3. Grows
  BY NothingGrows DEF messagingVars, MarkInv
<1> QED BY <1>1, <1>2, <1>3, OtherMark DEF messagingVars

\* sendMessage's two steps.
LEMMA BeginMark ==
    ASSUME Ordered, MarkInv, NEW c \in Calls, Inside(c), Counted, BeginSend(c)
    PROVE  MarkInv'
<1>1. /\ clock' = clock + 1 /\ mem'[c] = clock + 1 /\ req[c].op = "send"
      /\ UNCHANGED <<participants, messages, jobs, readMark>>
  BY DEF BeginSend, At, Goto, Counted, talk
<1>2. Step(c) /\ req'[c] = req[c]
  BY DEF Inside
<1>3. clock \in Nat /\ clock' \in Nat /\ clock <= clock'
  BY <1>1 DEF MarkInv, Stamped
<1>4. Stamped'
  <2>1. \A d \in Calls : d # c => (At(d, "send", "commit")' => At(d, "send", "commit") /\ mem'[d] = mem[d])
    BY <1>2 DEF Step, At
  <2>2. \A d \in Calls : At(d, "send", "commit")' => mem'[d] \in 1 .. clock'
    BY <1>1, <1>3, <2>1 DEF MarkInv, Stamped
  <2>3. \A d \in Calls : messages'[d] # None => messages'[d].at \in 1 .. clock'
    BY <1>1, <1>3 DEF MarkInv, Stamped
  <2> QED BY <1>1, <1>3, <2>2, <2>3 DEF MarkInv, Stamped
<1>5. Grows
  BY <1>1, <1>3 DEF Grows
<1> QED BY <1>1, <1>2, <1>4, <1>5, OtherMark

LEMMA CommitMark ==
    ASSUME Ordered, MarkInv, TalkInv, NEW c \in Calls, Inside(c), Counted, CommitSend(c)
    PROVE  MarkInv'
<1>1. /\ messages' = [messages EXCEPT ![c] = [conv |-> req[c].conv, at |-> mem[c]]]
      /\ UNCHANGED <<participants, clock, readMark>> /\ At(c, "send", "commit")
      /\ pc' = [pc EXCEPT ![c] = "done"]
      /\ jobs' = jobs \cup {<<c, p[2]>> : p \in {p \in participants :
                                                  p[1] = req[c].conv /\ p[2] # actor[c]}}
  BY DEF CommitSend, talk, Finish
<1>2. Step(c) /\ req'[c] = req[c] /\ req[c].op = "send"
  BY <1>1 DEF Inside, At
<1>3. mem[c] \in 1 .. clock /\ clock \in Nat
  BY <1>1 DEF MarkInv, Stamped
<1>4. messages[c] = None
  BY <1>1 DEF TalkInv, Mailed, At
<1>5. messages'[c].at = mem[c] /\ \A d \in Calls : d # c => messages'[d] = messages[d]
  BY <1>1 DEF TalkInv, Mailed
<1>6. Stamped'
  <2>1. \A d \in Calls : At(d, "send", "commit")' => At(d, "send", "commit") /\ mem'[d] = mem[d]
    BY <1>1, <1>2 DEF Step, At, Counted
  <2>2. jobs' \subseteq Calls \X Users
    BY <1>1 DEF MarkInv, Stamped, TalkInv, Pairs
  <2>3. \A d \in Calls : messages'[d] # None => messages'[d].at \in 1 .. clock'
    BY <1>1, <1>3, <1>5 DEF MarkInv, Stamped
  <2> QED BY <1>1, <1>3, <2>1, <2>2, <2>3 DEF MarkInv, Stamped
<1>7. Grows
  BY <1>1, <1>3, <1>4, <1>5 DEF Grows
<1> QED BY <1>1, <1>2, <1>6, <1>7, OtherMark

\* requireParticipant and the SELECT of the last message: nothing before
\* has written more than that message's time.
LEMMA ParticipantMark ==
    ASSUME Ordered, MarkInv, NEW c \in Calls, Inside(c), Counted, RequireParticipant(c)
    PROVE  MarkInv'
<1>1. Step(c) /\ UNCHANGED <<req, actor>> /\ UNCHANGED <<participants, messages, jobs, clock, readMark>>
  BY DEF Inside, RequireParticipant, messagingVars
<1>2. /\ pc'[c] \in {"begin", "last", "done"} /\ wrote'[c] = wrote[c]
      /\ pc'[c] = "last" => <<req[c].conv, actor[c]>> \in participants
  BY DEF RequireParticipant, Goto, Return, Counted
<1>3. Stamped' /\ Grows
  <2>1. ~At(c, "send", "commit")'
    BY <1>2 DEF At
  <2> QED BY <1>1, <2>1, QuietStamped, NothingGrows DEF MarkInv
<1>4. wrote'[c] = None
  BY <1>1, <1>2 DEF Ordered, Step
<1>5. Marking(c)' /\ ~Committed(c, "markRead")'
  BY <1>1, <1>2, <1>4 DEF Marking, Committed, At
<1> QED BY <1>1, <1>3, <1>5, QuietMark

LEMMA LastMark ==
    ASSUME Ordered, MarkInv, NEW c \in Calls, Inside(c), Counted, LastMessage(c)
    PROVE  MarkInv'
<1>1. /\ Step(c) /\ UNCHANGED <<req, actor, after>> /\ At(c, "markRead", "last")
      /\ UNCHANGED <<participants, messages, jobs, clock, readMark>>
  BY DEF Inside, LastMessage, messagingVars
<1>2. pc'[c] = "write" /\ wrote' = wrote
  BY DEF LastMessage, Goto, Counted
<1>3. Stamped' /\ Grows
  <2>1. ~At(c, "send", "commit")'
    BY <1>2 DEF At
  <2> QED BY <1>1, <2>1, QuietStamped, NothingGrows DEF MarkInv
<1>4. wrote[c] = None /\ ~Committed(c, "markRead")'
  BY <1>1, <1>2 DEF Ordered, Step, Committed
<1>5. \/ mem'[c] = 0 /\ MessagesOf(req[c].conv) = {}
      \/ \E d \in MessagesOf(req[c].conv) :
            /\ \A e \in MessagesOf(req[c].conv) : messages[e].at <= messages[d].at
            /\ mem'[c] = messages[d].at
  BY DEF LastMessage, Goto, Counted
<1>6. Seen(req[c].conv, mem[c])'
  BY <1>1, <1>5 DEF Seen, MessagesOf
<1>7. ASSUME NEW d \in Calls, Committed(d, "markRead"), SameMark(d, c)
      PROVE  wrote[d] <= mem'[c]
  <2>1. Seen(req[c].conv, wrote[d])
    BY <1>7 DEF MarkInv, Marking, SameMark
  <2>2. mem'[c] \in Nat
    BY <1>5 DEF MarkInv, Stamped, MessagesOf
  <2> QED BY <1>5, <2>1, <2>2 DEF Seen
<1>8. <<req[c].conv, actor[c]>> \in participants
  BY <1>1 DEF MarkInv, Marking
<1>9. Marking(c)'
  <2>1. \A d \in Calls : Committed(d, "markRead")' /\ SameMark(d, c)' /\ <<d, c>> \in after' =>
            wrote'[d] <= mem'[c]
    BY <1>1, <1>2, <1>7 DEF Committed, SameMark
  <2> QED BY <1>1, <1>2, <1>4, <1>6, <1>8, <2>1 DEF Marking, At
<1> QED BY <1>1, <1>3, <1>4, <1>9, QuietMark

\* The upsert: a mark it lowers is of a call in progress at the same time.
LEMMA WriteMarkMark ==
    ASSUME Ordered, MarkInv, TalkInv, NEW c \in Calls, Inside(c), Counted, WriteMark(c)
    PROVE  MarkInv'
<1> DEFINE row == <<req[c].conv, actor[c]>>
<1>1. /\ Step(c) /\ UNCHANGED <<req, actor, after>> /\ At(c, "markRead", "write")
      /\ UNCHANGED <<participants, messages, jobs, clock>>
      /\ readMark' = [readMark EXCEPT ![row] = mem[c]]
  BY DEF Inside, WriteMark, talk, mail
<1>2. pc'[c] = "done" /\ wrote'[c] = mem[c]
  BY DEF WriteMark, Finish, Counted
<1>3. Stamped' /\ Grows
  <2>1. ~At(c, "send", "commit")'
    BY <1>2 DEF At
  <2> QED BY <1>1, <2>1, QuietStamped, NothingGrows DEF MarkInv
<1>4. Seen(req[c].conv, mem[c]) /\ mem[c] \in 0 .. clock /\ clock \in Nat
  BY <1>1, SeenTime DEF MarkInv, Marking, Stamped
<1>5. row \in participants /\ row \in ConversationKeys \X Users
  BY <1>1 DEF MarkInv, Marking, TalkInv, Pairs
<1> HIDE DEF row
<1>6. /\ readMark' \in [ConversationKeys \X Users -> 0 .. clock'] /\ readMark'[row] = mem[c]
      /\ \A k \in ConversationKeys \X Users : k # row => readMark'[k] = readMark[k]
  BY <1>1, <1>4, <1>5 DEF MarkInv
<1>7. Committed(c, "markRead")'
  BY <1>1, <1>2, <1>4, MessagingAssumption DEF Committed, At
<1>8. Marking(c)' /\ KeepsMark(c)'
  <2>1. Seen(req[c].conv, wrote[c])'
    BY <1>1, <1>2, <1>4 DEF Seen, MessagesOf
  <2>2. Marking(c)'
    BY <1>1, <1>2, <1>5, <2>1 DEF Marking, At, row
  <2>3. wrote'[c] <= readMark'[row]
    BY <1>2, <1>4, <1>6
  <2> QED BY <1>1, <2>2, <2>3 DEF KeepsMark, row
<1>9. ASSUME NEW d \in Calls, d # c PROVE KeepsMark(d)'
  <2>1. CASE Committed(d, "markRead") /\ SameMark(d, c) /\ <<d, c>> \in after
    <3>1. wrote[d] <= mem[c] /\ wrote'[d] = wrote[d]
      BY <1>1, <1>9, <2>1 DEF MarkInv, Marking, Step
    <3>2. <<req'[d].conv, actor'[d]>> = row
      BY <1>1, <2>1 DEF SameMark, row
    <3> QED BY <1>6, <3>1, <3>2 DEF KeepsMark
  <2>2. CASE Committed(d, "markRead") /\ SameMark(d, c) /\ <<d, c>> \notin after
    <3>1. Overlap(d, c)
      BY <1>1, <1>9, <2>2, InProgress DEF At
    <3>2. Overlap(d, c)'
      BY <1>1, <3>1 DEF Overlap
    <3> QED BY <1>1, <1>7, <2>2, <3>2 DEF KeepsMark, SameMark
  <2>3. CASE Committed(d, "markRead") /\ ~SameMark(d, c)
    <3>1. <<req[d].conv, actor[d]>> # row /\ <<req[d].conv, actor[d]>> \in ConversationKeys \X Users
      BY <2>3 DEF SameMark, row, MarkInv, Marking, TalkInv, Pairs
    <3> QED BY <1>1, <1>6, <1>9, <3>1, OthersMark
  <2>4. CASE ~Committed(d, "markRead")
    BY <1>1, <1>9, <2>4 DEF KeepsMark, Committed, Step
  <2> QED BY <2>1, <2>2, <2>3, <2>4
<1>10. \A d \in Calls : d # c => Marking(d)'
  BY <1>1, <1>3, OthersMarking
<1> QED BY <1>3, <1>6, <1>8, <1>9, <1>10 DEF MarkInv

LEMMA MessagingMark ==
    ASSUME Ordered, MarkInv, TalkInv, NEW c \in Calls, Inside(c), Counted, MessagingStep(c)
    PROVE  MarkInv'
<1>1. CASE BeginSend(c) \/ CommitSend(c)
  BY <1>1, BeginMark, CommitMark
<1>2. CASE RequireParticipant(c) \/ LastMessage(c) \/ WriteMark(c)
  BY <1>2, ParticipantMark, LastMark, WriteMarkMark
<1>3. CASE FindTarget(c) \/ CreateConversation(c) \/ SelectPreferences(c) \/ InsertPreferences(c)
           \/ UpdatePreferences(c)
  <2>1. Step(c) /\ req'[c] = req[c]
    BY DEF Inside
  <2>2. req[c].op \notin {"send", "markRead"} /\ UNCHANGED <<messages, jobs, clock, readMark>>
    BY <1>3 DEF FindTarget, CreateConversation, SelectPreferences, InsertPreferences,
       UpdatePreferences, At, messagingVars, talk, mail
  <2>3. participants \subseteq participants'
    BY <1>3 DEF FindTarget, CreateConversation, SelectPreferences, InsertPreferences,
       UpdatePreferences, messagingVars, talk
  <2>4. Grows
    BY <2>2, <2>3 DEF Grows, MarkInv, Stamped
  <2>5. ~At(c, "send", "commit")'
    BY <2>1, <2>2 DEF At
  <2>6. Stamped'
    BY <2>1, <2>2, <2>5, QuietStamped DEF MarkInv
  <2> QED BY <2>1, <2>2, <2>4, <2>6, OtherMark
<1> QED BY <1>1, <1>2, <1>3 DEF MessagingStep

\* The inductive invariant of messages and read marks.
THEOREM MarkSafe == Spec => []MarkInv
<1>1. ASSUME MarkInv, Ordered, AccessInv, TalkInv, [Next]_vars PROVE MarkInv'
  <2> USE <1>1 DEF domainVars
  <2>1. CASE Aside /\ UNCHANGED messagingVars
    <3>1. Stamped'
      BY <2>1 DEF Aside, messagingVars, MarkInv, Stamped, At
    <3>2. \A c \in Calls : Marking(c)'
      BY <2>1 DEF Aside, messagingVars, MarkInv, Marking, At, Committed, SameMark, Seen, MessagesOf
    <3>3. \A c \in Calls : KeepsMark(c)'
      BY <2>1 DEF Aside, messagingVars, MarkInv, KeepsMark, Committed, Overlap
    <3> QED BY <2>1, <3>1, <3>2, <3>3 DEF messagingVars, MarkInv
  <2>2. ASSUME NEW c \in Calls, Early(c), UNCHANGED messagingVars PROVE MarkInv'
    BY <2>2, EarlyMark
  <2>3. ASSUME NEW c \in Calls, Inside(c), AccountsStep(c) \/ CatalogueStep(c), UNCHANGED messagingVars
        PROVE  MarkInv'
    BY <2>3, ElsewhereMark, ElsewhereOps
  <2>4. ASSUME NEW c \in Calls, Inside(c), MessagingStep(c) PROVE MarkInv'
    BY <2>4, MessagingMark DEF AccessInv
  <2> QED BY <2>1, <2>2, <2>3, <2>4, StepKinds
<1> QED BY InitMark, OrderSafe, AccessSafe, TalkSafe, <1>1, PTL DEF Spec

-----------------------------------------------------------------------------
(* Preferences *)

\* Another call overlapped with c, or came later and named column f.
Superseded(c, f) ==
    \E d \in Calls : /\ Committed(d, "setPrefs") /\ actor[d] = actor[c]
                     /\ \/ Overlap(c, d)
                        \/ <<c, d>> \in after /\ f \in DOMAIN wrote[d]

\* What a row says of column f is what c wrote there, or c is superseded.
Reflects(row, c, f) == row[f] = wrote[c][f] \/ Superseded(c, f)

\* The row a call has read reflects the calls before it.
Choosing(c) ==
    /\ At(c, "setPrefs", "upsert") =>
          /\ mem[c] \in Settings(Columns)
          /\ \A d \in Calls : Committed(d, "setPrefs") /\ actor[d] = actor[c] /\ <<d, c>> \in after =>
                \A f \in DOMAIN wrote[d] : Reflects(mem[c], d, f)
    /\ Committed(c, "setPrefs") =>
          /\ actor[c] \in Users /\ prefs[actor[c]] # None
          /\ wrote[c] = req[c].fields
          /\ \A f \in DOMAIN wrote[c] : Reflects(prefs[actor[c]], c, f)

PrefsInv ==
    /\ prefs \in [Users -> Settings(Columns) \cup {None}]
    /\ \A c \in Calls : Choosing(c)

LEMMA InitPrefs == Init => PrefsInv
BY DEF Init, ApiInit, MessagingInit, PrefsInv, Choosing, At, Committed

LEMMA SupersededKept ==
    ASSUME Ordered, NEW c \in Calls, Step(c), NEW d \in Calls, wrote[d] # None, NEW f, Superseded(d, f)
    PROVE  Superseded(d, f)'
<1>1. PICK e \in Calls : /\ Committed(e, "setPrefs") /\ actor[e] = actor[d]
                         /\ \/ Overlap(d, e)
                            \/ <<d, e>> \in after /\ f \in DOMAIN wrote[e]
  BY DEF Superseded
<1>2. Committed(e, "setPrefs")' /\ actor'[e] = actor'[d] /\ wrote'[e] = wrote[e]
  BY <1>1, CommitsKept DEF Committed
<1>3. Overlap(d, e) => Overlap(d, e)'
  BY <1>1, CommitsKept, OverlapKept DEF Committed
<1>4. <<d, e>> \in after => <<d, e>> \in after'
  BY DEF Step
<1> QED BY <1>1, <1>2, <1>3, <1>4 DEF Superseded

\* The calls that do not move, when their user's row is left alone.
LEMMA OthersChoosing ==
    ASSUME Ordered, PrefsInv, NEW c \in Calls, Step(c), NEW d \in Calls, d # c,
           Committed(d, "setPrefs") => prefs'[actor[d]] = prefs[actor[d]]
    PROVE  Choosing(d)'
<1>1. /\ pc'[d] = pc[d] /\ req'[d] = req[d] /\ actor'[d] = actor[d]
      /\ mem'[d] = mem[d] /\ wrote'[d] = wrote[d]
  BY DEF Step
<1>2. Choosing(d)
  BY DEF PrefsInv
<1>3. ASSUME At(d, "setPrefs", "upsert")',
             NEW e \in Calls, Committed(e, "setPrefs")', actor'[e] = actor'[d], <<e, d>> \in after',
             NEW f \in DOMAIN wrote'[e]
      PROVE  Reflects(mem[d], e, f)'
  <2>1. At(d, "setPrefs", "upsert") /\ pc[d] # "new"
    BY <1>1, <1>3 DEF At
  <2>2. <<e, d>> \in after
    BY <1>3, <2>1, OrderKept
  <2>3. pc[e] = "done" /\ e # c
    BY <2>2 DEF Ordered, Step
  <2>4. wrote'[e] = wrote[e] /\ req'[e] = req[e] /\ actor'[e] = actor[e]
    BY <2>3 DEF Step
  <2>5. Committed(e, "setPrefs") /\ actor[e] = actor[d] /\ f \in DOMAIN wrote[e]
    BY <1>1, <1>3, <2>4 DEF Committed
  <2>6. Reflects(mem[d], e, f)
    BY <1>2, <2>1, <2>2, <2>5 DEF Choosing
  <2>7. wrote[e] # None
    BY <2>5 DEF Committed
  <2>8. mem[d][f] = wrote[e][f] \/ Superseded(e, f)'
    BY <2>6, <2>7, SupersededKept DEF Reflects
  <2> QED BY <1>1, <2>4, <2>8 DEF Reflects
<1>4. At(d, "setPrefs", "upsert")' => mem'[d] \in Settings(Columns)
  BY <1>1, <1>2 DEF Choosing, At, Settings, Columns
<1>5. ASSUME Committed(d, "setPrefs")'
      PROVE  /\ actor'[d] \in Users /\ prefs'[actor'[d]] # None /\ wrote'[d] = req'[d].fields
             /\ \A f \in DOMAIN wrote'[d] : Reflects(prefs[actor[d]], d, f)'
  <2>1. Committed(d, "setPrefs") /\ wrote[d] # None
    BY <1>1, <1>5 DEF Committed
  <2>2. ASSUME NEW f \in DOMAIN wrote[d] PROVE Reflects(prefs[actor[d]], d, f)'
    <3>1. prefs[actor[d]][f] = wrote[d][f] \/ Superseded(d, f)'
      BY <1>2, <2>1, SupersededKept DEF Choosing, Reflects
    <3> QED BY <1>1, <2>1, <3>1 DEF Reflects
  <2> QED BY <1>1, <1>2, <2>1, <2>2 DEF Choosing
<1> QED BY <1>3, <1>4, <1>5 DEF Choosing, Settings, Columns

\* A step that changes no preferences, of a call that is not about to.
LEMMA QuietPrefs ==
    ASSUME Ordered, PrefsInv, NEW c \in Calls, Step(c), prefs' = prefs,
           wrote'[c] = wrote[c] \/ req'[c].op # "setPrefs", ~At(c, "setPrefs", "upsert")'
    PROVE  PrefsInv'
<1>1. ~Committed(c, "setPrefs")'
  BY DEF Ordered, Step, Committed
<1>2. Choosing(c)'
  BY <1>1 DEF Choosing
<1>3. \A d \in Calls : d # c => Choosing(d)'
  BY OthersChoosing
<1> QED BY <1>2, <1>3 DEF PrefsInv, Settings, Columns

LEMMA SelectPrefs ==
    ASSUME Ordered, PrefsInv, Entered, NEW c \in Calls, Inside(c), Counted, SelectPreferences(c)
    PROVE  PrefsInv'
<1>1. /\ Step(c) /\ UNCHANGED <<req, actor, after, prefs, wrote>>
      /\ At(c, "getPrefs", "start") \/ At(c, "setPrefs", "start")
  BY DEF Inside, SelectPreferences, messagingVars, HavePreferences, Goto, Return
<1>2. CASE pc'[c] # "upsert"
  BY <1>1, <1>2, QuietPrefs DEF At
<1>3. CASE pc'[c] = "upsert"
  <2>1. mem'[c] = prefs[actor[c]] /\ prefs[actor[c]] # None
    BY <1>3 DEF SelectPreferences, HavePreferences, Goto, Return, Counted
  <2>2. actor[c] \in Users
    BY <1>1 DEF Entered, At, Public
  <2>3. mem'[c] \in Settings(Columns)
    BY <2>1, <2>2 DEF PrefsInv
  <2>4. ASSUME NEW d \in Calls, Committed(d, "setPrefs"), actor[d] = actor[c],
               NEW f \in DOMAIN wrote[d]
        PROVE  Reflects(mem[c], d, f)'
    <3>1. prefs[actor[d]][f] = wrote[d][f] \/ Superseded(d, f)
      BY <2>4 DEF PrefsInv, Choosing, Reflects
    <3>2. Superseded(d, f) => Superseded(d, f)'
      BY <1>1, <2>4, SupersededKept DEF Committed
    <3> QED BY <1>1, <2>1, <2>4, <3>1, <3>2 DEF Reflects
  <2>5. ~Committed(c, "setPrefs")'
    BY <1>1 DEF Ordered, Step, Committed
  <2>6. Choosing(c)'
    <3>1. ASSUME NEW d \in Calls, Committed(d, "setPrefs")', actor'[d] = actor'[c]
          PROVE  \A f \in DOMAIN wrote'[d] : Reflects(mem[c], d, f)'
      BY <1>1, <2>4, <3>1 DEF Committed
    <3> QED BY <2>3, <2>5, <3>1 DEF Choosing, Settings, Columns
  <2>7. \A d \in Calls : d # c => Choosing(d)'
    BY <1>1, OthersChoosing
  <2> QED BY <1>1, <2>6, <2>7 DEF PrefsInv, Settings, Columns
<1> QED BY <1>2, <1>3

\* The row is made only when no call of its user has written one.
LEMMA InsertPrefs ==
    ASSUME Ordered, PrefsInv, Entered, NEW c \in Calls, Inside(c), Counted, InsertPreferences(c)
    PROVE  PrefsInv'
<1>1. /\ Step(c) /\ UNCHANGED <<req, actor, after, wrote>>
      /\ At(c, "getPrefs", "insert") \/ At(c, "setPrefs", "insert")
  BY DEF Inside, InsertPreferences, HavePreferences, Goto, Return
<1>2. CASE prefs[actor[c]] # None
  <2>1. prefs' = prefs /\ pc'[c] = "done"
    BY <1>2 DEF InsertPreferences, Goto, Return, Counted
  <2> QED BY <1>1, <2>1, QuietPrefs DEF At
<1>3. CASE prefs[actor[c]] = None
  <2>1. /\ prefs' = [prefs EXCEPT ![actor[c]] = Defaults]
        /\ pc'[c] = "upsert" => mem'[c] = Defaults
    BY <1>3 DEF InsertPreferences, HavePreferences, Goto, Return, Counted
  <2>2. actor[c] \in Users
    BY <1>1 DEF Entered, At, Public
  <2>3. \A d \in Calls : Committed(d, "setPrefs") => actor[d] # actor[c]
    BY <1>3 DEF PrefsInv, Choosing
  <2>4. prefs' \in [Users -> Settings(Columns) \cup {None}]
    BY <2>1, <2>2, MessagingAssumption DEF PrefsInv
  <2>5. \A d \in Calls : d # c => Choosing(d)'
    BY <1>1, <2>1, <2>3, OthersChoosing DEF PrefsInv
  <2>6. ~Committed(c, "setPrefs")'
    BY <1>1 DEF Ordered, Step, Committed
  <2>7. Choosing(c)'
    BY <1>1, <2>1, <2>3, <2>6, MessagingAssumption DEF Choosing, Committed, At, Settings, Columns
  <2> QED BY <2>4, <2>5, <2>7 DEF PrefsInv, Settings, Columns
<1> QED BY <1>2, <1>3

\* The upsert of the whole row keeps every column the call does not name as
\* the call has read it.
LEMMA UpdatePrefs ==
    ASSUME Ordered, PrefsInv, Entered, NEW c \in Calls, Inside(c), Counted, UpdatePreferences(c)
    PROVE  PrefsInv'
<1> DEFINE row == Merged(req[c].fields, mem[c])
<1>1. /\ Step(c) /\ UNCHANGED <<req, actor, after>> /\ At(c, "setPrefs", "upsert")
      /\ prefs' = [prefs EXCEPT ![actor[c]] = row]
      /\ pc'[c] = "done" /\ wrote'[c] = req[c].fields
  BY DEF Inside, UpdatePreferences, Finish, Counted
<1>2. actor[c] \in Users
  BY <1>1 DEF Entered, At, Public
<1>3. mem[c] \in Settings(Columns)
  BY <1>1 DEF PrefsInv, Choosing
<1>4. PICK columns \in SUBSET Columns : req[c].fields \in Settings(columns)
  BY <1>1 DEF Ordered, WellFormed, At
<1>5. DOMAIN req[c].fields = columns /\ req[c].fields # None
  BY <1>4, MessagingAssumption DEF Settings
<1>6. /\ row \in Settings(Columns) /\ row # None
      /\ \A f \in Columns : row[f] = IF f \in columns THEN req[c].fields[f] ELSE mem[c][f]
  BY <1>3, <1>4, <1>5, MessagingAssumption DEF Merged, Settings
<1> HIDE DEF row
<1>7. /\ prefs' \in [Users -> Settings(Columns) \cup {None}] /\ prefs'[actor[c]] = row
      /\ \A u \in Users : u # actor[c] => prefs'[u] = prefs[u]
  BY <1>1, <1>2, <1>6 DEF PrefsInv
<1>8. Committed(c, "setPrefs")'
  BY <1>1, <1>5 DEF Committed, At
<1>9. Choosing(c)'
  <2>1. \A f \in columns : Reflects(prefs[actor[c]], c, f)'
    BY <1>1, <1>6, <1>7 DEF Reflects
  <2> QED BY <1>1, <1>2, <1>5, <1>6, <1>7, <2>1 DEF Choosing, At
<1>10. ASSUME NEW d \in Calls, d # c PROVE Choosing(d)'
  <2>1. CASE ~Committed(d, "setPrefs") \/ actor[d] # actor[c]
    BY <1>1, <1>7, <1>10, <2>1, OthersChoosing DEF PrefsInv, Choosing
  <2>2. CASE Committed(d, "setPrefs") /\ actor[d] = actor[c]
    <3>1. /\ wrote'[d] = wrote[d] /\ wrote[d] # None /\ wrote[d] = req[d].fields /\ pc'[d] = "done"
      BY <1>1, <2>2, CommitsKept DEF Committed, PrefsInv, Choosing
    <3>2. DOMAIN wrote[d] \subseteq Columns
      BY <2>2, <3>1 DEF Ordered, WellFormed, Committed, Settings
    <3>3. ASSUME NEW f \in DOMAIN wrote[d] PROVE Reflects(prefs[actor[d]], d, f)'
      <4>1. CASE <<d, c>> \notin after
        <5>1. Overlap(d, c)'
          BY <1>1, <1>10, <4>1, InProgress DEF At, Overlap
        <5> QED BY <1>1, <1>8, <2>2, <5>1 DEF Reflects, Superseded
      <4>2. CASE <<d, c>> \in after /\ f \in columns
        BY <1>1, <1>5, <1>8, <2>2, <4>2 DEF Reflects, Superseded
      <4>3. CASE <<d, c>> \in after /\ f \notin columns
        <5>1. Reflects(mem[c], d, f)
          BY <1>1, <2>2, <3>3, <4>3 DEF PrefsInv, Choosing
        <5>2. Superseded(d, f) => Superseded(d, f)'
          BY <1>1, <3>1, SupersededKept
        <5>3. row[f] = mem[c][f]
          BY <1>6, <3>2, <3>3, <4>3
        <5> QED BY <1>1, <1>7, <2>2, <3>1, <5>1, <5>2, <5>3 DEF Reflects
      <4> QED BY <4>1, <4>2, <4>3
    <3>4. ~At(d, "setPrefs", "upsert")'
      BY <3>1 DEF At
    <3> QED BY <1>1, <1>2, <1>6, <1>7, <2>2, <3>1, <3>3, <3>4 DEF Choosing
  <2> QED BY <2>1, <2>2
<1> QED BY <1>7, <1>9, <1>10 DEF PrefsInv, Settings, Columns

\* The inductive invariant of preferences.
THEOREM PrefsSafe == Spec => []PrefsInv
<1>1. ASSUME PrefsInv, Ordered, AccessInv, TalkInv, [Next]_vars PROVE PrefsInv'
  <2> USE <1>1 DEF domainVars
  <2>1. CASE Aside /\ UNCHANGED messagingVars
    BY <2>1 DEF Aside, messagingVars, PrefsInv, Choosing, At, Committed, Reflects, Superseded,
       Overlap, Settings, Columns
  <2>2. ASSUME NEW c \in Calls, Early(c), UNCHANGED messagingVars PROVE PrefsInv'
    BY <2>2, QuietPrefs DEF Early, PreSteps, At, messagingVars
  <2>3. ASSUME NEW c \in Calls, Inside(c), AccountsStep(c) \/ CatalogueStep(c), UNCHANGED messagingVars
        PROVE  PrefsInv'
    BY <2>3, QuietPrefs, ElsewhereOps DEF Inside, At, messagingVars
  <2>4. ASSUME NEW c \in Calls, Inside(c), MessagingStep(c) PROVE PrefsInv'
    <3>1. CASE SelectPreferences(c) \/ InsertPreferences(c) \/ UpdatePreferences(c)
      BY <2>4, <3>1, SelectPrefs, InsertPrefs, UpdatePrefs DEF AccessInv, TalkInv
    <3>2. CASE ~(SelectPreferences(c) \/ InsertPreferences(c) \/ UpdatePreferences(c))
      <4>1. prefs' = prefs /\ req[c].op # "setPrefs"
        BY <2>4, <3>2 DEF MessagingStep, FindTarget, CreateConversation, RequireParticipant,
           BeginSend, CommitSend, LastMessage, WriteMark, At, messagingVars
      <4> QED BY <2>4, <4>1, QuietPrefs DEF Inside, At
    <3> QED BY <3>1, <3>2
  <2> QED BY <2>1, <2>2, <2>3, <2>4, StepKinds
<1> QED BY InitPrefs, OrderSafe, AccessSafe, TalkSafe, <1>1, PTL DEF Spec

\* markConversationRead and updateNotificationPreferences, for any number of
\* users and racing calls: a mark goes back, and a preference that no later
\* call names is lost, only when another call for the same row was in
\* progress at the same time.
THEOREM EarlierKept == Spec => []KeepsEarlier
<1>1. ASSUME MarkInv, PrefsInv PROVE KeepsEarlier
  BY <1>1 DEF MarkInv, PrefsInv, KeepsMark, Choosing, Reflects, Superseded, KeepsEarlier
<1> QED BY MarkSafe, PrefsSafe, <1>1, PTL
=============================================================================
