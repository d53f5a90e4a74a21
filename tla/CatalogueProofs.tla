-------------------------- MODULE CatalogueProofs --------------------------
(***************************************************************************)
(* Agencies, listings, matches and images under racing calls, and the      *)
(* types of all tables, for any number of calls, users, agencies, listings *)
(* and any workload.  The facts about steps and the order of calls are     *)
(* those of InboxProofs.                                                   *)
(***************************************************************************)
EXTENDS InboxProofs

-----------------------------------------------------------------------------
(* Agencies *)

\* Between its two transactions an agency is its creator's and has no
\* member; whoever adds a member has found one.
Founding(c) ==
    /\ At(c, "createAgency", "owner") =>
          agencies[req[c].agency] = c /\ \A m \in memberships : m.agency # req[c].agency
    /\ At(c, "addMember", "existing") \/ At(c, "addMember", "insert") =>
          \E m \in memberships : m.agency = req[c].agency

AgencyInv ==
    /\ AccountsTypeOK
    /\ \A a \in Agencies : agencies[a] \in Calls =>
          LET c == agencies[a] IN pc[c] # "new" /\ req[c].op = "createAgency" /\ req[c].agency = a
    /\ \A m \in memberships : agencies[m.agency] # None
    /\ \A c \in Calls : Founding(c)
    /\ AgenciesHaveOwners

LEMMA InitAgency == Init => AgencyInv
<1> SUFFICES ASSUME Init PROVE AgencyInv
  OBVIOUS
<1>1. /\ pc = [c \in Calls |-> "new"] /\ memberships = OldMembers
      /\ agencies = [a \in Agencies |-> IF \E m \in OldMembers : m.agency = a THEN "old" ELSE None]
  BY DEF Init, ApiInit, AccountsInit
<1>2. \A a \in Agencies : agencies[a] \notin Calls
  BY <1>1, AccountsAssumption, ApiAssumption
<1>3. AccountsTypeOK
  BY <1>1, AccountsAssumption DEF AccountsTypeOK
<1>4. \A m \in memberships : agencies[m.agency] # None
  BY <1>1, AccountsAssumption
<1>5. AgenciesHaveOwners
  BY <1>1, <1>2, AccountsAssumption DEF AgenciesHaveOwners
<1> QED BY <1>1, <1>2, <1>3, <1>4, <1>5 DEF AgencyInv, Founding, At

LEMMA OthersFounding ==
    ASSUME AgencyInv, NEW c \in Calls, Step(c), NEW d \in Calls, d # c,
           memberships \subseteq memberships',
           At(d, "createAgency", "owner") =>
               /\ agencies'[req[d].agency] = agencies[req[d].agency]
               /\ \A m \in memberships' : m \in memberships \/ m.agency # req[d].agency
    PROVE  Founding(d)'
<1>1. pc'[d] = pc[d] /\ req'[d] = req[d]
  BY DEF Step
<1>2. Founding(d)
  BY DEF AgencyInv
<1> QED BY <1>1, <1>2 DEF Founding, At

\* A step that leaves agencies alone.
LEMMA QuietAgency ==
    ASSUME Ordered, AgencyInv, NEW c \in Calls, Step(c), UNCHANGED <<agencies, memberships>>,
           wrote'[c] = wrote[c] \/ (pc[c] # "new" /\ req[c].op # "createAgency"), Founding(c)'
    PROVE  AgencyInv'
<1>1. \A d \in Calls : Founding(d)'
  BY OthersFounding
<1>2. AccountsTypeOK' /\ \A m \in memberships' : agencies'[m.agency] # None
  BY DEF AgencyInv, AccountsTypeOK
<1>3. \A a \in Agencies : agencies'[a] \in Calls =>
          LET d == agencies'[a] IN pc'[d] # "new" /\ req'[d].op = "createAgency" /\ req'[d].agency = a
  BY DEF AgencyInv, Step
<1>4. ASSUME NEW a \in Agencies, agencies[a] \in Calls, wrote'[agencies[a]] # None
      PROVE  \E m \in memberships : m.agency = a /\ m.role = "owner" /\ m.user = actor'[agencies[a]]
  <2>1. wrote[agencies[a]] # None
    BY <1>4 DEF AgencyInv, Step
  <2>2. actor'[agencies[a]] = actor[agencies[a]]
    BY <1>4, <2>1, CommitsKept
  <2> QED BY <1>4, <2>1, <2>2 DEF AgencyInv, AgenciesHaveOwners
<1>5. AgenciesHaveOwners'
  BY <1>4 DEF AgencyInv, AgenciesHaveOwners
<1> QED BY <1>1, <1>2, <1>3, <1>5 DEF AgencyInv

LEMMA CreateAgencySafe ==
    ASSUME Ordered, AgencyInv, NEW c \in Calls, Inside(c), Counted, CreateAgency(c)
    PROVE  AgencyInv'
<1> DEFINE a == req[c].agency
<1>1. /\ Step(c) /\ UNCHANGED <<req, actor, memberships, wrote>> /\ At(c, "createAgency", "start")
  BY DEF Inside, CreateAgency, Goto, Return
<1>2. a \in Agencies
  BY <1>1 DEF Ordered, WellFormed, At
<1>3. CASE agencies[a] # None
  <2>1. agencies' = agencies /\ pc'[c] = "done"
    BY <1>3 DEF CreateAgency, Goto, Return, Counted
  <2>2. Founding(c)'
    BY <2>1 DEF Founding, At
  <2> QED BY <1>1, <2>1, <2>2, QuietAgency
<1>4. CASE agencies[a] = None
  <2>1. agencies' = [agencies EXCEPT ![a] = c] /\ pc'[c] = "owner"
    BY <1>4 DEF CreateAgency, Goto, Counted
  <2> HIDE DEF a
  <2>2. agencies'[a] = c /\ \A b \in Agencies : b # a => agencies'[b] = agencies[b]
    BY <1>2, <2>1 DEF AgencyInv, AccountsTypeOK
  <2>3. \A m \in memberships : m.agency # a
    BY <1>4 DEF AgencyInv
  <2>4. AccountsTypeOK' /\ \A m \in memberships' : agencies'[m.agency] # None
    BY <1>1, <2>1, <2>2, <2>3 DEF AgencyInv, AccountsTypeOK
  <2>5. Founding(c)'
    BY <1>1, <2>1, <2>2, <2>3 DEF Founding, At, a
  <2>6. \A d \in Calls : d # c => Founding(d)'
    <3> SUFFICES ASSUME NEW d \in Calls, d # c PROVE Founding(d)'
      OBVIOUS
    <3>1. At(d, "createAgency", "owner") => req[d].agency \in Agencies /\ req[d].agency # a
      BY <1>4, ApiAssumption DEF AgencyInv, Founding, Ordered, WellFormed, At
    <3> QED BY <1>1, <2>2, <3>1, OthersFounding
  <2>7. \A b \in Agencies : agencies'[b] \in Calls =>
            LET d == agencies'[b] IN pc'[d] # "new" /\ req'[d].op = "createAgency" /\ req'[d].agency = b
    BY <1>1, <2>1, <2>2 DEF AgencyInv, Step, At, a
  <2>8. wrote[c] = None
    BY <1>1 DEF Ordered, Step
  <2>9. AgenciesHaveOwners'
    BY <1>1, <2>2, <2>8 DEF AgencyInv, AgenciesHaveOwners
  <2> QED BY <2>4, <2>5, <2>6, <2>7, <2>9 DEF AgencyInv
<1> QED BY <1>3, <1>4

\* A row is added to memberships of an agency that exists, for a user who
\* has none there, while no agency's creation is between its transactions.
LEMMA JoinSafe ==
    ASSUME Ordered, AgencyInv, NEW c \in Calls, Inside(c),
           NEW m \in [agency : Agencies, user : Users, role : Roles],
           memberships' = memberships \cup {m}, agencies' = agencies, pc'[c] = "done",
           agencies[m.agency] # None, \A n \in memberships : n.agency = m.agency => n.user # m.user,
           \A d \in Calls : d # c /\ At(d, "createAgency", "owner") => req[d].agency # m.agency,
           req[c].op = "createAgency" =>
               m.agency = req[c].agency /\ m.user = actor[c] /\ m.role = "owner"
    PROVE  AgencyInv'
<1>1. Step(c) /\ UNCHANGED <<req, actor>> /\ pc[c] # "new"
  BY DEF Inside, PreSteps
<1>2. AccountsTypeOK' /\ \A n \in memberships' : agencies'[n.agency] # None
  BY DEF AgencyInv, AccountsTypeOK
<1>3. \A d \in Calls : Founding(d)'
  <2>1. Founding(c)'
    BY DEF Founding, At
  <2> QED BY <1>1, <2>1, OthersFounding
<1>4. \A a \in Agencies : agencies'[a] \in Calls =>
          LET d == agencies'[a] IN pc'[d] # "new" /\ req'[d].op = "createAgency" /\ req'[d].agency = a
  BY <1>1 DEF AgencyInv, Step
<1>5. ASSUME NEW a \in Agencies, agencies[a] \in Calls, wrote'[agencies[a]] # None
      PROVE  \E n \in memberships' : n.agency = a /\ n.role = "owner" /\ n.user = actor'[agencies[a]]
  <2>1. CASE agencies[a] = c
    BY <1>1, <2>1 DEF AgencyInv
  <2>2. CASE agencies[a] # c
    BY <1>1, <1>5, <2>2 DEF AgencyInv, AgenciesHaveOwners, Step
  <2> QED BY <2>1, <2>2
<1>6. \A n, o \in memberships' : n.agency = o.agency /\ n.user = o.user => n = o
  BY DEF AgencyInv, AgenciesHaveOwners
<1>7. AgenciesHaveOwners'
  BY <1>5, <1>6 DEF AgenciesHaveOwners
<1> QED BY <1>2, <1>3, <1>4, <1>7 DEF AgencyInv

LEMMA AddOwnerSafe ==
    ASSUME Ordered, AgencyInv, Entered, NEW c \in Calls, Inside(c), Counted, AddOwner(c)
    PROVE  AgencyInv'
<1> DEFINE m == [agency |-> req[c].agency, user |-> actor[c], role |-> "owner"]
<1>1. /\ At(c, "createAgency", "owner") /\ agencies' = agencies /\ pc'[c] = "done"
      /\ memberships' = memberships \cup {m}
  BY DEF AddOwner, Finish, Counted
<1>2. req[c].agency \in Agencies /\ actor[c] \in Users
  BY <1>1 DEF Ordered, WellFormed, Entered, Public, At
<1>3. m \in [agency : Agencies, user : Users, role : Roles]
  BY <1>2 DEF Roles
<1>4. agencies[m.agency] = c /\ agencies[m.agency] # None /\ \A n \in memberships : n.agency # m.agency
  BY <1>1, ApiAssumption DEF AgencyInv, Founding
<1>5. \A d \in Calls : d # c /\ At(d, "createAgency", "owner") => req[d].agency # m.agency
  BY <1>4 DEF AgencyInv, Founding
<1>6. m.agency = req[c].agency /\ m.user = actor[c] /\ m.role = "owner"
  OBVIOUS
<1> HIDE DEF m
<1> QED BY <1>1, <1>3, <1>4, <1>5, <1>6, JoinSafe

LEMMA InsertMemberSafe ==
    ASSUME Ordered, AgencyInv, NEW c \in Calls, Inside(c), Counted, InsertMember(c)
    PROVE  AgencyInv'
<1> DEFINE m == [agency |-> req[c].agency, user |-> req[c].user, role |-> req[c].role]
<1>1. At(c, "addMember", "insert") /\ agencies' = agencies /\ pc'[c] = "done" /\ Step(c)
  BY DEF InsertMember, Finish, Goto, Return, Counted, Inside
<1>2. CASE memberships' = memberships
  <2>1. Founding(c)'
    BY <1>1 DEF Founding, At
  <2> QED BY <1>1, <1>2, <2>1, QuietAgency DEF At
<1>3. CASE memberships' # memberships
  <2>1. memberships' = memberships \cup {m} /\ Membership(req[c].agency, req[c].user) = {}
    BY <1>3 DEF InsertMember
  <2>2. m \in [agency : Agencies, user : Users, role : Roles]
    BY <1>1 DEF Ordered, WellFormed, At
  <2>3. PICK n \in memberships : n.agency = m.agency
    BY <1>1 DEF AgencyInv, Founding
  <2>4. agencies[m.agency] # None
    BY <2>3 DEF AgencyInv
  <2>5. \A o \in memberships : o.agency = m.agency => o.user # m.user
    BY <2>1 DEF Membership
  <2>6. \A d \in Calls : d # c /\ At(d, "createAgency", "owner") => req[d].agency # m.agency
    BY <2>3 DEF AgencyInv, Founding
  <2>7. req[c].op # "createAgency"
    BY <1>1 DEF At
  <2> HIDE DEF m
  <2> QED BY <1>1, <2>1, <2>2, <2>4, <2>5, <2>6, <2>7, JoinSafe
<1> QED BY <1>2, <1>3

LEMMA AccountsAgency ==
    ASSUME Ordered, AgencyInv, Entered, NEW c \in Calls, Inside(c), Counted, AccountsStep(c)
    PROVE  AgencyInv'
<1>1. CASE CreateAgency(c) \/ AddOwner(c) \/ InsertMember(c)
  BY <1>1, CreateAgencySafe, AddOwnerSafe, InsertMemberSafe
<1>2. CASE RequireActiveMembership(c) \/ GetMembership(c)
  <2>1. /\ Step(c) /\ UNCHANGED <<req, agencies, memberships, wrote>>
        /\ At(c, "addMember", "start") \/ At(c, "addMember", "existing")
    BY <1>2 DEF Inside, RequireActiveMembership, GetMembership, accountVars, Goto, Return
  <2>2. pc'[c] # "done" => \E m \in memberships : m.agency = req[c].agency
    BY <1>2 DEF RequireActiveMembership, GetMembership, Goto, Return, Counted, Membership, AgencyInv,
       Founding
  <2>3. Founding(c)'
    BY <2>1, <2>2 DEF Founding, At
  <2> QED BY <2>1, <2>3, QuietAgency
<1>3. CASE Register(c) \/ InsertUser(c) \/ Login(c) \/ CreateSession(c) \/ Logout(c) \/ SetUserStatus(c)
  <2>1. req[c].op \notin {"createAgency", "addMember"} /\ UNCHANGED <<agencies, memberships>>
    BY <1>3 DEF Register, InsertUser, Login, CreateSession, Logout, SetUserStatus, At, accountVars
  <2>2. Step(c) /\ req'[c] = req[c] /\ pc[c] # "new"
    BY DEF Inside, PreSteps
  <2>3. Founding(c)'
    BY <2>1, <2>2 DEF Founding, At
  <2> QED BY <2>1, <2>2, <2>3, QuietAgency
<1> QED BY <1>1, <1>2, <1>3 DEF AccountsStep

\* Steps of conversations and of the catalogue are of other calls.
LEMMA OtherThanAccounts ==
    ASSUME NEW c, MessagingStep(c) \/ CatalogueStep(c)
    PROVE  req[c].op \notin {"createAgency", "addMember", "register", "login", "logout"}
<1>1. CASE MessagingStep(c)
  BY <1>1 DEF MessagingStep, FindTarget, CreateConversation, RequireParticipant, BeginSend,
     CommitSend, LastMessage, WriteMark, SelectPreferences, InsertPreferences, UpdatePreferences, At
<1>2. CASE CatalogueStep(c)
  BY <1>2 DEF CatalogueStep, FindByUrl, FindByPhone, GetExternal, UpdateExternal, InsertExternal,
     CreateRequest, LoadRequest, WriteRequest, LoadOwnedRequest, FetchCandidates, DeleteMatches,
     PersistMatches, AgencyOfProperty, CreateProperty, LoadProperty, UpdateProperty,
     ChangePropertyStatus, ResetPrimary, InsertImage, SetListingStatus, SetRequestStatus, At
<1> QED BY <1>1, <1>2

\* The catalogue leaves users, sessions, agencies and members alone.
LEMMA CatalogueFrame == ASSUME NEW c, CatalogueStep(c) PROVE UNCHANGED accountVars /\ UNCHANGED access
<1>1. CASE FindByUrl(c) \/ FindByPhone(c) \/ GetExternal(c) \/ UpdateExternal(c) \/ InsertExternal(c)
  BY <1>1 DEF FindByUrl, FindByPhone, GetExternal, UpdateExternal, InsertExternal, accountVars,
     HandlerFrame
<1>2. CASE CreateRequest(c) \/ LoadRequest(c) \/ WriteRequest(c) \/ LoadOwnedRequest(c)
           \/ FetchCandidates(c) \/ DeleteMatches(c) \/ PersistMatches(c)
  BY <1>2 DEF CreateRequest, LoadRequest, WriteRequest, LoadOwnedRequest, FetchCandidates,
     DeleteMatches, PersistMatches, accountVars, HandlerFrame
<1>3. CASE AgencyOfProperty(c) \/ CreateProperty(c) \/ LoadProperty(c) \/ UpdateProperty(c)
           \/ ChangePropertyStatus(c) \/ ResetPrimary(c) \/ InsertImage(c)
  BY <1>3 DEF AgencyOfProperty, CreateProperty, LoadProperty, UpdateProperty, ChangePropertyStatus,
     ResetPrimary, InsertImage, accountVars, HandlerFrame
<1>4. CASE SetListingStatus(c) \/ SetRequestStatus(c)
  BY <1>4 DEF SetListingStatus, SetRequestStatus, accountVars, HandlerFrame
<1> QED BY <1>1, <1>2, <1>3, <1>4 DEF CatalogueStep

\* The inductive invariant of agencies.
THEOREM AgencySafe == Spec => []AgencyInv
<1>1. ASSUME AgencyInv, Ordered, AccessInv, TalkInv, [Next]_vars PROVE AgencyInv'
  <2> USE <1>1 DEF domainVars, accountVars
  <2>1. CASE Aside /\ UNCHANGED accountVars
    <3>1. \A c \in Calls : Founding(c)'
      BY <2>1 DEF Aside, AgencyInv, Founding, At
    <3>2. AccountsTypeOK' /\ AgenciesHaveOwners'
      BY <2>1 DEF Aside, AgencyInv, AgenciesHaveOwners, AccountsTypeOK
    <3> QED BY <2>1, <3>1, <3>2 DEF Aside, AgencyInv
  <2>2. ASSUME NEW c \in Calls, Early(c), UNCHANGED accountVars PROVE AgencyInv'
    <3>1. Founding(c)'
      BY <2>2 DEF Early, PreSteps, Founding, At
    <3> QED BY <2>2, <3>1, QuietAgency DEF Early
  <2>3. ASSUME NEW c \in Calls, Inside(c), MessagingStep(c) \/ CatalogueStep(c), UNCHANGED accountVars
        PROVE  AgencyInv'
    <3>1. Step(c) /\ req' = req /\ req[c].op \notin {"createAgency", "addMember"} /\ pc[c] # "new"
      BY <2>3, OtherThanAccounts DEF Inside, PreSteps
    <3>2. Founding(c)'
      BY <3>1 DEF Founding, At
    <3> QED BY <2>3, <3>1, <3>2, QuietAgency
  <2>4. ASSUME NEW c \in Calls, Inside(c), AccountsStep(c) PROVE AgencyInv'
    BY <2>4, AccountsAgency DEF AccessInv, TalkInv
  <2> QED BY <2>1, <2>2, <2>3, <2>4, StepKinds, CatalogueFrame
<1> QED BY InitAgency, OrderSafe, AccessSafe, TalkSafe, <1>1, PTL DEF Spec

-----------------------------------------------------------------------------
(* Properties and their images *)

\* What ReplacesEarlier says of images.
OnePrimary ==
    /\ \A i, j \in images : i.primary /\ j.primary /\ i.property = j.property =>
          i = j \/ Overlap(i.by, j.by)
    /\ \A c \in Calls : Committed(c, "addImage") /\ req[c].primary =>
          \E i \in images : i.primary /\ i.property = req[c].property

\* A call that writes to a property has found it.  One that adds a primary
\* image resets at least those of the calls before it, and only images of
\* its property; one that adds another image resets none.
Picturing(c) ==
    /\ At(c, "updateProperty", "write") \/ At(c, "setPropertyStatus", "write")
          \/ At(c, "addImage", "reset") \/ At(c, "addImage", "insert") =>
              properties[req[c].property] # None
    /\ At(c, "addImage", "insert") =>
          /\ req[c].primary \/ mem[c] = {}
          /\ \A b \in mem[c] : \E i \in images : i.by = b /\ i.property = req[c].property
          /\ req[c].primary => \A i \in images :
                i.property = req[c].property /\ <<i.by, c>> \in after => i.by \in mem[c]

Images == [by : Calls, property : Properties, primary : BOOLEAN]

ImageInv ==
    /\ properties \in [Properties -> PropertyRows \cup {None}]
    /\ images \subseteq Images
    /\ \A i \in images : properties[i.property] # None /\ pc[i.by] = "done"
    /\ \A i, j \in images : i.by = j.by => i = j
    /\ \A c \in Calls : Picturing(c)
    /\ OnePrimary

LEMMA InitImage == Init => ImageInv
<1> SUFFICES ASSUME Init PROVE ImageInv
  OBVIOUS
<1>1. /\ pc = [c \in Calls |-> "new"] /\ wrote = [c \in Calls |-> None]
      /\ properties = OldProperties /\ images = {}
  BY DEF Init, ApiInit, CatalogueInit
<1> QED BY <1>1, CatalogueAssumption DEF ImageInv, Picturing, OnePrimary, Committed, At

\* The calls that do not move.
LEMMA OthersPicturing ==
    ASSUME Ordered, ImageInv, NEW c \in Calls, Step(c), NEW d \in Calls, d # c,
           \A p \in Properties : properties[p] # None => properties'[p] # None,
           \A i \in images : \E j \in images' : j.by = i.by /\ j.property = i.property,
           \A j \in images' : j.by = c \/ \E i \in images : j.by = i.by /\ j.property = i.property
    PROVE  Picturing(d)'
<1>1. pc'[d] = pc[d] /\ req'[d] = req[d] /\ mem'[d] = mem[d]
  BY DEF Step
<1>2. Picturing(d)
  BY DEF ImageInv
<1>3. pc[d] # "new" /\ req[d].op \in {"updateProperty", "setPropertyStatus", "addImage"} =>
          req[d].property \in Properties
  BY DEF Ordered, WellFormed
<1>4. At(d, "updateProperty", "write")' \/ At(d, "setPropertyStatus", "write")'
          \/ At(d, "addImage", "reset")' \/ At(d, "addImage", "insert")' =>
              properties'[req'[d].property] # None
  BY <1>1, <1>2, <1>3 DEF Picturing, At
<1>5. ASSUME At(d, "addImage", "insert")'
      PROVE  /\ req'[d].primary \/ mem'[d] = {}
             /\ \A b \in mem'[d] : \E i \in images' : i.by = b /\ i.property = req'[d].property
             /\ req'[d].primary => \A i \in images' :
                   i.property = req'[d].property /\ <<i.by, d>> \in after' => i.by \in mem'[d]
  <2>1. At(d, "addImage", "insert") /\ pc[d] # "new"
    BY <1>1, <1>5 DEF At
  <2>2. \A b \in mem'[d] : \E i \in images' : i.by = b /\ i.property = req'[d].property
    BY <1>1, <1>2, <2>1 DEF Picturing
  <2>3. ASSUME req[d].primary, NEW j \in images', j.property = req[d].property, <<j.by, d>> \in after'
        PROVE  j.by \in mem[d]
    <3>1. j.by \in Calls
      BY <2>3 DEF ImageInv, Images
    <3>2. <<j.by, d>> \in after
      BY <2>1, <2>3, <3>1, OrderKept
    <3>3. j.by # c
      BY <3>1, <3>2 DEF Ordered, Step
    <3> QED BY <1>2, <2>1, <2>3, <3>2, <3>3 DEF Picturing
  <2> QED BY <1>1, <1>2, <2>1, <2>2, <2>3 DEF Picturing
<1> QED BY <1>4, <1>5 DEF Picturing

\* A step that adds no image.
LEMMA QuietImage ==
    ASSUME Ordered, ImageInv, NEW c \in Calls, Step(c), images' = images,
           properties' \in [Properties -> PropertyRows \cup {None}],
           \A p \in Properties : properties[p] # None => properties'[p] # None,
           wrote'[c] = wrote[c] \/ req'[c].op # "addImage", Picturing(c)'
    PROVE  ImageInv'
<1>1. \A d \in Calls : Picturing(d)'
  BY OthersPicturing
<1>2. \A i \in images' : properties'[i.property] # None /\ pc'[i.by] = "done"
  BY DEF ImageInv, Images, Step
<1>3. ASSUME NEW i \in images', NEW j \in images', i.primary, j.primary, i.property = j.property
      PROVE  i = j \/ Overlap(i.by, j.by)'
  <2>1. i.by \in Calls /\ j.by \in Calls /\ pc[i.by] = "done" /\ pc[j.by] = "done"
    BY DEF ImageInv, Images
  <2> QED BY <1>3, <2>1, OverlapKept DEF ImageInv, OnePrimary
<1>4. \A d \in Calls : Committed(d, "addImage")' /\ req'[d].primary =>
          \E i \in images' : i.primary /\ i.property = req'[d].property
  BY DEF ImageInv, OnePrimary, Committed, Step, Ordered
<1>5. OnePrimary'
  BY <1>3, <1>4 DEF OnePrimary
<1> QED BY <1>1, <1>2, <1>5 DEF ImageInv, PropertyRows, Images

LEMMA CreatePropertySafe ==
    ASSUME Ordered, ImageInv, Entered, NEW c \in Calls, Inside(c), Counted, CreateProperty(c)
    PROVE  ImageInv'
<1>1. /\ Step(c) /\ req' = req /\ At(c, "createProperty", "insert") /\ images' = images
      /\ pc'[c] = "done"
  BY DEF Inside, CreateProperty, Finish, Counted
<1> DEFINE row == [owner |-> actor[c], agency |-> req[c].agency, status |-> "draft", title |-> "new"]
<1>2. PICK p \in Properties : properties' = [properties EXCEPT ![p] = row]
  BY DEF CreateProperty
<1>3. actor[c] \in Users /\ req[c].agency \in Agencies \cup {None}
  BY <1>1 DEF Ordered, WellFormed, Entered, Public, At
<1>4. row \in PropertyRows /\ row # None
  <2>1. "draft" \in STRING /\ "new" \in STRING
    BY TextAssumption
  <2>2. row \in PropertyRows
    BY <1>3, <2>1 DEF PropertyRows
  <2> QED BY <2>2, CatalogueAssumption
<1> HIDE DEF row
<1>5. /\ properties' \in [Properties -> PropertyRows \cup {None}]
      /\ \A q \in Properties : properties[q] # None => properties'[q] # None
  BY <1>2, <1>4 DEF ImageInv
<1>6. Picturing(c)'
  BY <1>1 DEF Picturing, At
<1> QED BY <1>1, <1>5, <1>6, QuietImage DEF At

LEMMA WritePropertySafe ==
    ASSUME Ordered, ImageInv, NEW c \in Calls, Inside(c), Counted,
           UpdateProperty(c) \/ ChangePropertyStatus(c)
    PROVE  ImageInv'
<1> DEFINE p == req[c].property
<1>1. /\ Step(c) /\ req' = req /\ images' = images /\ pc'[c] = "done"
      /\ At(c, "updateProperty", "write") \/ At(c, "setPropertyStatus", "write")
  BY DEF Inside, UpdateProperty, ChangePropertyStatus, Finish, Counted
<1>2. p \in Properties /\ properties[p] # None
  BY <1>1 DEF Ordered, WellFormed, ImageInv, Picturing, At
<1>3. properties[p] \in PropertyRows
  BY <1>2 DEF ImageInv
<1>4. PICK row \in PropertyRows : properties' = [properties EXCEPT ![p] = row]
  <2>1. CASE UpdateProperty(c)
    <3>1. req[c].title \in STRING
      BY <2>1 DEF UpdateProperty, At, Ordered, WellFormed
    <3>2. [properties[p] EXCEPT !.title = req[c].title] \in PropertyRows
      BY <1>3, <3>1 DEF PropertyRows
    <3>3. properties' = [properties EXCEPT ![p] = [properties[p] EXCEPT !.title = req[c].title]]
      BY <2>1 DEF UpdateProperty
    <3> QED BY <3>2, <3>3
  <2>2. CASE ChangePropertyStatus(c)
    <3>1. req[c].status \in STRING
      BY <2>2 DEF ChangePropertyStatus, At, Ordered, WellFormed
    <3>2. [properties[p] EXCEPT !.status = req[c].status] \in PropertyRows
      BY <1>3, <3>1 DEF PropertyRows
    <3>3. properties' = [properties EXCEPT ![p] = [properties[p] EXCEPT !.status = req[c].status]]
      BY <2>2 DEF ChangePropertyStatus
    <3> QED BY <3>2, <3>3
  <2> QED BY <2>1, <2>2
<1>5. /\ properties' \in [Properties -> PropertyRows \cup {None}]
      /\ \A q \in Properties : properties[q] # None => properties'[q] # None
  BY <1>4, CatalogueAssumption DEF ImageInv
<1>6. Picturing(c)'
  BY <1>1 DEF Picturing, At
<1> QED BY <1>1, <1>5, <1>6, QuietImage DEF At

LEMMA ReadPropertySafe ==
    ASSUME Ordered, ImageInv, NEW c \in Calls, Inside(c), Counted,
           AgencyOfProperty(c) \/ LoadProperty(c) \/ ResetPrimary(c)
    PROVE  ImageInv'
<1>1. Step(c) /\ UNCHANGED <<req, after, properties, images, wrote>>
  BY DEF Inside, AgencyOfProperty, LoadProperty, ResetPrimary, catalogueVars, Goto, Return
<1>2. CASE AgencyOfProperty(c)
  <2>1. Picturing(c)'
    BY <1>1, <1>2 DEF AgencyOfProperty, At, Picturing
  <2> QED BY <1>1, <2>1, QuietImage DEF ImageInv
<1>3. CASE LoadProperty(c)
  <2>1. pc'[c] \in {"reset", "write", "done"} /\ (pc'[c] # "done" => properties[req[c].property] # None)
    BY <1>3 DEF LoadProperty, CanEdit, Goto, Return, Counted
  <2>2. Picturing(c)'
    BY <1>1, <2>1 DEF Picturing, At
  <2> QED BY <1>1, <2>2, QuietImage DEF ImageInv
<1>4. CASE ResetPrimary(c)
  <2>1. /\ At(c, "addImage", "reset") /\ pc'[c] = "insert"
        /\ mem'[c] = IF req[c].primary THEN {i.by : i \in {i \in images : i.property = req[c].property}}
                     ELSE {}
    BY <1>4 DEF ResetPrimary, Goto, Counted
  <2>2. properties[req[c].property] # None
    BY <2>1 DEF ImageInv, Picturing
  <2>3. \A b \in mem'[c] : \E i \in images : i.by = b /\ i.property = req[c].property
    BY <2>1
  <2>4. req[c].primary => \A i \in images : i.property = req[c].property => i.by \in mem'[c]
    BY <2>1
  <2>5. req[c].primary \/ mem'[c] = {}
    BY <2>1
  <2>6. Picturing(c)'
    BY <1>1, <2>1, <2>2, <2>3, <2>4, <2>5 DEF Picturing, At
  <2> QED BY <1>1, <2>6, QuietImage DEF ImageInv
<1> QED BY <1>2, <1>3, <1>4

\* The INSERT: a primary image that stays beside it is of a call in progress
\* at the same time.
LEMMA InsertImageSafe ==
    ASSUME Ordered, ImageInv, NEW c \in Calls, Inside(c), Counted, InsertImage(c)
    PROVE  ImageInv'
<1> DEFINE Reset(i) == [i EXCEPT !.primary = @ /\ i.by \notin mem[c]]
           new == [by |-> c, property |-> req[c].property, primary |-> req[c].primary]
<1>1. /\ Step(c) /\ UNCHANGED <<req, after, properties>> /\ At(c, "addImage", "insert")
      /\ images' = {Reset(i) : i \in images} \cup {new} /\ pc'[c] = "done"
  BY DEF Inside, InsertImage, Finish, Counted
<1>2. req[c].property \in Properties /\ req[c].primary \in BOOLEAN /\ properties[req[c].property] # None
  BY <1>1 DEF Ordered, WellFormed, ImageInv, Picturing, At
<1>3. new \in Images /\ new.by = c /\ new.property = req[c].property /\ new.primary = req[c].primary
  BY <1>2 DEF Images
<1>4. \A i \in images : /\ Reset(i) \in Images /\ Reset(i).by = i.by /\ Reset(i).property = i.property
                        /\ Reset(i).primary <=> (i.primary /\ i.by \notin mem[c])
  BY DEF ImageInv, Images
<1> HIDE DEF Reset, new
<1>5. \A i \in images : i.by \in Calls /\ pc[i.by] = "done" /\ i.by # c
  BY <1>1 DEF ImageInv, Images, At
<1>6. ASSUME NEW j \in images' PROVE j = new \/ \E i \in images : j = Reset(i)
  BY <1>1
<1>7. images' \subseteq Images
  BY <1>3, <1>4, <1>6
<1>8. \A j \in images' : properties'[j.property] # None /\ pc'[j.by] = "done"
  BY <1>1, <1>2, <1>3, <1>4, <1>5, <1>6 DEF ImageInv, Step
<1>9. \A i, j \in images' : i.by = j.by => i = j
  BY <1>3, <1>4, <1>5, <1>6 DEF ImageInv
<1>10. \A d \in Calls : Picturing(d)'
  <2>1. Picturing(c)'
    BY <1>1 DEF Picturing, At
  <2>2. \A i \in images : \E j \in images' : j.by = i.by /\ j.property = i.property
    BY <1>1, <1>4
  <2>3. \A j \in images' : j.by = c \/ \E i \in images : j.by = i.by /\ j.property = i.property
    BY <1>3, <1>4, <1>6
  <2> QED BY <1>1, <2>1, <2>2, <2>3, OthersPicturing
<1>11. ASSUME NEW i \in images, Reset(i).primary, new.primary, i.property = new.property
       PROVE  Overlap(i.by, c)' /\ Overlap(c, i.by)'
  <2>1. i.by \notin mem[c] /\ req[c].primary
    BY <1>3, <1>4, <1>11
  <2>2. <<i.by, c>> \notin after
    BY <1>1, <1>3, <1>11, <2>1 DEF ImageInv, Picturing
  <2>3. Overlap(i.by, c) /\ Overlap(c, i.by)
    BY <1>1, <1>5, <2>2, InProgress DEF At
  <2> QED BY <1>1, <2>3 DEF Overlap
<1>12. ASSUME NEW i \in images', NEW j \in images', i.primary, j.primary, i.property = j.property
       PROVE  i = j \/ Overlap(i.by, j.by)'
  <2>1. CASE i = new \/ j = new
    BY <1>3, <1>4, <1>6, <1>11, <1>12, <2>1
  <2>2. ASSUME NEW k \in images, NEW l \in images, i = Reset(k), j = Reset(l)
        PROVE  i = j \/ Overlap(i.by, j.by)'
    <3>1. k = l \/ Overlap(k.by, l.by)
      BY <1>4, <1>12, <2>2 DEF ImageInv, OnePrimary
    <3>2. Overlap(k.by, l.by) => Overlap(k.by, l.by)'
      BY <1>1 DEF Overlap
    <3> QED BY <1>4, <2>2, <3>1, <3>2
  <2> QED BY <1>6, <2>1, <2>2
<1>13. ASSUME NEW d \in Calls, Committed(d, "addImage")', req'[d].primary
       PROVE  \E i \in images' : i.primary /\ i.property = req'[d].property
  <2>1. CASE req[d].property = req[c].property /\ req[c].primary
    BY <1>1, <1>3, <2>1
  <2>2. CASE d # c /\ (req[d].property # req[c].property \/ ~req[c].primary)
    <3>1. Committed(d, "addImage") /\ req[d].primary
      BY <1>1, <1>13, <2>2 DEF Committed, Step
    <3>2. PICK i \in images : i.primary /\ i.property = req[d].property
      BY <3>1 DEF ImageInv, OnePrimary
    <3>3. i.by \notin mem[c]
      BY <1>1, <2>2, <3>2 DEF ImageInv, Picturing
    <3> QED BY <1>1, <1>4, <3>2, <3>3
  <2> QED BY <1>1, <1>13, <2>1, <2>2
<1>14. OnePrimary'
  BY <1>12, <1>13 DEF OnePrimary
<1> QED BY <1>1, <1>7, <1>8, <1>9, <1>10, <1>14 DEF ImageInv, PropertyRows, Images

\* The rest of the catalogue leaves properties and images alone.
LEMMA OtherThanProperties ==
    ASSUME NEW c, CatalogueStep(c),
           ~(AgencyOfProperty(c) \/ CreateProperty(c) \/ LoadProperty(c) \/ UpdateProperty(c)
             \/ ChangePropertyStatus(c) \/ ResetPrimary(c) \/ InsertImage(c))
    PROVE  /\ UNCHANGED <<properties, images>>
           /\ req[c].op \notin {"createProperty", "updateProperty", "setPropertyStatus", "addImage"}
<1>1. CASE FindByUrl(c) \/ FindByPhone(c) \/ GetExternal(c) \/ UpdateExternal(c) \/ InsertExternal(c)
  BY <1>1 DEF FindByUrl, FindByPhone, GetExternal, UpdateExternal, InsertExternal, catalogueVars,
     owned, At
<1>2. CASE CreateRequest(c) \/ LoadRequest(c) \/ WriteRequest(c) \/ LoadOwnedRequest(c)
           \/ FetchCandidates(c) \/ DeleteMatches(c) \/ PersistMatches(c)
  BY <1>2 DEF CreateRequest, LoadRequest, WriteRequest, LoadOwnedRequest, FetchCandidates,
     DeleteMatches, PersistMatches, catalogueVars, owned, At
<1>3. CASE SetListingStatus(c) \/ SetRequestStatus(c)
  BY <1>3 DEF SetListingStatus, SetRequestStatus, owned, At
<1> QED BY <1>1, <1>2, <1>3 DEF CatalogueStep

\* Steps of accounts and conversations are not of the catalogue's calls.
LEMMA OtherThanCatalogue ==
    ASSUME NEW c, AccountsStep(c) \/ MessagingStep(c)
    PROVE  req[c].op \notin {"ingest", "createRequest", "updateRequest", "archiveRequest", "match",
                             "createProperty", "updateProperty", "setPropertyStatus", "addImage"}
<1>1. CASE AccountsStep(c)
  BY <1>1 DEF AccountsStep, Register, InsertUser, Login, CreateSession, Logout, CreateAgency,
     AddOwner, RequireActiveMembership, GetMembership, InsertMember, SetUserStatus, At
<1>2. CASE MessagingStep(c)
  BY <1>2 DEF MessagingStep, FindTarget, CreateConversation, RequireParticipant, BeginSend,
     CommitSend, LastMessage, WriteMark, SelectPreferences, InsertPreferences, UpdatePreferences, At
<1> QED BY <1>1, <1>2

\* The inductive invariant of properties and images.
THEOREM ImageSafe == Spec => []ImageInv
<1>1. ASSUME ImageInv, Ordered, AccessInv, TalkInv, [Next]_vars PROVE ImageInv'
  <2> USE <1>1 DEF domainVars, catalogueVars
  <2>1. CASE Aside /\ UNCHANGED catalogueVars
    <3>1. OnePrimary'
      BY <2>1 DEF Aside, ImageInv, OnePrimary, Committed, Overlap
    <3>2. \A c \in Calls : Picturing(c)'
      BY <2>1 DEF Aside, ImageInv, Picturing, At
    <3> QED BY <2>1, <3>1, <3>2 DEF Aside, ImageInv, PropertyRows, Images
  <2>2. ASSUME NEW c \in Calls, Early(c), UNCHANGED catalogueVars PROVE ImageInv'
    <3>1. Picturing(c)'
      BY <2>2 DEF Early, PreSteps, Picturing, At
    <3> QED BY <2>2, <3>1, QuietImage DEF Early, ImageInv
  <2>3. ASSUME NEW c \in Calls, Inside(c), UNCHANGED <<properties, images>>,
               req[c].op \notin {"updateProperty", "setPropertyStatus", "addImage"}
        PROVE  ImageInv'
    <3>1. Picturing(c)'
      BY <2>3 DEF Inside, Picturing, At
    <3> QED BY <2>3, <3>1, QuietImage DEF Inside, ImageInv
  <2>4. ASSUME NEW c \in Calls, Inside(c), CatalogueStep(c) PROVE ImageInv'
    BY <2>3, <2>4, OtherThanProperties, CreatePropertySafe, WritePropertySafe, ReadPropertySafe,
       InsertImageSafe DEF AccessInv, TalkInv
  <2> QED BY <2>1, <2>2, <2>3, <2>4, StepKinds, OtherThanCatalogue
<1> QED BY InitImage, OrderSafe, AccessSafe, TalkSafe, <1>1, PTL DEF Spec

-----------------------------------------------------------------------------
(* Listings *)

\* The URL of an external listing is that of a body it came with.
Known(e) ==
    \/ e \in DOMAIN OldListings /\ externals[e].url = OldListings[e].url
    \/ \E d \in Calls : /\ Committed(d, "ingest") /\ req[d].body.external = e
                        /\ externals[e].url = req[d].body.url

\* If there is a row for the call's external listing, it met another.
Excused(c) == externals[req[c].body.external] = None \/ MetAnother(c, req[c].body)

\* A call that found nothing by URL is excused; what it has found or made is
\* its own listing or one with an external listing.
Ingesting(c) ==
    /\ At(c, "ingest", "phone") => Excused(c)
    /\ At(c, "ingest", "external") \/ At(c, "ingest", "insert") \/ At(c, "ingest", "update") =>
          (mem[c] = c /\ Excused(c)) \/ Linked(mem[c])
    /\ At(c, "ingest", "update") => externals[req[c].body.external] # None

ListingInv ==
    /\ listings \in [Listings -> ListingRows \cup {None}]
    /\ externals \in [Externals -> ExternalRows \cup {None}]
    /\ \A e \in Externals : externals[e] # None =>
          listings[externals[e].listing] # None /\ Known(e)
    /\ \A c \in Calls : listings[c] # None => pc[c] = "done"
    /\ \A c \in Calls : Ingesting(c)
    /\ ListingsAreLinked

\* What a step of call c may do to the two tables: rows stay, an external
\* listing keeps its listing and is written by a call that ingests it, and a
\* listing comes only from the call it is named by, linked or excused.
ListingStep(c) ==
    /\ listings' \in [Listings -> ListingRows \cup {None}]
    /\ externals' \in [Externals -> ExternalRows \cup {None}]
    /\ \A l \in Listings : listings[l] # None => listings'[l] # None
    /\ \A e \in Externals : externals[e] # None =>
          externals'[e] # None /\ externals'[e].listing = externals[e].listing
    /\ \A e \in Externals : externals'[e] # externals[e] =>
          /\ Committed(c, "ingest")' /\ req'[c].body.external = e
          /\ externals'[e].url = req'[c].body.url /\ listings'[externals'[e].listing] # None
    /\ \A l \in Listings : listings'[l] # None =>
          \/ listings[l] # None
          \/ /\ l = c /\ pc'[c] = "done"
             /\ \/ Linked(c)'
                \/ /\ wrote'[c] = [action |-> "updated", listing |-> c]
                   /\ MetAnother(c, req[c].body)'

LEMMA InitListing == Init => ListingInv
<1> SUFFICES ASSUME Init PROVE ListingInv
  OBVIOUS
<1>1. /\ pc = [c \in Calls |-> "new"]
      /\ listings = [l \in Listings |->
                        IF l \in DOMAIN OldListings THEN NewListing(OldListings[l]) ELSE None]
      /\ externals = [e \in Externals |->
                        IF e \in DOMAIN OldListings THEN External(e, OldListings[e]) ELSE None]
  BY DEF Init, ApiInit, CatalogueInit
<1>2. ASSUME NEW e \in DOMAIN OldListings
      PROVE  /\ e \in Externals /\ e \in Listings /\ e \notin Calls
             /\ NewListing(OldListings[e]) \in ListingRows
             /\ External(e, OldListings[e]) \in ExternalRows
             /\ External(e, OldListings[e]).listing = e
             /\ External(e, OldListings[e]).url = OldListings[e].url
  <2>1. OldListings[e] \in Bodies /\ e \in Externals /\ e \in Listings /\ e \notin Calls
    BY CatalogueAssumption DEF Listings
  <2>2. NewListing(OldListings[e]) \in ListingRows
    BY <2>1, TextAssumption DEF NewListing, ListingRows, Bodies
  <2>3. External(e, OldListings[e]) \in ExternalRows
    BY <2>1 DEF External, ExternalRows, Bodies
  <2> QED BY <2>1, <2>2, <2>3 DEF External
<1>3. /\ listings \in [Listings -> ListingRows \cup {None}]
      /\ externals \in [Externals -> ExternalRows \cup {None}]
  BY <1>1, <1>2
<1>4. \A e \in Externals : externals[e] # None => listings[externals[e].listing] # None /\ Known(e)
  BY <1>1, <1>2, CatalogueAssumption DEF Known
<1>5. \A c \in Calls : listings[c] = None
  BY <1>1, <1>2 DEF Listings
<1>6. \A c \in Calls : Ingesting(c)
  BY <1>1 DEF Ingesting, At
<1>7. ListingsAreLinked
  BY <1>1, <1>2, <1>5, CatalogueAssumption DEF ListingsAreLinked, Linked, Listings
<1> QED BY <1>3, <1>4, <1>5, <1>6, <1>7 DEF ListingInv

LEMMA MetKept ==
    ASSUME Ordered, NEW c \in Calls, Step(c), NEW d \in Calls, pc[d] # "new", NEW b, MetAnother(d, b)
    PROVE  MetAnother(d, b)'
<1>1. CASE b.external \in DOMAIN OldListings /\ OldListings[b.external].url # b.url
  BY <1>1 DEF MetAnother
<1>2. ASSUME NEW e \in Calls, e # d, Committed(e, "ingest"), req[e].body.external = b.external,
             Overlap(e, d) \/ req[e].body.url # b.url
      PROVE  MetAnother(d, b)'
  <2>1. Committed(e, "ingest")' /\ req'[e] = req[e] /\ pc[e] # "new"
    BY <1>2, CommitsKept DEF Committed
  <2>2. Overlap(e, d) => Overlap(e, d)'
    BY <2>1, OverlapKept
  <2> QED BY <1>2, <2>1, <2>2 DEF MetAnother
<1> QED BY <1>1, <1>2 DEF MetAnother

LEMMA LinkedKept ==
    ASSUME NEW c \in Calls, ListingStep(c), NEW l, Linked(l)
    PROVE  Linked(l)'
BY DEF ListingStep, Linked

\* The calls that do not move.
LEMMA OthersIngesting ==
    ASSUME Ordered, ListingInv, NEW c \in Calls, Step(c), ListingStep(c), NEW d \in Calls, d # c
    PROVE  Ingesting(d)'
<1>1. pc'[d] = pc[d] /\ req'[d] = req[d] /\ mem'[d] = mem[d]
  BY DEF Step
<1>2. Ingesting(d)
  BY DEF ListingInv
<1>3. pc[d] # "new" /\ req[d].op = "ingest" => req[d].body.external \in Externals
  BY DEF Ordered, WellFormed
<1>4. ASSUME pc[d] \notin {"new", "done"}, req[d].op = "ingest", Excused(d) PROVE Excused(d)'
  <2> DEFINE b == req[d].body
  <2>1. CASE externals'[b.external] = externals[b.external]
    <3>1. MetAnother(d, b) => MetAnother(d, req[d].body)'
      BY <1>1, <1>4, MetKept DEF MetAnother
    <3> QED BY <1>1, <1>4, <2>1, <3>1 DEF Excused
  <2>2. CASE externals'[b.external] # externals[b.external]
    <3>1. Committed(c, "ingest")' /\ req'[c].body.external = b.external
      BY <1>3, <1>4, <2>2 DEF ListingStep
    <3>2. <<c, d>> \notin after' /\ <<d, c>> \notin after'
      <4>1. <<c, d>> \notin after /\ <<d, c>> \notin after
        BY <1>4 DEF Ordered, Step
      <4> QED BY <1>4, <4>1, OrderKept DEF Step, Ended
    <3>3. MetAnother(d, req[d].body)'
      BY <1>1, <3>1, <3>2 DEF MetAnother, Overlap
    <3> QED BY <3>3 DEF Excused
  <2> QED BY <2>1, <2>2
<1>5. Linked(mem[d]) => Linked(mem[d])'
  BY <1>1, LinkedKept DEF Linked
<1>6. At(d, "ingest", "update")' => externals'[req'[d].body.external] # None
  BY <1>1, <1>2, <1>3 DEF Ingesting, At, ListingStep
<1>7. At(d, "ingest", "phone")' => Excused(d)'
  BY <1>1, <1>2, <1>4 DEF Ingesting, At
<1>8. At(d, "ingest", "external")' \/ At(d, "ingest", "insert")' \/ At(d, "ingest", "update")' =>
          (mem'[d] = d /\ Excused(d)') \/ Linked(mem[d])'
  BY <1>1, <1>2, <1>4, <1>5 DEF Ingesting, At
<1> QED BY <1>6, <1>7, <1>8 DEF Ingesting

\* Such a step keeps the invariant.
LEMMA ListingKept ==
    ASSUME Ordered, ListingInv, NEW c \in Calls, Step(c), ListingStep(c), Ingesting(c)'
    PROVE  ListingInv'
<1>1. \A d \in Calls : Ingesting(d)'
  BY OthersIngesting
<1>2. ASSUME NEW e \in Externals, externals'[e] # None
      PROVE  listings'[externals'[e].listing] # None /\ Known(e)'
  <2>1. CASE externals'[e] = externals[e]
    <3>1. listings[externals[e].listing] # None /\ Known(e) /\ externals[e].listing \in Listings
      BY <1>2, <2>1 DEF ListingInv, ExternalRows
    <3>2. Known(e)'
      <4>1. CASE e \in DOMAIN OldListings /\ externals[e].url = OldListings[e].url
        BY <2>1, <4>1 DEF Known
      <4>2. ASSUME NEW d \in Calls, Committed(d, "ingest"), req[d].body.external = e,
                   externals[e].url = req[d].body.url
            PROVE  Known(e)'
        BY <2>1, <4>2, CommitsKept DEF Known, Committed
      <4> QED BY <3>1, <4>1, <4>2 DEF Known
    <3> QED BY <2>1, <3>1, <3>2 DEF ListingStep
  <2>2. CASE externals'[e] # externals[e]
    BY <2>2 DEF ListingStep, Known
  <2> QED BY <2>1, <2>2
<1>3. \A d \in Calls : listings'[d] # None => pc'[d] = "done"
  BY DEF ListingInv, ListingStep, Listings, Step
<1>4. ASSUME NEW l \in Listings, listings'[l] # None
      PROVE  \/ Linked(l)'
             \/ /\ l \in Calls /\ wrote'[l] = [action |-> "updated", listing |-> l]
                /\ MetAnother(l, req[l].body)'
  <2>1. CASE listings[l] # None /\ Linked(l)
    BY <2>1, LinkedKept
  <2>2. CASE listings[l] # None /\ ~Linked(l)
    <3>1. /\ l \in Calls /\ wrote[l] = [action |-> "updated", listing |-> l]
          /\ MetAnother(l, req[l].body) /\ pc[l] = "done"
      BY <2>2 DEF ListingInv, ListingsAreLinked, Linked
    <3>2. wrote'[l] = wrote[l] /\ req'[l] = req[l]
      BY <3>1 DEF Step
    <3>3. MetAnother(l, req[l].body)'
      BY <3>1, <3>2, MetKept DEF MetAnother
    <3> QED BY <3>1, <3>2, <3>3
  <2>3. CASE listings[l] = None
    <3>1. /\ l = c
          /\ \/ Linked(c)'
             \/ wrote'[c] = [action |-> "updated", listing |-> c] /\ MetAnother(c, req[c].body)'
      BY <1>4, <2>3 DEF ListingStep
    <3> QED BY <3>1
  <2> QED BY <2>1, <2>2, <2>3
<1>5. ListingsAreLinked'
  BY <1>4 DEF ListingsAreLinked, Linked
<1> QED BY <1>1, <1>2, <1>3, <1>5 DEF ListingInv, ListingStep, ListingRows, ExternalRows

LEMMA QuietListing ==
    ASSUME Ordered, ListingInv, NEW c \in Calls, Step(c), UNCHANGED <<listings, externals>>, Ingesting(c)'
    PROVE  ListingInv' /\ ListingStep(c)
<1>1. ListingStep(c)
  BY DEF ListingInv, ListingStep
<1> QED BY <1>1, ListingKept

\* The body of a call that ingests, and the listing it may be about to make.
LEMMA IngestFacts ==
    ASSUME Ordered, ListingInv, NEW c \in Calls, Inside(c), req[c].op = "ingest"
    PROVE  /\ req[c].body.external \in Externals /\ req[c].body.url \in STRING
           /\ req[c].body.phone \in STRING \cup {None} /\ req[c].body.attributes \in STRING
           /\ c \in Listings /\ listings[c] = None /\ wrote[c] = None /\ Step(c) /\ req' = req
           /\ pc[c] \notin {"new", "done"}
           /\ \A l : Linked(l) => l \in Listings /\ listings[l] # None
<1>1. Step(c) /\ req' = req /\ pc[c] \notin {"new", "done"}
  BY DEF Inside, Step, PreSteps
<1>2. WellFormed(req[c]) /\ wrote[c] = None
  BY <1>1 DEF Ordered
<1>3. c \in Listings /\ listings[c] = None
  BY <1>1 DEF ListingInv, Listings
<1>4. \A l : Linked(l) => l \in Listings /\ listings[l] # None
  BY DEF ListingInv, Linked, ExternalRows
<1> QED BY <1>1, <1>2, <1>3, <1>4 DEF WellFormed

LEMMA FindByUrlSafe ==
    ASSUME Ordered, ListingInv, Counted, NEW c \in Calls, Inside(c), FindByUrl(c)
    PROVE  ListingInv' /\ ListingStep(c)
<1> DEFINE b == req[c].body
           SameUrl(row) == row.url = b.url
<1>1. At(c, "ingest", "start") /\ UNCHANGED <<listings, externals, wrote>> /\ req[c].op = "ingest"
  BY DEF FindByUrl, catalogueVars, Goto, At
<1>2. /\ Step(c) /\ req' = req /\ wrote[c] = None /\ b.external \in Externals
      /\ after' = after /\ pc[c] # "new"
  BY <1>1, IngestFacts DEF Inside
<1>3. CASE \E l \in ListingsWith(SameUrl) : Goto(c, "external", l)
  <2>1. PICK l \in ListingsWith(SameUrl) : Goto(c, "external", l)
    BY <1>3
  <2>2. Linked(l)
    BY DEF ListingsWith, Linked
  <2>3. Linked(l)'
    BY <1>1, <2>2 DEF Linked
  <2>4. pc'[c] = "external" /\ mem'[c] = l
    BY <2>1 DEF Goto, Counted
  <2>5. Ingesting(c)'
    BY <2>3, <2>4 DEF Ingesting, At
  <2> QED BY <1>1, <1>2, <2>5, QuietListing
<1>4. CASE ListingsWith(SameUrl) = {} /\ Goto(c, "phone", None)
  <2>1. pc'[c] = "phone"
    BY <1>4 DEF Goto, Counted
  <2>2. externals[b.external] # None => MetAnother(c, b)
    <3> SUFFICES ASSUME externals[b.external] # None PROVE MetAnother(c, b)
      OBVIOUS
    <3>1. externals[b.external].url # b.url
      BY <1>2, <1>4 DEF ListingsWith
    <3>2. Known(b.external)
      BY <1>2 DEF ListingInv
    <3> HIDE DEF b
    <3> QED BY <1>2, <3>1, <3>2 DEF Known, MetAnother, Committed
  <2>3. Excused(c)'
    <3>1. MetAnother(c, b) => MetAnother(c, req[c].body)'
      BY <1>1, <1>2 DEF MetAnother, Committed, Overlap
    <3> QED BY <1>1, <1>2, <2>2, <3>1 DEF Excused
  <2>4. Ingesting(c)'
    BY <2>1, <2>3 DEF Ingesting, At
  <2> QED BY <1>1, <1>2, <2>4, QuietListing
<1> QED BY <1>3, <1>4 DEF FindByUrl

LEMMA FindByPhoneSafe ==
    ASSUME Ordered, ListingInv, Counted, NEW c \in Calls, Inside(c), FindByPhone(c)
    PROVE  ListingInv' /\ ListingStep(c)
<1>1. At(c, "ingest", "phone") /\ UNCHANGED <<listings, externals, wrote>> /\ req[c].op = "ingest"
  BY DEF FindByPhone, catalogueVars, Goto, At
<1>2. Step(c) /\ req' = req /\ after' = after
  BY <1>1, IngestFacts DEF Inside
<1>3. \E l : pc'[c] = "external" /\ mem'[c] = l /\ (l = c \/ Linked(l))
  BY DEF FindByPhone, Goto, Counted, ListingsWith, Linked
<1>4. Excused(c)
  BY <1>1 DEF ListingInv, Ingesting
<1>5. Excused(c)'
  BY <1>1, <1>2, <1>4 DEF Excused, MetAnother, Committed, Overlap
<1>6. Linked(mem'[c]) => Linked(mem[c])'
  BY <1>1 DEF Linked
<1>7. Ingesting(c)'
  BY <1>3, <1>5, <1>6 DEF Ingesting, At
<1> QED BY <1>1, <1>2, <1>7, QuietListing

LEMMA GetExternalSafe ==
    ASSUME Ordered, ListingInv, Counted, NEW c \in Calls, Inside(c), GetExternal(c)
    PROVE  ListingInv' /\ ListingStep(c)
<1>1. At(c, "ingest", "external") /\ UNCHANGED <<listings, externals, wrote>> /\ req[c].op = "ingest"
  BY DEF GetExternal, catalogueVars, Goto, At
<1>2. Step(c) /\ req' = req /\ after' = after
  BY <1>1, IngestFacts DEF Inside
<1>3. /\ mem'[c] = mem[c]
      /\ pc'[c] \in {"insert", "update"} /\ (pc'[c] = "update" => externals[req[c].body.external] # None)
  BY DEF GetExternal, Goto, Counted
<1>4. (mem[c] = c /\ Excused(c)) \/ Linked(mem[c])
  BY <1>1 DEF ListingInv, Ingesting
<1>5. Excused(c) => Excused(c)'
  BY <1>1, <1>2 DEF Excused, MetAnother, Committed, Overlap
<1>6. Linked(mem[c]) => Linked(mem[c])'
  BY <1>1, <1>3 DEF Linked
<1>7. Ingesting(c)'
  BY <1>1, <1>2, <1>3, <1>4, <1>5, <1>6 DEF Ingesting, At
<1> QED BY <1>1, <1>2, <1>7, QuietListing

\* createListing and refreshListing leave a row for l and for the call's own
\* listing, if it makes one, and the other listings as they are.
LEMMA RefreshedRows ==
    ASSUME ListingInv, NEW c \in Calls, req[c].body.attributes \in STRING, c \in Listings,
           NEW l \in Listings, listings[l] # None \/ (mem[c] = c /\ l = c)
    PROVE  /\ Refreshed(c, l) \in [Listings -> ListingRows \cup {None}]
           /\ Refreshed(c, l)[l] # None /\ (mem[c] = c => Refreshed(c, l)[c] # None)
           /\ \A k \in Listings : k # l /\ (k # c \/ mem[c] # c) => Refreshed(c, l)[k] = listings[k]
<1> DEFINE made == IF mem[c] = c THEN [listings EXCEPT ![c] = NewListing(req[c].body)] ELSE listings
           row == [made[l] EXCEPT !.attributes = req[c].body.attributes]
<1>1. NewListing(req[c].body) \in ListingRows
  BY TextAssumption DEF NewListing, ListingRows
<1>2. made \in [Listings -> ListingRows \cup {None}] /\ made[l] \in ListingRows
  BY <1>1 DEF ListingInv
<1>3. mem[c] = c => made[c] \in ListingRows
  BY <1>1, <1>2
<1>4. \A k \in Listings : k # c \/ mem[c] # c => made[k] = listings[k]
  BY <1>1 DEF ListingInv
<1>5. row \in ListingRows
  BY <1>2 DEF ListingRows
<1>6. Refreshed(c, l) = [made EXCEPT ![l] = row]
  BY DEF Refreshed
<1> HIDE DEF made, row
<1> QED BY <1>2, <1>3, <1>4, <1>5, <1>6, CatalogueAssumption

\* A commit of ingestListing: row is written for the call's external listing,
\* and a listing that comes to be is linked or excused.
LEMMA WriteListing ==
    ASSUME Ordered, ListingInv, NEW c \in Calls, Inside(c), req[c].op = "ingest", pc'[c] = "done",
           wrote'[c] # None, NEW row \in ExternalRows, row.url = req[c].body.url,
           externals' = [externals EXCEPT ![req[c].body.external] = row],
           LET old == externals[req[c].body.external] IN old # None => row.listing = old.listing,
           listings' \in [Listings -> ListingRows \cup {None}], listings'[row.listing] # None,
           \A l \in Listings : listings[l] # None => listings'[l] # None,
           \A l \in Listings : listings'[l] # None =>
               \/ listings[l] # None
               \/ l = c /\ row.listing = c
               \/ /\ l = c /\ wrote'[c] = [action |-> "updated", listing |-> c]
                  /\ MetAnother(c, req[c].body)
    PROVE  ListingInv' /\ ListingStep(c)
<1> DEFINE e == req[c].body.external
<1>1. /\ e \in Externals /\ Step(c) /\ req' = req /\ pc[c] # "new" /\ row # None
  BY IngestFacts, CatalogueAssumption
<1>2. /\ externals'[e] = row /\ \A f \in Externals : f # e => externals'[f] = externals[f]
      /\ externals' \in [Externals -> ExternalRows \cup {None}]
  BY <1>1 DEF ListingInv
<1>3. row.listing = c => Linked(c)'
  BY <1>1, <1>2 DEF Linked
<1>4. MetAnother(c, req[c].body) => MetAnother(c, req[c].body)'
  BY <1>1, MetKept DEF MetAnother
<1>5. Committed(c, "ingest")' /\ req'[c].body.external = e /\ req'[c].body.url = row.url
  BY <1>1 DEF Committed
<1>6. \A f \in Externals : externals[f] # None =>
          externals'[f] # None /\ externals'[f].listing = externals[f].listing
  BY <1>1, <1>2
<1>7. \A f \in Externals : externals'[f] # externals[f] =>
          /\ Committed(c, "ingest")' /\ req'[c].body.external = f
          /\ externals'[f].url = req'[c].body.url /\ listings'[externals'[f].listing] # None
  BY <1>2, <1>5
<1>8. \A l \in Listings : listings'[l] # None =>
          \/ listings[l] # None
          \/ /\ l = c /\ pc'[c] = "done"
             /\ \/ Linked(c)'
                \/ /\ wrote'[c] = [action |-> "updated", listing |-> c]
                   /\ MetAnother(c, req[c].body)'
  BY <1>3, <1>4
<1>9. ListingStep(c)
  BY <1>2, <1>6, <1>7, <1>8 DEF ListingStep
<1>10. Ingesting(c)'
  BY DEF Ingesting, At
<1> QED BY <1>1, <1>9, <1>10, ListingKept

LEMMA UpdateExternalSafe ==
    ASSUME Ordered, ListingInv, Counted, NEW c \in Calls, Inside(c), UpdateExternal(c)
    PROVE  ListingInv' /\ ListingStep(c)
<1> DEFINE b == req[c].body
           old == externals[b.external]
           row == External(old.listing, b)
           result == [action |-> "updated", listing |-> mem[c]]
<1>1. /\ At(c, "ingest", "update") /\ req[c].op = "ingest"
      /\ externals' = [externals EXCEPT ![b.external] = row]
      /\ listings' = Refreshed(c, mem[c]) /\ pc'[c] = "done" /\ wrote'[c] = result
  BY DEF UpdateExternal, Finish, Counted, At
<1>2. /\ b.external \in Externals /\ b.url \in STRING /\ b.phone \in STRING \cup {None}
      /\ b.attributes \in STRING /\ c \in Listings /\ listings[c] = None
      /\ \A l : Linked(l) => l \in Listings /\ listings[l] # None
  BY <1>1, IngestFacts
<1>3. old # None /\ old \in ExternalRows /\ old.listing \in Listings /\ listings[old.listing] # None
  BY <1>1, <1>2 DEF ListingInv, Ingesting, ExternalRows
<1>4. (mem[c] = c /\ MetAnother(c, b)) \/ (mem[c] # c /\ Linked(mem[c]))
  BY <1>1, <1>2, <1>3 DEF ListingInv, Ingesting, Excused
<1>5. mem[c] \in Listings /\ (listings[mem[c]] # None \/ (mem[c] = c /\ mem[c] = c))
  BY <1>2, <1>4
<1>6. row \in ExternalRows /\ row.url = b.url /\ row.listing = old.listing
  BY <1>2, <1>3 DEF External, ExternalRows
<1>7. result \in IngestionResults /\ result # None
  <2>1. result \in IngestionResults
    BY <1>5 DEF IngestionResults
  <2> QED BY <2>1, CatalogueAssumption
<1>8. /\ listings' \in [Listings -> ListingRows \cup {None}] /\ listings'[mem[c]] # None
      /\ \A k \in Listings : k # mem[c] => listings'[k] = listings[k]
  BY <1>1, <1>2, <1>5, RefreshedRows
<1>9. \A l \in Listings : listings[l] # None => listings'[l] # None
  BY <1>8
<1>10. \A l \in Listings : listings'[l] # None =>
          listings[l] # None \/ (l = c /\ wrote'[c] = [action |-> "updated", listing |-> c] /\ MetAnother(c, b))
  BY <1>1, <1>2, <1>4, <1>8
<1>11. listings'[row.listing] # None
  BY <1>3, <1>6, <1>9
<1> HIDE DEF row, result
<1> QED BY <1>1, <1>6, <1>7, <1>8, <1>9, <1>10, <1>11, WriteListing

\* The row is still missing: it is inserted with the call's listing.
LEMMA InsertNewSafe ==
    ASSUME Ordered, ListingInv, Counted, NEW c \in Calls, Inside(c), InsertExternal(c),
           externals[req[c].body.external] = None
    PROVE  ListingInv' /\ ListingStep(c)
<1> DEFINE b == req[c].body
           row == External(mem[c], b)
           result == [action |-> IF mem[c] = c THEN "created" ELSE "linked", listing |-> mem[c]]
<1>1. /\ At(c, "ingest", "insert") /\ req[c].op = "ingest"
      /\ externals' = [externals EXCEPT ![b.external] = row]
      /\ listings' = Refreshed(c, mem[c]) /\ pc'[c] = "done" /\ wrote'[c] = result
  BY DEF InsertExternal, Finish, Counted, At
<1>2. /\ b.external \in Externals /\ b.url \in STRING /\ b.phone \in STRING \cup {None}
      /\ b.attributes \in STRING /\ c \in Listings /\ listings[c] = None
      /\ \A l : Linked(l) => l \in Listings /\ listings[l] # None
  BY <1>1, IngestFacts
<1>3. mem[c] = c \/ Linked(mem[c])
  BY <1>1 DEF ListingInv, Ingesting
<1>4. mem[c] \in Listings /\ (listings[mem[c]] # None \/ (mem[c] = c /\ mem[c] = c))
  BY <1>2, <1>3
<1>5. row \in ExternalRows /\ row.url = b.url /\ row.listing = mem[c]
  BY <1>2, <1>4 DEF External, ExternalRows
<1>6. result \in IngestionResults /\ result # None
  <2>1. result \in IngestionResults
    BY <1>4 DEF IngestionResults
  <2> QED BY <2>1, CatalogueAssumption
<1>7. /\ listings' \in [Listings -> ListingRows \cup {None}] /\ listings'[mem[c]] # None
      /\ \A k \in Listings : k # mem[c] => listings'[k] = listings[k]
  BY <1>1, <1>2, <1>4, RefreshedRows
<1>8. \A l \in Listings : listings[l] # None => listings'[l] # None
  BY <1>7
<1>9. \A l \in Listings : listings'[l] # None => listings[l] # None \/ (l = c /\ row.listing = c)
  BY <1>4, <1>5, <1>7
<1>10. listings'[row.listing] # None
  BY <1>5, <1>7
<1> HIDE DEF row, result
<1> QED BY <1>1, <1>5, <1>6, <1>7, <1>8, <1>9, <1>10, WriteListing

\* Another call has inserted it: the row keeps its listing, and the one this
\* call has made is deleted.
LEMMA InsertConflictSafe ==
    ASSUME Ordered, ListingInv, Counted, NEW c \in Calls, Inside(c), InsertExternal(c),
           externals[req[c].body.external] # None
    PROVE  ListingInv' /\ ListingStep(c)
<1> DEFINE b == req[c].body
           old == externals[b.external]
           l == old.listing
           row == External(l, b)
           result == [action |-> "updated", listing |-> l]
<1>1. /\ At(c, "ingest", "insert") /\ req[c].op = "ingest"
      /\ externals' = [externals EXCEPT ![b.external] = row]
      /\ listings' = WithoutOwn(c, Refreshed(c, l)) /\ pc'[c] = "done" /\ wrote'[c] = result
  BY DEF InsertExternal, AfterConflict, Finish, Counted, At
<1>2. /\ b.external \in Externals /\ b.url \in STRING /\ b.phone \in STRING \cup {None}
      /\ b.attributes \in STRING /\ c \in Listings /\ listings[c] = None
  BY <1>1, IngestFacts
<1>3. old \in ExternalRows /\ l \in Listings /\ listings[l] # None
  BY <1>2 DEF ListingInv, ExternalRows
<1>4. row \in ExternalRows /\ row.url = b.url /\ row.listing = l
  BY <1>2, <1>3 DEF External, ExternalRows
<1>5. result # None
  <2>1. result \in IngestionResults
    BY <1>3 DEF IngestionResults
  <2> QED BY <2>1, CatalogueAssumption
<1>6. /\ Refreshed(c, l) \in [Listings -> ListingRows \cup {None}] /\ Refreshed(c, l)[l] # None
      /\ \A k \in Listings : k # l /\ (k # c \/ mem[c] # c) => Refreshed(c, l)[k] = listings[k]
  BY <1>2, <1>3, RefreshedRows
<1> DEFINE fresh == Refreshed(c, l)
<1>7. listings' = [fresh EXCEPT ![c] = IF mem[c] = c THEN None ELSE fresh[c]]
  BY <1>1 DEF WithoutOwn
<1> HIDE DEF fresh
<1>8. /\ listings' \in [Listings -> ListingRows \cup {None}] /\ listings'[l] # None
      /\ \A k \in Listings : k # l => listings'[k] = listings[k]
  BY <1>2, <1>3, <1>6, <1>7 DEF fresh
<1>9. \A k \in Listings : listings[k] # None <=> listings'[k] # None
  BY <1>3, <1>8
<1> HIDE DEF row, result
<1> QED BY <1>1, <1>3, <1>4, <1>5, <1>8, <1>9, WriteListing

LEMMA SetListingStatusSafe ==
    ASSUME Ordered, ListingInv, Counted, NEW c \in Calls, Inside(c), SetListingStatus(c)
    PROVE  ListingInv' /\ ListingStep(c)
<1>1. /\ Step(c) /\ req' = req /\ pc[c] # "new" /\ req[c].op = "setStatus" /\ externals' = externals
  BY DEF Inside, PreSteps, SetListingStatus, At
<1>2. Ingesting(c)'
  BY <1>1 DEF Ingesting, At
<1>3. CASE listings' = listings
  BY <1>1, <1>2, <1>3, QuietListing
<1>4. CASE listings' # listings
  <2>1. PICK l \in Listings :
            listings[l] # None /\ listings' = [listings EXCEPT ![l].status = req[c].status]
    BY <1>4 DEF SetListingStatus
  <2> DEFINE row == [listings[l] EXCEPT !.status = req[c].status]
  <2>2. req[c].status \in STRING
    BY <1>1 DEF Ordered, WellFormed
  <2>3. listings[l] \in ListingRows
    BY <2>1 DEF ListingInv
  <2>4. row \in ListingRows
    BY <2>2, <2>3 DEF ListingRows
  <2>5. row # None
    BY <2>4, CatalogueAssumption
  <2>6. listings' = [listings EXCEPT ![l] = row]
    BY <2>1
  <2> HIDE DEF row
  <2>7. /\ listings' \in [Listings -> ListingRows \cup {None}]
        /\ \A k \in Listings : listings[k] # None <=> listings'[k] # None
    BY <2>1, <2>4, <2>5, <2>6 DEF ListingInv
  <2>8. ListingStep(c)
    BY <1>1, <2>7 DEF ListingStep, ListingInv
  <2> QED BY <1>1, <1>2, <2>8, ListingKept
<1> QED BY <1>3, <1>4

\* The rest of the catalogue leaves listings alone.
LEMMA OtherThanListings ==
    ASSUME NEW c, CatalogueStep(c),
           ~(FindByUrl(c) \/ FindByPhone(c) \/ GetExternal(c) \/ UpdateExternal(c)
             \/ InsertExternal(c) \/ SetListingStatus(c))
    PROVE  UNCHANGED <<listings, externals>> /\ req[c].op # "ingest"
<1>1. CASE CreateRequest(c) \/ LoadRequest(c) \/ WriteRequest(c) \/ LoadOwnedRequest(c)
           \/ FetchCandidates(c) \/ DeleteMatches(c) \/ PersistMatches(c) \/ SetRequestStatus(c)
  BY <1>1 DEF CreateRequest, LoadRequest, WriteRequest, LoadOwnedRequest, FetchCandidates,
     DeleteMatches, PersistMatches, SetRequestStatus, catalogueVars, At
<1>2. CASE AgencyOfProperty(c) \/ CreateProperty(c) \/ LoadProperty(c) \/ UpdateProperty(c)
           \/ ChangePropertyStatus(c) \/ ResetPrimary(c) \/ InsertImage(c)
  BY <1>2 DEF AgencyOfProperty, CreateProperty, LoadProperty, UpdateProperty, ChangePropertyStatus,
     ResetPrimary, InsertImage, catalogueVars, At
<1> QED BY <1>1, <1>2 DEF CatalogueStep

\* Every step keeps the invariant, and no step of the system loses a listing.
LEMMA NextListing ==
    ASSUME ListingInv, Ordered, AccessInv, [Next]_vars
    PROVE  ListingInv' /\ \A l \in Listings : listings[l] # None => listings'[l] # None
<1> USE DEF domainVars, catalogueVars
<1>1. CASE Aside /\ UNCHANGED catalogueVars
  <2>1. \A c \in Calls : Ingesting(c)'
    BY <1>1 DEF Aside, ListingInv, Ingesting, At, Excused, MetAnother, Committed, Overlap, Linked
  <2>2. ListingsAreLinked'
    BY <1>1 DEF Aside, ListingInv, ListingsAreLinked, Linked, MetAnother, Committed, Overlap
  <2>3. \A e \in Externals : externals'[e] # None => listings'[externals'[e].listing] # None /\ Known(e)'
    BY <1>1 DEF Aside, ListingInv, Known, Committed
  <2> QED BY <1>1, <2>1, <2>2, <2>3 DEF Aside, ListingInv, ListingRows, ExternalRows
<1>2. ASSUME NEW c \in Calls, Step(c), UNCHANGED <<listings, externals>>, Ingesting(c)'
      PROVE  ListingInv'
  BY <1>2, QuietListing
<1>3. ASSUME NEW c \in Calls, Early(c), UNCHANGED catalogueVars PROVE ListingInv'
  <2>1. Ingesting(c)'
    BY <1>3 DEF Early, PreSteps, Ingesting, At
  <2> QED BY <1>2, <1>3, <2>1 DEF Early
<1>4. ASSUME NEW c \in Calls, Inside(c), UNCHANGED <<listings, externals>>, req[c].op # "ingest"
      PROVE  ListingInv'
  <2>1. Ingesting(c)'
    BY <1>4 DEF Inside, Ingesting, At
  <2> QED BY <1>2, <1>4, <2>1 DEF Inside
<1>5. ASSUME NEW c \in Calls, Inside(c),
             FindByUrl(c) \/ FindByPhone(c) \/ GetExternal(c) \/ UpdateExternal(c)
             \/ InsertExternal(c) \/ SetListingStatus(c)
      PROVE  ListingInv' /\ ListingStep(c)
  <2>1. Counted
    BY DEF AccessInv
  <2> QED BY <1>5, <2>1, FindByUrlSafe, FindByPhoneSafe, GetExternalSafe, UpdateExternalSafe,
             InsertNewSafe, InsertConflictSafe, SetListingStatusSafe
<1>6. ASSUME NEW c \in Calls, Inside(c), CatalogueStep(c)
      PROVE  ListingInv' /\ \A l \in Listings : listings[l] # None => listings'[l] # None
  BY <1>4, <1>5, <1>6, OtherThanListings DEF ListingStep
<1> QED BY <1>1, <1>3, <1>4, <1>6, StepKinds, OtherThanCatalogue

\* The inductive invariant of listings and external listings.
THEOREM ListingSafe == Spec => []ListingInv
<1>1. ASSUME ListingInv, Ordered, AccessInv, [Next]_vars PROVE ListingInv'
  BY <1>1, NextListing
<1> QED BY InitListing, OrderSafe, AccessSafe, <1>1, PTL DEF Spec

\* An agency whose creation has committed has its creator as its owner, and
\* no two rows are of one member; an ingested listing is linked, or its call
\* met another for the same external listing.
THEOREM NothingHalf == Spec => []NothingHalfMade
<1>1. AgencyInv /\ ListingInv => NothingHalfMade
  BY DEF AgencyInv, ListingInv, NothingHalfMade
<1> QED BY AgencySafe, ListingSafe, <1>1, PTL

-----------------------------------------------------------------------------
(* Client requests and their matches *)

Matches == [request : Requests, listing : Listings, by : Calls]

Exist(ls) == ls \subseteq Listings /\ \A l \in ls : listings[l] # None

\* A call that writes to a request or matches it has found it; what it has
\* found exists; and it will delete what calls before it have inserted.
Matching(c) ==
    /\ (\E w \in {"fetch", "delete", "persist"} : At(c, "match", w))
       \/ At(c, "updateRequest", "write") \/ At(c, "archiveRequest", "write") =>
          requests[req[c].request] # None
    /\ At(c, "match", "delete") => Exist(mem[c])
    /\ At(c, "match", "persist") =>
          /\ Exist(mem[c].found)
          /\ \A m \in matches : m.request = req[c].request /\ <<m.by, c>> \in after =>
                m \in mem[c].deleted

\* What ReplacesEarlier says of the matches of one call.
Replaced(c) ==
    Committed(c, "match") =>
        \A m \in matches : m.request = req[c].request => <<m.by, c>> \notin after

MatchInv ==
    /\ requests \in [Requests -> RequestRows \cup {None}]
    /\ matches \subseteq Matches
    /\ \A m \in matches :
          requests[m.request] # None /\ listings[m.listing] # None /\ pc[m.by] = "done"
    /\ \A c \in Calls : Matching(c) /\ Replaced(c)

\* What a step of call c may do to requests and matches.
MatchStep(c) ==
    /\ requests' \in [Requests -> RequestRows \cup {None}]
    /\ \A r \in Requests : requests[r] # None => requests'[r] # None
    /\ \A l \in Listings : listings[l] # None => listings'[l] # None
    /\ \A m \in matches' :
          \/ m \in matches
          \/ /\ m \in Matches /\ m.by = c /\ pc'[c] = "done"
             /\ requests'[m.request] # None /\ listings'[m.listing] # None

LEMMA InitMatch == Init => MatchInv
<1> SUFFICES ASSUME Init PROVE MatchInv
  OBVIOUS
<1>1. /\ pc = [c \in Calls |-> "new"] /\ wrote = [c \in Calls |-> None]
      /\ requests = OldRequests /\ matches = {}
  BY DEF Init, ApiInit, CatalogueInit
<1>2. \A c \in Calls : Matching(c) /\ Replaced(c)
  BY <1>1 DEF Matching, Replaced, At, Committed
<1> QED BY <1>1, <1>2, CatalogueAssumption DEF MatchInv

\* The calls that do not move: a match that call c inserts was inserted while
\* they were in progress, or after.
LEMMA OthersMatching ==
    ASSUME Ordered, MatchInv, NEW c \in Calls, Step(c), MatchStep(c), NEW d \in Calls, d # c
    PROVE  Matching(d)' /\ Replaced(d)'
<1>1. pc'[d] = pc[d] /\ req'[d] = req[d] /\ mem'[d] = mem[d] /\ wrote'[d] = wrote[d]
  BY DEF Step
<1>2. Matching(d) /\ Replaced(d)
  BY DEF MatchInv
<1>3. ASSUME pc[d] # "new", NEW m \in matches', <<m.by, d>> \in after'
      PROVE  m \in matches /\ <<m.by, d>> \in after
  <2>1. m.by \in Calls
    BY DEF MatchStep, MatchInv, Matches
  <2>2. <<m.by, d>> \in after
    BY <1>3, <2>1, OrderKept
  <2>3. m.by # c
    BY <2>1, <2>2 DEF Ordered, Step
  <2> QED BY <2>2, <2>3 DEF MatchStep
<1>4. \A ls : Exist(ls) => ls \subseteq Listings /\ \A l \in ls : listings'[l] # None
  BY DEF Exist, MatchStep
<1>5. pc[d] # "new" /\ req[d].op \in {"match", "updateRequest", "archiveRequest"} =>
          req[d].request \in Requests
  BY DEF Ordered, WellFormed
<1>6. Matching(d)'
  <2>1. (\E w \in {"fetch", "delete", "persist"} : At(d, "match", w))'
        \/ At(d, "updateRequest", "write")' \/ At(d, "archiveRequest", "write")' =>
           requests'[req'[d].request] # None
    BY <1>1, <1>2, <1>5 DEF Matching, At, MatchStep
  <2>2. At(d, "match", "delete")' => Exist(mem[d])'
    BY <1>1, <1>2, <1>4 DEF Matching, At, Exist
  <2>3. At(d, "match", "persist")' => Exist(mem[d].found)'
    BY <1>1, <1>2, <1>4 DEF Matching, At, Exist
  <2>4. At(d, "match", "persist")' =>
            \A m \in matches' : m.request = req'[d].request /\ <<m.by, d>> \in after' =>
               m \in mem'[d].deleted
    BY <1>1, <1>2, <1>3 DEF Matching, At
  <2> QED BY <2>1, <2>2, <2>3, <2>4 DEF Matching
<1>7. Replaced(d)'
  <2>1. Committed(d, "match")' => Committed(d, "match") /\ pc[d] # "new"
    BY <1>1 DEF Committed, Ordered
  <2> QED BY <1>1, <1>2, <1>3, <2>1 DEF Replaced
<1> QED BY <1>6, <1>7

\* Such a step keeps the invariant.
LEMMA MatchKept ==
    ASSUME Ordered, MatchInv, NEW c \in Calls, Step(c), MatchStep(c), Matching(c)', Replaced(c)'
    PROVE  MatchInv'
<1>1. \A d \in Calls : Matching(d)' /\ Replaced(d)'
  BY OthersMatching
<1>2. matches' \subseteq Matches
  BY DEF MatchInv, MatchStep
<1>3. ASSUME NEW m \in matches'
      PROVE  requests'[m.request] # None /\ listings'[m.listing] # None /\ pc'[m.by] = "done"
  <2>1. CASE m \in matches
    <3>1. /\ requests[m.request] # None /\ listings[m.listing] # None /\ pc[m.by] = "done"
          /\ m.request \in Requests /\ m.listing \in Listings /\ m.by \in Calls
      BY <2>1 DEF MatchInv, Matches
    <3> QED BY <3>1 DEF MatchStep, Step
  <2>2. CASE m \notin matches
    BY <2>2 DEF MatchStep
  <2> QED BY <2>1, <2>2
<1> QED BY <1>1, <1>2, <1>3 DEF MatchInv, MatchStep, RequestRows, Matches

\* A step that leaves requests and matches alone, of a call that has no such
\* step or has found the request.
LEMMA QuietMatch ==
    ASSUME Ordered, MatchInv, NEW c \in Calls, Step(c), UNCHANGED <<requests, matches>>,
           \A l \in Listings : listings[l] # None => listings'[l] # None,
           Matching(c)', wrote'[c] = wrote[c] \/ req'[c].op # "match"
    PROVE  MatchInv'
<1>1. MatchStep(c)
  BY DEF MatchInv, MatchStep
<1>2. Replaced(c)'
  BY DEF Replaced, Committed, Ordered, Step
<1> QED BY <1>1, <1>2, MatchKept

\* A request that exists is read, or written as before with another value.
LEMMA WriteRequestSafe ==
    ASSUME Ordered, MatchInv, Counted, NEW c \in Calls, Inside(c), WriteRequest(c) \/ SetRequestStatus(c)
    PROVE  MatchInv'
<1>1. /\ Step(c) /\ req' = req /\ pc[c] # "new" /\ UNCHANGED <<listings, matches>> /\ pc'[c] = "done"
      /\ req[c].op \in {"updateRequest", "archiveRequest", "setStatus"} /\ WellFormed(req[c])
  BY DEF Inside, PreSteps, WriteRequest, SetRequestStatus, At, Finish, Goto, Return, Counted, Ordered
<1>2. Matching(c)' /\ Replaced(c)'
  BY <1>1 DEF Matching, Replaced, Committed, At
<1>3. CASE requests' = requests
  BY <1>1, <1>2, <1>3, QuietMatch
<1>4. CASE requests' # requests
  <2>1. PICK r \in Requests : /\ requests[r] # None
                              /\ \/ requests' = [requests EXCEPT ![r].status = "archived"]
                                 \/ /\ requests' = [requests EXCEPT ![r].status = req[c].status]
                                    /\ req[c].op = "setStatus"
                                 \/ /\ requests' = [requests EXCEPT ![r].wants = req[c].wants]
                                    /\ req[c].op = "updateRequest"
    <3>1. CASE WriteRequest(c)
      <4>1. requests[req[c].request] # None /\ req[c].request \in Requests
        BY <1>1, <3>1 DEF WriteRequest, MatchInv, Matching, WellFormed, At
      <4> QED BY <3>1, <4>1 DEF WriteRequest, At
    <3>2. CASE SetRequestStatus(c)
      BY <1>4, <3>2 DEF SetRequestStatus, At
    <3> QED BY <3>1, <3>2
  <2>2. requests[r] \in RequestRows
    BY <2>1 DEF MatchInv
  <2>3. /\ req[c].op = "setStatus" => req[c].status \in STRING
        /\ req[c].op = "updateRequest" => req[c].wants \in SUBSET STRING
    BY <1>1 DEF WellFormed
  <2>4. PICK row \in RequestRows : requests' = [requests EXCEPT ![r] = row]
    <3>1. CASE requests' = [requests EXCEPT ![r].status = "archived"]
      <4> DEFINE new == [requests[r] EXCEPT !.status = "archived"]
      <4>1. new \in RequestRows
        BY <2>2, TextAssumption DEF RequestRows
      <4> QED BY <3>1, <4>1
    <3>2. CASE requests' = [requests EXCEPT ![r].status = req[c].status] /\ req[c].op = "setStatus"
      <4> DEFINE new == [requests[r] EXCEPT !.status = req[c].status]
      <4>1. new \in RequestRows
        BY <2>2, <2>3, <3>2 DEF RequestRows
      <4> QED BY <3>2, <4>1
    <3>3. CASE requests' = [requests EXCEPT ![r].wants = req[c].wants] /\ req[c].op = "updateRequest"
      <4> DEFINE new == [requests[r] EXCEPT !.wants = req[c].wants]
      <4>1. new \in RequestRows
        BY <2>2, <2>3, <3>3 DEF RequestRows
      <4> QED BY <3>3, <4>1
    <3> QED BY <2>1, <3>1, <3>2, <3>3
  <2>5. /\ requests' \in [Requests -> RequestRows \cup {None}]
        /\ \A s \in Requests : requests[s] # None => requests'[s] # None
    BY <2>4, CatalogueAssumption DEF MatchInv
  <2>6. MatchStep(c)
    BY <1>1, <2>5 DEF MatchStep
  <2> QED BY <1>1, <1>2, <2>6, MatchKept
<1> QED BY <1>3, <1>4

LEMMA CreateRequestSafe ==
    ASSUME Ordered, MatchInv, Counted, Entered, NEW c \in Calls, Inside(c), CreateRequest(c)
    PROVE  MatchInv'
<1>1. /\ Step(c) /\ req' = req /\ pc[c] # "new" /\ UNCHANGED <<listings, matches>> /\ pc'[c] = "done"
      /\ At(c, "createRequest", "start")
  BY DEF Inside, PreSteps, CreateRequest, Finish, Counted
<1>2. Matching(c)' /\ Replaced(c)'
  BY <1>1 DEF Matching, Replaced, Committed, At
<1> DEFINE row == [owner |-> actor[c], status |-> "active", wants |-> req[c].wants]
<1>3. PICK r \in Requests : requests[r] = None /\ requests' = [requests EXCEPT ![r] = row]
  BY DEF CreateRequest
<1>4. actor[c] \in Users /\ req[c].wants \in SUBSET STRING
  BY <1>1 DEF Ordered, WellFormed, Entered, Public, At
<1>5. row \in RequestRows
  BY <1>4, TextAssumption DEF RequestRows
<1> HIDE DEF row
<1>6. /\ requests' \in [Requests -> RequestRows \cup {None}]
      /\ \A s \in Requests : requests[s] # None => requests'[s] # None
  BY <1>3, <1>5 DEF MatchInv
<1>7. MatchStep(c)
  BY <1>1, <1>6 DEF MatchStep
<1> QED BY <1>1, <1>2, <1>7, MatchKept

LEMMA ReadMatchSafe ==
    ASSUME Ordered, MatchInv, Counted, NEW c \in Calls, Inside(c),
           LoadRequest(c) \/ LoadOwnedRequest(c) \/ FetchCandidates(c) \/ DeleteMatches(c)
    PROVE  MatchInv'
<1>1. Step(c) /\ UNCHANGED <<req, after, requests, matches, listings, wrote>>
  BY DEF Inside, LoadRequest, LoadOwnedRequest, FetchCandidates, DeleteMatches, catalogueVars, Goto,
     Return
<1>2. CASE LoadRequest(c) \/ LoadOwnedRequest(c)
  <2>1. pc'[c] = "done" \/ (pc'[c] \in {"write", "fetch"} /\ requests[req[c].request] # None)
    BY <1>2 DEF LoadRequest, LoadOwnedRequest, Owns, Goto, Return, Counted
  <2>2. Matching(c)'
    BY <1>1, <2>1 DEF Matching, At
  <2> QED BY <1>1, <2>2, QuietMatch
<1>3. CASE FetchCandidates(c)
  <2>1. pc'[c] = "delete" /\ At(c, "match", "fetch") /\ Exist(mem'[c])
    BY <1>3 DEF FetchCandidates, Goto, Counted, Exist
  <2>2. requests[req[c].request] # None
    BY <2>1 DEF MatchInv, Matching
  <2>3. Exist(mem[c])'
    BY <1>1, <2>1 DEF Exist
  <2>4. Matching(c)'
    BY <1>1, <2>1, <2>2, <2>3 DEF Matching, At
  <2> QED BY <1>1, <2>4, QuietMatch
<1>4. CASE DeleteMatches(c)
  <2>1. /\ pc'[c] = "persist" /\ At(c, "match", "delete")
        /\ mem'[c] = [found |-> mem[c], deleted |-> DeletedMatches(req[c].request)]
    BY <1>4 DEF DeleteMatches, Goto, Counted
  <2>2. /\ mem'[c].found = mem[c]
        /\ mem'[c].deleted = {m \in matches : m.request = req[c].request}
    BY <2>1 DEF DeletedMatches
  <2>3. requests[req[c].request] # None /\ Exist(mem[c])
    BY <2>1 DEF MatchInv, Matching
  <2>4. Exist(mem[c].found)'
    BY <1>1, <2>2, <2>3 DEF Exist
  <2>5. Matching(c)'
    BY <1>1, <2>1, <2>2, <2>3, <2>4 DEF Matching, At
  <2> QED BY <1>1, <2>5, QuietMatch
<1> QED BY <1>2, <1>3, <1>4

\* What calls before it have inserted is deleted; what is new is its own.
LEMMA PersistMatchesSafe ==
    ASSUME Ordered, MatchInv, Counted, NEW c \in Calls, Inside(c), PersistMatches(c)
    PROVE  MatchInv'
<1> DEFINE r == req[c].request
<1>1. /\ Step(c) /\ pc[c] \notin {"new", "done"} /\ UNCHANGED <<req, after, listings, requests>>
      /\ At(c, "match", "persist") /\ pc'[c] = "done"
  BY DEF Inside, PreSteps, PersistMatches, Finish, Counted
<1>2. r \in Requests /\ requests[r] # None /\ Exist(mem[c].found)
  BY <1>1 DEF Ordered, WellFormed, MatchInv, Matching, At
<1>3. ASSUME NEW m \in matches'
      PROVE  \/ m \in matches /\ m \notin mem[c].deleted
             \/ \E l \in mem[c].found : m = [request |-> r, listing |-> l, by |-> c]
  BY <1>3 DEF PersistMatches
<1>4. ASSUME NEW l \in mem[c].found, NEW m, m = [request |-> r, listing |-> l, by |-> c]
      PROVE  /\ m \in Matches /\ m.by = c
             /\ requests'[m.request] # None /\ listings'[m.listing] # None
  BY <1>1, <1>2, <1>4 DEF Exist, Matches
<1>5. MatchStep(c)
  BY <1>1, <1>3, <1>4 DEF MatchStep, MatchInv
<1>6. Replaced(c)'
  <2> SUFFICES ASSUME NEW m \in matches', m.request = r PROVE <<m.by, c>> \notin after
    BY <1>1 DEF Replaced
  <2>1. CASE m \in matches /\ m \notin mem[c].deleted
    BY <1>1, <2>1 DEF MatchInv, Matching
  <2>2. CASE m.by = c
    BY <1>1, <2>2 DEF Ordered
  <2> QED BY <1>3, <1>4, <2>1, <2>2
<1>7. Matching(c)'
  BY <1>1 DEF Matching, At
<1> QED BY <1>1, <1>5, <1>6, <1>7, MatchKept

\* The rest of the catalogue leaves requests and matches alone.
LEMMA OtherThanMatches ==
    ASSUME NEW c, CatalogueStep(c),
           ~(CreateRequest(c) \/ LoadRequest(c) \/ WriteRequest(c) \/ LoadOwnedRequest(c)
             \/ FetchCandidates(c) \/ DeleteMatches(c) \/ PersistMatches(c) \/ SetRequestStatus(c))
    PROVE  /\ UNCHANGED <<requests, matches>>
           /\ req[c].op \notin {"updateRequest", "archiveRequest", "match"}
<1>1. CASE FindByUrl(c) \/ FindByPhone(c) \/ GetExternal(c) \/ UpdateExternal(c)
           \/ InsertExternal(c) \/ SetListingStatus(c)
  BY <1>1 DEF FindByUrl, FindByPhone, GetExternal, UpdateExternal, InsertExternal, SetListingStatus,
     catalogueVars, wanted, At
<1>2. CASE AgencyOfProperty(c) \/ CreateProperty(c) \/ LoadProperty(c) \/ UpdateProperty(c)
           \/ ChangePropertyStatus(c) \/ ResetPrimary(c) \/ InsertImage(c)
  BY <1>2 DEF AgencyOfProperty, CreateProperty, LoadProperty, UpdateProperty, ChangePropertyStatus,
     ResetPrimary, InsertImage, catalogueVars, wanted, At
<1> QED BY <1>1, <1>2 DEF CatalogueStep

\* The inductive invariant of client requests and matches.
THEOREM MatchSafe == Spec => []MatchInv
<1>1. ASSUME MatchInv, ListingInv, Ordered, AccessInv, TalkInv, [Next]_vars PROVE MatchInv'
  <2> USE <1>1 DEF domainVars, catalogueVars
  <2>1. \A l \in Listings : listings[l] # None => listings'[l] # None
    BY NextListing
  <2>2. CASE Aside /\ UNCHANGED catalogueVars
    <3>1. \A c \in Calls : Matching(c)' /\ Replaced(c)'
      BY <2>2 DEF Aside, MatchInv, Matching, Replaced, At, Committed, Exist
    <3> QED BY <2>2, <3>1 DEF Aside, MatchInv, RequestRows, Matches
  <2>3. ASSUME NEW c \in Calls, Early(c), UNCHANGED catalogueVars PROVE MatchInv'
    <3>1. Matching(c)'
      BY <2>3 DEF Early, PreSteps, Matching, At
    <3> QED BY <2>1, <2>3, <3>1, QuietMatch DEF Early
  <2>4. ASSUME NEW c \in Calls, Inside(c), UNCHANGED <<requests, matches>>,
               req[c].op \notin {"updateRequest", "archiveRequest", "match"}
        PROVE  MatchInv'
    <3>1. Matching(c)'
      BY <2>4 DEF Inside, Matching, At
    <3> QED BY <2>1, <2>4, <3>1, QuietMatch DEF Inside
  <2>5. ASSUME NEW c \in Calls, Inside(c), CatalogueStep(c) PROVE MatchInv'
    <3>1. Counted /\ Entered
      BY DEF AccessInv, TalkInv
    <3> QED BY <2>4, <2>5, <3>1, OtherThanMatches, CreateRequestSafe, WriteRequestSafe,
               ReadMatchSafe, PersistMatchesSafe
  <2> QED BY <2>2, <2>3, <2>4, <2>5, StepKinds, OtherThanCatalogue
<1> QED BY InitMatch, ListingSafe, OrderSafe, AccessSafe, TalkSafe, <1>1, PTL DEF Spec

\* Two images of a property are both primary only if the calls that added
\* them overlapped, a property that was given a primary image has one, and
\* matches of a call are gone once a later one has evaluated the request.
THEOREM EarlierReplaced == Spec => []ReplacesEarlier
<1>1. ImageInv /\ MatchInv => ReplacesEarlier
  BY DEF ImageInv, OnePrimary, MatchInv, Replaced, ReplacesEarlier
<1> QED BY ImageSafe, MatchSafe, <1>1, PTL

-----------------------------------------------------------------------------
(* Clients: users, sessions and what the pre-handlers count *)

\* Where a call is tells what it asks; the user it makes a session for is known.
Guarding(c) ==
    /\ pc[c] = "admin" => req[c].op \in Administrative
    /\ pc[c] \in {"limit", "arm"} => req[c].op \in Limited
    /\ At(c, "register", "session") \/ At(c, "login", "session") => mem[c] \in Users

ClientInv ==
    /\ actor \in [Calls -> Users \cup {None}]
    /\ users \in [Users -> {"none", "active", "suspended"}]
    /\ sessions \in [Tokens -> Users \cup {None}] /\ revoked \subseteq Tokens
    /\ armed \subseteq Keys /\ unarmed \subseteq Keys /\ faults \in 0 .. MaxFaults
    /\ \A c \in Calls : Guarding(c)

LEMMA InitClient == Init => ClientInv
<1> SUFFICES ASSUME Init PROVE ClientInv
  OBVIOUS
<1>1. \A c \in Calls : Guarding(c)
  BY DEF Init, ApiInit, Guarding, At
<1>2. faults \in 0 .. MaxFaults
  BY ApiAssumption DEF Init, ApiInit
<1>3. users \in [Users -> {"none", "active", "suspended"}]
  BY DEF Init, ApiInit
<1> QED BY <1>1, <1>2, <1>3, ApiAssumption DEF Init, ApiInit, ClientInv

LEMMA KeyOfCall ==
    ASSUME ClientInv, NEW c \in Calls, pc[c] \in {"limit", "arm"}
    PROVE  Key(c) \in Keys
BY DEF ClientInv, Guarding, Key, Keys

\* A step keeps what is said of the calls if it does for the one that moves.
LEMMA AllGuarding ==
    ASSUME ClientInv, NEW c \in Calls, Step(c), Guarding(c)'
    PROVE  \A d \in Calls : Guarding(d)'
<1>1. \A d \in Calls : d # c => pc'[d] = pc[d] /\ req'[d] = req[d] /\ mem'[d] = mem[d]
  BY DEF Step
<1> QED BY <1>1 DEF ClientInv, Guarding, At

LEMMA ArriveClient ==
    ASSUME ClientInv, AccessInv, NEW c \in Calls, NEW q, Arrive(c, q)
    PROVE  ClientInv'
<1>1. UNCHANGED <<actor, users, sessions, revoked, armed, unarmed, faults>>
  BY DEF Arrive, limits
<1>2. /\ Step(c) /\ req'[c] = q
      /\ pc'[c] = "auth" \/ (q.op \in Public /\ pc'[c] = Guarded(q))
  BY ArriveStep DEF Early, Arrive, AccessInv, Counted
<1>3. Guarding(c)'
  BY <1>2 DEF Guarding, At, Guarded, Limited, Administrative
<1> QED BY <1>1, <1>2, <1>3, AllGuarding DEF ClientInv

LEMMA PreHandlerClient ==
    ASSUME ClientInv, AccessInv, NEW c \in Calls, PreHandler(c)
    PROVE  ClientInv'
<1>1. UNCHANGED <<req, users, sessions, revoked>> /\ Step(c)
  BY PreHandlerMoves, PreHandlerStep DEF access, Early
<1>2. actor' \in [Calls -> Users \cup {None}]
  BY DEF PreHandler, Authenticate, RequirePlatformAdmin, Incr, Arm, FailOpen, Abort, control, ClientInv
<1>3. faults' \in 0 .. MaxFaults
  BY ApiAssumption
  DEF PreHandler, Authenticate, RequirePlatformAdmin, Incr, Arm, FailOpen, Abort, ClientInv
<1>4. armed' \subseteq Keys /\ unarmed' \subseteq Keys
  <2>1. CASE Authenticate(c) \/ RequirePlatformAdmin(c) \/ Incr(c)
    BY <2>1 DEF Authenticate, RequirePlatformAdmin, Incr, limits, ClientInv
  <2>2. CASE Arm(c)
    BY <2>2, KeyOfCall DEF Arm, ClientInv
  <2>3. CASE FailOpen(c) \/ Abort(c)
    <3>1. UNCHANGED limits \/ CutShort(c)
      BY <2>3 DEF FailOpen, Abort
    <3>2. /\ armed' = armed \/ (pc[c] = "arm" /\ armed' = armed \cup {Key(c)})
          /\ unarmed' = unarmed \/ (pc[c] \in {"limit", "arm"} /\ unarmed' = unarmed \cup {Key(c)})
      BY <3>1 DEF CutShort, limits
    <3> QED BY <3>2, KeyOfCall DEF ClientInv
  <2> QED BY <2>1, <2>2, <2>3 DEF PreHandler
<1>5. Guarding(c)'
  <2>1. Guarding(c) /\ pc = [d \in Calls |-> pc[d]]
    BY DEF ClientInv, AccessInv, Counted
  <2>2. CASE Authenticate(c)
    <3>1. pc'[c] \in {"done", Guarded(req[c])}
      BY <2>1, <2>2 DEF Authenticate, Goto, Return
    <3> QED BY <1>1, <3>1 DEF Guarding, At, Guarded
  <2>3. CASE RequirePlatformAdmin(c)
    <3>1. pc[c] = "admin" /\ pc'[c] \in {"done", "limit"}
      BY <2>1, <2>3 DEF RequirePlatformAdmin, Goto, Return
    <3> QED BY <1>1, <2>1, <3>1 DEF Guarding, At, Limited
  <2>4. CASE Incr(c)
    <3>1. pc[c] = "limit" /\ pc'[c] \in {"done", "arm", "start"}
      BY <2>1, <2>4 DEF Incr, Goto, Return
    <3> QED BY <1>1, <2>1, <3>1 DEF Guarding, At
  <2>5. CASE Arm(c) \/ FailOpen(c) \/ Abort(c)
    <3>1. pc'[c] \in {"done", "start"}
      BY <2>1, <2>5 DEF Arm, FailOpen, Abort, Goto, Return
    <3> QED BY <3>1 DEF Guarding, At
  <2> QED BY <2>2, <2>3, <2>4, <2>5 DEF PreHandler
<1> QED BY <1>1, <1>2, <1>3, <1>4, <1>5, AllGuarding DEF ClientInv

\* Conversations leave users and sessions alone.
LEMMA MessagingFrame == ASSUME NEW c, MessagingStep(c) PROVE UNCHANGED access
BY DEF MessagingStep, FindTarget, CreateConversation, RequireParticipant, BeginSend, CommitSend,
   LastMessage, WriteMark, SelectPreferences, InsertPreferences, UpdatePreferences, HandlerFrame

\* What a step of accounts does to users and sessions.
LEMMA AccountsClient ==
    ASSUME ClientInv, Ordered, AccessInv, NEW c \in Calls, Inside(c), AccountsStep(c)
    PROVE  /\ users' \in [Users -> {"none", "active", "suspended"}]
           /\ sessions' \in [Tokens -> Users \cup {None}] /\ revoked' \subseteq Tokens
           /\ pc'[c] = "session" => mem'[c] \in Users
<1>1. pc[c] # "new" /\ WellFormed(req[c]) /\ Guarding(c) /\ Counted
  BY DEF Inside, PreSteps, Ordered, ClientInv, AccessInv
<1>2. CASE Register(c) \/ Login(c)
  <2>1. UNCHANGED <<users, sessions, revoked>> /\ req[c].op \in {"register", "login"}
    BY <1>2 DEF Register, Login, HandlerFrame, access, At
  <2>2. req[c].user \in Users
    BY <1>1, <2>1 DEF WellFormed
  <2>3. pc'[c] = "session" => mem'[c] = req[c].user
    BY <1>1, <1>2 DEF Register, Login, Goto, Return, Counted
  <2> QED BY <2>1, <2>2, <2>3 DEF ClientInv
<1>3. CASE InsertUser(c)
  <2>1. req[c].user \in Users
    BY <1>1, <1>3 DEF InsertUser, WellFormed, At
  <2>2. pc'[c] = "session" => mem'[c] = req[c].user
    BY <1>1, <1>3 DEF InsertUser, Goto, Return, Counted
  <2> QED BY <1>3, <2>1, <2>2 DEF InsertUser, ClientInv
<1>4. CASE CreateSession(c)
  <2>1. mem[c] \in Users /\ pc'[c] = "done"
    BY <1>1, <1>4 DEF CreateSession, Guarding, Finish, Counted
  <2> QED BY <1>4, <2>1 DEF CreateSession, ClientInv
<1>5. CASE Logout(c)
  <2>1. req[c].token \in Tokens /\ pc'[c] = "done"
    BY <1>1, <1>5 DEF Logout, WellFormed, Public, At, Finish, Counted
  <2> QED BY <1>5, <2>1 DEF Logout, ClientInv
<1>6. CASE SetUserStatus(c)
  <2>1. req[c].id \in Users /\ req[c].status \in {"active", "suspended"} /\ pc'[c] = "done"
    BY <1>1, <1>6 DEF SetUserStatus, WellFormed, At, Return, Goto, Finish, Counted
  <2> QED BY <1>6, <2>1 DEF SetUserStatus, ClientInv
<1>7. CASE CreateAgency(c) \/ AddOwner(c) \/ RequireActiveMembership(c) \/ GetMembership(c) \/ InsertMember(c)
  <2>1. UNCHANGED <<users, sessions, revoked>>
    BY <1>7 DEF CreateAgency, AddOwner, RequireActiveMembership, GetMembership, InsertMember,
       HandlerFrame, access
  <2>2. pc'[c] # "session"
    BY <1>1, <1>7 DEF CreateAgency, AddOwner, RequireActiveMembership, GetMembership, InsertMember,
       Goto, Return, Finish, Counted
  <2> QED BY <2>1, <2>2 DEF ClientInv
<1> QED BY <1>2, <1>3, <1>4, <1>5, <1>6, <1>7 DEF AccountsStep

LEMMA HandlerClient ==
    ASSUME ClientInv, Ordered, AccessInv, NEW c \in Calls, HandlerShape(c),
           AccountsStep(c) \/ MessagingStep(c) \/ CatalogueStep(c)
    PROVE  ClientInv'
<1>1. Inside(c) /\ Step(c) /\ req' = req /\ actor' = actor
  BY InsideStep DEF AccessInv, Inside
<1>2. UNCHANGED <<faults, armed, unarmed>>
  BY DEF HandlerShape, limits
<1>3. pc'[c] \notin {"admin", "limit", "arm"}
  BY DEF HandlerShape, PreSteps, Moves, AccessInv, Counted
<1>4. CASE AccountsStep(c)
  <2>1. Guarding(c)'
    BY <1>1, <1>3, <1>4, AccountsClient DEF Guarding, At
  <2> QED BY <1>1, <1>2, <1>4, <2>1, AccountsClient, AllGuarding DEF ClientInv
<1>5. CASE MessagingStep(c) \/ CatalogueStep(c)
  <2>1. UNCHANGED <<users, sessions, revoked>>
    BY <1>5, MessagingFrame, CatalogueFrame DEF access
  <2>2. Guarding(c)'
    BY <1>1, <1>3, <1>5, OtherThanAccounts DEF Guarding, At
  <2> QED BY <1>1, <1>2, <2>1, <2>2, AllGuarding DEF ClientInv
<1> QED BY <1>4, <1>5

\* The inductive invariant of users, sessions and counters.
THEOREM ClientSafe == Spec => []ClientInv
<1>1. ASSUME ClientInv, Ordered, AccessInv, [Next]_vars PROVE ClientInv'
  <2> USE <1>1
  <2>1. CASE UNCHANGED vars
    BY <2>1 DEF vars, apiVars, control, access, limits, ClientInv, Guarding, At
  <2>2. ASSUME NEW k \in Keys, Elapse(k) PROVE ClientInv'
    BY <2>2 DEF Elapse, control, access, ClientInv, Guarding, At
  <2>3. ASSUME NEW c \in Calls, AccountsStep(c) \/ MessagingStep(c) \/ CatalogueStep(c)
        PROVE  ClientInv'
    BY <2>3, HandlerClient, AccountsShape, MessagingShape, CatalogueShape
  <2> QED BY <2>1, <2>2, <2>3, ArriveClient, PreHandlerClient DEF Next
<1> QED BY InitClient, OrderSafe, AccessSafe, <1>1, PTL DEF Spec

\* Every table of the API holds rows of its form, and what a row refers to
\* exists: listings of external listings and matches, properties of images,
\* conversations of messages.
THEOREM TypeCorrect == Spec => []TypeOK
<1>1. ClientInv /\ Ordered /\ AccessInv => ApiTypeOK
  BY DEF ClientInv, Ordered, AccessInv, Counted, ApiTypeOK
<1>2. AgencyInv => AccountsTypeOK
  BY DEF AgencyInv
<1>3. TalkInv /\ MarkInv /\ PrefsInv => MessagingTypeOK
  BY DEF TalkInv, Pairs, Mailed, MarkInv, Stamped, PrefsInv, MessagingTypeOK
<1>4. ListingInv /\ MatchInv /\ ImageInv => CatalogueTypeOK
  BY DEF ListingInv, MatchInv, Matches, ImageInv, Images, CatalogueTypeOK
<1>5. ASSUME ClientInv, Ordered, AccessInv, AgencyInv, TalkInv, MarkInv, PrefsInv, ListingInv,
             MatchInv, ImageInv
      PROVE  TypeOK
  BY <1>1, <1>2, <1>3, <1>4, <1>5 DEF TypeOK
<1> QED BY ClientSafe, OrderSafe, AccessSafe, AgencySafe, TalkSafe, MarkSafe, PrefsSafe,
           ListingSafe, MatchSafe, ImageSafe, <1>5, PTL
=============================================================================
