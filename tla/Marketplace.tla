---------------------------- MODULE Marketplace ----------------------------
(***************************************************************************)
(* The API as a whole (apps/api/routes): calls of clients to Accounts,     *)
(* Messaging and Catalogue, in progress at the same time over one database *)
(* and one Redis.                                                          *)
(***************************************************************************)
EXTENDS Catalogue, Messaging

\* A workload: the requests clients choose their calls from, and the
\* conversations that exist at the start.
CONSTANT Workloads

\* What the routes' schemas let through: the parameters and the body of a
\* request have the form the handler of its op expects.
WellFormed(q) ==
    /\ q.op \notin Public => q.token \in Tokens
    /\ q.op \in {"register", "login"} => q.user \in Users
    /\ q.op = "setStatus" /\ q.entity = "user" => q.id \in Users /\ q.status \in {"active", "suspended"}
    /\ q.op = "setStatus" => q.status \in STRING
    /\ q.op \in {"createAgency", "addMember"} => q.agency \in Agencies
    /\ q.op = "addMember" => q.user \in Users /\ q.role \in Roles
    /\ q.op = "createConversation" => q.with \in Users
    /\ q.op = "setPrefs" => \E columns \in SUBSET Columns : q.fields \in Settings(columns)
    /\ q.op = "ingest" =>
          /\ q.body.external \in Externals /\ q.body.url \in STRING
          /\ q.body.phone \in STRING \cup {None} /\ q.body.attributes \in STRING
    /\ q.op \in {"match", "updateRequest", "archiveRequest"} => q.request \in Requests
    /\ q.op \in {"createRequest", "updateRequest"} => q.wants \in SUBSET STRING
    /\ q.op = "createProperty" => q.agency \in Agencies \cup {None}
    /\ q.op \in {"updateProperty", "setPropertyStatus", "addImage"} => q.property \in Properties
    /\ q.op = "updateProperty" => q.title \in STRING
    /\ q.op = "setPropertyStatus" => q.status \in STRING
    /\ q.op = "addImage" => q.primary \in BOOLEAN

\* Old conversations are of two users.
ASSUME MarketplaceAssumption ==
    \A w \in Workloads :
        /\ \A k \in w.conversations : k \in ConversationKeys /\ Rank[k[1]] < Rank[k[2]]
        /\ \A q \in w.requests : WellFormed(q)

VARIABLE workload

vars == <<apiVars, accountVars, messagingVars, catalogueVars, workload>>
domainVars == <<accountVars, messagingVars, catalogueVars>>

Init ==
    /\ workload \in Workloads
    /\ ApiInit /\ AccountsInit /\ MessagingInit(workload.conversations) /\ CatalogueInit

Next ==
    /\ UNCHANGED workload
    /\ \/ \E c \in Calls :
             \/ /\ (\E q \in workload.requests : Arrive(c, q)) \/ PreHandler(c)
                /\ UNCHANGED domainVars
             \/ AccountsStep(c) /\ UNCHANGED <<messagingVars, catalogueVars>>
             \/ MessagingStep(c) /\ UNCHANGED <<accountVars, catalogueVars>>
             \/ CatalogueStep(c) /\ UNCHANGED messagingVars
       \/ \E k \in Keys : Elapse(k) /\ UNCHANGED domainVars

Spec == Init /\ [][Next]_vars

-----------------------------------------------------------------------------
\* Every table holds rows of its form, and what a row refers to exists.
TypeOK == ApiTypeOK /\ AccountsTypeOK /\ MessagingTypeOK /\ CatalogueTypeOK
=============================================================================
