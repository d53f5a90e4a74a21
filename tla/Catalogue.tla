----------------------------- MODULE Catalogue -----------------------------
(***************************************************************************)
(* Ingested listings, client requests and their matches, properties and    *)
(* their images (apps/api: ingestion/service, requests/service,            *)
(* matching/service, properties/service, admin/service).                   *)
(*                                                                         *)
(* A listing is named by the call that created it (an old one by its       *)
(* external listing), an external listing by its (source, external_id).    *)
(* What the duplicate search compares and what a request asks for is one   *)
(* value, the listing's attributes; all listings and requests are of one   *)
(* operation.  Scores, reasons and the order of matches are left out.      *)
(* Bodies are normalised and the service token is right.                   *)
(***************************************************************************)
EXTENDS Accounts

CONSTANTS
    Externals,      \* pairs (source, external_id)
    OldListings,    \* OldListings[e]: what external listing e was ingested with before the start
    Requests,       \* ids of client_requests
    OldRequests,    \* OldRequests[r]: a request that exists at the start, or None
    Properties,     \* ids of properties
    OldProperties   \* OldProperties[p]: a property that exists at the start, or None

Listings == Calls \cup DOMAIN OldListings

\* The rows of the tables, and what ingestListing answers.
Bodies == [url : STRING, phone : STRING \cup {None}, attributes : STRING]
ListingRows == [status : STRING, attributes : STRING]
ExternalRows == [listing : Listings, url : STRING, phone : STRING \cup {None}]
RequestRows == [owner : Users, status : STRING, wants : SUBSET STRING]
PropertyRows == [owner : Users, agency : Agencies \cup {None}, status : STRING, title : STRING]
IngestionResults == [action : {"created", "linked", "updated"}, listing : Listings]

ASSUME CatalogueAssumption ==
    /\ DOMAIN OldListings \subseteq Externals /\ Externals \cap Calls = {}
    /\ OldListings \in [DOMAIN OldListings -> Bodies]
    /\ OldRequests \in [Requests -> RequestRows \cup {None}]
    /\ OldProperties \in [Properties -> PropertyRows \cup {None}]
    /\ None \notin Externals \cup Requests \cup Properties \cup Agencies
    /\ None \notin ListingRows /\ None \notin ExternalRows /\ None \notin RequestRows
    /\ None \notin PropertyRows /\ None \notin IngestionResults

\* The statuses and the title that operations give, for the provers.
ASSUME TextAssumption == {"active", "archived", "draft", "new"} \subseteq STRING

VARIABLES
    listings,    \* listings[l]: the listing, or None
    externals,   \* externals[e]: the external listing, or None
    requests,    \* requests[r]: the client request, or None
    matches,     \* request_matches: [request, listing, by: the call that inserted it]
    properties,  \* properties[p]: the property, or None
    images       \* property_images: [by: the call, property, primary]

catalogueVars == <<listings, externals, requests, matches, properties, images>>
wanted == <<requests, matches>>
owned == <<properties, images>>

NewListing(b) == [status |-> "active", attributes |-> b.attributes]
External(l, b) == [listing |-> l, url |-> b.url, phone |-> b.phone]

CatalogueInit ==
    /\ listings = [l \in Listings |->
                      IF l \in DOMAIN OldListings THEN NewListing(OldListings[l]) ELSE None]
    /\ externals = [e \in Externals |->
                      IF e \in DOMAIN OldListings THEN External(e, OldListings[e]) ELSE None]
    /\ requests = OldRequests /\ matches = {}
    /\ properties = OldProperties /\ images = {}

-----------------------------------------------------------------------------
(* ingestListing.  req[c].body is the payload: external, url, phone, attributes. *)

\* The listings whose external listing satisfies P.
ListingsWith(P(_)) ==
    {externals[e].listing : e \in {e \in Externals : externals[e] # None /\ P(externals[e])}}

\* findCanonicalListing: by URL.
FindByUrl(c) ==
    LET SameUrl(row) == row.url = req[c].body.url IN
    /\ At(c, "ingest", "start")
    /\ \/ \E l \in ListingsWith(SameUrl) : Goto(c, "external", l)
       \/ ListingsWith(SameUrl) = {} /\ Goto(c, "phone", None)
    /\ HandlerFrame /\ UNCHANGED <<catalogueVars, accountVars>>

\* findCanonicalListing: by phone and attributes.  If there is none, the
\* transaction creates a listing, seen from its commit on.
FindByPhone(c) ==
    LET b == req[c].body
        Same(row) == /\ b.phone # None /\ row.phone = b.phone
                     /\ listings[row.listing].attributes = b.attributes IN
    /\ At(c, "ingest", "phone")
    /\ \/ \E l \in ListingsWith(Same) : Goto(c, "external", l)
       \/ ListingsWith(Same) = {} /\ Goto(c, "external", c)
    /\ HandlerFrame /\ UNCHANGED <<catalogueVars, accountVars>>

\* getExternalListing.
GetExternal(c) ==
    /\ At(c, "ingest", "external")
    /\ Goto(c, IF externals[req[c].body.external] = None THEN "insert" ELSE "update", mem[c])
    /\ HandlerFrame /\ UNCHANGED <<catalogueVars, accountVars>>

\* createListing, if the call needed one, and refreshListing of listing l.
Refreshed(c, l) ==
    LET created == IF mem[c] = c THEN [listings EXCEPT ![c] = NewListing(req[c].body)] ELSE listings
    IN  [created EXCEPT ![l].attributes = req[c].body.attributes]

\* Defect: ON CONFLICT sets listing_id too.
AfterConflictRelinked(row, l, b) == External(l, b)

\* The external listing after INSERT ... ON CONFLICT DO UPDATE of it with
\* listing l: listing_id is not among the columns set.
AfterConflict(row, l, b) == External(row.listing, b)

\* The row was found: updateExternalListing, which leaves listing_id, and
\* refreshListing of the listing found or created before.
UpdateExternal(c) ==
    LET b == req[c].body IN
    /\ At(c, "ingest", "update")
    /\ externals' = [externals EXCEPT ![b.external] = External(@.listing, b)]
    /\ listings' = Refreshed(c, mem[c])
    /\ Finish(c, [action |-> "updated", listing |-> mem[c]])
    /\ HandlerFrame /\ UNCHANGED <<wanted, owned, accountVars>>

\* Defect: a listing the call made in vain is not deleted.
WithoutOwnKept(c, rows) == rows

\* The listing the call made in vain is deleted again.
WithoutOwn(c, rows) == [rows EXCEPT ![c] = IF mem[c] = c THEN None ELSE @]

\* The row was not found: insertExternalListing, which after a conflict with
\* one committed since yields that one and its listing.
InsertExternal(c) ==
    LET b == req[c].body
        row == externals[b.external] IN
    /\ At(c, "ingest", "insert")
    /\ \/ /\ row = None
          /\ externals' = [externals EXCEPT ![b.external] = External(mem[c], b)]
          /\ listings' = Refreshed(c, mem[c])
          /\ Finish(c, [action |-> IF mem[c] = c THEN "created" ELSE "linked", listing |-> mem[c]])
       \/ /\ row # None
          /\ externals' = [externals EXCEPT ![b.external] = AfterConflict(row, mem[c], b)]
          /\ listings' = WithoutOwn(c, Refreshed(c, row.listing))
          /\ Finish(c, [action |-> "updated", listing |-> row.listing])
    /\ HandlerFrame /\ UNCHANGED <<wanted, owned, accountVars>>

-----------------------------------------------------------------------------
(* Client requests *)

CreateRequest(c) ==
    /\ At(c, "createRequest", "start")
    /\ \E r \in Requests :
          /\ requests[r] = None
          /\ requests' = [requests EXCEPT ![r] = [owner |-> actor[c], status |-> "active",
                                                  wants |-> req[c].wants]]
          /\ Finish(c, r)
    /\ HandlerFrame /\ UNCHANGED <<listings, externals, matches, owned, accountVars>>

Owns(c) == requests[req[c].request] # None /\ requests[req[c].request].owner = actor[c]

\* loadRequest, and the owner check.
LoadRequest(c) ==
    /\ At(c, "updateRequest", "start") \/ At(c, "archiveRequest", "start")
    /\ IF Owns(c) THEN Goto(c, "write", None) ELSE Return(c)
    /\ HandlerFrame /\ UNCHANGED <<catalogueVars, accountVars>>

\* updateRequest or archiveRequest: the one UPDATE.
WriteRequest(c) ==
    LET r == req[c].request IN
    /\ At(c, "updateRequest", "write") \/ At(c, "archiveRequest", "write")
    /\ requests' = IF req[c].op = "archiveRequest"
                   THEN [requests EXCEPT ![r].status = "archived"]
                   ELSE [requests EXCEPT ![r].wants = req[c].wants]
    /\ Finish(c, r)
    /\ HandlerFrame /\ UNCHANGED <<listings, externals, matches, owned, accountVars>>

\* loadOwnedRequest, with the owner check.
LoadOwnedRequest(c) ==
    /\ At(c, "match", "start")
    /\ IF Owns(c) THEN Goto(c, "fetch", requests[req[c].request].wants) ELSE Return(c)
    /\ HandlerFrame /\ UNCHANGED <<catalogueVars, accountVars>>

\* evaluate: every criterion the request has and the listing can be held to.
Evaluate(wants, l) == listings[l].attributes \in wants

\* fetchCandidates, and evaluate of each against the request as loaded.
FetchCandidates(c) ==
    /\ At(c, "match", "fetch")
    /\ LET candidates == {l \in Listings : listings[l] # None /\ listings[l].status = "active"}
       IN  Goto(c, "delete", {l \in candidates : Evaluate(mem[c], l)})
    /\ HandlerFrame /\ UNCHANGED <<catalogueVars, accountVars>>

\* Defect: the matches of an earlier evaluation are not deleted.
DeletedMatchesNone(r) == {}

\* The rows the DELETE sees.
DeletedMatches(r) == {m \in matches : m.request = r}

\* persistMatches: the DELETE.
DeleteMatches(c) ==
    /\ At(c, "match", "delete")
    /\ Goto(c, "persist", [found |-> mem[c], deleted |-> DeletedMatches(req[c].request)])
    /\ HandlerFrame /\ UNCHANGED <<catalogueVars, accountVars>>

\* persistMatches: the upserts, and the commit.
PersistMatches(c) ==
    LET kept == matches \ mem[c].deleted
        new == {l \in mem[c].found : \A m \in kept : m.request = req[c].request => m.listing # l}
    IN
    /\ At(c, "match", "persist")
    /\ matches' = kept \cup {[request |-> req[c].request, listing |-> l, by |-> c] : l \in new}
    /\ Finish(c, mem[c].found)
    /\ HandlerFrame /\ UNCHANGED <<listings, externals, requests, owned, accountVars>>

-----------------------------------------------------------------------------
(* Properties *)

\* createProperty: in an agency, by an active member.
AgencyOfProperty(c) ==
    /\ At(c, "createProperty", "start")
    /\ IF req[c].agency # None /\ Membership(req[c].agency, actor[c]) = {}
       THEN Return(c) ELSE Goto(c, "insert", None)
    /\ HandlerFrame /\ UNCHANGED <<catalogueVars, accountVars>>

CreateProperty(c) ==
    /\ At(c, "createProperty", "insert")
    /\ \E p \in Properties :
          /\ properties[p] = None
          /\ properties' = [properties EXCEPT ![p] = [owner |-> actor[c], agency |-> req[c].agency,
                                                      status |-> "draft", title |-> "new"]]
          /\ Finish(c, p)
    /\ HandlerFrame /\ UNCHANGED <<listings, externals, wanted, images, accountVars>>

\* canEditProperty.
CanEdit(u, p) ==
    properties[p] # None /\ (properties[p].owner = u \/ Membership(properties[p].agency, u) # {})

\* getProperty, getMembership and the check, in the route; the service's own
\* check finds the same owner, agency and membership.
LoadProperty(c) ==
    /\ \E op \in {"updateProperty", "setPropertyStatus", "addImage"} : At(c, op, "start")
    /\ IF CanEdit(actor[c], req[c].property)
       THEN Goto(c, IF req[c].op = "addImage" THEN "reset" ELSE "write", None) ELSE Return(c)
    /\ HandlerFrame /\ UNCHANGED <<catalogueVars, accountVars>>

\* updateProperty: the columns that are given (title stands for them).
UpdateProperty(c) ==
    /\ At(c, "updateProperty", "write")
    /\ properties' = [properties EXCEPT ![req[c].property].title = req[c].title]
    /\ Finish(c, req[c].title)
    /\ HandlerFrame /\ UNCHANGED <<listings, externals, wanted, images, accountVars>>

\* changePropertyStatus, with its history in one transaction.
ChangePropertyStatus(c) ==
    /\ At(c, "setPropertyStatus", "write")
    /\ properties' = [properties EXCEPT ![req[c].property].status = req[c].status]
    /\ Finish(c, req[c].status)
    /\ HandlerFrame /\ UNCHANGED <<listings, externals, wanted, images, accountVars>>

\* addPropertyImage: the images the UPDATE ... SET is_primary = false sees.
ResetPrimary(c) ==
    /\ At(c, "addImage", "reset")
    /\ Goto(c, "insert", IF req[c].primary
                         THEN {i.by : i \in {i \in images : i.property = req[c].property}} ELSE {})
    /\ HandlerFrame /\ UNCHANGED <<catalogueVars, accountVars>>

\* addPropertyImage: the INSERT, and the commit.
InsertImage(c) ==
    /\ At(c, "addImage", "insert")
    /\ images' = {[i EXCEPT !.primary = @ /\ i.by \notin mem[c]] : i \in images} \cup
                 {[by |-> c, property |-> req[c].property, primary |-> req[c].primary]}
    /\ Finish(c, req[c].property)
    /\ HandlerFrame /\ UNCHANGED <<listings, externals, wanted, properties, accountVars>>

-----------------------------------------------------------------------------
\* setListingStatus, of any id.
SetListingStatus(c) ==
    /\ At(c, "setStatus", "start") /\ req[c].entity = "listing"
    /\ \E l \in Listings :
          \/ listings[l] = None /\ Return(c) /\ UNCHANGED listings
          \/ /\ listings[l] # None
             /\ listings' = [listings EXCEPT ![l].status = req[c].status]
             /\ Finish(c, req[c].status)
    /\ HandlerFrame /\ UNCHANGED <<externals, wanted, owned, accountVars>>

\* setRequestStatus, of any id.
SetRequestStatus(c) ==
    /\ At(c, "setStatus", "start") /\ req[c].entity = "request"
    /\ \E r \in Requests :
          \/ requests[r] = None /\ Return(c) /\ UNCHANGED requests
          \/ /\ requests[r] # None
             /\ requests' = [requests EXCEPT ![r].status = req[c].status]
             /\ Finish(c, req[c].status)
    /\ HandlerFrame /\ UNCHANGED <<listings, externals, matches, owned, accountVars>>

CatalogueStep(c) ==
    \/ FindByUrl(c) \/ FindByPhone(c) \/ GetExternal(c) \/ UpdateExternal(c) \/ InsertExternal(c)
    \/ CreateRequest(c) \/ LoadRequest(c) \/ WriteRequest(c)
    \/ LoadOwnedRequest(c) \/ FetchCandidates(c) \/ DeleteMatches(c) \/ PersistMatches(c)
    \/ AgencyOfProperty(c) \/ CreateProperty(c) \/ LoadProperty(c)
    \/ UpdateProperty(c) \/ ChangePropertyStatus(c) \/ ResetPrimary(c) \/ InsertImage(c)
    \/ SetListingStatus(c) \/ SetRequestStatus(c)

-----------------------------------------------------------------------------
CatalogueTypeOK ==
    /\ listings \in [Listings -> ListingRows \cup {None}]
    /\ externals \in [Externals -> ExternalRows \cup {None}]
    /\ requests \in [Requests -> RequestRows \cup {None}]
    /\ properties \in [Properties -> PropertyRows \cup {None}]
    /\ matches \subseteq [request : Requests, listing : Listings, by : Calls]
    /\ images \subseteq [by : Calls, property : Properties, primary : BOOLEAN]
    /\ \A e \in Externals : externals[e] # None => listings[externals[e].listing] # None
    /\ \A m \in matches : requests[m.request] # None /\ listings[m.listing] # None
    /\ \A i \in images : properties[i.property] # None

\* A primary image and an evaluation of a request replace what is there: two
\* images are both primary, and a match of one call stands beside another
\* call's, only if the two were in progress at the same time; and no race
\* leaves a property that was given a primary image without one.
ReplacesEarlier ==
    /\ \A i, j \in images : i.primary /\ j.primary /\ i.property = j.property =>
          i = j \/ Overlap(i.by, j.by)
    /\ \A c \in Calls : Committed(c, "addImage") /\ req[c].primary =>
          \E i \in images : i.primary /\ i.property = req[c].property
    /\ \A c \in Calls : Committed(c, "match") =>
          \A m \in matches : m.request = req[c].request => <<m.by, c>> \notin after

\* Call c, which ingests b, has overlapped with a call for the same external
\* listing, or that one was ingested before with another URL.
MetAnother(c, b) ==
    \/ b.external \in DOMAIN OldListings /\ OldListings[b.external].url # b.url
    \/ \E d \in Calls :
          /\ d # c /\ Committed(d, "ingest") /\ req[d].body.external = b.external
          /\ Overlap(d, c) \/ req[d].body.url # b.url

\* Some external listing points to listing l.
Linked(l) == \E e \in Externals : externals[e] # None /\ externals[e].listing = l

\* "Is idempotent for repeated identical payload": of calls that come one
\* after the other with one URL none leaves a listing that no external listing
\* points to.  Such a listing is of a call that met an existing row after it
\* had made its listing, because another call was in progress or the row had
\* come with another URL.
ListingsAreLinked ==
    \A l \in Listings : listings[l] # None /\ ~Linked(l) =>
        /\ l \in Calls /\ wrote[l] = [action |-> "updated", listing |-> l]
        /\ MetAnother(l, req[l].body)

\* "Does not leave orphan canonical listings under concurrent identical
\* ingestion": a listing that no external listing points to is of a call that
\* met another payload for its external listing.
IdenticalLeaveNoOrphans ==
    \A l \in Calls : listings[l] # None /\ ~Linked(l) =>
        \E d \in Calls :
            /\ Committed(d, "ingest") /\ req[d].body # req[l].body
            /\ req[d].body.external = req[l].body.external

\* Nothing stays half made: neither agencies nor listings.
NothingHalfMade == AgenciesHaveOwners /\ ListingsAreLinked
=============================================================================
