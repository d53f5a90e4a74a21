--------------------------- MODULE MCMarketplace ---------------------------
(* Values of the constants of Marketplace for TLC, and the workloads. *)
EXTENDS Marketplace, TLC

CONSTANTS c1, c2, c3, u1, u2, u3, t1, t2, t3, t4, none, r1, r2, p1, p2, x1, x2, x3

MCOldSessions == (t1 :> u1) @@ (t2 :> u2) @@ (t3 :> none) @@ (t4 :> none)
MCRank == (u1 :> 1) @@ (u2 :> 2) @@ (u3 :> 3)
MCDefaults == [types |-> "d", dnd |-> "d"]
MCOldMembers == {[agency |-> "a1", user |-> u1, role |-> "owner"],
                 [agency |-> "a1", user |-> u2, role |-> "member"]}
MCOldListings == x3 :> [url |-> "o", phone |-> none, attributes |-> "v"]
MCOldRequests == (r1 :> [owner |-> u1, status |-> "active", wants |-> {"v"}]) @@ (r2 :> none)
MCOldProperties == (p1 :> [owner |-> u1, agency |-> "a1", status |-> "draft", title |-> "old"]) @@ (p2 :> none)

Suspend(u) == [op |-> "setStatus", token |-> t1, entity |-> "user", id |-> u, status |-> "suspended"]
Restore(u) == [Suspend(u) EXCEPT !.status = "active"]
Body(e, url, phone, v) == [external |-> e, url |-> url, phone |-> phone, attributes |-> v]
Ingest(b) == [op |-> "ingest", body |-> b]
Match == [op |-> "match", token |-> t1, request |-> r1]

Race(requests_) == [requests |-> requests_, conversations |-> {}]

MCWorkloads == {
    Race({[op |-> "register", user |-> u3], [op |-> "login", user |-> u2],
          Suspend(u2), Suspend(u3), Restore(u2),
          [op |-> "logout", token |-> t2], [op |-> "logout", token |-> t3]}),
    Race({[op |-> "createAgency", token |-> t2, agency |-> "a2"],
          [op |-> "createAgency", token |-> t1, agency |-> "a2"],
          [op |-> "addMember", token |-> t2, agency |-> "a2", user |-> u1, role |-> "admin"],
          [op |-> "addMember", token |-> t1, agency |-> "a1", user |-> u3, role |-> "member"],
          [op |-> "register", user |-> u3]}),
    Race({[op |-> "createConversation", token |-> t1, with |-> u2],
          [op |-> "createConversation", token |-> t2, with |-> u1],
          [op |-> "createConversation", token |-> t2, with |-> u3],
          [op |-> "send", token |-> t1, conv |-> <<u1, u2>>],
          [op |-> "markRead", token |-> t2, conv |-> <<u1, u2>>]}),
    [requests |-> {[op |-> "send", token |-> t1, conv |-> <<u1, u2>>],
                   [op |-> "markRead", token |-> t2, conv |-> <<u1, u2>>]},
     conversations |-> {<<u1, u2>>}],
    Race({[op |-> "getPrefs", token |-> t1],
          [op |-> "setPrefs", token |-> t1, fields |-> [types |-> "n"]],
          [op |-> "setPrefs", token |-> t1, fields |-> [dnd |-> "n"]]}),
    Race({Ingest(Body(x1, "w", none, "v")), Ingest(Body(x1, "y", none, "v")),
          Ingest(Body(x1, "y", none, "w")), Ingest(Body(x2, "y", "n", "v")),
          Ingest(Body(x1, "z", "n", "v")), Ingest(Body(x3, "y", none, "v"))}),
    Race({Ingest(Body(x1, "w", none, "v")), Match, [Suspend(u1) EXCEPT !.token = t2],
          [op |-> "setStatus", token |-> t1, entity |-> "listing", status |-> "suspended"],
          [op |-> "setStatus", token |-> t1, entity |-> "request", status |-> "closed"],
          [op |-> "updateRequest", token |-> t1, request |-> r1, wants |-> {}],
          [Match EXCEPT !.token = t2], [op |-> "archiveRequest", token |-> t2, request |-> r1],
          [op |-> "createRequest", token |-> t1, wants |-> {"v"}]}),
    Race({[op |-> "createProperty", token |-> t1, agency |-> none],
          [op |-> "createProperty", token |-> t2, agency |-> "a2"],
          [op |-> "updateProperty", token |-> t2, property |-> p1, title |-> "new"],
          [op |-> "setPropertyStatus", token |-> t1, property |-> p2, status |-> "published"],
          [op |-> "addImage", token |-> t1, property |-> p1, primary |-> TRUE],
          [op |-> "addImage", token |-> t2, property |-> p1, primary |-> TRUE],
          [op |-> "addImage", token |-> t2, property |-> p1, primary |-> FALSE]})}

\* One client's calls; one payload.
OneClient == {Race({[op |-> "createConversation", token |-> t1, with |-> u2]})}
OnePayload == {Race({Ingest(Body(x1, "w", none, "v"))})}

CallSymmetry == Permutations(Calls)
=============================================================================
