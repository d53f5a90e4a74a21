---------------------------- MODULE RouterProofs ----------------------------
(***************************************************************************)
(* When the router and the executor may call a provider, for any ledger,   *)
(* configuration, requests, and number of calls and faults.                *)
(***************************************************************************)
EXTENDS CostRouter, SequenceTheorems, FiniteSetTheorems, WellFoundedInduction, TLAPS

-----------------------------------------------------------------------------
(* The latest and the first of a set of positions *)

LEMMA MinOfPositions ==
    ASSUME NEW S, S \subseteq Nat, S # {}
    PROVE  Min(S) \in S /\ \A i \in S : Min(S) <= i
<1>1. \E i \in S : \A j \in S : ~(<<j, i>> \in OpToRel(<, Nat))
  BY NatLessThanWellFounded, WFMin
<1>2. PICK i \in S : \A j \in S : ~(j < i)
  BY <1>1 DEF OpToRel
<1>3. \A j \in S : i <= j
  BY <1>2
<1> QED BY <1>3 DEF Min

LEMMA MaxOfPositions ==
    ASSUME NEW n \in Nat, NEW S, S \subseteq 1 .. n, S # {}
    PROVE  Max(S) \in S /\ \A i \in S : Max(S) >= i
<1> DEFINE T == {n - i : i \in S}
<1>1. T \subseteq Nat /\ T # {}
  <2>1. \A i \in S : n - i \in Nat OBVIOUS
  <2>2. T \subseteq Nat BY <2>1
  <2>3. T # {} OBVIOUS
  <2> QED BY <2>2, <2>3
<1>2. PICK m \in T : \A j \in T : m <= j
  BY <1>1, MinOfPositions
<1>3. PICK i \in S : m = n - i
  OBVIOUS
<1>4. ASSUME NEW j \in S PROVE i >= j
  <2>1. n - j \in T OBVIOUS
  <2>2. n - i <= n - j BY <1>2, <1>3, <2>1
  <2> QED BY <2>2
<1> QED BY <1>4 DEF Max

\* evaluateApproval approves only if the last event of every required scope,
\* for the request's task, approves.
LEMMA ApprovedMeans ==
    ASSUME NEW q, NEW evs \in Seq(Events), NEW route, NEW provider,
           EvaluateApproval(q, evs, route, provider) = "APPROVED",
           NEW i \in DOMAIN RequiredScopes(q, route, provider)
    PROVE  Approved(evs, q.task, RequiredScopes(q, route, provider)[i])
<1> DEFINE required == RequiredScopes(q, route, provider)
           open == {k \in DOMAIN required :
                      \/ required[k] \notin ApprovalScopes
                      \/ GetApprovalState(evs, q.task, required[k]) # "approved"}
<1> DEFINE scope == required[i]
           I == {k \in DOMAIN evs : evs[k].type = "approval" /\ evs[k].task = q.task
                                    /\ evs[k].scope = scope}
<1>1. open = {}
  BY DEF EvaluateApproval
<1>2. GetApprovalState(evs, q.task, scope) = "approved"
  BY <1>1
<1>3. I # {} /\ evs[Max(I)].decision = "approved"
  BY <1>2 DEF GetApprovalState, Matching
<1>4. I \subseteq 1 .. Len(evs) /\ Len(evs) \in Nat
  OBVIOUS
<1> HIDE DEF I
<1>5. Max(I) \in I /\ \A j \in I : Max(I) >= j
  BY <1>3, <1>4, MaxOfPositions
<1>6. ASSUME NEW j \in DOMAIN evs, j > Max(I), evs[j].type = "approval"
      PROVE  ~(evs[j].task = q.task /\ evs[j].scope = scope)
  <2>1. j \in 1 .. Len(evs)
    OBVIOUS
  <2>2. j \in Int /\ Max(I) \in Int
    <3>1. Max(I) \in 1 .. Len(evs) BY <1>4, <1>5, Zenon
    <3> QED BY <2>1, <3>1
  <2>3. j \notin I
    BY <1>5, <1>6, <2>2
  <2> QED BY <1>6, <2>3 DEF I
<1> QED BY <1>3, <1>5, <1>6 DEF Approved, I

-----------------------------------------------------------------------------
(* The invariant *)

Places == {"new", "queued", "cache", "choose", "quote", "audit", "decided", "done"}
Evaluating == {"cache", "choose", "quote", "audit", "decided"}

\* Decisions that name a route to be used.
Granting == {"LOCAL", "CHEAP_CLOUD", "STRONG"}
Drafts ==
    [decision : Granting \cup {"STOP", "CACHE", "DETERMINISTIC", "APPROVAL_REQUIRED"},
     route : RouteNames \cup {None, "cache", "deterministic"},
     provider : DOMAIN Config \cup {None}]

RouterType ==
    /\ configValid \in BOOLEAN /\ torn \in BOOLEAN
    /\ ledger \in Seq(Events) /\ audited \subseteq Calls
    /\ queue \in Seq(Calls)
    /\ pc \in [Calls -> Places]
    /\ request \in [Calls -> Requests \cup {None}]
    /\ seen \in [Calls -> Nat] /\ draft \in [Calls -> Drafts]
    /\ faults \in 0 .. MaxFaults
    /\ asked \in [Calls -> Nat] /\ tornAt \subseteq Calls /\ invoked \subseteq Calls

\* The ledger lets the request have route r: it is selected, and the request
\* has not failed twice alike.
MayUse(q, evs, r) == r \in Selected(q, evs) /\ ~HasRepeatedFailure(evs, q)

\* What is known of call c where it is.  A decision that grants a route was
\* taken on the part of the ledger the call saw, which is not older than the
\* call; a call made on a torn ledger never gets beyond the queue.
CallOK(c) ==
    /\ seen[c] <= Len(ledger) /\ ValidDraft(draft[c])
    /\ c \in tornAt => torn /\ pc[c] = "queued"
    /\ pc[c] \notin {"new", "done"} => request[c] \in Requests /\ asked[c] <= Len(ledger)
    /\ pc[c] \in Evaluating => configValid /\ asked[c] <= seen[c]
    /\ pc[c] = "quote" =>
          /\ draft[c].route \in RouteNames /\ draft[c].decision = DecisionOf[draft[c].route]
          /\ draft[c].provider # None /\ MayUse(request[c], Seen(c), draft[c].route)
    /\ pc[c] \in {"audit", "decided"} /\ draft[c].decision \in Granting =>
          /\ MayUse(request[c], Seen(c), draft[c].route)
          /\ EvaluateApproval(request[c], Seen(c), draft[c].route, draft[c].provider) = "APPROVED"
    /\ pc[c] = "decided" => c \in audited /\ Executable(draft[c])

RouterInv == RouterType /\ \A c \in Calls : CallOK(c)

\* What was seen of the ledger does not change when it grows.
LEMMA SeenStays ==
    ASSUME RouterType, NEW c \in Calls, seen[c] <= Len(ledger), seen'[c] = seen[c],
           UNCHANGED ledger \/ \E e \in Events : ledger' = Append(ledger, e)
    PROVE  Seen(c)' = Seen(c)
<1>1. CASE UNCHANGED ledger
  BY <1>1 DEF Seen
<1>2. ASSUME NEW e \in Events, ledger' = Append(ledger, e) PROVE Seen(c)' = Seen(c)
  <2> DEFINE n == seen[c]
  <2>1. n \in Nat /\ ledger \in Seq(Events) /\ n <= Len(ledger)
    BY DEF RouterType
  <2>2. \A i \in 1 .. n : ledger'[i] = ledger[i]
    BY <1>2, <2>1
  <2>3. SubSeq(ledger', 1, n) = SubSeq(ledger, 1, n)
    BY <2>1, <2>2
  <2> QED BY <2>3 DEF Seen
<1> QED BY <1>1, <1>2

\* A call that does not move still knows what it knew.
LEMMA CallStays ==
    ASSUME RouterType, NEW d \in Calls, CallOK(d),
           pc'[d] = pc[d], request'[d] = request[d], seen'[d] = seen[d],
           draft'[d] = draft[d], asked'[d] = asked[d],
           d \in tornAt' => d \in tornAt, UNCHANGED configValid, torn => torn',
           audited \subseteq audited',
           UNCHANGED ledger \/ \E e \in Events : ledger' = Append(ledger, e)
    PROVE  CallOK(d)'
<1>1. Seen(d)' = Seen(d)
  BY SeenStays DEF CallOK
<1>2. Len(ledger) <= Len(ledger') /\ Len(ledger) \in Nat /\ Len(ledger') \in Nat
  BY DEF RouterType
<1>3. seen[d] \in Nat /\ asked[d] \in Nat
  BY DEF RouterType
<1>4. seen'[d] <= Len(ledger') /\ ValidDraft(draft[d])' /\ (d \in tornAt' => torn' /\ pc'[d] = "queued")
  BY <1>2, <1>3 DEF CallOK, ValidDraft
<1>5. /\ pc'[d] \notin {"new", "done"} => request'[d] \in Requests /\ asked'[d] <= Len(ledger')
      /\ pc'[d] \in Evaluating => configValid' /\ asked'[d] <= seen'[d]
  BY <1>2, <1>3 DEF CallOK
<1>6. pc'[d] = "quote" =>
          /\ draft'[d].route \in RouteNames /\ draft'[d].decision = DecisionOf[draft'[d].route]
          /\ draft'[d].provider # None /\ MayUse(request'[d], Seen(d)', draft'[d].route)
  BY <1>1 DEF CallOK
<1>7. pc'[d] \in {"audit", "decided"} /\ draft'[d].decision \in Granting =>
          /\ MayUse(request'[d], Seen(d)', draft'[d].route)
          /\ EvaluateApproval(request'[d], Seen(d)', draft'[d].route, draft'[d].provider) = "APPROVED"
  BY <1>1 DEF CallOK
<1>8. pc'[d] = "decided" => d \in audited' /\ Executable(draft'[d])
  BY DEF CallOK
<1> QED BY <1>4, <1>5, <1>6, <1>7, <1>8 DEF CallOK

LEMMA StopValid == RouterAssumption => Stop \in Drafts /\ ValidDraft(Stop) /\ ~Executable(Stop)
BY DEF RouterAssumption, Stop, Draft, Drafts, ValidDraft, Executable, DecisionOf, RouteNames

LEMMA InitInv == RouterAssumption /\ Init => RouterInv
<1> SUFFICES ASSUME RouterAssumption, Init PROVE RouterInv
  OBVIOUS
<1>1. RouterType
  <2>1. ledger \in Seq(Events) /\ queue \in Seq(Calls) /\ faults \in 0 .. MaxFaults
    BY DEF Init, RouterAssumption
  <2>2. pc \in [Calls -> Places] /\ request \in [Calls -> Requests \cup {None}]
    BY DEF Init, Places
  <2>3. seen \in [Calls -> Nat] /\ asked \in [Calls -> Nat] /\ draft \in [Calls -> Drafts]
    BY StopValid DEF Init
  <2>4. /\ configValid \in BOOLEAN /\ torn \in BOOLEAN /\ audited \subseteq Calls
        /\ tornAt \subseteq Calls /\ invoked \subseteq Calls
    BY DEF Init
  <2> QED BY <2>1, <2>2, <2>3, <2>4 DEF RouterType
<1>2. ASSUME NEW c \in Calls PROVE CallOK(c)
  <2>1. seen[c] = 0 /\ draft[c] = Stop /\ pc[c] = "new" /\ c \notin tornAt
    BY DEF Init
  <2>2. Len(ledger) \in Nat
    BY <1>1 DEF RouterType
  <2> QED BY <2>1, <2>2, StopValid DEF CallOK, Evaluating
<1> QED BY <1>1, <1>2 DEF RouterInv

\* What a step of one call leaves of the rest: the configuration and the
\* events stay, the file is only torn or added to.
Kept ==
    /\ UNCHANGED <<configValid, ledger>>
    /\ torn' \in BOOLEAN /\ (torn => torn')
    /\ audited \subseteq audited' /\ audited' \subseteq Calls
    /\ queue' \in Seq(Calls) /\ faults' \in 0 .. MaxFaults /\ invoked' \subseteq Calls

\* A call ends.
LEMMA FinishInv ==
    ASSUME RouterAssumption, RouterInv, NEW c \in Calls, Finish(c), Kept PROVE RouterInv'
<1>1. /\ pc' = [pc EXCEPT ![c] = "done"] /\ draft' = [draft EXCEPT ![c] = Stop]
      /\ request' = [request EXCEPT ![c] = None] /\ seen' = [seen EXCEPT ![c] = 0]
      /\ asked' = [asked EXCEPT ![c] = 0] /\ tornAt' = tornAt \ {c}
  BY DEF Finish, Decide, Goto
<1>2. RouterType'
  BY <1>1, StopValid DEF Kept, RouterInv, RouterType, Places
<1>3. CallOK(c)'
  <2>1. pc'[c] = "done" /\ draft'[c] = Stop /\ seen'[c] = 0 /\ c \notin tornAt'
    BY <1>1 DEF RouterInv, RouterType
  <2>2. Len(ledger') \in Nat
    BY <1>2 DEF RouterType
  <2> QED BY <2>1, <2>2, StopValid DEF CallOK, Evaluating
<1>4. ASSUME NEW d \in Calls, d # c PROVE CallOK(d)'
  BY <1>1, <1>4, CallStays DEF Kept, RouterInv, RouterType
<1> QED BY <1>2, <1>3, <1>4 DEF RouterInv

\* A call goes on with a decision.
LEMMA DecideInv ==
    ASSUME RouterInv, NEW c \in Calls, NEW d \in Drafts, NEW w \in Places, Decide(c, d, w), Kept,
           UNCHANGED <<request, asked, tornAt>>,
           UNCHANGED seen \/ seen' = [seen EXCEPT ![c] = Len(ledger)],
           pc'[c] = w /\ draft'[c] = d => CallOK(c)'
    PROVE  RouterInv'
<1>1. pc' = [pc EXCEPT ![c] = w] /\ draft' = [draft EXCEPT ![c] = d]
  BY DEF Decide, Goto
<1>2. Len(ledger) \in Nat
  BY DEF RouterInv, RouterType
<1>3. seen' \in [Calls -> Nat] /\ \A x \in Calls : x # c => seen'[x] = seen[x]
  BY <1>2 DEF RouterInv, RouterType
<1>4. RouterType'
  BY <1>1, <1>3 DEF Kept, RouterInv, RouterType
<1>5. CallOK(c)'
  BY <1>1 DEF RouterInv, RouterType
<1>6. ASSUME NEW x \in Calls, x # c PROVE CallOK(x)'
  BY <1>1, <1>3, <1>6, CallStays DEF Kept, RouterInv, RouterType
<1> QED BY <1>4, <1>5, <1>6 DEF RouterInv

\* The call at the head of the queue makes way for the next one.
LEMMA TailType == ASSUME RouterInv, queue # <<>> PROVE Tail(queue) \in Seq(Calls)
BY DEF RouterInv, RouterType

LEMMA EvaluateInv ==
    ASSUME RouterAssumption, RouterInv, NEW c \in Calls, NEW q \in Requests, Evaluate(c, q)
    PROVE  RouterInv'
<1>1. /\ pc' = [pc EXCEPT ![c] = "queued"] /\ request' = [request EXCEPT ![c] = q]
      /\ asked' = [asked EXCEPT ![c] = Len(ledger)] /\ pc[c] = "new"
      /\ tornAt' = IF torn THEN tornAt \cup {c} ELSE tornAt
      /\ UNCHANGED <<configValid, ledger, torn, audited, seen, draft, faults, invoked>>
  BY DEF Evaluate, Goto, file
<1>2. queue' \in Seq(Calls)
  BY DEF Evaluate, RouterInv, RouterType
<1>3. Len(ledger) \in Nat
  BY DEF RouterInv, RouterType
<1>4. RouterType'
  BY <1>1, <1>2, <1>3 DEF RouterInv, RouterType, Places
<1>5. CallOK(c)'
  <2>1. pc'[c] = "queued" /\ request'[c] = q /\ asked'[c] = Len(ledger)
    BY <1>1 DEF RouterInv, RouterType
  <2>2. c \in tornAt' => torn
    BY <1>1 DEF RouterInv, CallOK
  <2>3. seen'[c] <= Len(ledger') /\ ValidDraft(draft'[c])
    BY <1>1 DEF RouterInv, CallOK
  <2> QED BY <1>1, <1>3, <2>1, <2>2, <2>3 DEF CallOK, Evaluating
<1>6. ASSUME NEW d \in Calls, d # c PROVE CallOK(d)'
  BY <1>1, <1>6, CallStays DEF RouterInv, RouterType
<1> QED BY <1>4, <1>5, <1>6 DEF RouterInv

LEMMA ReplayInv ==
    ASSUME RouterAssumption, RouterInv, NEW c \in Calls, Replay(c) PROVE RouterInv'
<1>1. PICK w \in {"audit", "cache"} : Decide(c, Stop, w)
  BY DEF Replay
<1>2. Kept
  BY DEF Replay, Kept, RouterInv, RouterType, file, ghosts
<1>3. ASSUME pc'[c] = w, draft'[c] = Stop PROVE CallOK(c)'
  <2>1. UNCHANGED <<configValid, ledger, torn, audited, request, asked, tornAt>>
        /\ ~torn /\ configValid /\ pc[c] = "queued"
    BY DEF Replay, Turn, file, ghosts
  <2>2. seen'[c] = Len(ledger) /\ Len(ledger) \in Nat
    BY DEF Replay, RouterInv, RouterType
  <2>3. request[c] \in Requests /\ asked[c] <= Len(ledger) /\ c \notin tornAt
    BY <2>1 DEF RouterInv, CallOK
  <2>4. Stop.decision \notin Granting
    BY DEF Stop, Draft, Granting
  <2> QED BY <1>3, <2>1, <2>2, <2>3, <2>4, StopValid DEF CallOK, Evaluating
<1> QED BY <1>1, <1>2, <1>3, DecideInv, StopValid DEF Replay, ghosts, Places

\* A step of the evaluation, which changes nothing but the call's decision.
LEMMA OnwardInv ==
    ASSUME RouterInv, NEW c \in Calls, NEW d \in Drafts, ValidDraft(d),
           NEW w \in {"choose", "quote", "audit"}, pc[c] \in Evaluating, Decide(c, d, w),
           UNCHANGED <<configValid, file, queue, request, seen, faults, ghosts>>,
           w = "quote" =>
              /\ d.route \in RouteNames /\ d.decision = DecisionOf[d.route] /\ d.provider # None
              /\ MayUse(request[c], Seen(c), d.route),
           w = "audit" /\ d.decision \in Granting =>
              /\ MayUse(request[c], Seen(c), d.route)
              /\ EvaluateApproval(request[c], Seen(c), d.route, d.provider) = "APPROVED"
    PROVE  RouterInv'
<1>1. Kept
  BY DEF Kept, RouterInv, RouterType, file, ghosts
<1>2. UNCHANGED <<configValid, ledger, torn, audited, request, seen, asked, tornAt>>
  BY DEF file, ghosts
<1>3. Seen(c)' = Seen(c)
  BY <1>2 DEF Seen
<1>4. ASSUME pc'[c] = w, draft'[c] = d PROVE CallOK(c)'
  <2>1. /\ seen[c] <= Len(ledger) /\ c \notin tornAt /\ request[c] \in Requests
        /\ asked[c] <= Len(ledger) /\ configValid /\ asked[c] <= seen[c]
    BY DEF RouterInv, CallOK, Evaluating
  <2> QED BY <1>2, <1>3, <1>4, <2>1 DEF CallOK, Evaluating
<1> QED BY <1>1, <1>2, <1>4, DecideInv DEF Places

LEMMA EvaluateCacheInv ==
    ASSUME RouterAssumption, RouterInv, NEW c \in Calls, EvaluateCache(c) PROVE RouterInv'
<1> DEFINE hit == Draft("CACHE", "cache", None)
<1>1. hit \in Drafts /\ ValidDraft(hit) /\ hit.decision \notin Granting
  BY DEF Draft, Drafts, ValidDraft, Granting, DecisionOf, RouteNames
<1>2. Stop.decision \notin Granting
  BY DEF Stop, Draft, Granting
<1>3. /\ pc[c] \in Evaluating
      /\ UNCHANGED <<configValid, file, queue, request, seen, faults, ghosts>>
  BY DEF EvaluateCache, Turn, Evaluating
<1>4. Decide(c, Stop, "choose") \/ Decide(c, Stop, "audit") \/ Decide(c, hit, "audit")
  BY DEF EvaluateCache
<1> QED BY <1>1, <1>2, <1>3, <1>4, StopValid, OnwardInv

\* The provider of a selected route is one of its configured ones.
LEMMA SelectedProvider ==
    ASSUME RouterAssumption, NEW q, NEW evs, NEW r \in Selected(q, evs)
    PROVE  /\ r \in RouteNames
           /\ ProvidersOf[r][Min(Usable(q, evs, r))] \in DOMAIN Config \ {None}
<1>1. r \in RouteNames /\ Usable(q, evs, r) # {}
  BY DEF Selected
<1>2. ProvidersOf[r] \in Seq(DOMAIN Config \ {None})
  BY <1>1 DEF RouterAssumption
<1>3. DOMAIN ProvidersOf[r] = 1 .. Len(ProvidersOf[r]) /\ Len(ProvidersOf[r]) \in Nat
  BY <1>2
<1>4. Usable(q, evs, r) \subseteq DOMAIN ProvidersOf[r]
  BY DEF Usable
<1>5. Usable(q, evs, r) \subseteq Nat
  BY <1>3, <1>4
<1>6. Min(Usable(q, evs, r)) \in DOMAIN ProvidersOf[r]
  BY <1>1, <1>4, <1>5, MinOfPositions
<1> QED BY <1>1, <1>2, <1>3, <1>6

LEMMA ChooseInv ==
    ASSUME RouterAssumption, RouterInv, NEW c \in Calls, Choose(c) PROVE RouterInv'
<1> DEFINE q == request[c]
           evs == Seen(c)
           own == Draft("DETERMINISTIC", "deterministic", None)
<1>1. /\ pc[c] \in Evaluating
      /\ UNCHANGED <<configValid, file, queue, request, seen, faults, ghosts>>
  BY DEF Choose, Turn, Evaluating
<1>2. CASE Decide(c, own, "audit")
  <2>1. own \in Drafts /\ ValidDraft(own) /\ own.decision \notin Granting
    BY DEF Draft, Drafts, ValidDraft, Granting, DecisionOf, RouteNames
  <2> QED BY <1>1, <1>2, <2>1, OnwardInv
<1>3. CASE Decide(c, Stop, "audit")
  <2>1. Stop.decision \notin Granting
    BY DEF Stop, Draft, Granting
  <2> QED BY <1>1, <1>3, <2>1, StopValid, OnwardInv
<1>4. ASSUME NEW r \in Selected(q, evs), ~HasRepeatedFailure(evs, q),
             Decide(c, Draft(DecisionOf[r], r, ProvidersOf[r][Min(Usable(q, evs, r))]), "quote")
      PROVE  RouterInv'
  <2> DEFINE p == ProvidersOf[r][Min(Usable(q, evs, r))]
             d == Draft(DecisionOf[r], r, p)
  <2>1. r \in RouteNames /\ p \in DOMAIN Config \ {None}
    BY SelectedProvider
  <2>2. d.decision = DecisionOf[r] /\ d.route = r /\ d.provider = p
    BY DEF Draft
  <2>3. DecisionOf[r] \in Granting /\ \A x \in RouteNames : DecisionOf[x] = DecisionOf[r] => x = r
    BY <2>1 DEF DecisionOf, RouteNames, Granting
  <2>4. d \in Drafts
    BY <2>1, <2>3 DEF Draft, Drafts
  <2>5. ValidDraft(d)
    BY <2>1, <2>2, <2>3 DEF ValidDraft, Granting, RouterAssumption
  <2> HIDE DEF d, p
  <2>6. Decide(c, d, "quote") /\ MayUse(request[c], Seen(c), d.route)
    BY <1>4, <2>2 DEF d, p, MayUse
  <2> QED BY <1>1, <2>1, <2>2, <2>4, <2>5, <2>6, OnwardInv
<1> QED BY <1>2, <1>3, <1>4 DEF Choose

LEMMA QuoteInv ==
    ASSUME RouterAssumption, RouterInv, NEW c \in Calls, Quote(c) PROVE RouterInv'
<1> DEFINE d == draft[c]
           stop == [d EXCEPT !.decision = "STOP"]
           ask == [d EXCEPT !.decision = "APPROVAL_REQUIRED"]
<1>1. /\ pc[c] \in Evaluating /\ pc[c] = "quote"
      /\ UNCHANGED <<configValid, file, queue, request, seen, faults, ghosts>>
  BY DEF Quote, Turn, Evaluating
<1>2. /\ d \in Drafts /\ d.route \in RouteNames /\ d.provider # None /\ ValidDraft(d)
      /\ MayUse(request[c], Seen(c), d.route)
  BY <1>1 DEF RouterInv, RouterType, CallOK
<1>3. d.route # None
  BY <1>2 DEF RouterAssumption
<1>4. /\ stop \in Drafts /\ stop.decision = "STOP" /\ stop.route = d.route
      /\ stop.provider = d.provider
  BY <1>2 DEF Drafts
<1>5. /\ ask \in Drafts /\ ask.decision = "APPROVAL_REQUIRED" /\ ask.route = d.route
      /\ ask.provider = d.provider
  BY <1>2 DEF Drafts
<1>6. \A r \in RouteNames : DecisionOf[r] \in Granting
  BY DEF DecisionOf, RouteNames, Granting
<1>7. ValidDraft(stop) /\ stop.decision \notin Granting
  BY <1>3, <1>4, <1>6 DEF ValidDraft, Granting
<1>8. ValidDraft(ask) /\ ask.decision \notin Granting
  BY <1>2, <1>3, <1>5, <1>6 DEF ValidDraft, Granting
<1>9. \/ Decide(c, stop, "audit") \/ Decide(c, ask, "audit")
      \/ /\ EvaluateApproval(request[c], Seen(c), d.route, d.provider) = "APPROVED"
         /\ Decide(c, d, "audit")
  BY DEF Quote
<1> HIDE DEF d, stop, ask
<1>10. CASE Decide(c, stop, "audit")
  BY <1>1, <1>4, <1>7, <1>10, OnwardInv
<1>11. CASE Decide(c, ask, "audit")
  BY <1>1, <1>5, <1>8, <1>11, OnwardInv
<1>12. CASE /\ EvaluateApproval(request[c], Seen(c), d.route, d.provider) = "APPROVED"
            /\ Decide(c, d, "audit")
  BY <1>1, <1>2, <1>12, OnwardInv
<1> QED BY <1>9, <1>10, <1>11, <1>12

\* A fault is spent.
LEMMA FaultSpent ==
    ASSUME RouterAssumption, RouterInv, faults > 0, faults' = faults - 1
    PROVE  faults' \in 0 .. MaxFaults
BY DEF RouterAssumption, RouterInv, RouterType

\* A torn file stays torn.
LEMMA TornStays ==
    ASSUME torn \in BOOLEAN, UNCHANGED torn \/ torn' = TRUE
    PROVE  torn' \in BOOLEAN /\ (torn => torn')
<1>1. CASE UNCHANGED torn
  <2>1. torn' \in BOOLEAN BY <1>1
  <2>2. torn => torn' BY <1>1, Zenon
  <2> QED BY <2>1, <2>2
<1>2. CASE torn' = TRUE
  <2>1. torn' BY <1>2, Zenon
  <2>2. torn' \in BOOLEAN BY <1>2
  <2> QED BY <2>1, <2>2
<1> QED BY <1>1, <1>2

LEMMA StopWithoutAuditInv ==
    ASSUME RouterAssumption, RouterInv, NEW c \in Calls, StopWithoutAudit(c) PROVE RouterInv'
<1>1. Kept
  BY TailType DEF StopWithoutAudit, Turn, Kept, RouterInv, RouterType, file
<1> QED BY <1>1, FinishInv DEF StopWithoutAudit

\* The decision that is recorded is the one that was taken.
LEMMA AuditInv ==
    ASSUME RouterAssumption, RouterInv, NEW c \in Calls, Audit(c) PROVE RouterInv'
<1>1. Kept
  BY TailType DEF Audit, Turn, Resolve, Kept, RouterInv, RouterType
<1>2. CASE Finish(c)
  BY <1>1, <1>2, FinishInv
<1>3. CASE ~Finish(c)
  <2> DEFINE d == draft[c]
  <2>1. /\ Executable(d) /\ Decide(c, d, "decided") /\ UNCHANGED <<request, seen, asked, tornAt>>
        /\ UNCHANGED <<configValid, ledger, torn>> /\ c \in audited' /\ pc[c] = "audit"
    BY <1>3 DEF Audit, Turn, Resolve
  <2>2. d \in Drafts
    BY DEF RouterInv, RouterType
  <2>3. Seen(c)' = Seen(c)
    BY <2>1 DEF Seen
  <2>4. ASSUME pc'[c] = "decided", draft'[c] = d PROVE CallOK(c)'
    <3>1. /\ seen[c] <= Len(ledger) /\ ValidDraft(d) /\ c \notin tornAt /\ request[c] \in Requests
          /\ asked[c] <= Len(ledger) /\ configValid /\ asked[c] <= seen[c]
      BY <2>1 DEF RouterInv, CallOK, Evaluating
    <3>2. d.decision \in Granting =>
             /\ MayUse(request[c], Seen(c), d.route)
             /\ EvaluateApproval(request[c], Seen(c), d.route, d.provider) = "APPROVED"
      BY <2>1 DEF RouterInv, CallOK
    <3> HIDE DEF d
    <3> QED BY <2>1, <2>3, <2>4, <3>1, <3>2 DEF CallOK, Evaluating
  <2> HIDE DEF d
  <2> QED BY <1>1, <2>1, <2>2, <2>4, DecideInv DEF Places
<1> QED BY <1>2, <1>3

LEMMA FailAuditInv ==
    ASSUME RouterAssumption, RouterInv, NEW c \in Calls, FailAudit(c) PROVE RouterInv'
<1>1. Kept
  <2>1. faults' \in 0 .. MaxFaults BY FaultSpent DEF FailAudit
  <2>2. queue' \in Seq(Calls) BY TailType DEF FailAudit, Turn, Resolve
  <2>3. torn' \in BOOLEAN /\ (torn => torn')
    <3>1. UNCHANGED torn \/ torn' = TRUE
      BY DEF FailAudit, FailingAppend, file
    <3>2. torn \in BOOLEAN
      BY DEF RouterInv, RouterType
    <3> QED BY <3>1, <3>2, TornStays
  <2>4. /\ UNCHANGED <<configValid, ledger, invoked>>
        /\ audited \subseteq audited' /\ audited' \subseteq Calls
    BY DEF FailAudit, FailingAppend, RouterInv, RouterType, file
  <2> QED BY <2>1, <2>2, <2>3, <2>4 DEF Kept, RouterInv, RouterType
<1>2. Finish(c)
  BY StopValid DEF FailAudit, Resolve
<1> QED BY <1>1, <1>2, FinishInv

LEMMA InvokeInv ==
    ASSUME RouterAssumption, RouterInv, NEW c \in Calls, Invoke(c) PROVE RouterInv'
<1>1. faults' \in 0 .. MaxFaults
  BY FaultSpent DEF Invoke, RouterInv, RouterType
<1>2. Kept
  <2>1. torn' \in BOOLEAN /\ (torn => torn')
    <3>1. UNCHANGED torn \/ torn' = TRUE
      BY DEF Invoke
    <3>2. torn \in BOOLEAN
      BY DEF RouterInv, RouterType
    <3> QED BY <3>1, <3>2, TornStays
  <2>2. UNCHANGED <<configValid, ledger, audited, queue>> /\ invoked' \subseteq Calls
    BY DEF Invoke, RouterInv, RouterType
  <2> QED BY <1>1, <2>1, <2>2 DEF Kept, RouterInv, RouterType
<1> QED BY <1>2, FinishInv DEF Invoke

LEMMA RecordInv ==
    ASSUME RouterInv, NEW e \in External, Record(e) PROVE RouterInv'
<1>1. e \in Events BY DEF Events
<1>2. /\ UNCHANGED <<configValid, torn, audited, queue, pc, request, seen, draft, faults>>
      /\ UNCHANGED <<asked, tornAt, invoked>> /\ ledger' = Append(ledger, e)
  BY DEF Record, ghosts
<1>3. ledger' \in Seq(Events)
  BY <1>1, <1>2 DEF RouterInv, RouterType
<1>4. RouterType'
  BY <1>2, <1>3 DEF RouterInv, RouterType
<1>5. ASSUME NEW d \in Calls PROVE CallOK(d)'
  BY <1>1, <1>2, CallStays DEF RouterInv
<1> QED BY <1>4, <1>5 DEF RouterInv

LEMMA CrashInv == ASSUME RouterAssumption, RouterInv, Crash PROVE RouterInv'
<1>1. /\ pc' = [c \in Calls |-> IF pc[c] = "new" THEN "new" ELSE "done"]
      /\ seen' = [c \in Calls |-> 0] /\ draft' = [c \in Calls |-> Stop]
      /\ request' = [c \in Calls |-> None] /\ asked' = [c \in Calls |-> 0] /\ tornAt' = {}
      /\ queue' = <<>> /\ UNCHANGED <<configValid, invoked>>
  BY DEF Crash
<1>2. UNCHANGED ledger /\ torn' \in BOOLEAN /\ audited' \subseteq Calls
  BY DEF Crash, FailingAppend, file, RouterInv, RouterType
<1>3. faults' \in 0 .. MaxFaults
  BY FaultSpent DEF Crash
<1>4. RouterType'
  <2>1. pc' \in [Calls -> Places] BY <1>1 DEF Places
  <2>2. seen' \in [Calls -> Nat] /\ asked' \in [Calls -> Nat] BY <1>1
  <2>3. draft' \in [Calls -> Drafts] BY <1>1, StopValid
  <2>4. queue' \in Seq(Calls) BY <1>1
  <2>5. request' \in [Calls -> Requests \cup {None}] BY <1>1
  <2> QED BY <1>1, <1>2, <1>3, <2>1, <2>2, <2>3, <2>4, <2>5 DEF RouterInv, RouterType
<1>5. ASSUME NEW c \in Calls PROVE CallOK(c)'
  <2>1. pc'[c] \in {"new", "done"} /\ draft'[c] = Stop /\ seen'[c] = 0 /\ c \notin tornAt'
    BY <1>1
  <2>2. Len(ledger') \in Nat
    BY <1>4 DEF RouterType
  <2> QED BY <2>1, <2>2, StopValid DEF CallOK, Evaluating
<1> QED BY <1>4, <1>5 DEF RouterInv

LEMMA StepInv == ASSUME RouterAssumption, RouterInv, [Next]_vars PROVE RouterInv'
<1>1. CASE UNCHANGED vars
  <2>1. /\ UNCHANGED <<configValid, ledger, torn, audited, queue, pc, request, seen, draft, faults>>
        /\ UNCHANGED <<asked, tornAt, invoked>>
    BY <1>1 DEF vars, file, ghosts
  <2>2. RouterType' BY <2>1 DEF RouterInv, RouterType
  <2>3. \A d \in Calls : CallOK(d)' BY <2>1, CallStays DEF RouterInv
  <2> QED BY <2>2, <2>3 DEF RouterInv
<1>2. CASE Next
  BY <1>2, EvaluateInv, ReplayInv, StopWithoutAuditInv, EvaluateCacheInv, ChooseInv, QuoteInv,
     AuditInv, FailAuditInv, InvokeInv, RecordInv, CrashInv
  DEF Next, Progress
<1> QED BY <1>1, <1>2

\* The inductive invariant of the router and the executor.
THEOREM RouterSafe == Spec => []RouterInv
BY InitInv, StepInv, RouterAssumption, PTL DEF Spec

\* Every state is type correct, and no decision fails its own validation.
THEOREM TypeCorrect == Spec => []TypeOK
<1>1. RouterInv => TypeOK
  <2> SUFFICES ASSUME RouterInv PROVE TypeOK
    OBVIOUS
  <2>1. DOMAIN ledger = 1 .. Len(ledger) BY DEF RouterInv, RouterType
  <2>2. DOMAIN draft = Calls BY DEF RouterInv, RouterType
  <2>3. \A c \in Calls : seen[c] <= Len(ledger) /\ ValidDraft(draft[c])
    BY DEF RouterInv, CallOK
  <2> QED BY <2>1, <2>2, <2>3 DEF RouterInv, RouterType, TypeOK, Places
<1> QED BY <1>1, RouterSafe, PTL

-----------------------------------------------------------------------------
(* What a call of a provider follows from *)

\* Only a decided call calls its provider.
LEMMA InvokesMeans ==
    ASSUME RouterInv, [Next]_vars, NEW c \in Calls, Invokes(c) PROVE Invoke(c)
<1>1. ~UNCHANGED invoked BY DEF Invokes
<1>2. PICK d \in Calls : Invoke(d)
  BY <1>1 DEF Next, Progress, Evaluate, Replay, StopWithoutAudit, EvaluateCache, Choose, Quote,
     Audit, FailAudit, Record, Crash, vars, ghosts
<1> QED BY <1>2 DEF Invokes, Invoke

\* The ledger as the call saw it is one the call was not older than.
LEMMA SeenIsSince ==
    ASSUME RouterInv, NEW c \in Calls, pc[c] = "decided"
    PROVE  Seen(c) \in Since(c) /\ Seen(c) \in Seq(Events)
<1>1. /\ asked[c] \in Nat /\ seen[c] \in Nat /\ Len(ledger) \in Nat
      /\ asked[c] <= seen[c] /\ seen[c] <= Len(ledger) /\ ledger \in Seq(Events)
  BY DEF RouterInv, RouterType, CallOK, Evaluating
<1>2. seen[c] \in asked[c] .. Len(ledger)
  BY <1>1
<1>3. Seen(c) \in Since(c)
  BY <1>2 DEF Seen, Since
<1>4. \A i \in 1 .. seen[c] : ledger[i] \in Events
  BY <1>1
<1>5. SubSeq(ledger, 1, seen[c]) \in Seq(Events)
  BY <1>1, <1>4, SubSeqProperties
<1> QED BY <1>3, <1>5 DEF Seen

\* A decision that may be executed grants a route.
LEMMA ExecutableGrants ==
    ASSUME NEW d, Executable(d) PROVE d.decision \in Granting
BY DEF Executable, Granting

\* "Append failure returns an unaudited fail-closed STOP", for any ledger and
\* any number of calls: no provider is called without its decision in the
\* file.
THEOREM NothingUnaudited == Spec => InvokedWasAudited
<1>1. ASSUME RouterInv, [Next]_vars
      PROVE  [\A c \in Calls : Invokes(c) => c \in audited /\ configValid /\ c \notin tornAt]_vars
  <2> SUFFICES ASSUME NEW c \in Calls, Invokes(c)
               PROVE  c \in audited /\ configValid /\ c \notin tornAt
    OBVIOUS
  <2>1. pc[c] = "decided"
    BY <1>1, InvokesMeans DEF Invoke
  <2> QED BY <1>1, <2>1 DEF RouterInv, CallOK, Evaluating
<1> QED BY <1>1, RouterSafe, PTL DEF Spec, InvokedWasAudited

\* A provider that needs approvals is called only if, after the call was made,
\* the last event of every required scope approved, whatever others recorded
\* and however long the call waited.
THEOREM ApprovalsInForce == Spec => RevocationRespected
<1> DEFINE Respected(c) ==
             LET q == request[c]
                 scopes == RequiredScopes(q, draft[c].route, draft[c].provider)
             IN  \E evs \in Since(c) : \A i \in DOMAIN scopes : Approved(evs, q.task, scopes[i])
<1>1. ASSUME RouterInv, [Next]_vars, NEW c \in Calls, Invokes(c) PROVE Respected(c)
  <2>1. pc[c] = "decided"
    BY <1>1, InvokesMeans DEF Invoke
  <2>2. draft[c].decision \in Granting
    BY <1>1, <2>1, ExecutableGrants DEF RouterInv, CallOK
  <2>3. EvaluateApproval(request[c], Seen(c), draft[c].route, draft[c].provider) = "APPROVED"
    BY <1>1, <2>1, <2>2 DEF RouterInv, CallOK
  <2>4. Seen(c) \in Since(c) /\ Seen(c) \in Seq(Events)
    BY <1>1, <2>1, SeenIsSince
  <2>5. \A i \in DOMAIN RequiredScopes(request[c], draft[c].route, draft[c].provider) :
           Approved(Seen(c), request[c].task,
                    RequiredScopes(request[c], draft[c].route, draft[c].provider)[i])
    BY <2>3, <2>4, ApprovedMeans
  <2> QED BY <2>4, <2>5
<1>2. ASSUME RouterInv, [Next]_vars
      PROVE  [\A c \in Calls : Invokes(c) => Respected(c)]_vars
  BY <1>1, <1>2
<1> QED BY <1>2, RouterSafe, PTL DEF Spec, RevocationRespected

\* The local route comes first.
LEMMA LocalFirst ==
    /\ RouteRank("local") = 2 /\ RouteRank("deterministic") = 1
    /\ \A r \in RouteNames : RouteRank(r) \in 2 .. 4 /\ (r # "local" => 2 < RouteRank(r))
<1>1. RouteRank("local") = 2 /\ RouteRank("deterministic") = 1
  BY DEF RouteRank, Routes
<1>2. RouteRank("cheap-cloud") = 3
  BY DEF RouteRank, Routes
<1>3. RouteRank("strong") = 4
  BY DEF RouteRank, Routes
<1> QED BY <1>1, <1>2, <1>3 DEF RouteNames

\* A provider of the local route is excluded on what the ledger held: by the
\* policy, its price, its health, or a recorded failure of this request.
LocalExcluded(q, evs, p) ==
    \/ Excluded(q, p) \/ GetProviderHealth(evs, p) # "healthy"
    \/ \E i \in DOMAIN evs : LocalFailure(evs, q, i)

LEMMA SelectionExcludes ==
    ASSUME RouterAssumption, NEW q \in Requests, NEW evs, NEW r \in Selected(q, evs),
           r # "local", "local" \in q.routes, NEW k \in DOMAIN ProvidersOf["local"]
    PROVE  LocalExcluded(q, evs, ProvidersOf["local"][k])
<1>1. r \in RouteNames /\ q.max \in RouteNames \cup {"deterministic"}
  BY DEF Selected, RouterAssumption
<1>2. RouteAllowed(q, "local")
  <2>1. RouteAllowed(q, r)
    BY DEF Selected, Considered
  <2>2. CASE q.max = "deterministic"
    <3>1. RouteRank(r) <= 1 /\ RouteRank(r) \in 2 .. 4
      BY <1>1, <2>1, <2>2, LocalFirst DEF RouteAllowed
    <3> QED BY <3>1
  <2>3. CASE q.max \in RouteNames
    <3>1. RouteRank(q.max) \in 2 .. 4 /\ RouteRank("local") = 2
      BY <2>3, LocalFirst
    <3> QED BY <3>1 DEF RouteAllowed
  <2> QED BY <1>1, <2>2, <2>3
<1>3. CASE HasRouteInsufficiency(evs, q, "local")
  BY <1>3 DEF HasRouteInsufficiency, LocalExcluded, LocalFailure
<1>4. CASE ~HasRouteInsufficiency(evs, q, "local")
  <2>1. Considered(q, evs, "local")
    BY <1>2, <1>4 DEF Considered
  <2>2. RouteRank("local") < RouteRank(r) /\ "local" \in RouteNames
    BY <1>1, LocalFirst DEF RouteNames
  <2>3. Usable(q, evs, "local") = {}
    BY <2>1, <2>2 DEF Selected
  <2>4. ~(Eligible(q, evs, ProvidersOf["local"][k]) /\ Config[ProvidersOf["local"][k]].priced)
    BY <2>3 DEF Usable
  <2> QED BY <2>4 DEF Eligible, LocalExcluded, Excluded
<1> QED BY <1>3, <1>4

\* "A stronger tier cannot be selected merely because it exists", for any
\* configuration and ledger: there is a recorded cause, though not always one
\* with the evidence the same text asks for.
THEOREM EscalationJustified == Spec => EscalationHasCause
<1> DEFINE Justified(c) ==
             LET q == request[c] IN
             draft[c].route # "local" /\ "local" \in q.routes =>
                 \A k \in DOMAIN ProvidersOf["local"] :
                     LET p == ProvidersOf["local"][k] IN
                     \/ Excluded(q, p)
                     \/ \E evs \in Since(c) :
                           \/ GetProviderHealth(evs, p) # "healthy"
                           \/ \E i \in DOMAIN evs : LocalFailure(evs, q, i)
<1>1. ASSUME RouterInv, [Next]_vars, NEW c \in Calls, Invokes(c) PROVE Justified(c)
  <2>1. pc[c] = "decided"
    BY <1>1, InvokesMeans DEF Invoke
  <2>2. draft[c].decision \in Granting
    BY <1>1, <2>1, ExecutableGrants DEF RouterInv, CallOK
  <2>3. draft[c].route \in Selected(request[c], Seen(c)) /\ request[c] \in Requests
    BY <1>1, <2>1, <2>2 DEF RouterInv, CallOK, MayUse
  <2>4. Seen(c) \in Since(c)
    BY <1>1, <2>1, SeenIsSince
  <2>5. ASSUME draft[c].route # "local", "local" \in request[c].routes,
               NEW k \in DOMAIN ProvidersOf["local"]
        PROVE  LocalExcluded(request[c], Seen(c), ProvidersOf["local"][k])
    BY <2>3, <2>5, SelectionExcludes, RouterAssumption
  <2>6. ASSUME draft[c].route # "local", "local" \in request[c].routes,
               NEW k \in DOMAIN ProvidersOf["local"]
        PROVE  \/ Excluded(request[c], ProvidersOf["local"][k])
               \/ \E evs \in Since(c) :
                     \/ GetProviderHealth(evs, ProvidersOf["local"][k]) # "healthy"
                     \/ \E i \in DOMAIN evs : LocalFailure(evs, request[c], i)
    BY <2>4, <2>5, <2>6 DEF LocalExcluded
  <2> QED BY <2>6
<1>2. ASSUME RouterInv, [Next]_vars
      PROVE  [\A c \in Calls : Invokes(c) => Justified(c)]_vars
  BY <1>1, <1>2
<1> QED BY <1>2, RouterSafe, PTL DEF Spec, EscalationHasCause

\* Two last failures of a request, alike and with the same evidence, are what
\* hasRepeatedFailure finds.
LEMMA RepeatedIsFound ==
    ASSUME NEW q, NEW evs \in Seq(Events), q.error # None, q.diff # None, RepeatedAt(evs, q)
    PROVE  HasRepeatedFailure(evs, q)
<1> DEFINE F == {i \in DOMAIN evs : /\ evs[i].type = "attempt" /\ evs[i].request = q /\ evs[i].failed
                                    /\ evs[i].error = q.error /\ evs[i].patch = q.diff}
           all == {k \in DOMAIN evs : evs[k].type = "verification"}
           own(i) == {k \in all : evs[k].attempt = evs[i].attempt}
           times(i, h) == Cardinality({k \in own(i) : evs[k].evidence = h})
<1>1. PICK i \in F, j \in F :
          /\ i < j /\ evs[i].route = evs[j].route /\ \A k \in F : k <= i \/ k = j
          /\ \A k \in all : times(i, evs[k].evidence) = times(j, evs[k].evidence)
  <2> DEFINE fails == {i \in DOMAIN evs :
                         /\ evs[i].type = "attempt" /\ evs[i].request = q /\ evs[i].failed
                         /\ <<evs[i].error, evs[i].patch>> = <<q.error, q.diff>>}
             shows(h) == {k \in DOMAIN evs : evs[k].type = "verification" /\ evs[k].evidence = h}
             shown(i, h) == {k \in shows(h) : evs[k].attempt = evs[i].attempt}
  <2>1. PICK i \in fails, j \in fails :
            /\ i < j /\ evs[i].route = evs[j].route /\ \A k \in fails : k <= i \/ k = j
            /\ \A k \in DOMAIN evs : evs[k].type = "verification" =>
                  Cardinality(shown(i, evs[k].evidence)) = Cardinality(shown(j, evs[k].evidence))
    BY DEF RepeatedAt
  <2>2. fails = F
    OBVIOUS
  <2>3. \A k, h : shown(k, h) = {x \in own(k) : evs[x].evidence = h}
    OBVIOUS
  <2> HIDE DEF fails, F, shown, own
  <2>4. \A k \in all : times(i, evs[k].evidence) = times(j, evs[k].evidence)
    BY <2>1, <2>3
  <2> QED BY <2>1, <2>2, <2>4
<1>2. F \subseteq 1 .. Len(evs) /\ Len(evs) \in Nat
  OBVIOUS
<1>3. Evidence(evs, evs[i].attempt) = Evidence(evs, evs[j].attempt)
  <2>1. \A a : Evidence(evs, a) =
           [h \in {evs[k].evidence : k \in all} |->
              Cardinality({k \in {x \in all : evs[x].attempt = a} : evs[k].evidence = h})]
    BY DEF Evidence, Matching
  <2> DEFINE hashes == {evs[k].evidence : k \in all}
             shown(k) == [h \in hashes |-> times(k, h)]
  <2>2. \A h \in hashes : times(i, h) = times(j, h)
    BY <1>1
  <2>3. \A k : Evidence(evs, evs[k].attempt) = shown(k)
    BY <2>1
  <2>4. shown(i) = shown(j)
    <3> HIDE DEF hashes, times
    <3> QED BY <2>2
  <2> HIDE DEF shown
  <2> QED BY <2>3, <2>4
<1> HIDE DEF F
<1>4. i \in 1 .. Len(evs) /\ j \in 1 .. Len(evs)
  BY <1>1, <1>2
<1>5. Max(F) = j
  <2>1. Max(F) \in F /\ \A k \in F : Max(F) >= k
    BY <1>1, <1>2, MaxOfPositions
  <2>2. Max(F) \in 1 .. Len(evs)
    BY <1>2, <2>1
  <2> QED BY <1>1, <1>2, <1>4, <2>1, <2>2
<1>6. Max(F \ {j}) = i
  <2> DEFINE G == F \ {j}
  <2>1. i \in G /\ G \subseteq 1 .. Len(evs)
    BY <1>1, <1>2, <1>4
  <2> HIDE DEF G
  <2>2. Max(G) \in G /\ \A k \in G : Max(G) >= k
    BY <1>2, <2>1, MaxOfPositions
  <2>3. Max(G) \in 1 .. Len(evs) /\ Max(G) >= i
    BY <1>2, <2>1, <2>2
  <2>4. Max(G) <= i
    BY <1>1, <2>2 DEF G
  <2> QED BY <1>4, <2>3, <2>4 DEF G
<1>7. Cardinality(F) >= 2
  <2>1. IsFiniteSet(F)
    <3>1. 1 \in Int /\ Len(evs) \in Int
      BY <1>2
    <3>2. IsFiniteSet(1 .. Len(evs))
      BY <3>1, FS_Interval
    <3> QED BY <1>2, <3>2, FS_Subset
  <2>2. {i, j} \subseteq F /\ i # j
    BY <1>1, <1>4
  <2>3. Cardinality({i, j}) = 2
    <3>1. Cardinality({i}) = 1 /\ IsFiniteSet({i})
      BY FS_Singleton
    <3>2. j \notin {i} /\ {i} \cup {j} = {i, j}
      BY <2>2
    <3>3. Cardinality({i} \cup {j}) = Cardinality({i}) + 1
      BY <3>1, <3>2, FS_AddElement
    <3> QED BY <3>1, <3>2, <3>3
  <2>4. Cardinality({i, j}) <= Cardinality(F)
    BY <2>1, <2>2, FS_Subset
  <2>5. Cardinality(F) \in Nat
    BY <2>1, FS_CardinalityType
  <2> QED BY <2>3, <2>4, <2>5
<1> DEFINE Fails(e) == /\ e.type = "attempt" /\ e.request = q
                       /\ e.failed /\ e.error = q.error /\ e.patch = q.diff
<1>8. F = Matching(evs, Fails)
  BY DEF F, Matching
<1> QED BY <1>1, <1>3, <1>5, <1>6, <1>7, <1>8 DEF HasRepeatedFailure

\* "A repeated request/error/diff fingerprint without new evidence returns
\* STOP", for any ledger, whatever others record while the call waits.
THEOREM RepetitionStops == Spec => StopsRepeating
<1> DEFINE New(c) ==
             request[c].error # None /\ request[c].diff # None =>
                 \E evs \in Since(c) : ~RepeatedAt(evs, request[c])
<1>1. ASSUME RouterInv, [Next]_vars, NEW c \in Calls, Invokes(c) PROVE New(c)
  <2>1. pc[c] = "decided"
    BY <1>1, InvokesMeans DEF Invoke
  <2>2. draft[c].decision \in Granting
    BY <1>1, <2>1, ExecutableGrants DEF RouterInv, CallOK
  <2>3. ~HasRepeatedFailure(Seen(c), request[c])
    BY <1>1, <2>1, <2>2 DEF RouterInv, CallOK, MayUse
  <2>4. Seen(c) \in Since(c) /\ Seen(c) \in Seq(Events)
    BY <1>1, <2>1, SeenIsSince
  <2> QED BY <2>3, <2>4, RepeatedIsFound
<1>2. ASSUME RouterInv, [Next]_vars
      PROVE  [\A c \in Calls : Invokes(c) => New(c)]_vars
  BY <1>1, <1>2
<1> QED BY <1>2, RouterSafe, PTL DEF Spec, StopsRepeating
=============================================================================
