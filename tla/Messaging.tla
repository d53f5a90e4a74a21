----------------------------- MODULE Messaging -----------------------------
(***************************************************************************)
(* Direct conversations, messages, read marks and notification preferences *)
(* (apps/api: messaging/service, notifications/service).  A conversation   *)
(* is named by its direct_pair_key, on which there is a UNIQUE index; a    *)
(* message by the call that sent it.  Wakes after the commit, delivery and *)
(* what recipients see belong to JobQueue.                                 *)
(***************************************************************************)
EXTENDS ApiCalls

CONSTANTS
    Rank,       \* Rank[u]: the order sort() puts user ids in
    Defaults    \* a new row of notification_preferences: column to value

\* Some columns of notification_preferences, with their values.
Columns == DOMAIN Defaults
Settings(columns) == [columns -> STRING]

ASSUME MessagingAssumption ==
    /\ Rank \in [Users -> Nat] /\ \A u, v \in Users : Rank[u] = Rank[v] => u = v
    /\ Defaults \in Settings(Columns)
    /\ None \notin Nat /\ \A columns \in SUBSET Columns : None \notin Settings(columns)

VARIABLES
    conversations,   \* the keys that exist
    participants,    \* pairs <<key, user>>
    messages,        \* messages[c]: [conv, at] of the one call c sent, or None
    jobs,            \* pairs <<c, u>>: a new_message job for u, in c's transaction
    clock,           \* now(): the number of sending transactions begun
    readMark,        \* readMark[<<key, user>>]: created_at of the message last read, or 0
    prefs            \* prefs[u]: u's preferences, or None

messagingVars == <<conversations, participants, messages, jobs, clock, readMark, prefs>>
talk == <<conversations, participants>>
mail == <<messages, jobs, clock>>

ConversationKeys == Users \X Users

MessagingInit(old) ==
    /\ conversations = old /\ jobs = {} /\ clock = 0
    /\ participants = {p \in old \X Users : p[2] \in {p[1][1], p[1][2]}}
    /\ messages = [c \in Calls |-> None]
    /\ readMark = [p \in ConversationKeys \X Users |-> 0]
    /\ prefs = [u \in Users |-> None]

-----------------------------------------------------------------------------
\* Defect: the pair is joined as it comes.
DirectPairKeyUnsorted(u, v) == <<u, v>>

DirectPairKey(u, v) == IF Rank[u] < Rank[v] THEN <<u, v>> ELSE <<v, u>>

\* createConversation: the caller and the target are compared and looked up.
FindTarget(c) ==
    /\ At(c, "createConversation", "start")
    /\ IF req[c].with = actor[c] \/ users[req[c].with] = "none"
       THEN Return(c) ELSE Goto(c, "insert", None)
    /\ HandlerFrame /\ UNCHANGED messagingVars

\* The INSERT ... ON CONFLICT DO NOTHING, waiting for a transaction with the
\* same key, and the participants; otherwise lookupExisting finds the row.
CreateConversation(c) ==
    LET k == DirectPairKey(actor[c], req[c].with) IN
    /\ At(c, "createConversation", "insert")
    /\ conversations' = conversations \cup {k}
    /\ participants' = IF k \in conversations THEN participants
                       ELSE participants \cup {<<k, actor[c]>>, <<k, req[c].with>>}
    /\ Finish(c, k)
    /\ HandlerFrame /\ UNCHANGED <<mail, readMark, prefs>>

\* requireParticipant, in sendMessage and in markConversationRead.
RequireParticipant(c) ==
    /\ At(c, "send", "start") \/ At(c, "markRead", "start")
    /\ IF <<req[c].conv, actor[c]>> \in participants
       THEN Goto(c, IF req[c].op = "send" THEN "begin" ELSE "last", None) ELSE Return(c)
    /\ HandlerFrame /\ UNCHANGED messagingVars

\* sendMessage: its transaction begins, which is what created_at records.
BeginSend(c) ==
    /\ At(c, "send", "begin")
    /\ clock' = clock + 1 /\ Goto(c, "commit", clock + 1)
    /\ HandlerFrame /\ UNCHANGED <<talk, messages, jobs, readMark, prefs>>

\* sendMessage: the message and a job for every other participant commit.
CommitSend(c) ==
    /\ At(c, "send", "commit")
    /\ messages' = [messages EXCEPT ![c] = [conv |-> req[c].conv, at |-> mem[c]]]
    /\ jobs' = jobs \cup {<<c, p[2]>> : p \in {p \in participants :
                                                  p[1] = req[c].conv /\ p[2] # actor[c]}}
    /\ Finish(c, mem[c])
    /\ HandlerFrame /\ UNCHANGED <<talk, clock, readMark, prefs>>

MessagesOf(k) == {d \in Calls : messages[d] # None /\ messages[d].conv = k}

\* markConversationRead: the last message by created_at.
LastMessage(c) ==
    /\ At(c, "markRead", "last")
    /\ \/ MessagesOf(req[c].conv) = {} /\ Goto(c, "write", 0)
       \/ \E d \in MessagesOf(req[c].conv) :
             /\ \A e \in MessagesOf(req[c].conv) : messages[e].at <= messages[d].at
             /\ Goto(c, "write", messages[d].at)
    /\ HandlerFrame /\ UNCHANGED messagingVars

\* markConversationRead: the upsert, of what was read.
WriteMark(c) ==
    /\ At(c, "markRead", "write")
    /\ readMark' = [readMark EXCEPT ![<<req[c].conv, actor[c]>>] = mem[c]]
    /\ Finish(c, mem[c])
    /\ HandlerFrame /\ UNCHANGED <<talk, mail, prefs>>

-----------------------------------------------------------------------------
\* Where the two preference calls go with the row they have.
HavePreferences(c, row) ==
    IF req[c].op = "getPrefs" THEN Return(c) ELSE Goto(c, "upsert", row)

\* getNotificationPreferences: the SELECT; updateNotificationPreferences
\* begins with it too.
SelectPreferences(c) ==
    /\ At(c, "getPrefs", "start") \/ At(c, "setPrefs", "start")
    /\ IF prefs[actor[c]] = None THEN Goto(c, "insert", None)
       ELSE HavePreferences(c, prefs[actor[c]])
    /\ HandlerFrame /\ UNCHANGED messagingVars

\* getNotificationPreferences: the INSERT, which fails on a row made since.
InsertPreferences(c) ==
    /\ At(c, "getPrefs", "insert") \/ At(c, "setPrefs", "insert")
    /\ IF prefs[actor[c]] # None
       THEN Return(c) /\ UNCHANGED prefs
       ELSE /\ prefs' = [prefs EXCEPT ![actor[c]] = Defaults]
            /\ HavePreferences(c, Defaults)
    /\ HandlerFrame /\ UNCHANGED <<talk, mail, readMark>>

\* Defect: a column the call does not name gets its default again.
MergedDefaults(fields, current) ==
    [f \in Columns |-> IF f \in DOMAIN fields THEN fields[f] ELSE Defaults[f]]

\* fields.x ?? current.x, for every column.
Merged(fields, current) ==
    [f \in Columns |-> IF f \in DOMAIN fields THEN fields[f] ELSE current[f]]

\* updateNotificationPreferences: the upsert of the whole row.
UpdatePreferences(c) ==
    /\ At(c, "setPrefs", "upsert")
    /\ prefs' = [prefs EXCEPT ![actor[c]] = Merged(req[c].fields, mem[c])]
    /\ Finish(c, req[c].fields)
    /\ HandlerFrame /\ UNCHANGED <<talk, mail, readMark>>

MessagingStep(c) ==
    \/ FindTarget(c) \/ CreateConversation(c)
    \/ RequireParticipant(c) \/ BeginSend(c) \/ CommitSend(c) \/ LastMessage(c) \/ WriteMark(c)
    \/ SelectPreferences(c) \/ InsertPreferences(c) \/ UpdatePreferences(c)

-----------------------------------------------------------------------------
MessagingTypeOK ==
    /\ conversations \subseteq ConversationKeys
    /\ participants \subseteq conversations \X Users
    /\ \A c \in Calls : messages[c] # None => messages[c].conv \in conversations
    /\ jobs \subseteq Calls \X Users
    /\ clock \in Nat
    /\ readMark \in [ConversationKeys \X Users -> 0 .. clock]
    /\ prefs \in [Users -> Settings(Columns) \cup {None}]

ParticipantsOf(k) == {p[2] : p \in {p \in participants : p[1] = k}}

\* "Stable key for the unordered pair so A+B == B+A" (createConversation):
\* however two users' calls race, they share one conversation, both take
\* part in it, and a message of either has its job for the other.
OneConversation ==
    /\ \A k \in conversations : Cardinality(ParticipantsOf(k)) = 2
    /\ \A k, l \in conversations : ParticipantsOf(k) = ParticipantsOf(l) => k = l
    /\ \A c \in Calls : messages[c] # None =>
          \A u \in ParticipantsOf(messages[c].conv) \ {actor[c]} : <<c, u>> \in jobs

\* What a call wrote to a read mark or to preferences is kept: the mark goes
\* back, and a preference that no later call names is lost, only when another
\* call for the same row was in progress at the same time.
KeepsEarlier ==
    /\ \A c \in Calls : Committed(c, "markRead") =>
          \/ wrote[c] <= readMark[<<req[c].conv, actor[c]>>]
          \/ \E d \in Calls : /\ Committed(d, "markRead") /\ Overlap(c, d)
                             /\ actor[d] = actor[c] /\ req[d].conv = req[c].conv
    /\ \A c \in Calls : Committed(c, "setPrefs") =>
          \A f \in DOMAIN wrote[c] :
             \/ prefs[actor[c]][f] = wrote[c][f]
             \/ \E d \in Calls : /\ Committed(d, "setPrefs") /\ actor[d] = actor[c]
                                /\ \/ Overlap(c, d)
                                   \/ <<c, d>> \in after /\ f \in DOMAIN wrote[d]
=============================================================================
