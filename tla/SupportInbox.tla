---------------------------- MODULE SupportInbox ----------------------------
(***************************************************************************)
(* The support conversation of one learner (supportchat/store.go,          *)
(* service.go and the HTTP handlers): one row with its status and two      *)
(* unread counters, and the messages of the learner and of staff.  Each    *)
(* handler commits first and broadcasts later.  SupportHub continues where *)
(* a broadcast starts.                                                     *)
(***************************************************************************)
EXTENDS Naturals, FiniteSets, Sequences

CONSTANTS Procs,       \* HTTP requests in flight
          PageSize,    \* messages of a page (50 by default)
          MaxMsgs,     \* messages posted (bound)
          MaxCloses    \* times the status is patched (bound)

VARIABLES conv,     \* support_conversation
          msgs,     \* support_message rows in commit order, with who has seen them
          closes,   \* status patches so far
          sent,     \* messages handed to the hub
          job       \* what each HTTP request is doing
inboxVars == <<conv, msgs, closes, sent, job>>
dbVars == <<conv, msgs, closes>>

Free == [pc |-> "idle", m |-> 0]
InboxInit ==
    /\ conv = [exists |-> FALSE, status |-> "open", unreadAdmin |-> 0, unreadUser |-> 0]
    /\ msgs = <<>> /\ closes = 0 /\ sent = {}
    /\ job = [p \in Procs |-> Free]

At(p, pc) == job[p].pc = pc
Goto(p, pc, m) == job' = [job EXCEPT ![p] = [pc |-> pc, m |-> m]]
Done(p) == job' = [job EXCEPT ![p] = Free]

-----------------------------------------------------------------------------
(* The conversation.  Each operator is one statement or one transaction.    *)
GetOrCreateConversation == conv' = [conv EXCEPT !.exists = TRUE]
ClearUnreadAdmin == conv' = [conv EXCEPT !.unreadAdmin = 0]
ClearUnreadUser == conv' = [conv EXCEPT !.unreadUser = 0]
SetStatus(status) == conv' = [conv EXCEPT !.status = status]
\* A staff request that is going to clear the counter passes over what is off
\* the page it lists and what is posted between its list and its clear; the
\* flag `missed` is what the property compares with.
Opening == \E p \in Procs : At(p, "listed")
\* Mutant: answering a thread marks it read.
AnsweringReads(by) ==
    /\ Len(msgs) < MaxMsgs
    /\ msgs' = Append(msgs, [by |-> by, listed |-> FALSE, missed |-> Opening])
    /\ conv' = IF by = "user"
               THEN [conv EXCEPT !.exists = TRUE, !.status = "open", !.unreadAdmin = @ + 1]
               ELSE [conv EXCEPT !.unreadUser = @ + 1, !.unreadAdmin = 0]
InsertMessage(by) ==
    /\ Len(msgs) < MaxMsgs
    /\ msgs' = Append(msgs, [by |-> by, listed |-> FALSE, missed |-> Opening])
    /\ conv' = IF by = "user"
               THEN [conv EXCEPT !.exists = TRUE, !.status = "open", !.unreadAdmin = @ + 1]
               ELSE [conv EXCEPT !.unreadUser = @ + 1]
\* One page, the newest of the messages before the cursor (all, without one).
Page(last) == {m \in DOMAIN msgs : m + PageSize > last /\ m <= last}
ListMessages(last, clears) ==
    msgs' = [m \in DOMAIN msgs |->
               [msgs[m] EXCEPT !.listed = @ \/ m \in Page(last),
                               !.missed = @ \/ (clears /\ m \notin Page(last))]]

-----------------------------------------------------------------------------
(* The HTTP handlers.                                                       *)
getMyConversation(p) ==
    /\ At(p, "idle") /\ ~conv.exists /\ GetOrCreateConversation
    /\ UNCHANGED <<msgs, closes, sent, job>>
PostUserMessage(p) == InsertMessage("user") /\ Goto(p, "broadcast", Len(msgs'))
postMyMessage(p) ==
    /\ At(p, "idle") /\ PostUserMessage(p)
    /\ UNCHANGED <<closes, sent>>
PostAdminMessage(p) == conv.exists /\ InsertMessage("admin") /\ Goto(p, "broadcast", Len(msgs'))
adminPostMessage(p) ==
    /\ At(p, "idle") /\ PostAdminMessage(p)
    /\ UNCHANGED <<closes, sent>>
markMyRead(p) ==
    /\ At(p, "idle") /\ conv.exists
    /\ ClearUnreadUser /\ Goto(p, "broadcast", 0)
    /\ UNCHANGED <<msgs, closes, sent>>
adminGetConversation(p) ==      \* the row; whether it has unread messages is kept
    /\ At(p, "idle") /\ conv.exists
    /\ Goto(p, "opened", IF conv.unreadAdmin > 0 THEN 1 ELSE 0)
    /\ UNCHANGED <<conv, msgs, closes, sent>>
adminLists(p) ==
    /\ At(p, "opened")
    /\ \E last \in 0..Len(msgs) : ListMessages(last, job[p].m = 1)
    /\ IF job[p].m = 1 THEN Goto(p, "listed", 0) ELSE Done(p)
    /\ UNCHANGED <<conv, closes, sent>>
adminClears(p) ==
    /\ At(p, "listed") /\ ClearUnreadAdmin /\ Goto(p, "broadcast", 0)
    /\ UNCHANGED <<msgs, closes, sent>>
adminPatchConversation(p) ==
    /\ At(p, "idle") /\ conv.exists /\ closes < MaxCloses /\ closes' = closes + 1
    /\ \E status \in {"open", "closed"} : SetStatus(status)
    /\ Goto(p, "broadcast", 0)
    /\ UNCHANGED <<msgs, sent>>
broadcast(p) ==      \* what the sockets then receive is SupportHub's
    /\ At(p, "broadcast") /\ Done(p)
    /\ sent' = sent \cup ({job[p].m} \ {0})
    /\ UNCHANGED dbVars

HttpNext(p) ==
    \/ getMyConversation(p) \/ postMyMessage(p) \/ adminPostMessage(p) \/ markMyRead(p)
    \/ adminGetConversation(p) \/ adminLists(p) \/ adminClears(p)
    \/ adminPatchConversation(p) \/ broadcast(p)
InboxNext == \E p \in Procs : HttpNext(p)
InboxSpec == InboxInit /\ [][InboxNext]_inboxVars

-----------------------------------------------------------------------------
InboxTypeOK ==
    /\ conv.status \in {"open", "closed"} /\ Len(msgs) <= MaxMsgs
    /\ sent \subseteq DOMAIN msgs
\* A learner's message nobody has listed is still counted as unread, unless a
\* staff request that cleared the counter passed it over.
UnreadAccounted ==
    Cardinality({m \in DOMAIN msgs : msgs[m].by = "user" /\ ~msgs[m].listed /\ ~msgs[m].missed})
        <= conv.unreadAdmin
\* Only a committed message is announced, and each by one request.
AnnouncedOnce ==
    \A p, q \in Procs : At(p, "broadcast") /\ job[p].m # 0 =>
        /\ job[p].m \in DOMAIN msgs \ sent
        /\ q # p /\ At(q, "broadcast") => job[q].m # job[p].m
\* Support inbox: no learner message drops out of the count but by a clear
\* that passed it over, and what is announced is committed and announced once.
InboxInv == InboxTypeOK /\ UnreadAccounted /\ AnnouncedOnce
=============================================================================
