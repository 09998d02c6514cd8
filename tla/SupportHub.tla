----------------------------- MODULE SupportHub -----------------------------
(***************************************************************************)
(* The live side of the support chat (supportchat/hub.go, ws.go and the    *)
(* tickets of service.go): single-use tickets open WebSockets, the hub     *)
(* fans each message out to the learner's socket and to staff sockets with *)
(* bounded queues.  Sockets are replaced, lag, fail and leave.  The        *)
(* messages of SupportInbox arrive in any order.                           *)
(***************************************************************************)
EXTENDS Naturals, FiniteSets, Sequences

CONSTANTS Learners,    \* the learner's sockets, one per dial
          Staff,       \* staff sockets, one per dial
          QueueCap,    \* capacity of Conn.out
          MaxMsgs,     \* messages announced (bound)
          MaxTickets   \* tickets minted (bound)
Conns == Learners \cup Staff
Nobody == "nobody"

VARIABLES sent,     \* messages broadcast
          tickets,  \* Redis: tickets not redeemed
          mints,    \* tickets minted, and how many sockets each one opened
          hub,      \* byUser, admins, byConv of this conversation
          conn,     \* each socket and its handler goroutines
          pushed,   \* how often a message was queued to a socket
          broken    \* a send hit a closed channel
hubVars == <<sent, tickets, mints, hub, conn, pushed, broken>>

Dead == [st |-> "none", q |-> 0, closed |-> FALSE, slow |-> FALSE, old |-> Nobody]
HubInit ==
    /\ sent = {} /\ tickets = {} /\ mints = <<>>
    /\ hub = [byUser |-> Nobody, admins |-> {}, room |-> {}]
    /\ conn = [c \in Conns |-> Dead] /\ broken = FALSE
    /\ pushed = [c \in Conns |-> [m \in 1..MaxMsgs |-> 0]]

Is(c, st) == conn[c].st = st
Enter(c, st) == conn' = [conn EXCEPT ![c].st = st]

-----------------------------------------------------------------------------
(* Sockets.                                                                 *)
Enqueue(c, s) ==
    IF s.closed THEN s
    ELSE IF s.q < QueueCap THEN [s EXCEPT !.q = @ + 1] ELSE [s EXCEPT !.slow = TRUE]
Audience == [c \in Conns |-> IF c \in hub.room \cup hub.admins THEN 1 ELSE 0]
BroadcastConversation(m) ==
    LET reached(c) == Audience[c] > 0
        took(c) == reached(c) /\ Enqueue(c, conn[c]).q > conn[c].q
    IN  /\ conn' = [c \in Conns |-> IF reached(c) THEN Enqueue(c, conn[c]) ELSE conn[c]]
        /\ broken' = (broken \/ \E c \in Conns : conn[c].closed /\ took(c))
        /\ pushed' = [c \in Conns |-> IF took(c) THEN [pushed[c] EXCEPT ![m] = @ + Audience[c]]
                                                 ELSE pushed[c]]
broadcastMessage(m) ==
    /\ m \notin sent /\ sent' = sent \cup {m}
    /\ BroadcastConversation(m)
    /\ UNCHANGED <<tickets, mints, hub>>

-----------------------------------------------------------------------------
(* Tickets and sockets.                                                     *)
Kind(c) == IF c \in Learners THEN "user" ELSE "admin"
MintTicket(kind) ==
    /\ Len(mints) < MaxTickets /\ mints' = Append(mints, 0)
    /\ tickets' = tickets \cup {<<kind, Len(mints')>>}
    /\ UNCHANGED <<sent, hub, conn, pushed, broken>>
RedeemTicket(t) == tickets' = tickets \ {t}
serveWS(c) ==
    /\ Is(c, "none")
    /\ \E t \in tickets : /\ t[1] = Kind(c) /\ RedeemTicket(t)
                          /\ mints' = [mints EXCEPT ![t[2]] = @ + 1]
    /\ Enter(c, "accepted")
    /\ UNCHANGED <<sent, hub, pushed, broken>>
RegisterUser(c) ==
    /\ Is(c, "accepted") /\ c \in Learners
    /\ hub' = [hub EXCEPT !.byUser = c]
    /\ conn' = [conn EXCEPT ![c] = [@ EXCEPT !.st = "registered", !.old = hub.byUser]]
    /\ UNCHANGED <<sent, tickets, mints, pushed, broken>>
CloseReplaced(c) ==
    /\ Is(c, "registered") /\ conn[c].old # Nobody
    /\ conn' = [conn EXCEPT ![conn[c].old] = [@ EXCEPT !.closed = TRUE, !.q = 0], ![c].old = Nobody]
    /\ UNCHANGED <<sent, tickets, mints, hub, pushed, broken>>
SubscribeConversation(c) == hub' = [hub EXCEPT !.room = @ \cup {c}]
JoinRoom(c) ==      \* the room of the learner's own conversation, then hello
    /\ Is(c, "registered") /\ conn[c].old = Nobody
    /\ SubscribeConversation(c)
    /\ conn' = [conn EXCEPT ![c] = [Enqueue(c, conn[c]) EXCEPT !.st = "live"]]
    /\ UNCHANGED <<sent, tickets, mints, pushed, broken>>
RegisterAdmin(c) ==
    /\ Is(c, "accepted") /\ c \in Staff
    /\ hub' = [hub EXCEPT !.admins = @ \cup {c}]
    /\ conn' = [conn EXCEPT ![c] = [Enqueue(c, conn[c]) EXCEPT !.st = "live"]]
    /\ UNCHANGED <<sent, tickets, mints, pushed, broken>>
readPump(c) ==      \* a subscribe event; a learner's other rooms are refused
    /\ Is(c, "live") /\ ~conn[c].closed /\ c \notin hub.room
    /\ SubscribeConversation(c)
    /\ UNCHANGED <<sent, tickets, mints, conn, pushed, broken>>
writePump(c) ==
    /\ Is(c, "live") /\ conn[c].q > 0
    /\ conn' = [conn EXCEPT ![c].q = @ - 1]
    /\ UNCHANGED <<sent, tickets, mints, hub, pushed, broken>>
\* The slow client's goroutine, a failed write or a failed ping.
Close(c) ==
    /\ conn[c].slow \/ (Is(c, "live") /\ ~conn[c].closed)
    /\ conn' = [conn EXCEPT ![c] = [@ EXCEPT !.closed = TRUE, !.q = 0, !.slow = FALSE]]
    /\ UNCHANGED <<sent, tickets, mints, hub, pushed, broken>>
PeerLeaves(c) ==
    /\ Is(c, "live") /\ ~conn[c].closed /\ Enter(c, "leaving")
    /\ UNCHANGED <<sent, tickets, mints, hub, pushed, broken>>
ReadFails(c) ==
    /\ Is(c, "live") /\ conn[c].closed /\ Enter(c, "leaving")
    /\ UNCHANGED <<sent, tickets, mints, hub, pushed, broken>>
\* Mutant: a replaced socket that leaves takes its successor's entry away.
ForgetsUser(c) == [byUser |-> IF c \in Learners THEN Nobody ELSE hub.byUser,
                   admins |-> hub.admins \ {c}, room |-> hub.room \ {c}]
Unregistered(c) == [byUser |-> IF hub.byUser = c THEN Nobody ELSE hub.byUser,
                    admins |-> hub.admins \ {c}, room |-> hub.room \ {c}]
Unregister(c) ==
    /\ Is(c, "leaving") /\ hub' = Unregistered(c)
    /\ conn' = [conn EXCEPT ![c] = [Dead EXCEPT !.st = "gone", !.closed = TRUE]]
    /\ UNCHANGED <<sent, tickets, mints, pushed, broken>>

Handler(c) ==
    \/ RegisterUser(c) \/ CloseReplaced(c) \/ JoinRoom(c) \/ RegisterAdmin(c)
    \/ writePump(c) \/ ReadFails(c) \/ Unregister(c)
HubNext ==
    \/ \E m \in 1..MaxMsgs : broadcastMessage(m)
    \/ \E kind \in {"user", "admin"} : MintTicket(kind)
    \/ \E c \in Conns : Handler(c) \/ serveWS(c) \/ readPump(c) \/ Close(c) \/ PeerLeaves(c)
\* Goroutines run: each handler and the close a full queue has asked for.
HubFairness == \A c \in Conns : WF_hubVars(Handler(c)) /\ WF_hubVars(conn[c].slow /\ Close(c))
HubSpec == HubInit /\ [][HubNext]_hubVars /\ HubFairness

-----------------------------------------------------------------------------
HubTypeOK ==
    /\ hub.byUser \in Learners \cup {Nobody} /\ hub.admins \subseteq Staff /\ hub.room \subseteq Conns
    /\ \A c \in Conns : conn[c].q <= QueueCap
\* A staff socket that also joined the room is served once per message.
PushedOnce == \A c \in Conns : \A m \in 1..MaxMsgs : pushed[c][m] <= 1
\* A ticket opens one socket, however often it is presented.
TicketOnce == \A t \in DOMAIN mints : mints[t] <= 1
\* The hub keeps no trace of a socket whose handler has returned, and the
\* learner's open sockets are the registered one and those being replaced.
HubClean == \A c \in Conns : Is(c, "gone") => c \notin hub.room \cup hub.admins \cup {hub.byUser}
OneLearnerSocket ==
    \A c \in Learners : Is(c, "live") /\ ~conn[c].closed =>
        hub.byUser = c \/ \E d \in Learners : conn[d].old = c
\* Support sockets: served once per message, tickets single use, the hub
\* forgets dead sockets, one learner socket, no send on a closed queue.
HubInv == HubTypeOK /\ PushedOnce /\ TicketOnce /\ HubClean /\ OneLearnerSocket /\ ~broken
\* A socket that was closed on the server side (replaced, slow, failed
\* write) leaves the hub: its reader fails and its handler unregisters it.
ClosedLeaves == \A c \in Conns : Is(c, "live") /\ conn[c].closed ~> Is(c, "gone")
=============================================================================
