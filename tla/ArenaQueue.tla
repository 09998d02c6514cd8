----------------------------- MODULE ArenaQueue -----------------------------
(***************************************************************************)
(* How players get into a duel: tickets, the search queue, invite codes    *)
(* and the claim on both players (arena/service.go, handlers.go,           *)
(* arena_join.lua).  Every socket's reader handles one message at a time,  *)
(* so a player is one process, beside the callback of their closing socket *)
(* and a timer per queue entry.  Redis commands are separate steps; the    *)
(* join script is one.                                                     *)
(***************************************************************************)
EXTENDS Naturals, FiniteSets

CONSTANTS Players,
          Codes,           \* invite codes
          NoOne, NoCode,   \* no player, no code
          MaxAttempts,     \* candidates a join tries (8 in the code)
          MaxOps           \* messages handled and sockets opened at most (bound)

VARIABLES ticket,    \* players holding an unspent WebSocket ticket
          alive,     \* players whose socket is in the Hub
          queued,    \* members of the queue's sorted sets
          marker,    \* arena:queued:<p>, the serial of the entry; 0 if none
          serial,    \* queue entries made
          timers,    \* watchQueueTimeout goroutines: <<player, serial, due>>
          host,      \* arena:invite:<code>; NoOne if none
          hostCode,  \* arena:invite:host:<p>; NoCode if none
          uses,      \* friends let in by each code since it was made
          inM,       \* Hub.match[p]: {}, or the humans of the claim or match
          running,   \* matches started and not finished: sets of humans
          op,        \* what each player's reader is doing
          closing,   \* what each player's closing socket is doing
          ui,        \* what the player's screen was last told
          bumped,    \* players taken out of the queue and told nothing
          ops

net == <<ticket, alive>>
redis == <<queued, marker, serial, host, hostCode, uses>>
lobbyVars == <<net, redis, timers, inM, running, op, closing, ui, bumped, ops>>

Idle == [pc |-> "idle", kind |-> "none", with |-> {}, tries |-> 0, code |-> NoCode, seen |-> 0]

LobbyInit ==
    /\ ticket = {} /\ alive = Players /\ queued = {} /\ marker = [p \in Players |-> 0] /\ serial = 0
    /\ timers = {} /\ host = [c \in Codes |-> NoOne] /\ hostCode = [p \in Players |-> NoCode]
    /\ uses = [c \in Codes |-> 0]
    /\ inM = [p \in Players |-> {}] /\ running = {}
    /\ op = [p \in Players |-> Idle] /\ closing = [p \in Players |-> Idle]
    /\ ui = [p \in Players |-> "home"] /\ bumped = {} /\ ops = 0

Spend == ops < MaxOps /\ ops' = ops + 1
Step(p, pc) == op' = [op EXCEPT ![p].pc = pc]
Done(p) == op' = [op EXCEPT ![p] = Idle]

-----------------------------------------------------------------------------
(* Sockets.                                                                 *)
MintTicket(p) ==
    /\ p \notin ticket /\ p \notin alive /\ Spend /\ ticket' = ticket \cup {p}
    /\ UNCHANGED <<alive, redis, timers, inM, running, op, closing, ui, bumped>>
(* GETDEL: a ticket opens one socket.                                       *)
RedeemTicket(p) == p \in ticket /\ ticket' = ticket \ {p}
serveWS(p) ==
    /\ RedeemTicket(p) /\ alive' = alive \cup {p}
    /\ UNCHANGED <<redis, timers, inM, running, op, closing, ui, bumped, ops>>
(* The reader may still be working for a socket that has closed.            *)
Disconnect(p) ==
    /\ p \in alive /\ Spend /\ closing[p] = Idle
    /\ alive' = alive \ {p} /\ ui' = [ui EXCEPT ![p] = "home"]
    /\ closing' = [closing EXCEPT ![p].pc = "dequeue"]
    /\ UNCHANGED <<ticket, redis, timers, inM, running, op, bumped>>

(* dequeue reads the marker, then removes the entry it names.               *)
Dequeued(p) == queued' = queued \ {p} /\ marker' = [marker EXCEPT ![p] = 0]
ReadMarker(p) ==
    /\ closing[p].pc = "dequeue"
    /\ closing' = [closing EXCEPT ![p] = IF marker[p] = 0 THEN Idle ELSE [@ EXCEPT !.pc = "remove"]]
    /\ UNCHANGED <<net, redis, timers, inM, running, op, ui, bumped, ops>>
OnDisconnect(p) ==
    /\ closing[p].pc = "remove" /\ Dequeued(p) /\ closing' = [closing EXCEPT ![p] = Idle]
    /\ bumped' = bumped \cup {q \in {p} : ui[q] = "searching" /\ marker[q] # 0}
    /\ UNCHANGED <<net, serial, host, hostCode, uses, timers, inM, running, op, ui, ops>>

-----------------------------------------------------------------------------
(* A message arrives; the gate refuses a player who is in a match.          *)
InMatch(p) == inM[p] # {}
arenaGate(p) == ~InMatch(p)
HandleClient(p, kind, pc, code) ==
    /\ p \in alive /\ op[p] = Idle /\ arenaGate(p) /\ Spend
    /\ op' = [op EXCEPT ![p] = [Idle EXCEPT !.pc = pc, !.kind = kind, !.code = code]]
    /\ UNCHANGED <<net, redis, timers, inM, running, closing, ui, bumped>>
(* Withdraws the player's open code, if it still points at them.            *)
cancelInvite(p) ==
    /\ host' = [c \in Codes |-> IF c = hostCode[p] /\ host[c] = p THEN NoOne ELSE host[c]]
    /\ hostCode' = [hostCode EXCEPT ![p] = NoCode]
CancelInvite(p) ==
    /\ p \in alive /\ op[p] = Idle /\ hostCode[p] # NoCode /\ cancelInvite(p)
    /\ ui' = [ui EXCEPT ![p] = IF @ = "hosting" THEN "home" ELSE @]
    /\ UNCHANGED <<net, queued, marker, serial, uses, timers, inM, running, op, closing, bumped, ops>>

(* dequeue inside a handler, then on to pc.                                 *)
DequeueSelf(p, from, pc) ==
    /\ op[p].pc = from
    /\ \/ op[p].seen = 0 /\ marker[p] # 0 /\ op' = [op EXCEPT ![p].seen = 1]
          /\ UNCHANGED <<queued, marker, ui>>
       \/ op[p].seen = 0 /\ marker[p] = 0 /\ Step(p, pc) /\ UNCHANGED <<queued, marker, ui>>
       \/ /\ op[p].seen = 1 /\ Dequeued(p) /\ op' = [op EXCEPT ![p] = [@ EXCEPT !.pc = pc, !.seen = 0]]
          /\ ui' = [ui EXCEPT ![p] = IF @ = "searching" THEN "home" ELSE @]
    /\ UNCHANGED <<net, serial, host, hostCode, uses, timers, inM, running, closing, bumped, ops>>
LeaveQueue(p) ==
    /\ op[p].kind = "leave"
    /\ \/ DequeueSelf(p, "dequeue", "left")
       \/ /\ op[p].pc = "left" /\ Done(p) /\ ui' = [ui EXCEPT ![p] = IF @ = "searching" THEN "home" ELSE @]
          /\ UNCHANGED <<net, redis, timers, inM, running, closing, bumped, ops>>

-----------------------------------------------------------------------------
(* The queue.                                                               *)
JoinQueue(p) ==
    /\ op[p].pc = "join"
    /\ IF marker[p] # 0 THEN Done(p) /\ UNCHANGED <<host, hostCode, ui>>
       ELSE /\ cancelInvite(p) /\ Step(p, "search")
            /\ ui' = [ui EXCEPT ![p] = IF @ = "hosting" THEN "home" ELSE @]
    /\ UNCHANGED <<net, queued, marker, serial, uses, timers, inM, running, closing, bumped, ops>>
(* The script: ghosts are dropped, a waiter is taken, or the player waits.  *)
Ghosts == {m \in queued : marker[m] = 0}
arenaJoinLua(p) ==
    /\ op[p].pc = "search"
    /\ \/ \E c \in (queued \ Ghosts) \ {p} :
             /\ queued' = queued \ {c} /\ marker' = [marker EXCEPT ![c] = 0]
             /\ op' = [op EXCEPT ![p] = [@ EXCEPT !.pc = "pair", !.with = {c}]]
             /\ UNCHANGED <<serial, timers, ui>>
       \/ /\ (queued \ Ghosts) \ {p} = {}
          /\ serial' = serial + 1 /\ queued' = (queued \ Ghosts) \cup {p}
          /\ marker' = [marker EXCEPT ![p] = serial + 1]
          /\ timers' = timers \cup {<<p, serial + 1, FALSE>>}
          /\ ui' = IF p \in alive THEN [ui EXCEPT ![p] = "searching"] ELSE ui
          /\ Done(p)
    /\ UNCHANGED <<net, host, hostCode, uses, inM, running, closing, bumped, ops>>
(* A candidate whose socket is gone, or who is in a match, is dropped.      *)
Retry(p) ==
    LET tries == op[p].tries + 1
    IN  op' = [op EXCEPT ![p] = IF tries < MaxAttempts
                                THEN [@ EXCEPT !.pc = "search", !.with = {}, !.tries = tries] ELSE Idle]
Fits(c) == c \in alive /\ ~InMatch(c)
CheckCandidate(p) ==
    /\ op[p].pc = "pair"
    /\ IF \A c \in op[p].with : Fits(c) THEN Step(p, "claim") ELSE Retry(p)
    /\ UNCHANGED <<net, redis, timers, inM, running, closing, ui, bumped, ops>>
(* A player who left and came back has another entry and another timer.     *)
ItsEntry(t) == marker[t[1]] = t[2]
(* The timer looks at the marker, and removes the entry in a later step.    *)
watchQueueTimeout(t) ==
    /\ t \in timers
    /\ IF t[3] THEN /\ Dequeued(t[1]) /\ timers' = timers \ {t}
                    /\ ui' = [ui EXCEPT ![t[1]] = IF @ = "searching" THEN "home" ELSE @]
       ELSE /\ timers' = (timers \ {t}) \cup (IF ItsEntry(t) THEN {<<t[1], t[2], TRUE>>} ELSE {})
            /\ UNCHANGED <<queued, marker, ui>>
    /\ UNCHANGED <<net, serial, host, hostCode, uses, inM, running, op, closing, bumped, ops>>

-----------------------------------------------------------------------------
(* Invites.                                                                 *)
CreateInvite(p) ==
    \/ op[p].kind = "invite" /\ DequeueSelf(p, "dequeue", "code")
    \/ /\ op[p].pc = "code"
       /\ \E c \in {k \in Codes : host[k] = NoOne \/ k = hostCode[p]} :
             /\ host' = [k \in Codes |-> IF k = c THEN p
                                         ELSE IF k = hostCode[p] /\ host[k] = p THEN NoOne ELSE host[k]]
             /\ hostCode' = [hostCode EXCEPT ![p] = c] /\ uses' = [uses EXCEPT ![c] = 0]
       /\ ui' = IF p \in alive THEN [ui EXCEPT ![p] = "hosting"] ELSE ui
       /\ Done(p)
       /\ UNCHANGED <<net, queued, marker, serial, timers, inM, running, closing, bumped, ops>>
(* The friend reads whose code it is, and goes on only if the host is here. *)
ReadInvite(p) ==
    LET h == host[op[p].code]
    IN  /\ op[p].pc = "read"
        /\ IF h # NoOne /\ h # p /\ Fits(h)
           THEN op' = [op EXCEPT ![p] = [@ EXCEPT !.pc = "take", !.with = {h}]] ELSE Done(p)
        /\ UNCHANGED <<net, redis, timers, inM, running, closing, ui, bumped, ops>>
(* DEL claims the code: of two friends typing it one goes on.               *)
TakeInvite(p) ==
    IF host[op[p].code] = NoOne THEN Done(p) /\ UNCHANGED <<host, hostCode, uses>>
    ELSE /\ host' = [host EXCEPT ![op[p].code] = NoOne]
         /\ hostCode' = [q \in Players |-> IF q \in op[p].with THEN NoCode ELSE hostCode[q]]
         /\ uses' = [uses EXCEPT ![op[p].code] = @ + 1] /\ Step(p, "own")
DequeueHost(p) ==
    /\ op[p].pc = "theirs"
    /\ LET h == CHOOSE h \in op[p].with : TRUE
       IN  \/ op[p].seen = 0 /\ marker[h] # 0 /\ op' = [op EXCEPT ![p].seen = 1] /\ UNCHANGED <<queued, marker>>
           \/ op[p].seen = 0 /\ marker[h] = 0 /\ Step(p, "claim") /\ UNCHANGED <<queued, marker>>
           \/ op[p].seen = 1 /\ Dequeued(h) /\ op' = [op EXCEPT ![p] = [@ EXCEPT !.pc = "claim", !.seen = 0]]
    /\ UNCHANGED <<net, serial, host, hostCode, uses, timers, inM, running, closing, ui, bumped, ops>>
JoinInvite(p) ==
    \/ ReadInvite(p)
    \/ /\ op[p].pc = "take" /\ TakeInvite(p)
       /\ UNCHANGED <<net, queued, marker, serial, timers, inM, running, closing, ui, bumped, ops>>
    \/ DequeueSelf(p, "own", "theirs")
    \/ DequeueHost(p)
StartBot(p) ==
    \/ op[p].kind = "bot" /\ DequeueSelf(p, "dequeue", "cancel")
    \/ /\ op[p].pc = "cancel" /\ cancelInvite(p) /\ Step(p, "claim")
       /\ UNCHANGED <<net, queued, marker, serial, uses, timers, inM, running, closing, ui, bumped, ops>>

-----------------------------------------------------------------------------
(* Starting the duel.                                                       *)
Humans(p) == {p} \cup op[p].with
(* Mutant: only the player's own claim is looked at.                        *)
ClaimOwn(p) == ~InMatch(p)
Claimable(p) == \A h \in Humans(p) : ~InMatch(h)
Forgotten(p) == {h \in op[p].with : ~InMatch(h) /\ marker[h] = 0 /\ ui[h] = "searching"}
claim(p) ==
    /\ op[p].pc = "claim"
    /\ IF Claimable(p)
       THEN /\ inM' = [h \in Players |-> IF h \in Humans(p) THEN Humans(p) ELSE inM[h]]
            /\ Step(p, "start") /\ UNCHANGED bumped
       ELSE /\ bumped' = bumped \cup Forgotten(p)
            /\ (IF op[p].kind = "queue" THEN Retry(p) ELSE Done(p)) /\ UNCHANGED inM
    /\ UNCHANGED <<net, redis, timers, running, closing, ui, ops>>
(* Undoes the claim; everybody in it is told.                               *)
release(p) ==
    /\ op[p].pc = "start"
    /\ inM' = [h \in Players |-> IF h \in Humans(p) /\ inM[h] = Humans(p) THEN {} ELSE inM[h]]
    /\ ui' = [h \in Players |-> IF h \in Humans(p) THEN "home" ELSE ui[h]]
    /\ bumped' = bumped \ Humans(p) /\ Done(p)
    /\ UNCHANGED <<net, redis, timers, running, closing, ops>>
InsertArenaMatch(p) == running' = running \cup {Humans(p)}
startMatch(p) ==
    /\ op[p].pc = "start" /\ InsertArenaMatch(p)
    /\ ui' = [h \in Players |-> IF h \in Humans(p) \cap alive THEN "duel" ELSE ui[h]]
    /\ bumped' = bumped \ Humans(p) /\ Done(p)
    /\ UNCHANGED <<net, redis, timers, inM, closing, ops>>
cleanupFinishedMatch(m) ==
    /\ m \in running /\ running' = running \ {m}
    /\ inM' = [h \in Players |-> IF h \in m THEN {} ELSE inM[h]]
    /\ ui' = [h \in Players |-> IF h \in m THEN "home" ELSE ui[h]]
    /\ UNCHANGED <<net, redis, timers, op, closing, bumped, ops>>

-----------------------------------------------------------------------------
Message(p) ==
    \/ HandleClient(p, "queue", "join", NoCode) \/ HandleClient(p, "leave", "dequeue", NoCode)
    \/ HandleClient(p, "invite", "dequeue", NoCode) \/ HandleClient(p, "bot", "dequeue", NoCode)
    \/ \E c \in Codes : HandleClient(p, "friend", "read", c)
    \/ CancelInvite(p)
Handling(p) ==
    \/ JoinQueue(p) \/ arenaJoinLua(p) \/ CheckCandidate(p) \/ LeaveQueue(p)
    \/ CreateInvite(p) \/ JoinInvite(p) \/ StartBot(p)
    \/ claim(p) \/ release(p) \/ startMatch(p)
LobbyNext ==
    \/ \E p \in Players : \/ MintTicket(p) \/ serveWS(p) \/ Disconnect(p)
                          \/ ReadMarker(p) \/ OnDisconnect(p) \/ Message(p) \/ Handling(p)
    \/ \E t \in timers : watchQueueTimeout(t)
    \/ \E m \in running : cleanupFinishedMatch(m)
(* Handlers, timers and matches run on; nobody has to send a message.       *)
LobbyFairness ==
    /\ \A p \in Players : WF_lobbyVars(Handling(p)) /\ WF_lobbyVars(ReadMarker(p) \/ OnDisconnect(p))
    /\ WF_lobbyVars(\E t \in timers : watchQueueTimeout(t))
    /\ WF_lobbyVars(\E m \in running : cleanupFinishedMatch(m))
LobbySpec == LobbyInit /\ [][LobbyNext]_lobbyVars /\ LobbyFairness

-----------------------------------------------------------------------------
(* claim's promise: nobody is pulled into two duels at once.                *)
OneDuel == \A m, n \in running : m # n => m \cap n = {}
(* A duel stands behind every claim: one being started, or one running.     *)
ClaimsStand ==
    \A p \in Players : InMatch(p) =>
        inM[p] \in running \/ \E q \in inM[p] : op[q].pc = "start" /\ Humans(q) = inM[p]
(* Two friends typing one code: one of them gets the duel.                  *)
InviteOnce == \A c \in Codes : uses[c] <= 1
(* A player whose screen searches is in the queue, or in the                *)
(* hands of somebody who will tell them.  The exceptions are a candidate    *)
(* taken by a joiner who was claimed into another duel meanwhile, and a     *)
(* player whose closing socket dequeues the search of their next one.       *)
InHand(p) ==
    \/ InMatch(p)
    \/ \E q \in Players : p \in op[q].with /\ op[q].pc \in {"pair", "claim", "start"}
    \/ \E q \in Players : p \in op[q].with /\ op[q].pc = "theirs"
    \/ \E t \in timers : t[1] = p /\ t[3]
    \/ op[p].pc \in {"dequeue", "left", "own", "theirs", "claim", "cancel", "code"}
NobodyForgotten ==
    \A p \in Players : ui[p] = "searching" /\ p \in alive =>
        \/ p \in queued /\ marker[p] # 0
        \/ InHand(p) \/ p \in bumped
(* What the lobby promises.                                                 *)
LobbyInv == OneDuel /\ ClaimsStand /\ InviteOnce /\ NobodyForgotten
(* A search ends: in a duel, by its timer, or because the player left.      *)
SearchEnds == \A p \in Players : (ui[p] = "searching") ~> (ui[p] # "searching" \/ p \in bumped)
=============================================================================
