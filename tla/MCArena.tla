------------------------------- MODULE MCArena -------------------------------
(***************************************************************************)
(* The arena: the duel itself, the lobby that pairs the players, and the   *)
(* sockets they are reached by.  The three meet in calls that each model   *)
(* has as its own steps (a claim starts a duel, a closed socket sends it   *)
(* an event), so a behaviour exercises one of them, chosen at the start,   *)
(* and the others rest in their initial states.                            *)
(***************************************************************************)
EXTENDS ArenaMatch

CONSTANTS Players, Codes, NoOne, NoCode, MaxAttempts, MaxOps,    \* ArenaQueue
          Socks, Grace, MaxTime                                  \* ArenaPresence

VARIABLES
    part,                                                        \* the one that moves
    ticket, alive, queued, marker, serial, timers, host, hostCode, uses, inM, running, op,
    closing, ui, bumped, ops,                                    \* ArenaQueue
    now, sock, conn, mail, disconnected, discGen, sleepers, forfeited, awaySince
                                                                 \* ArenaPresence

lobbyVars == <<ticket, alive, queued, marker, serial, timers, host, hostCode, uses, inM,
               running, op, closing, ui, bumped, ops>>
socketVars ==
    <<now, sock, conn, mail, disconnected, discGen, sleepers, forfeited, awaySince>>

Lobby == INSTANCE ArenaQueue
Sockets == INSTANCE ArenaPresence WITH hub <- conn, inbox <- mail

ArenaInit ==
    /\ part \in {"duel", "lobby", "sockets"}
    /\ Init /\ Lobby!LobbyInit /\ Sockets!Init
    /\ part # "duel" => mode = "ranked"

DuelMoves == part = "duel" /\ Next /\ UNCHANGED <<part, lobbyVars, socketVars>>
LobbyMoves == part = "lobby" /\ Lobby!LobbyNext /\ UNCHANGED <<part, vars, socketVars>>
SocketMoves == part = "sockets" /\ Sockets!Next /\ UNCHANGED <<part, vars, lobbyVars>>

ArenaNext == DuelMoves \/ LobbyMoves \/ SocketMoves

(* The fairness of ArenaMatch and ArenaQueue, each while it moves.          *)
ArenaFairness ==
    /\ WF_vars(part = "duel" /\ Clock)
    /\ WF_vars(part = "duel" /\ Handle)
    /\ WF_vars(part = "duel" /\ Persist)
    /\ \A p \in Players :
          /\ WF_lobbyVars(part = "lobby" /\ Lobby!Handling(p))
          /\ WF_lobbyVars(part = "lobby" /\ (Lobby!ReadMarker(p) \/ Lobby!OnDisconnect(p)))
    /\ WF_lobbyVars(part = "lobby" /\ \E t \in timers : Lobby!watchQueueTimeout(t))
    /\ WF_lobbyVars(part = "lobby" /\ \E m \in running : Lobby!cleanupFinishedMatch(m))

ArenaSpec == ArenaInit /\ [][ArenaNext]_<<part, vars, lobbyVars, socketVars>> /\ ArenaFairness

-----------------------------------------------------------------------------
(* The lobby: nobody is in two duels, no claim is left hanging, a code lets *)
(* one friend in, and nobody who searches is forgotten.                     *)
LobbyInv == Lobby!LobbyInv

(* The sockets: a player with a live socket is not taken for absent, is     *)
(* reached on it, and gets a whole grace after every drop.                  *)
PresenceInv == Sockets!PresenceInv

(* What a player waits for comes: a duel ends and, unless its last step ran *)
(* out of time, is stored and told (Clock, finish); a search ends           *)
(* (watchQueueTimeout).  The players of the lobby are interchangeable, so   *)
(* the first two stand for all.                                             *)
Awaits(i) ==
    \/ part = "duel" /\ (i = 1) = (phase # "finished")
    \/ part = "lobby" /\ ui[IF i = 1 THEN "p1" ELSE "p2"] = "searching"
Gets(i) ==
    \/ part = "duel" /\ IF i = 1 THEN phase = "finished" ELSE told \/ expired
    \/ part = "lobby" /\ LET p == IF i = 1 THEN "p1" ELSE "p2" IN
                         ui[p] # "searching" \/ p \in bumped
WaitsEnd == \A i \in 1 .. 2 : Awaits(i) ~> Gets(i)
=============================================================================
