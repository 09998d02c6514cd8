---------------------------- MODULE ArenaPresence ----------------------------
(***************************************************************************)
(* Is the player there?  One player's sockets during a live duel            *)
(* (backend/internal/arena: serveWS, Hub, Conn, OnConnect, OnDisconnect)    *)
(* and what the match makes of them (handle: disconnect, reconnect and      *)
(* forfeit_check).  A player may open a second tab, reload, or lose the     *)
(* network; a new socket replaces the old one in the hub.                   *)
(*                                                                         *)
(* A socket has two threads of control: serveWS, and its Close, which runs  *)
(* once (closeOnce) in whichever goroutine calls it first; another caller   *)
(* waits until it is over.                                                  *)
(***************************************************************************)
EXTENDS Integers, Sequences, FiniteSets

CONSTANTS
    Socks,    \* the sockets the player opens, in any order
    Grace,    \* ReconnectGrace, in ticks
    MaxTime,  \* bound on the clock
    Cap,      \* capacity of the inbox; a sender waits while it is full
    None

VARIABLES
    now,           \* the clock
    sock,          \* per socket: serveWS, Close, the socket it replaces
    hub,           \* Hub.conns[player]
    inbox,         \* the events about this player
    disconnected,  \* the seat's flag
    discGen,       \* and its generation
    sleepers,      \* goroutines that wait to send a forfeit_check
    forfeited,     \* the match has ended by forfeit of this player
    awaySince      \* history: when the flag was last set

vars == <<now, sock, hub, inbox, disconnected, discGen, sleepers, forfeited, awaySince>>

Gens == 0..Cardinality(Socks)
Event == [kind : {"disconnect", "reconnect", "forfeit_check"}, gen : Gens]

TypeOK ==
    /\ now \in 0..MaxTime
    /\ sock \in [Socks -> [serve : {"new", "replace", "connect", "run", "rejoin", "gone"},
                           close : {"no", "check", "notify", "done"},
                           old : Socks \cup {None}]]
    /\ hub \in Socks \cup {None}
    /\ inbox \in Seq(Event)
    /\ disconnected \in BOOLEAN
    /\ discGen \in Gens   \* a socket disconnects once (closeOnce)
    /\ sleepers \subseteq [gen : Gens, from : 0..MaxTime]
    /\ forfeited \in BOOLEAN
    /\ awaySince \in 0..MaxTime

\* The match has begun.  (The player's socket may be gone already: a close
\* while startMatch holds only a placeholder finds no match to tell.)
Init ==
    /\ now = 0
    /\ sock = [c \in Socks |-> [serve |-> "new", close |-> "no", old |-> None]]
    /\ hub = None
    /\ inbox = <<>>
    /\ disconnected = FALSE /\ discGen = 0
    /\ sleepers = {}
    /\ forfeited = FALSE
    /\ awaySince = 0

match == <<disconnected, discGen, sleepers, forfeited, awaySince>>

Enqueue(kind, gen) ==
    /\ Len(inbox) < Cap
    /\ inbox' = Append(inbox, [kind |-> kind, gen |-> gen])

-----------------------------------------------------------------------------
(* serveWS.                                                                *)

\* Hub.Register: the new socket takes the entry.
Register(c) ==
    /\ sock[c].serve = "new"
    /\ hub' = c
    /\ sock' = [sock EXCEPT ![c] = [@ EXCEPT !.serve = "replace", !.old = hub]]
    /\ UNCHANGED <<now, inbox, match>>

\* Register returns: the Close of the replaced socket is over.
Registered(c) ==
    /\ sock[c].serve = "replace"
    /\ \A o \in Socks : sock[c].old = o => sock[o].close = "done"
    /\ sock' = [sock EXCEPT ![c].serve = "connect"]
    /\ UNCHANGED <<now, hub, inbox, match>>

\* OnConnect: Rejoin.
OnConnect(c) ==
    /\ sock[c].serve = "connect"
    /\ Enqueue("reconnect", 0)
    /\ sock' = [sock EXCEPT ![c].serve = "run"]
    /\ UNCHANGED <<now, hub, match>>

\* The read pump takes a match.rejoin, and hands it on.
ReadRejoin(c) ==
    /\ sock[c].serve = "run" /\ sock[c].close = "no"
    /\ sock' = [sock EXCEPT ![c].serve = "rejoin"]
    /\ UNCHANGED <<now, hub, inbox, match>>

HandleRejoin(c) ==
    /\ sock[c].serve = "rejoin"
    /\ Enqueue("reconnect", 0)
    /\ sock' = [sock EXCEPT ![c].serve = "run"]
    /\ UNCHANGED <<now, hub, match>>

\* Mutant: the entry is deleted whoever it belongs to.
UnregisterAny(c) ==
    /\ sock[c].serve = "run" /\ sock[c].close = "done"
    /\ hub' = None
    /\ sock' = [sock EXCEPT ![c].serve = "gone"]
    /\ UNCHANGED <<now, inbox, match>>

\* The read pump returns once the socket is closed: Unregister.
Unregister(c) ==
    /\ sock[c].serve = "run" /\ sock[c].close = "done"
    /\ hub' = IF hub = c THEN None ELSE hub
    /\ sock' = [sock EXCEPT ![c].serve = "gone"]
    /\ UNCHANGED <<now, inbox, match>>

-----------------------------------------------------------------------------
(* Conn.Close and OnDisconnect.                                            *)

\* A read, write or ping fails, the client is slow or floods, or Register of
\* a newer socket closes this one.
Close(c) ==
    /\ sock[c].serve \in {"replace", "connect", "run", "rejoin"}
    /\ sock[c].close = "no"
    /\ sock' = [sock EXCEPT ![c].close = "check"]
    /\ UNCHANGED <<now, hub, inbox, match>>

\* OnDisconnect looks at the hub: a replaced socket is not a disconnect.
OnDisconnect(c) ==
    /\ sock[c].close = "check"
    /\ sock' = [sock EXCEPT ![c].close = IF hub \notin {None, c} THEN "done" ELSE "notify"]
    /\ UNCHANGED <<now, hub, inbox, match>>

\* LeaveQueue (Redis), then NotifyDisconnect.
NotifyDisconnect(c) ==
    /\ sock[c].close = "notify"
    /\ Enqueue("disconnect", 0)
    /\ sock' = [sock EXCEPT ![c].close = "done"]
    /\ UNCHANGED <<now, hub, match>>

-----------------------------------------------------------------------------
(* The match: handle.                                                      *)

Took(kind) == ~forfeited /\ inbox # <<>> /\ Head(inbox).kind = kind

HandleDisconnect ==
    /\ Took("disconnect")
    /\ inbox' = Tail(inbox)
    /\ IF disconnected THEN UNCHANGED <<disconnected, discGen, sleepers, awaySince>>
       ELSE /\ disconnected' = TRUE
            /\ discGen' = discGen + 1
            /\ sleepers' = sleepers \cup {[gen |-> discGen + 1, from |-> now]}
            /\ awaySince' = now
    /\ UNCHANGED <<now, sock, hub, forfeited>>

HandleReconnect ==
    /\ Took("reconnect")
    /\ inbox' = Tail(inbox)
    /\ disconnected' = FALSE
    /\ UNCHANGED <<now, sock, hub, discGen, sleepers, forfeited, awaySince>>

\* The sleeper wakes up.
Wake(t) ==
    /\ now >= t.from + Grace
    /\ Enqueue("forfeit_check", t.gen)
    /\ sleepers' = sleepers \ {t}
    /\ UNCHANGED <<now, sock, hub, disconnected, discGen, forfeited, awaySince>>

\* "a player who dropped, came back and dropped again gets a fresh full grace"
StillAway(gen) == disconnected /\ discGen = gen

HandleForfeitCheck ==
    /\ Took("forfeit_check")
    /\ inbox' = Tail(inbox)
    /\ forfeited' = StillAway(Head(inbox).gen)
    /\ UNCHANGED <<now, sock, hub, disconnected, discGen, sleepers, awaySince>>

Tick ==
    /\ ~forfeited
    /\ now < MaxTime
    /\ now' = now + 1
    /\ UNCHANGED <<sock, hub, inbox, match>>

Next ==
    \/ \E c \in Socks :
          \/ Register(c) \/ Registered(c) \/ OnConnect(c) \/ Unregister(c)
          \/ ReadRejoin(c) \/ HandleRejoin(c)
          \/ Close(c) \/ OnDisconnect(c) \/ NotifyDisconnect(c)
    \/ HandleDisconnect \/ HandleReconnect \/ HandleForfeitCheck
    \/ \E t \in sleepers : Wake(t)
    \/ Tick

Spec == Init /\ [][Next]_vars

-----------------------------------------------------------------------------
(* Properties.                                                             *)

Live(c) == sock[c].serve = "run" /\ sock[c].close = "no"

\* No handler is half-way and no event is waiting.
Settled ==
    /\ inbox = <<>>
    /\ \A c \in Socks : sock[c].serve \in {"new", "gone"} \/ Live(c)

\* A player with a live socket is not taken for absent, however closes,
\* replacements and reconnects raced: their match does not forfeit them
\* (OnConnect's event comes after the disconnect of the socket it replaces).
LiveIsConnected == Settled /\ ~forfeited /\ (\E c \in Socks : Live(c)) => ~disconnected

\* "Hub keeps at most one live Conn per profile", and it is the one that the
\* hub sends to (Register, Unregister).
OneLiveConn == TypeOK /\ (Settled => \A c \in Socks : Live(c) => hub = c)

\* A player who dropped, came back and dropped again gets a fresh full grace.
GraceIsWhole == forfeited => now >= awaySince + Grace

PresenceInv == LiveIsConnected /\ OneLiveConn /\ GraceIsWhole
=============================================================================
