----------------------------- MODULE MCIdentity -----------------------------
(***************************************************************************)
(* Who somebody is: a learner through Telegram, and a classroom PC through *)
(* its school's installer key.  They write different rows, so a behaviour  *)
(* exercises one of them, chosen at the start, and the other rests.        *)
(***************************************************************************)
EXTENDS TelegramAuth, TLC

CONSTANTS
    ann, bob, pa, pb,                                                  \* TelegramAuth
    Machines, Hwids, Codes, Nobody, Admin, UsesPerSeat, LicenceTerms,
    MaxStations, MaxTime, MaxOps                                       \* Classroom

VARIABLES
    part,                                                             \* the one that moves
    now, org, lock, licences, code, station, machine, hwid, req, adm, ops  \* Classroom

classVars == <<now, org, lock, licences, code, station, machine, hwid, req, adm, ops>>

(* Two Telegram users, each with a number of their own.                     *)
OwnNumber == ann :> pa @@ bob :> pb

Class == INSTANCE Classroom

IdentityInit ==
    /\ part \in {"telegram", "class"}
    /\ TgInit /\ Class!ClassInit
    /\ part # "class" => /\ hwid = CHOOSE h \in [Machines -> Hwids] : TRUE
                         /\ code[CHOOSE c \in Codes : TRUE].st = "live"

(* Links are being opened at the same time in one chat only (bound): those  *)
(* of two chats meet in no row but the link's own.                          *)
OneChat == \A j, k \in Requests : opening[j].by # NoUser /\ opening[k].by # NoUser
                                    => opening[j].by = opening[k].by
TelegramMoves == part = "telegram" /\ TgNext /\ OneChat' /\ UNCHANGED <<part, classVars>>
ClassMoves == part = "class" /\ Class!ClassNext /\ UNCHANGED <<part, tgVars>>

IdentityNext == TelegramMoves \/ ClassMoves
IdentitySpec == IdentityInit /\ [][IdentityNext]_<<part, tgVars, classVars>>

-----------------------------------------------------------------------------
(* Classroom PCs: one key opens at a time and every use of it put one PC on *)
(* the licence, seats are never exceeded, a revoked key or station enrols   *)
(* and signs nobody, and a lesson under way goes on (b2b, station agent).   *)
ClassSafe == [](part = "class" => Class!ClassInv) /\ Class!SeatsAndKeys
=============================================================================
