----------------------------- MODULE MCAccounts -----------------------------
(***************************************************************************)
(* Who is signed in and what the staff may do: the learner's refresh       *)
(* tokens (requests are interchangeable), staff sign-in, the admin's edits *)
(* and the support inbox.  They write different rows, so a behaviour       *)
(* exercises one of them, chosen at the start, and the others rest.        *)
(***************************************************************************)
EXTENDS RefreshTokens, TLC

CONSTANTS
    Procs,                                                               \* requests in flight
    FailLimit, MaxWindow, MaxSessions, MaxTokens, MaxMoves,              \* AdminAuth
    MaxEdits,                                                            \* AdminDesk
    PageSize, MaxMsgs, MaxCloses                                             \* SupportInbox

VARIABLES
    part,                                                                \* the one that moves
    admin, enforce, fails, window, scanned, held, sess, used, minted, call, tried, uncounted,
    moves,                                                               \* AdminAuth
    kind, field, trail, log, revs, wanted, crossed, cut, edits, edit,    \* AdminDesk
    conv, msgs, closes, sent, post                                       \* SupportInbox

adminVars == <<admin, enforce, fails, window, scanned, held, sess, used, minted, call,
               tried, uncounted, moves>>
deskVars == <<kind, field, trail, log, revs, wanted, crossed, cut, edits, edit>>
inboxVars == <<conv, msgs, closes, sent, post>>

Staff == INSTANCE AdminAuth WITH row <- admin, job <- call, lost <- uncounted
Desk == INSTANCE AdminDesk WITH row <- field, asked <- wanted, lost <- cut, job <- edit
Inbox == INSTANCE SupportInbox WITH job <- post

AccountsInit ==
    /\ part \in {"refresh", "staff", "desk", "inbox"}
    /\ RefreshInit /\ Staff!AdminInit /\ Desk!DeskInit /\ Inbox!InboxInit
    /\ part # "staff" => ~enforce
    /\ part # "desk" => kind = "limit"

RefreshMoves ==
    part = "refresh" /\ RefreshNext /\ UNCHANGED <<part, adminVars, deskVars, inboxVars>>
StaffMoves ==
    part = "staff" /\ Staff!AdminNext /\ UNCHANGED <<part, refreshVars, deskVars, inboxVars>>
DeskMoves ==
    part = "desk" /\ Desk!DeskNext /\ UNCHANGED <<part, refreshVars, adminVars, inboxVars>>
InboxMoves ==
    part = "inbox" /\ Inbox!InboxNext /\ UNCHANGED <<part, refreshVars, adminVars, deskVars>>

AccountsNext == RefreshMoves \/ StaffMoves \/ DeskMoves \/ InboxMoves
AccountsSpec ==
    AccountsInit /\ [][AccountsNext]_<<part, refreshVars, adminVars, deskVars, inboxVars>>

RequestSymmetry == Permutations(Requests)

-----------------------------------------------------------------------------
(* Staff sign-in: the lock, the single use of a token, the second factor    *)
(* and the stored authenticator hold under racing requests, and a revoked   *)
(* session is dead (adminauth).                                             *)
StaffSafe == [](part = "staff" => Staff!AdminInv) /\ Staff!RevokedIsDead

(* The admin's edits: the trail replays the row, overlaps lose only an edit *)
(* of a limit, and the attributed log tells the truth (admin).              *)
DeskInv == part = "desk" => Desk!DeskInv

(* The support inbox: a learner message drops out of the count only by a    *)
(* clear that passed it over; announced is committed, once (supportchat).   *)
InboxInv == part = "inbox" => Inbox!InboxInv
=============================================================================
