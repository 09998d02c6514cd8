---------------------------- MODULE TelegramAuth ----------------------------
(***************************************************************************)
(* Identity through the Telegram bot (auth/telegram_login.go,             *)
(* auth/password_reset.go, auth/telegram_webapp_login.go, bot/link.go).   *)
(* A browser starts a login or a password reset and shows a bot link; the *)
(* bot opens it for a Telegram user, who shares a phone number and / or   *)
(* taps an answer under a question.  Telegram itself vouches for the      *)
(* number of the user who shares it (Owner).  A profile is named by its   *)
(* phone.  Every handler is one transaction that locks the row it works   *)
(* on; updates of one chat are handled in any order and at the same time.  *)
(* Opening a link disarms whatever else waits in the chat, statement by    *)
(* statement over two tables: what it finds, it locks until it commits,    *)
(* and a link opened meanwhile it does not see.                            *)
(***************************************************************************)
EXTENDS Naturals, FiniteSets

CONSTANTS TgUsers, Phones, Logins, Resets,
          Owner,       \* the number Telegram knows each user by
          Registered,  \* numbers that have a profile to begin with
          MaxTokens,   \* link tokens out at a time (bound)
          MaxNonce,    \* questions the bot asks at most (bound)
          MaxUpsets    \* expiries, bans and switches in a behaviour (bound)

ASSUME NamesAssumption ==
    /\ Owner \in [TgUsers -> Phones] /\ "nobody" \notin TgUsers /\ "none" \notin Phones
    /\ Logins \cap Resets = {}

VARIABLES
    acct,      \* profile.status per phone, "none" without a profile
    link,      \* telegram_account of a profile: the user and the phone proof
    token,     \* profiles with an unused /start <token> link token
    login,     \* telegram_login_request rows
    reset,     \* password_reset_token rows
    asked,     \* nonces handed out so far
    enabled,   \* the telegram login kill switch
    opening,   \* the transaction that is opening a request's link
    stale,     \* requests that still wait in a chat that has moved on to
               \* another link, whose opening saw them
    upsets     \* expiries, bans and switches so far

tgVars == <<acct, link, token, login, reset, asked, enabled, opening, stale, upsets>>

Requests == Logins \cup Resets
NoUser == "nobody"
NoOpening == [by |-> NoUser, rows |-> {}, since |-> {}, how |-> "none"]
NoLink == [tg |-> NoUser, verified |-> FALSE]
NewLogin == [st |-> "none", live |-> FALSE, opened |-> NoUser, pending |-> NoUser, nonce |-> 0,
             contact |-> "none", prof |-> "none", by |-> NoUser, consent |-> FALSE, sessions |-> 0]
NewReset == [st |-> "none", live |-> FALSE, phone |-> "none", pending |-> NoUser, nonce |-> 0,
             by |-> NoUser, consent |-> FALSE]

TgInit ==
    /\ acct = [p \in Phones |-> IF p \in Registered THEN "active" ELSE "none"]
    /\ link = [p \in Phones |-> NoLink] /\ token = {}
    /\ login = [l \in Logins |-> NewLogin] /\ reset = [s \in Resets |-> NewReset]
    /\ asked = 0 /\ enabled = TRUE /\ upsets = 0
    /\ opening = [k \in Requests |-> NoOpening] /\ stale = {}

-----------------------------------------------------------------------------
(* The queries.                                                             *)
ClearAllTelegramLoginPendingForTg(L, u) ==
    [l \in Logins |-> IF L[l].pending = u /\ L[l].st = "pending"
        THEN [L[l] EXCEPT !.pending = NoUser, !.nonce = 0, !.contact = "none"] ELSE L[l]]
ClearTelegramLoginPendingForTg(L, rows) ==
    [l \in Logins |-> IF l \in rows
        THEN [L[l] EXCEPT !.pending = NoUser, !.nonce = 0, !.contact = "none"] ELSE L[l]]
ClearAllPasswordResetPendingForTg(R, u) ==
    [s \in Resets |-> IF R[s].pending = u /\ R[s].st # "used"
        THEN [R[s] EXCEPT !.pending = NoUser, !.nonce = 0] ELSE R[s]]
ClearPasswordResetPendingForTg(R, rows) ==
    [s \in Resets |-> IF s \in rows THEN [R[s] EXCEPT !.pending = NoUser, !.nonce = 0] ELSE R[s]]
ArmTelegramLoginForTg(row, u, nonce) ==
    [row EXCEPT !.pending = u, !.nonce = nonce, !.contact = "none",
                !.opened = IF @ = NoUser THEN u ELSE @]
ApproveTelegramLoginRequest(row, u, p, current) ==
    [row EXCEPT !.st = "approved", !.prof = p, !.by = u, !.consent = current,
                !.pending = NoUser, !.nonce = 0, !.contact = "none"]
EndTelegramLoginRequest(row, st) ==
    [row EXCEPT !.st = st, !.pending = NoUser, !.nonce = 0, !.contact = "none"]
AskTelegramLoginConfirmAfterContact(row, p, nonce) ==
    [row EXCEPT !.nonce = nonce, !.contact = p]
ConsumeTelegramLoginRequest(row) ==
    [row EXCEPT !.st = "consumed", !.sessions = @ + 1]
SetPasswordResetPendingTg(row, u) == [row EXCEPT !.pending = u, !.nonce = 0]
SetPasswordResetConfirmNonce(row, nonce) == [row EXCEPT !.nonce = nonce]
MarkPasswordResetVerified(row, u, current) ==
    [row EXCEPT !.st = "verified", !.by = u, !.pending = NoUser, !.nonce = 0, !.consent = current]
CancelPasswordReset(row) == [row EXCEPT !.st = "used", !.pending = NoUser, !.nonce = 0]
MarkPasswordResetUsed(row) == [row EXCEPT !.st = "used", !.pending = NoUser, !.nonce = 0]

GetTelegramAccountByTgUserID(u) == {p \in Phones : link[p].tg = u}
DeleteTelegramAccountForOtherProfiles(K, u, p) ==
    [q \in Phones |-> IF K[q].tg = u /\ q # p THEN NoLink ELSE K[q]]
(* Mutant: the proof of the profile's earlier Telegram user is kept.        *)
KeepsAnyProof(K, p, u, proof) ==
    [K EXCEPT ![p] = [tg |-> u, verified |-> proof \/ K[p].verified]]
(* An upsert without a phone proof keeps an earlier one only for the same   *)
(* Telegram user.                                                           *)
UpsertTelegramAccount(K, p, u, proof) ==
    [K EXCEPT ![p] = [tg |-> u, verified |-> proof \/ (K[p].tg = u /\ K[p].verified)]]
DeleteUnattributedTelegramAccount(K, p, u) ==
    IF K[p].verified /\ K[p].tg = u THEN K ELSE [K EXCEPT ![p] = NoLink]

assertActive(p) == acct[p] = "active"
telegramLoginLive(l) == login[l].live
telegramLoginCompletable(l) == login[l].st = "approved" /\ login[l].live
resetTokenLive(s) == reset[s].st \in {"open", "verified"} /\ reset[s].live
verifiedLinkedProfile(u) == {p \in GetTelegramAccountByTgUserID(u) : link[p].verified}
Nonce == asked + 1

(* The link is written, and whatever the chat had waiting is disarmed; the  *)
(* savepoint may also fail and leave everything as it was.                  *)
linkVerifiedTelegramInTx(p, u, L, R) ==
    \/ /\ link' = UpsertTelegramAccount(DeleteTelegramAccountForOtherProfiles(link, u, p), p, u, TRUE)
       /\ reset' = ClearAllPasswordResetPendingForTg(R, u)
       /\ login' = ClearAllTelegramLoginPendingForTg(L, u)
    \/ link' = link /\ reset' = R /\ login' = L

-----------------------------------------------------------------------------
(* Opening a link, /start <kind>_<token>.  The transaction locks the row of *)
(* the link and every row it finds waiting for the user in either table.    *)
PendingIn(L, R, u) == {l \in Logins : L[l].pending = u /\ L[l].st = "pending"}
                      \cup {s \in Resets : R[s].pending = u /\ R[s].st # "used"}
PendingFor(u) == PendingIn(login, reset, u)
Locked(k) == \E j \in Requests : opening[j].by # NoUser /\ k \in {j} \cup opening[j].rows
lockPending(k, u, how) ==
    LET rows == PendingFor(u) \ {k} IN
    /\ \A j \in {k} \cup rows : ~Locked(j)
    /\ opening' = [opening EXCEPT ![k] = [by |-> u, rows |-> rows, since |-> {}, how |-> how]]
    /\ UNCHANGED <<acct, link, token, login, reset, asked, enabled, stale, upsets>>

(* Its commit: from here the chat is about this link.  Other openings of    *)
(* the user that are under way did not see it.                              *)
chatMovesTo(k) ==
    LET u == opening[k].by IN
    /\ opening' = [j \in Requests |->
         IF j = k THEN NoOpening
         ELSE IF opening[j].by = u THEN [opening[j] EXCEPT !.since = @ \cup {k}]
         ELSE opening[j]]
    /\ stale' = (stale \ {k}) \cup (PendingIn(login', reset', u) \ ({k} \cup opening[k].since))

(* It loses on the index of one pending row per user (and is retried once), *)
(* in a deadlock, or with its connection.                                   *)
Rollback(k) ==
    /\ opening[k].by # NoUser /\ opening' = [opening EXCEPT ![k] = NoOpening]
    /\ UNCHANGED <<acct, link, token, login, reset, asked, enabled, stale, upsets>>

-----------------------------------------------------------------------------
(* The website login.                                                       *)
StartTelegramLogin(l) ==
    /\ enabled /\ login[l].st = "none"
    /\ login' = [login EXCEPT ![l] = [NewLogin EXCEPT !.st = "pending", !.live = TRUE]]
    /\ UNCHANGED <<acct, link, token, reset, asked, enabled, stale, upsets>>

(* /start login_<token>: the first Telegram user to open the link keeps it. *)
(* A phone-verified link earns the question at once, any other user is      *)
(* asked for the phone; a banned learner ends the request.                  *)
beginTelegramLogin(l, u) ==
    /\ enabled /\ login[l].st = "pending" /\ telegramLoginLive(l)
    /\ login[l].opened \in {NoUser, u}
    /\ LET mine == verifiedLinkedProfile(u) IN
       lockPending(l, u, IF mine = {} THEN "contact"
                         ELSE IF \E p \in mine : ~assertActive(p) THEN "blocked" ELSE "question")
LoginBegun(l) ==
    /\ opening[l].by # NoUser
    /\ LET o == opening[l]
           L == ClearTelegramLoginPendingForTg(login, o.rows) IN
       /\ o.how = "blocked" \/ \A k \in Logins \ {l} : L[k].pending # o.by
       /\ IF o.how = "question" THEN asked < MaxNonce /\ asked' = Nonce ELSE UNCHANGED asked
       /\ login' = [L EXCEPT ![l] =
            IF o.how = "blocked" THEN EndTelegramLoginRequest(login[l], "blocked")
            ELSE ArmTelegramLoginForTg(login[l], o.by, IF o.how = "question" THEN Nonce ELSE 0)]
       /\ reset' = ClearPasswordResetPendingForTg(reset, o.rows)
    /\ chatMovesTo(l)
    /\ UNCHANGED <<acct, link, token, enabled, upsets>>

(* A shared contact while a login waits for one: it only earns the question *)
(* and remembers the number.  A banned holder ends the request.             *)
WaitsForContact(u) ==
    {l \in Logins : login[l].pending = u /\ login[l].st = "pending" /\ telegramLoginLive(l)
                    /\ login[l].nonce = 0}
ConfirmTelegramLoginContact(u) ==
    /\ enabled
    /\ \E l \in WaitsForContact(u) :
         IF acct[Owner[u]] = "banned"
         THEN login' = [login EXCEPT ![l] = EndTelegramLoginRequest(@, "blocked")] /\ UNCHANGED asked
         ELSE /\ asked < MaxNonce /\ asked' = Nonce
              /\ login' = [login EXCEPT ![l] = AskTelegramLoginConfirmAfterContact(@, Owner[u], Nonce)]
    /\ UNCHANGED <<acct, link, token, reset, enabled, stale, upsets>>

(* The tap.  Only the pending user, with the question's current nonce, on a *)
(* live request; by contact the profile of the shared number is found or    *)
(* created and linked, otherwise the verified link is resolved again.       *)
Answerable(l, u, n) ==
    /\ n > 0 /\ login[l].nonce = n /\ login[l].st = "pending" /\ telegramLoginLive(l)
    /\ login[l].pending = u
findOrCreateTelegramProfile(p) ==
    acct' = [acct EXCEPT ![p] = IF @ = "none" THEN "active" ELSE @]
CancelLogin(l, u, n) ==
    /\ Answerable(l, u, n)
    /\ login' = [login EXCEPT ![l] = EndTelegramLoginRequest(@, "cancelled")]
    /\ UNCHANGED <<acct, link, token, reset, asked, enabled, stale, upsets>>
AnswerByContact(l, u, n) ==
    /\ enabled /\ Answerable(l, u, n) /\ login[l].contact # "none"
    /\ LET p == login[l].contact IN
       IF acct[p] = "banned"
       THEN /\ login' = [login EXCEPT ![l] = EndTelegramLoginRequest(@, "blocked")]
            /\ UNCHANGED <<acct, link, reset>>
       ELSE /\ findOrCreateTelegramProfile(p)
            /\ linkVerifiedTelegramInTx(p, u,
                 [login EXCEPT ![l] = ApproveTelegramLoginRequest(@, u, p, l \notin stale)], reset)
    /\ UNCHANGED <<token, asked, enabled, stale, upsets>>
AnswerByLink(l, u, n) ==
    /\ enabled /\ Answerable(l, u, n) /\ login[l].contact = "none"
    /\ \E p \in verifiedLinkedProfile(u) :
         login' = [login EXCEPT ![l] = IF assertActive(p) THEN ApproveTelegramLoginRequest(@, u, p, l \notin stale)
                                       ELSE EndTelegramLoginRequest(@, "blocked")]
    /\ UNCHANGED <<acct, link, token, reset, asked, enabled, stale, upsets>>

(* The browser that started the request trades the approval for a session.  *)
CompleteTelegramLogin(l) ==
    /\ enabled /\ telegramLoginCompletable(l) /\ assertActive(login[l].prof)
    /\ login' = [login EXCEPT ![l] = ConsumeTelegramLoginRequest(@)]
    /\ UNCHANGED <<acct, link, token, reset, asked, enabled, stale, upsets>>

-----------------------------------------------------------------------------
(* The password reset.                                                      *)
StartPasswordReset(s, p) ==
    /\ reset[s].st = "none" /\ assertActive(p)
    /\ reset' = [k \in Resets |->
         IF k = s THEN [NewReset EXCEPT !.st = "open", !.live = TRUE, !.phone = p]
         ELSE IF reset[k].phone = p /\ reset[k].st # "used" THEN [NewReset EXCEPT !.st = "used"]
         ELSE reset[k]]
    /\ UNCHANGED <<acct, link, token, login, asked, enabled, stale, upsets>>

(* /start pwr_<token>: a verified link to this very profile earns the       *)
(* question, any other user shares the phone.                               *)
beginTelegramPasswordReset(s, u) ==
    /\ resetTokenLive(s) /\ reset[s].st = "open" /\ assertActive(reset[s].phone)
    /\ lockPending(s, u, IF reset[s].phone \in verifiedLinkedProfile(u) THEN "question" ELSE "contact")
ResetBegun(s) ==
    /\ opening[s].by # NoUser
    /\ LET o == opening[s]
           R == ClearPasswordResetPendingForTg(reset, o.rows)
           armed == SetPasswordResetPendingTg(reset[s], o.by) IN
       /\ \A k \in Resets \ {s} : R[k].pending # o.by
       /\ IF o.how = "question" THEN asked < MaxNonce /\ asked' = Nonce ELSE UNCHANGED asked
       /\ reset' = [R EXCEPT ![s] =
            IF o.how = "question" THEN SetPasswordResetConfirmNonce(armed, Nonce) ELSE armed]
       /\ login' = ClearTelegramLoginPendingForTg(login, o.rows)
    /\ chatMovesTo(s)
    /\ UNCHANGED <<acct, link, token, enabled, upsets>>

(* The same contact message reaches the reset when no login wants it: the   *)
(* number must be the profile's.                                            *)
ConfirmTelegramPasswordResetContact(u) ==
    /\ ~enabled \/ WaitsForContact(u) = {}
    /\ \E s \in Resets :
         /\ reset[s].pending = u /\ reset[s].st = "open" /\ resetTokenLive(s)
         /\ assertActive(reset[s].phone) /\ reset[s].phone = Owner[u]
         /\ asked < MaxNonce /\ asked' = Nonce
         /\ reset' = [reset EXCEPT ![s] = SetPasswordResetConfirmNonce(@, Nonce)]
    /\ UNCHANGED <<acct, link, token, login, enabled, stale, upsets>>

ResetAnswerable(s, u, n) ==
    /\ n > 0 /\ reset[s].nonce = n /\ reset[s].st = "open" /\ resetTokenLive(s)
    /\ reset[s].pending = u /\ assertActive(reset[s].phone)
RefuseReset(s, u, n) ==
    /\ ResetAnswerable(s, u, n)
    /\ reset' = [reset EXCEPT ![s] = CancelPasswordReset(@)]
    /\ UNCHANGED <<acct, link, token, login, asked, enabled, stale, upsets>>
(* "Yes, me": the link to this profile becomes, or stays, phone-verified.   *)
ConfirmReset(s, u, n) ==
    /\ ResetAnswerable(s, u, n)
    /\ LET p == reset[s].phone IN
       link' = UpsertTelegramAccount(DeleteTelegramAccountForOtherProfiles(link, u, p), p, u, TRUE)
    /\ reset' = [reset EXCEPT ![s] = MarkPasswordResetVerified(@, u, s \notin stale)]
    /\ UNCHANGED <<acct, token, login, asked, enabled, stale, upsets>>

(* The website sets the password; a link survives only if it is verified    *)
(* and belongs to the user who confirmed this reset.                        *)
CompletePasswordReset(s) ==
    /\ resetTokenLive(s) /\ reset[s].st = "verified" /\ assertActive(reset[s].phone)
    /\ reset' = [reset EXCEPT ![s] = MarkPasswordResetUsed(@)]
    /\ link' = DeleteUnattributedTelegramAccount(link, reset[s].phone, reset[s].by)
    /\ UNCHANGED <<acct, token, login, asked, enabled, stale, upsets>>

-----------------------------------------------------------------------------
(* Links.                                                                   *)
GenerateLinkToken(p) ==
    /\ assertActive(p) /\ p \notin token /\ Cardinality(token) < MaxTokens /\ token' = token \cup {p}
    /\ UNCHANGED <<acct, link, login, reset, asked, enabled, stale, upsets>>

(* /start <token>, no phone proof; a user linked elsewhere is refused.      *)
RedeemLinkToken(p, u) ==
    /\ p \in token /\ GetTelegramAccountByTgUserID(u) \subseteq {p}
    /\ link' = UpsertTelegramAccount(link, p, u, FALSE) /\ token' = token \ {p}
    /\ UNCHANGED <<acct, login, reset, asked, enabled, stale, upsets>>

Unlink(p) ==
    /\ link[p] # NoLink /\ link' = [link EXCEPT ![p] = NoLink]
    /\ UNCHANGED <<acct, token, login, reset, asked, enabled, stale, upsets>>

(* The Mini App: a signed phone share signs in, or up, and links; and the   *)
(* signed-in learner may share the number of the profile later.             *)
TelegramWebAppPhoneSignIn(u) ==
    /\ enabled /\ acct[Owner[u]] # "banned"
    /\ findOrCreateTelegramProfile(Owner[u])
    /\ linkVerifiedTelegramInTx(Owner[u], u, login, reset)
    /\ stale' = IF link' = link THEN stale ELSE stale \cup PendingIn(login', reset', u)
    /\ UNCHANGED <<token, asked, enabled, upsets>>
LinkTelegramWebApp(p, u) ==
    /\ assertActive(p) /\ Owner[u] = p
    /\ linkVerifiedTelegramInTx(p, u, login, reset)
    /\ UNCHANGED <<acct, token, asked, enabled, stale, upsets>>

-----------------------------------------------------------------------------
Upset == upsets < MaxUpsets /\ upsets' = upsets + 1
LoginExpires(l) == Upset /\ login[l].live /\ login' = [login EXCEPT ![l].live = FALSE]
                   /\ UNCHANGED <<acct, link, token, reset, asked, enabled, stale>>
ResetExpires(s) == Upset /\ reset[s].live /\ reset' = [reset EXCEPT ![s].live = FALSE]
                   /\ UNCHANGED <<acct, link, token, login, asked, enabled, stale>>
Ban(p) == Upset /\ assertActive(p) /\ acct' = [acct EXCEPT ![p] = "banned"]
          /\ UNCHANGED <<link, token, login, reset, asked, enabled, stale>>
KillSwitch == Upset /\ enabled /\ enabled' = FALSE
              /\ UNCHANGED <<acct, link, token, login, reset, asked, stale>>

(* What the bot's update handler dispatches: /start payloads, a shared      *)
(* contact (the login asks for it before the reset), taps, /unlink.         *)
handleTelegramLoginStart(u) == \E l \in Logins : beginTelegramLogin(l, u)
handlePasswordResetStart(u) == \E s \in Resets : beginTelegramPasswordReset(s, u)
handleLink(u) == \E p \in Phones : RedeemLinkToken(p, u)
handleTelegramLoginContact(u) == ConfirmTelegramLoginContact(u)
handlePasswordResetContact(u) == ConfirmTelegramPasswordResetContact(u)
handleTelegramLoginCallback(u) ==
    \E l \in Logins, n \in 1 .. asked :
        CancelLogin(l, u, n) \/ AnswerByContact(l, u, n) \/ AnswerByLink(l, u, n)
handlePasswordResetCallback(u) ==
    \E s \in Resets, n \in 1 .. asked : RefuseReset(s, u, n) \/ ConfirmReset(s, u, n)
handleUnlink(u) == \E p \in GetTelegramAccountByTgUserID(u) : Unlink(p)
HandleUpdate(u) ==
    \/ handleLink(u) \/ handleTelegramLoginContact(u) \/ handlePasswordResetContact(u)
    \/ handleTelegramLoginCallback(u) \/ handlePasswordResetCallback(u) \/ handleUnlink(u)
HandleStart(u) == handleTelegramLoginStart(u) \/ handlePasswordResetStart(u)
StartEnds == \/ \E l \in Logins : LoginBegun(l)
             \/ \E s \in Resets : ResetBegun(s)
             \/ \E k \in Requests : Rollback(k)

(* What the website and the Mini App call over HTTP.                        *)
LoginRoutes(l) == StartTelegramLogin(l) \/ CompleteTelegramLogin(l)
ResetRoutes(s) == CompletePasswordReset(s) \/ \E p \in Phones : StartPasswordReset(s, p)
WebAppRoutes(u) == TelegramWebAppPhoneSignIn(u) \/ \E p \in Phones : LinkTelegramWebApp(p, u)
LinkRoutes(p) == GenerateLinkToken(p) \/ Unlink(p)

Calls ==
    \/ \E u \in TgUsers : HandleUpdate(u) \/ WebAppRoutes(u)
    \/ \E l \in Logins : LoginRoutes(l)
    \/ \E s \in Resets : ResetRoutes(s)
    \/ \E p \in Phones : LinkRoutes(p)
(* A call that writes a locked row waits for the transaction that holds it. *)
WaitsForLocks == /\ \A l \in Logins : Locked(l) => login'[l] = login[l]
                 /\ \A s \in Resets : Locked(s) => reset'[s] = reset[s]
Upsets ==
    \/ \E l \in Logins : LoginExpires(l)
    \/ \E s \in Resets : ResetExpires(s)
    \/ \E p \in Phones : Ban(p)
    \/ KillSwitch

TgNext ==
    \/ \E u \in TgUsers : HandleStart(u)
    \/ StartEnds
    \/ Calls /\ WaitsForLocks /\ UNCHANGED opening
    \/ Upsets /\ UNCHANGED opening

TgSpec == TgInit /\ [][TgNext]_tgVars
-----------------------------------------------------------------------------
(* A phone-verified link names the Telegram user who owns the number, and a *)
(* Telegram user is linked to one profile, whoever moved or planted links.  *)
VerifiedLinkIsOwner ==
    /\ \A p \in Phones : link[p].verified => Owner[link[p].tg] = p
    /\ \A u \in TgUsers : Cardinality(GetTelegramAccountByTgUserID(u)) <= 1

(* A browser is signed in, and a password reset, only as the profile whose  *)
(* number the tapping user owns, and the tap was about that request: the    *)
(* chat had not moved on to another link whose start saw this one.          *)
ApprovedByOwner ==
    /\ \A l \in Logins : login[l].st \in {"approved", "consumed"} =>
          Owner[login[l].by] = login[l].prof /\ login[l].consent
    /\ \A s \in Resets : reset[s].st = "verified" =>
          Owner[reset[s].by] = reset[s].phone /\ reset[s].consent

(* A chat has one login armed at most and one reset, so a tap has one       *)
(* meaning; a login and a reset are both armed only when they were opened   *)
(* at the same time and neither saw the other.  An approval is traded for   *)
(* one session at most.                                                     *)
OneMeaning ==
    /\ \A u \in TgUsers :
          /\ Cardinality({l \in Logins : login[l].pending = u}) <= 1
          /\ Cardinality({s \in Resets : reset[s].pending = u}) <= 1
    /\ stale = {}
    /\ \A l \in Logins : login[l].sessions <= 1

(* The first opener keeps a request; a finished reset leaves no link of     *)
(* anybody but its confirmer.                                               *)
FirstOpenerKeeps ==
    [][/\ \A l \in Logins : login[l].opened # NoUser => login'[l].opened = login[l].opened
       /\ \A s \in Resets : reset[s].st = "verified" /\ reset'[s].st = "used" /\ reset'[s].phone # "none"
             => link'[reset[s].phone] \in {NoLink, [tg |-> reset[s].by, verified |-> TRUE]}]_tgVars

(* Telegram: links and approvals belong to the owner of the number, a tap   *)
(* has one meaning, and the first opener keeps a request.                   *)
TgSafe == [](VerifiedLinkIsOwner /\ ApprovedByOwner /\ OneMeaning) /\ FirstOpenerKeeps
=============================================================================
