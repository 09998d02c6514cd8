--------------------------- MODULE TelegramProofs ---------------------------
(***************************************************************************)
(* The safety of who is let in: sign-in through Telegram (TelegramAuth)    *)
(* and the PCs of a classroom (Classroom), one part each.  This part is    *)
(* about TelegramAuth, for any users, numbers, requests and questions, and *)
(* any number of links being opened at once: links and approvals belong to *)
(* the owner of the number, a tap has one meaning, and the first opener    *)
(* keeps a request.                                                        *)
(*                                                                         *)
(* ApprovedByOwner is not inductive: an approval trusts what was stored    *)
(* with the question.  The invariant therefore says of every request that  *)
(* a remembered contact is the waiting user's own number and that a        *)
(* reset's question was only earned by the owner of the profile's number   *)
(* (Core); and of every opening under way that whatever waits in the chat  *)
(* is locked by it or was opened since it looked (Chats).                  *)
(***************************************************************************)
EXTENDS MCIdentity, FiniteSetTheorems, WellFoundedInduction, TLAPS

AnyUser == TgUsers \cup {NoUser}
AnyPhone == Phones \cup {"none"}
LinkRow == [tg : AnyUser, verified : BOOLEAN]
LoginRow ==
    [st : {"none", "pending", "approved", "consumed", "blocked", "cancelled"}, live : BOOLEAN,
     opened : AnyUser, pending : AnyUser, nonce : Nat, contact : AnyPhone, prof : AnyPhone,
     by : AnyUser, consent : BOOLEAN, sessions : Nat]
OpeningRow ==
    [by : AnyUser, rows : SUBSET Requests, since : SUBSET Requests,
     how : {"none", "contact", "question", "blocked"}]
ResetRow ==
    [st : {"none", "open", "verified", "used"}, live : BOOLEAN, phone : AnyPhone,
     pending : AnyUser, nonce : Nat, by : AnyUser, consent : BOOLEAN]

\* A login row r of request l, when t are the requests that may wait in each
\* chat: it remembers only the number of the user it waits for, and is approved
\* by the owner of the profile's number.
LoginOK(l, r, t) ==
    /\ r \in LoginRow
    /\ r.pending # NoUser => r.st = "pending" /\ l \in t[r.pending]
    /\ r.contact # "none" => r.pending # NoUser /\ r.contact = Owner[r.pending]
    /\ r.st \in {"approved", "consumed"} =>
          r.by # NoUser /\ Owner[r.by] = r.prof /\ r.prof \in Phones /\ r.consent
    /\ r.sessions = IF r.st = "consumed" THEN 1 ELSE 0
    /\ r.st = "none" => r.opened = NoUser

\* The same of a reset: a question was earned by the owner of its phone.
ResetOK(s, r, t) ==
    /\ r \in ResetRow
    /\ r.pending # NoUser => r.st = "open" /\ s \in t[r.pending]
    /\ r.nonce # 0 => r.pending # NoUser /\ r.phone = Owner[r.pending]
    /\ r.st \in {"open", "verified"} => r.phone \in Phones
    /\ r.st = "verified" => r.by # NoUser /\ Owner[r.by] = r.phone /\ r.consent

\* The links K: a verified one is its owner's, and a user has one at most.
LinksOK(K) ==
    /\ K \in [Phones -> LinkRow]
    /\ \A p \in Phones : K[p].verified => K[p].tg # NoUser /\ Owner[K[p].tg] = p
    /\ \A p, q \in Phones : K[p].tg = K[q].tg /\ K[p].tg # NoUser => p = q

Logs(L, t) == /\ DOMAIN L = Logins /\ L = [l \in Logins |-> L[l]]
              /\ \A l \in Logins : LoginOK(l, L[l], t)
Rsts(R, t) == /\ DOMAIN R = Resets /\ R = [s \in Resets |-> R[s]]
              /\ \A s \in Resets : ResetOK(s, R[s], t)
\* A row that nobody waits in any more.
LoginDisarm(r) == [r EXCEPT !.pending = NoUser, !.nonce = 0, !.contact = "none"]
ResetDisarm(r) == [r EXCEPT !.pending = NoUser, !.nonce = 0]

\* The requests that wait in each chat.
PendOf(L, R) == [u \in TgUsers |-> PendingIn(L, R, u)]
Pend == PendOf(login, reset)

Rest == /\ acct \in [Phones -> {"none", "active", "banned"}]
        /\ asked \in Nat /\ stale = {}
Core == Rest /\ LinksOK(link) /\ Logs(login, Pend) /\ Rsts(reset, Pend)

\* An opening holds its own row, so the row stays as it was found.
Held(O, L, R) ==
    /\ O \in [Requests -> OpeningRow]
    /\ \A l \in Logins : O[l].by # NoUser => L[l].st = "pending"
    /\ \A s \in Resets : O[s].by # NoUser =>
          R[s].st = "open" /\ (O[s].how = "question" => R[s].phone = Owner[O[s].by])
\* Whatever waits (P) in the chat of an opening, it locked, or it came since.
Seen(O, P) == \A j \in Requests : O[j].by # NoUser =>
                P[O[j].by] \subseteq {j} \cup O[j].rows \cup O[j].since
\* One request of each kind waits in a chat.
OneEach(P) == \A u \in TgUsers, j, k \in Requests :
                j \in P[u] /\ k \in P[u] /\ (j \in Logins <=> k \in Logins) => j = k
Chats == Held(opening, login, reset) /\ Seen(opening, Pend) /\ OneEach(Pend)

IInv == Core /\ Chats

\* What a call leaves: nothing waits in a chat that did not wait before.
After == Rest' /\ LinksOK(link') /\ Logs(login', Pend) /\ Rsts(reset', Pend)

-----------------------------------------------------------------------------
(* The links.                                                              *)

\* Linking a user to the profile of the user's own number, after the user's
\* other links are gone.
LEMMA UpsertOwner ==
    ASSUME NEW K, LinksOK(K), NEW u \in TgUsers, NEW p \in Phones, Owner[u] = p
    PROVE  LinksOK(UpsertTelegramAccount(DeleteTelegramAccountForOtherProfiles(K, u, p), p, u, TRUE))
<1> DEFINE D == DeleteTelegramAccountForOtherProfiles(K, u, p)
           N == UpsertTelegramAccount(D, p, u, TRUE)
<1>1. /\ D \in [Phones -> LinkRow]
      /\ \A q \in Phones : D[q] = K[q] \/ D[q] = NoLink
      /\ \A q \in Phones : D[q].tg = u => q = p
  BY NamesAssumption
     DEF LinksOK, DeleteTelegramAccountForOtherProfiles, LinkRow, NoLink, AnyUser, NoUser
<1>2. [tg |-> u, verified |-> TRUE \/ (D[p].tg = u /\ D[p].verified)] = [tg |-> u, verified |-> TRUE]
  OBVIOUS
<1>3. N = [D EXCEPT ![p] = [tg |-> u, verified |-> TRUE]]
  BY <1>2 DEF UpsertTelegramAccount
<1> HIDE DEF D, N
<1>4. N \in [Phones -> LinkRow] /\ N[p] = [tg |-> u, verified |-> TRUE]
      /\ \A q \in Phones \ {p} : N[q] = D[q]
  BY <1>1, <1>3 DEF LinkRow, AnyUser
<1>0. u # NoUser
  BY NamesAssumption DEF NoUser
<1>5. \A q \in Phones : N[q].verified => N[q].tg # NoUser /\ Owner[N[q].tg] = q
  BY <1>0, <1>1, <1>4 DEF LinksOK, NoLink
<1>6. \A q, r \in Phones : N[q].tg = N[r].tg /\ N[q].tg # NoUser => q = r
  BY <1>1, <1>4, NamesAssumption DEF LinksOK, NoLink
<1>7. QED
  BY <1>4, <1>5, <1>6 DEF N, D, LinksOK

\* Redeeming a link token gives no proof, and a user linked elsewhere is
\* refused.
LEMMA UpsertPlain ==
    ASSUME NEW K, LinksOK(K), NEW u \in TgUsers, NEW p \in Phones,
           {q \in Phones : K[q].tg = u} \subseteq {p}
    PROVE  LinksOK(UpsertTelegramAccount(K, p, u, FALSE))
<1> DEFINE v == K[p].tg = u /\ K[p].verified
           N == [K EXCEPT ![p] = [tg |-> u, verified |-> v]]
<1>1. UpsertTelegramAccount(K, p, u, FALSE) = N
  BY DEF UpsertTelegramAccount
<1>2. v \in BOOLEAN /\ (v => Owner[u] = p)
  BY DEF LinksOK
<1> HIDE DEF v
<1>3. /\ N \in [Phones -> LinkRow] /\ N[p] = [tg |-> u, verified |-> v]
      /\ \A q \in Phones \ {p} : N[q] = K[q]
  BY <1>2 DEF LinksOK, LinkRow, AnyUser
<1> HIDE DEF N
<1>0. u # NoUser
  BY NamesAssumption DEF NoUser
<1>4. \A q \in Phones : N[q].verified => N[q].tg # NoUser /\ Owner[N[q].tg] = q
  BY <1>0, <1>2, <1>3 DEF LinksOK
<1>5. \A q, r \in Phones : N[q].tg = N[r].tg /\ N[q].tg # NoUser => q = r
  BY <1>3 DEF LinksOK
<1>6. QED
  BY <1>1, <1>3, <1>4, <1>5 DEF LinksOK

\* Removing a link.
LEMMA Unlinked ==
    ASSUME NEW K, LinksOK(K), NEW p \in Phones
    PROVE  LinksOK([K EXCEPT ![p] = NoLink])
<1> DEFINE N == [K EXCEPT ![p] = NoLink]
<1>1. /\ N \in [Phones -> LinkRow] /\ N[p].tg = NoUser /\ N[p].verified = FALSE
      /\ \A q \in Phones \ {p} : N[q] = K[q]
  BY DEF LinksOK, LinkRow, AnyUser, NoLink
<1> HIDE DEF N
<1>2. QED
  BY <1>1 DEF LinksOK, N

-----------------------------------------------------------------------------
(* The login rows.                                                         *)

\* A row of a request nobody waits in is good whatever the chats are about.
LEMMA LoginIdle ==
    ASSUME NEW l, NEW r, NEW t, NEW t2, LoginOK(l, r, t), r.pending = NoUser
    PROVE  LoginOK(l, r, t2)
BY DEF LoginOK

\* Disarming, which every chat does with its other requests.
LEMMA LoginDisarmed ==
    ASSUME NEW l, NEW r, NEW t, NEW t2, LoginOK(l, r, t)
    PROVE  LoginOK(l, LoginDisarm(r), t2)
<1> DEFINE n == [r EXCEPT !.pending = NoUser, !.nonce = 0, !.contact = "none"]
<1>1. n \in LoginRow
  BY DEF LoginOK, LoginRow, AnyUser, AnyPhone
<1>2. n.pending = NoUser /\ n.contact = "none" /\ n.st = r.st /\ n.by = r.by /\ n.prof = r.prof
      /\ n.consent = r.consent /\ n.sessions = r.sessions /\ n.opened = r.opened
  BY DEF LoginOK, LoginRow
<1> HIDE DEF n
<1>3. QED
  BY <1>1, <1>2 DEF LoginOK, LoginDisarm, n

\* A row that waits for somebody else is not disturbed when u's chat moves on.
LEMMA LoginOther ==
    ASSUME NEW l, NEW r, NEW t, LoginOK(l, r, t), NEW u \in TgUsers, r.pending # u,
           NEW t2, \A v \in TgUsers : v # u => t2[v] = t[v]
    PROVE  LoginOK(l, r, t2)
<1>1. CASE r.pending = NoUser
  BY <1>1, LoginIdle
<1>2. CASE r.pending # NoUser
  <2>1. r.pending \in TgUsers
    BY <1>2 DEF LoginOK, LoginRow, AnyUser
  <2>2. t2[r.pending] = t[r.pending]
    BY <2>1
  <2>3. QED
    BY <2>2 DEF LoginOK
<1>3. QED
  BY <1>1, <1>2

\* Opening the link: the row waits for u, whose chat is about it now.
LEMMA LoginArmed ==
    ASSUME NEW l, NEW r, NEW t, LoginOK(l, r, t), r.st = "pending", NEW u \in TgUsers,
           NEW n \in Nat, NEW t2, l \in t2[u]
    PROVE  LoginOK(l, ArmTelegramLoginForTg(r, u, n), t2)
<1> DEFINE o == IF r.opened = NoUser THEN u ELSE r.opened
           m == [r EXCEPT !.pending = u, !.nonce = n, !.contact = "none", !.opened = o]
<1>1. ArmTelegramLoginForTg(r, u, n) = m
  BY DEF ArmTelegramLoginForTg
<1>2. o \in AnyUser
  BY DEF LoginOK, LoginRow, AnyUser
<1> HIDE DEF o
<1>3. m \in LoginRow
  BY <1>2 DEF LoginOK, LoginRow, AnyUser, AnyPhone
<1>4. m.pending = u /\ m.contact = "none" /\ m.st = "pending" /\ m.sessions = r.sessions
  BY DEF LoginOK, LoginRow
<1> HIDE DEF m
<1>5. QED
  BY <1>1, <1>3, <1>4 DEF LoginOK

\* A request that ends without an approval.
LEMMA LoginEnded ==
    ASSUME NEW l, NEW r, NEW t, NEW t2, LoginOK(l, r, t), r.st = "pending",
           NEW st \in {"blocked", "cancelled"}
    PROVE  LoginOK(l, EndTelegramLoginRequest(r, st), t2)
<1> DEFINE m == [r EXCEPT !.st = st, !.pending = NoUser, !.nonce = 0, !.contact = "none"]
<1>1. EndTelegramLoginRequest(r, st) = m
  BY DEF EndTelegramLoginRequest
<1>2. m \in LoginRow
  BY DEF LoginOK, LoginRow, AnyUser, AnyPhone
<1>3. m.pending = NoUser /\ m.contact = "none" /\ m.st = st /\ m.sessions = r.sessions
  BY DEF LoginOK, LoginRow
<1> HIDE DEF m
<1>4. QED
  BY <1>1, <1>2, <1>3 DEF LoginOK

\* The shared contact: the number is the sender's own.
LEMMA LoginAsked ==
    ASSUME NEW l, NEW r, NEW t, LoginOK(l, r, t), NEW u \in TgUsers, r.pending = u,
           NEW n \in Nat
    PROVE  LoginOK(l, AskTelegramLoginConfirmAfterContact(r, Owner[u], n), t)
<1> DEFINE m == [r EXCEPT !.nonce = n, !.contact = Owner[u]]
<1>1. AskTelegramLoginConfirmAfterContact(r, Owner[u], n) = m
  BY DEF AskTelegramLoginConfirmAfterContact
<1>2. m \in LoginRow
  BY NamesAssumption DEF LoginOK, LoginRow, AnyPhone
<1>3. m.pending = u /\ m.contact = Owner[u] /\ m.st = r.st /\ m.sessions = r.sessions
      /\ m.by = r.by /\ m.prof = r.prof /\ m.consent = r.consent /\ m.opened = r.opened
  BY DEF LoginOK, LoginRow
<1>4. u # NoUser
  BY NamesAssumption DEF NoUser
<1> HIDE DEF m
<1>5. QED
  BY <1>1, <1>2, <1>3, <1>4 DEF LoginOK

\* The tap: the request is not stale, and the profile is the one of the user's
\* own number.
LEMMA LoginApproved ==
    ASSUME NEW l \in Logins, NEW r, NEW t, LoginOK(l, r, t), NEW u \in TgUsers, r.pending = u,
           NEW p \in Phones, Owner[u] = p, NEW c, c = TRUE, NEW t2
    PROVE  /\ LoginOK(l, ApproveTelegramLoginRequest(r, u, p, c), t2)
           /\ ApproveTelegramLoginRequest(r, u, p, c).pending = NoUser
<1> DEFINE m == [r EXCEPT !.st = "approved", !.prof = p, !.by = u, !.consent = TRUE,
                          !.pending = NoUser, !.nonce = 0, !.contact = "none"]
<1>1. ApproveTelegramLoginRequest(r, u, p, c) = m
  BY DEF ApproveTelegramLoginRequest
<1>2. u # NoUser
  BY NamesAssumption DEF NoUser
<1>3. r.st = "pending" /\ r.sessions = 0
  BY <1>2 DEF LoginOK
<1>7. p \in AnyPhone /\ u \in AnyUser /\ NoUser \in AnyUser /\ "none" \in AnyPhone
  BY DEF AnyUser, AnyPhone
<1>4. m \in LoginRow
  BY <1>7, ZenonT(40) DEF LoginOK, LoginRow
<1>5. m.pending = NoUser /\ m.contact = "none" /\ m.st = "approved" /\ m.sessions = 0
      /\ m.by = u /\ m.prof = p /\ m.consent = TRUE
  BY <1>3 DEF LoginOK, LoginRow
<1> HIDE DEF m
<1>6. QED
  BY <1>1, <1>2, <1>4, <1>5 DEF LoginOK

\* The approval is traded for the one session.
LEMMA LoginConsumed ==
    ASSUME NEW l, NEW r, NEW t, LoginOK(l, r, t), r.st = "approved"
    PROVE  LoginOK(l, ConsumeTelegramLoginRequest(r), t)
<1> DEFINE k == r.sessions + 1
           m == [r EXCEPT !.st = "consumed", !.sessions = k]
<1>1. ConsumeTelegramLoginRequest(r) = m
  BY DEF ConsumeTelegramLoginRequest
<1>2. r.sessions = 0 /\ r.pending = NoUser /\ r.contact = "none"
  BY DEF LoginOK
<1>6. k = 1 /\ k \in Nat
  BY <1>2
<1> HIDE DEF k
<1>3. m \in LoginRow
  BY <1>6 DEF LoginOK, LoginRow
<1>4. m.pending = NoUser /\ m.contact = "none" /\ m.st = "consumed" /\ m.sessions = 1
      /\ m.by = r.by /\ m.prof = r.prof /\ m.consent = r.consent
  BY <1>2, <1>6 DEF LoginOK, LoginRow
<1> HIDE DEF m
<1>5. QED
  BY <1>1, <1>3, <1>4 DEF LoginOK

\* Time passes over a row.
LEMMA LoginExpired ==
    ASSUME NEW l, NEW r, NEW t, LoginOK(l, r, t)
    PROVE  LoginOK(l, [r EXCEPT !.live = FALSE], t)
<1> DEFINE m == [r EXCEPT !.live = FALSE]
<1>1. m \in LoginRow
  BY DEF LoginOK, LoginRow
<1>2. m.pending = r.pending /\ m.contact = r.contact /\ m.st = r.st /\ m.sessions = r.sessions
      /\ m.by = r.by /\ m.prof = r.prof /\ m.consent = r.consent /\ m.opened = r.opened
  BY DEF LoginOK, LoginRow
<1> HIDE DEF m
<1>3. QED
  BY <1>1, <1>2 DEF LoginOK, m

\* A request that was just started.
LEMMA LoginStarted ==
    ASSUME NEW l, NEW t
    PROVE  /\ LoginOK(l, NewLogin, t)
           /\ LoginOK(l, [NewLogin EXCEPT !.st = "pending", !.live = TRUE], t)
<1> DEFINE m == [NewLogin EXCEPT !.st = "pending", !.live = TRUE]
<1>1. NewLogin \in LoginRow /\ m \in LoginRow
  BY DEF NewLogin, LoginRow, AnyUser, AnyPhone
<1>2. /\ NewLogin.pending = NoUser /\ NewLogin.contact = "none" /\ NewLogin.st = "none"
      /\ NewLogin.sessions = 0 /\ NewLogin.opened = NoUser
      /\ m.pending = NoUser /\ m.contact = "none" /\ m.st = "pending" /\ m.sessions = 0
  BY DEF NewLogin
<1> HIDE DEF m
<1>3. LoginOK(l, NewLogin, t)
  BY <1>1, <1>2 DEF LoginOK
<1>4. LoginOK(l, m, t)
  BY <1>1, <1>2 DEF LoginOK
<1>5. QED
  BY <1>3, <1>4 DEF m

\* One row changes, the others stay.
LEMMA LoginRowChanged ==
    ASSUME NEW L, NEW t, Logs(L, t), NEW l \in Logins, NEW r, LoginOK(l, r, t)
    PROVE  Logs([L EXCEPT ![l] = r], t)
<1> DEFINE N == [L EXCEPT ![l] = r]
<1>1. DOMAIN N = Logins /\ N = [k \in Logins |-> N[k]]
  BY DEF Logs
<1>2. N[l] = r /\ \A k \in Logins \ {l} : N[k] = L[k]
  BY DEF Logs
<1> HIDE DEF N
<1>3. QED
  BY <1>1, <1>2 DEF Logs, N

\* Every login that waited in u's chat is disarmed, whatever may wait there now.
LEMMA LoginsCleared ==
    ASSUME NEW L, NEW t, Logs(L, t), NEW u \in TgUsers,
           NEW t2, \A v \in TgUsers : v # u => t2[v] = t[v]
    PROVE  Logs(ClearAllTelegramLoginPendingForTg(L, u), t2)
<1> DEFINE N == ClearAllTelegramLoginPendingForTg(L, u)
<1>1. DOMAIN N = Logins /\ N = [k \in Logins |-> N[k]]
  BY DEF ClearAllTelegramLoginPendingForTg
<1>2. ASSUME NEW k \in Logins PROVE LoginOK(k, N[k], t2)
  <2>1. LoginOK(k, L[k], t)
    BY DEF Logs
  <2>2. CASE L[k].pending = u
    <3>1. u # NoUser
      BY NamesAssumption DEF NoUser
    <3>2. L[k].st = "pending"
      BY <2>1, <2>2, <3>1 DEF LoginOK
    <3>3. N[k] = LoginDisarm(L[k])
      BY <2>2, <3>2 DEF ClearAllTelegramLoginPendingForTg, LoginDisarm
    <3> HIDE DEF N
    <3>4. QED
      BY <2>1, <3>3, LoginDisarmed
  <2>3. CASE L[k].pending # u
    <3>1. N[k] = L[k]
      BY <2>3 DEF ClearAllTelegramLoginPendingForTg
    <3> HIDE DEF N
    <3>2. QED
      BY <2>1, <2>3, <3>1, LoginOther
  <2>4. QED
    BY <2>2, <2>3
<1> HIDE DEF N
<1>3. QED
  BY <1>1, <1>2 DEF Logs, N

\* What may wait in the chats once u's opening of k, which locked rows, is done.
Moved(P, u, k, rows) == [v \in TgUsers |-> IF v = u THEN (P[u] \ rows) \cup {k} ELSE P[v]]

\* An opening disarms the rows it locked.
LEMMA LoginsUnlocked ==
    ASSUME NEW L, NEW P, Logs(L, P), NEW u \in TgUsers, NEW k, NEW rows
    PROVE  Logs(ClearTelegramLoginPendingForTg(L, rows), Moved(P, u, k, rows))
<1> DEFINE N == ClearTelegramLoginPendingForTg(L, rows)
           t2 == Moved(P, u, k, rows)
<1>1. DOMAIN N = Logins /\ N = [i \in Logins |-> N[i]]
  BY DEF ClearTelegramLoginPendingForTg
<1>2. ASSUME NEW i \in Logins PROVE LoginOK(i, N[i], t2)
  <2>1. LoginOK(i, L[i], P)
    BY DEF Logs
  <2>2. CASE i \in rows
    <3>1. N[i] = LoginDisarm(L[i])
      BY <2>2 DEF ClearTelegramLoginPendingForTg, LoginDisarm
    <3> HIDE DEF N, t2
    <3>2. QED
      BY <2>1, <3>1, LoginDisarmed
  <2>3. CASE i \notin rows
    <3>1. N[i] = L[i]
      BY <2>3 DEF ClearTelegramLoginPendingForTg
    <3>2. \A v \in TgUsers : i \in P[v] => i \in t2[v]
      BY <2>3 DEF Moved
    <3> HIDE DEF N, t2
    <3>3. L[i].pending # NoUser => L[i].pending \in TgUsers
      BY <2>1 DEF LoginOK, LoginRow, AnyUser
    <3>4. QED
      BY <2>1, <3>1, <3>2, <3>3 DEF LoginOK
  <2>4. QED
    BY <2>2, <2>3
<1> HIDE DEF N, t2
<1>3. QED
  BY <1>1, <1>2 DEF Logs, N, t2

-----------------------------------------------------------------------------
(* The reset rows.                                                         *)

\* Disarming a reset that waits.
LEMMA ResetDisarmed ==
    ASSUME NEW s, NEW r, NEW t, NEW t2, ResetOK(s, r, t)
    PROVE  ResetOK(s, ResetDisarm(r), t2)
<1> DEFINE n == [r EXCEPT !.pending = NoUser, !.nonce = 0]
<1>1. n \in ResetRow
  BY DEF ResetOK, ResetRow, AnyUser
<1>2. n.pending = NoUser /\ n.nonce = 0 /\ n.st = r.st /\ n.by = r.by /\ n.phone = r.phone
      /\ n.consent = r.consent
  BY DEF ResetOK, ResetRow
<1> HIDE DEF n
<1>3. QED
  BY <1>1, <1>2 DEF ResetOK, ResetDisarm, n

\* A reset that waits for somebody else is not disturbed when u's chat moves on.
LEMMA ResetOther ==
    ASSUME NEW s, NEW r, NEW t, ResetOK(s, r, t), NEW u \in TgUsers, r.pending # u,
           NEW t2, \A v \in TgUsers : v # u => t2[v] = t[v]
    PROVE  ResetOK(s, r, t2)
<1>1. CASE r.pending = NoUser
  BY <1>1 DEF ResetOK
<1>2. CASE r.pending # NoUser
  <2>1. r.pending \in TgUsers
    BY <1>2 DEF ResetOK, ResetRow, AnyUser
  <2>2. t2[r.pending] = t[r.pending]
    BY <2>1
  <2>3. QED
    BY <2>2 DEF ResetOK
<1>3. QED
  BY <1>1, <1>2

\* Opening the link arms the reset without a question.
LEMMA ResetArmed ==
    ASSUME NEW s, NEW r, NEW t, ResetOK(s, r, t), r.st = "open", NEW u \in TgUsers,
           NEW t2, s \in t2[u]
    PROVE  /\ ResetOK(s, SetPasswordResetPendingTg(r, u), t2)
           /\ SetPasswordResetPendingTg(r, u).pending = u
           /\ SetPasswordResetPendingTg(r, u).phone = r.phone
<1> DEFINE n == [r EXCEPT !.pending = u, !.nonce = 0]
<1>1. n = SetPasswordResetPendingTg(r, u)
  BY DEF SetPasswordResetPendingTg
<1>2. n \in ResetRow
  BY DEF ResetOK, ResetRow, AnyUser
<1>3. n.pending = u /\ n.nonce = 0 /\ n.st = "open" /\ n.phone = r.phone
  BY DEF ResetOK, ResetRow
<1> HIDE DEF n
<1>4. QED
  BY <1>1, <1>2, <1>3 DEF ResetOK

\* The question is earned by the owner of the phone.
LEMMA ResetAsked ==
    ASSUME NEW s, NEW r, NEW t, ResetOK(s, r, t), NEW u \in TgUsers, r.pending = u,
           r.phone = Owner[u], NEW n \in Nat
    PROVE  ResetOK(s, SetPasswordResetConfirmNonce(r, n), t)
<1> DEFINE m == [r EXCEPT !.nonce = n]
<1>1. m = SetPasswordResetConfirmNonce(r, n)
  BY DEF SetPasswordResetConfirmNonce
<1>2. m \in ResetRow
  BY DEF ResetOK, ResetRow
<1>3. m.pending = u /\ m.st = r.st /\ m.phone = Owner[u] /\ m.by = r.by /\ m.consent = r.consent
  BY DEF ResetOK, ResetRow
<1>4. u # NoUser
  BY NamesAssumption DEF NoUser
<1> HIDE DEF m
<1>5. QED
  BY <1>1, <1>2, <1>3, <1>4 DEF ResetOK

\* "Yes, me" to the current question.
LEMMA ResetVerified ==
    ASSUME NEW s \in Resets, NEW r, NEW t, ResetOK(s, r, t), NEW u \in TgUsers, r.pending = u,
           r.nonce # 0, NEW c, c = TRUE
    PROVE  ResetOK(s, MarkPasswordResetVerified(r, u, c), t)
<1> DEFINE m == [r EXCEPT !.st = "verified", !.by = u, !.pending = NoUser, !.nonce = 0,
                          !.consent = TRUE]
<1>1. m = MarkPasswordResetVerified(r, u, c)
  BY DEF MarkPasswordResetVerified
<1>2. u # NoUser
  BY NamesAssumption DEF NoUser
<1>3. r.st = "open" /\ r.phone = Owner[u] /\ r.phone \in Phones
  BY <1>2 DEF ResetOK
<1>4. m \in ResetRow
  BY <1>3 DEF ResetOK, ResetRow, AnyUser
<1>5. m.pending = NoUser /\ m.nonce = 0 /\ m.st = "verified" /\ m.by = u /\ m.consent = TRUE
      /\ m.phone = r.phone
  BY <1>3 DEF ResetOK, ResetRow
<1> HIDE DEF m
<1>6. QED
  BY <1>1, <1>2, <1>3, <1>4, <1>5 DEF ResetOK

\* A reset that is used up or cancelled.
LEMMA ResetUsed ==
    ASSUME NEW s, NEW r, NEW t, ResetOK(s, r, t)
    PROVE  ResetOK(s, MarkPasswordResetUsed(r), t) /\ ResetOK(s, CancelPasswordReset(r), t)
<1> DEFINE m == [r EXCEPT !.st = "used", !.pending = NoUser, !.nonce = 0]
<1>1. m = MarkPasswordResetUsed(r) /\ m = CancelPasswordReset(r)
  BY DEF MarkPasswordResetUsed, CancelPasswordReset
<1>2. m \in ResetRow
  BY DEF ResetOK, ResetRow, AnyUser
<1>3. m.pending = NoUser /\ m.nonce = 0 /\ m.st = "used"
  BY DEF ResetOK, ResetRow
<1> HIDE DEF m
<1>4. QED
  BY <1>1, <1>2, <1>3 DEF ResetOK

\* Time passes over a reset.
LEMMA ResetExpired ==
    ASSUME NEW s, NEW r, NEW t, ResetOK(s, r, t)
    PROVE  ResetOK(s, [r EXCEPT !.live = FALSE], t)
<1> DEFINE m == [r EXCEPT !.live = FALSE]
<1>1. m \in ResetRow
  BY DEF ResetOK, ResetRow
<1>2. m.pending = r.pending /\ m.nonce = r.nonce /\ m.st = r.st /\ m.by = r.by
      /\ m.phone = r.phone /\ m.consent = r.consent
  BY DEF ResetOK, ResetRow
<1> HIDE DEF m
<1>3. QED
  BY <1>1, <1>2 DEF ResetOK, m

\* A new reset, and one that a new one of the same profile put aside.
LEMMA ResetStarted ==
    ASSUME NEW s, NEW t, NEW p \in Phones
    PROVE  /\ ResetOK(s, NewReset, t)
           /\ ResetOK(s, [NewReset EXCEPT !.st = "open", !.live = TRUE, !.phone = p], t)
           /\ ResetOK(s, [NewReset EXCEPT !.st = "used"], t)
<1> DEFINE m == [NewReset EXCEPT !.st = "open", !.live = TRUE, !.phone = p]
           n == [NewReset EXCEPT !.st = "used"]
<1>1. NewReset \in ResetRow /\ m \in ResetRow /\ n \in ResetRow
  BY DEF NewReset, ResetRow, AnyUser, AnyPhone
<1>2. /\ NewReset.pending = NoUser /\ NewReset.nonce = 0 /\ NewReset.st = "none"
      /\ m.pending = NoUser /\ m.nonce = 0 /\ m.st = "open" /\ m.phone = p
      /\ n.pending = NoUser /\ n.nonce = 0 /\ n.st = "used"
  BY DEF NewReset
<1> HIDE DEF m, n
<1>3. ResetOK(s, NewReset, t)
  BY <1>1, <1>2 DEF ResetOK
<1>4. ResetOK(s, m, t)
  BY <1>1, <1>2 DEF ResetOK
<1>5. ResetOK(s, n, t)
  BY <1>1, <1>2 DEF ResetOK
<1>6. QED
  BY <1>3, <1>4, <1>5 DEF m, n

\* One reset changes, the others stay.
LEMMA ResetRowChanged ==
    ASSUME NEW R, NEW t, Rsts(R, t), NEW s \in Resets, NEW r, ResetOK(s, r, t)
    PROVE  Rsts([R EXCEPT ![s] = r], t)
<1> DEFINE N == [R EXCEPT ![s] = r]
<1>1. DOMAIN N = Resets /\ N = [k \in Resets |-> N[k]]
  BY DEF Rsts
<1>2. N[s] = r /\ \A k \in Resets \ {s} : N[k] = R[k]
  BY DEF Rsts
<1> HIDE DEF N
<1>3. QED
  BY <1>1, <1>2 DEF Rsts, N

\* Every reset that waited in u's chat is disarmed, whatever may wait there now.
LEMMA ResetsCleared ==
    ASSUME NEW R, NEW t, Rsts(R, t), NEW u \in TgUsers,
           NEW t2, \A v \in TgUsers : v # u => t2[v] = t[v]
    PROVE  Rsts(ClearAllPasswordResetPendingForTg(R, u), t2)
<1> DEFINE N == ClearAllPasswordResetPendingForTg(R, u)
<1>1. DOMAIN N = Resets /\ N = [k \in Resets |-> N[k]]
  BY DEF ClearAllPasswordResetPendingForTg
<1>2. ASSUME NEW k \in Resets PROVE ResetOK(k, N[k], t2)
  <2>1. ResetOK(k, R[k], t)
    BY DEF Rsts
  <2>2. CASE R[k].pending = u
    <3>1. u # NoUser
      BY NamesAssumption DEF NoUser
    <3>2. R[k].st # "used"
      BY <2>1, <2>2, <3>1 DEF ResetOK
    <3>3. N[k] = ResetDisarm(R[k])
      BY <2>2, <3>2 DEF ClearAllPasswordResetPendingForTg, ResetDisarm
    <3> HIDE DEF N
    <3>4. QED
      BY <2>1, <3>3, ResetDisarmed
  <2>3. CASE R[k].pending # u
    <3>1. N[k] = R[k]
      BY <2>3 DEF ClearAllPasswordResetPendingForTg
    <3> HIDE DEF N
    <3>2. QED
      BY <2>1, <2>3, <3>1, ResetOther
  <2>4. QED
    BY <2>2, <2>3
<1> HIDE DEF N
<1>3. QED
  BY <1>1, <1>2 DEF Rsts, N

\* An opening disarms the rows it locked.
LEMMA ResetsUnlocked ==
    ASSUME NEW R, NEW P, Rsts(R, P), NEW u \in TgUsers, NEW k, NEW rows
    PROVE  Rsts(ClearPasswordResetPendingForTg(R, rows), Moved(P, u, k, rows))
<1> DEFINE N == ClearPasswordResetPendingForTg(R, rows)
           t2 == Moved(P, u, k, rows)
<1>1. DOMAIN N = Resets /\ N = [i \in Resets |-> N[i]]
  BY DEF ClearPasswordResetPendingForTg
<1>2. ASSUME NEW i \in Resets PROVE ResetOK(i, N[i], t2)
  <2>1. ResetOK(i, R[i], P)
    BY DEF Rsts
  <2>2. CASE i \in rows
    <3>1. N[i] = ResetDisarm(R[i])
      BY <2>2 DEF ClearPasswordResetPendingForTg, ResetDisarm
    <3> HIDE DEF N, t2
    <3>2. QED
      BY <2>1, <3>1, ResetDisarmed
  <2>3. CASE i \notin rows
    <3>1. N[i] = R[i]
      BY <2>3 DEF ClearPasswordResetPendingForTg
    <3>2. \A v \in TgUsers : i \in P[v] => i \in t2[v]
      BY <2>3 DEF Moved
    <3> HIDE DEF N, t2
    <3>3. R[i].pending # NoUser => R[i].pending \in TgUsers
      BY <2>1 DEF ResetOK, ResetRow, AnyUser
    <3>4. QED
      BY <2>1, <3>1, <3>2, <3>3 DEF ResetOK
  <2>4. QED
    BY <2>2, <2>3
<1> HIDE DEF N, t2
<1>3. QED
  BY <1>1, <1>2 DEF Rsts, N, t2

-----------------------------------------------------------------------------
(* The steps.                                                              *)

\* The savepoint that links the owner of a number to its profile and disarms
\* the chat.
LEMMA LinkVerified ==
    ASSUME LinksOK(link), NEW t, NEW L, Logs(L, t), NEW R, Rsts(R, t),
           NEW u \in TgUsers, NEW p \in Phones, Owner[u] = p, linkVerifiedTelegramInTx(p, u, L, R)
    PROVE  /\ LinksOK(link') /\ Logs(login', t) /\ Rsts(reset', t)
           /\ link' # link => PendingIn(login', reset', u) = {}
<1>1. CASE link' = link /\ reset' = R /\ login' = L
  BY <1>1
<1>2. CASE /\ link' = UpsertTelegramAccount(DeleteTelegramAccountForOtherProfiles(link, u, p), p, u, TRUE)
           /\ reset' = ClearAllPasswordResetPendingForTg(R, u)
           /\ login' = ClearAllTelegramLoginPendingForTg(L, u)
  <2>1. LinksOK(link')
    BY <1>2, UpsertOwner
  <2>2. Logs(login', t) /\ Rsts(reset', t)
    BY <1>2, LoginsCleared, ResetsCleared
  <2> DEFINE e == [v \in TgUsers |-> IF v = u THEN {} ELSE t[v]]
  <2>3. \A v \in TgUsers : v # u => e[v] = t[v]
    OBVIOUS
  <2>4. e[u] = {}
    OBVIOUS
  <2> HIDE DEF e
  <2>5. Logs(login', e) /\ Rsts(reset', e)
    BY <1>2, <2>3, LoginsCleared, ResetsCleared
  <2>6. u # NoUser
    BY NamesAssumption DEF NoUser
  <2>7. PendingIn(login', reset', u) = {}
    BY <2>4, <2>5, <2>6 DEF PendingIn, Logs, Rsts, LoginOK, ResetOK
  <2>8. QED
    BY <2>1, <2>2, <2>7
<1>3. QED
  BY <1>1, <1>2 DEF linkVerifiedTelegramInTx

\* What an action leaves alone stays good.
LEMMA Frame ==
    ASSUME IInv
    PROVE  /\ UNCHANGED acct /\ UNCHANGED asked /\ UNCHANGED stale => Rest'
           /\ UNCHANGED link => LinksOK(link')
           /\ UNCHANGED login => Logs(login', Pend)
           /\ UNCHANGED reset => Rsts(reset', Pend)
BY DEF IInv, Core, Rest

\* The website login.
LEMMA LoginSteps ==
    ASSUME IInv, NEW l \in Logins
    PROVE  /\ StartTelegramLogin(l) => After
           /\ \A u \in TgUsers, n \in Nat :
                 (CancelLogin(l, u, n) => After) /\ (AnswerByLink(l, u, n) => After)
           /\ CompleteTelegramLogin(l) => After
           /\ LoginExpires(l) => After
<1>1. LoginOK(l, login[l], Pend) /\ Logs(login, Pend)
  BY DEF IInv, Core, Logs
<1>2. ASSUME NEW r, LoginOK(l, r, Pend), login' = [login EXCEPT ![l] = r],
             UNCHANGED <<acct, link, reset, asked, stale>>
      PROVE After
  <2>1. Logs(login', Pend)
    BY <1>1, <1>2, LoginRowChanged
  <2>2. QED
    BY <1>2, <2>1, Frame DEF After
<1>3. ASSUME StartTelegramLogin(l) PROVE After
  <2>1. LoginOK(l, [NewLogin EXCEPT !.st = "pending", !.live = TRUE], Pend)
    BY LoginStarted
  <2>2. QED
    BY <1>2, <1>3, <2>1 DEF StartTelegramLogin
<1>4. ASSUME NEW u \in TgUsers, NEW n \in Nat, CancelLogin(l, u, n) PROVE After
  <2>1. LoginOK(l, EndTelegramLoginRequest(login[l], "cancelled"), Pend)
    BY <1>1, <1>4, LoginEnded DEF CancelLogin, Answerable
  <2>2. QED
    BY <1>2, <1>4, <2>1 DEF CancelLogin
<1>5. ASSUME NEW u \in TgUsers, NEW n \in Nat, AnswerByLink(l, u, n) PROVE After
  <2>1. login[l].pending = u /\ login[l].st = "pending"
    BY <1>5 DEF AnswerByLink, Answerable
  <2>2. PICK p \in verifiedLinkedProfile(u) :
          login' = [login EXCEPT ![l] = IF assertActive(p) THEN ApproveTelegramLoginRequest(@, u, p, l \notin stale)
                                        ELSE EndTelegramLoginRequest(@, "blocked")]
    BY <1>5 DEF AnswerByLink
  <2>3. p \in Phones /\ Owner[u] = p
    BY DEF IInv, Core, LinksOK, verifiedLinkedProfile, GetTelegramAccountByTgUserID
  <2>10. (l \notin stale) = TRUE
    BY DEF IInv, Core, Rest
  <2>4. LoginOK(l, ApproveTelegramLoginRequest(login[l], u, p, l \notin stale), Pend)
    BY <1>1, <2>1, <2>3, <2>10, LoginApproved
  <2>5. LoginOK(l, EndTelegramLoginRequest(login[l], "blocked"), Pend)
    BY <1>1, <2>1, LoginEnded
  <2>6. UNCHANGED <<acct, link, reset, asked, stale>>
    BY <1>5 DEF AnswerByLink
  <2>7. CASE assertActive(p)
    BY <1>2, <2>2, <2>4, <2>6, <2>7
  <2>8. CASE ~assertActive(p)
    BY <1>2, <2>2, <2>5, <2>6, <2>8
  <2>9. QED
    BY <2>7, <2>8
<1>6. ASSUME CompleteTelegramLogin(l) PROVE After
  <2>1. LoginOK(l, ConsumeTelegramLoginRequest(login[l]), Pend)
    BY <1>1, <1>6, LoginConsumed DEF CompleteTelegramLogin, telegramLoginCompletable
  <2>2. QED
    BY <1>2, <1>6, <2>1 DEF CompleteTelegramLogin
<1>7. ASSUME LoginExpires(l) PROVE After
  <2>1. LoginOK(l, [login[l] EXCEPT !.live = FALSE], Pend)
    BY <1>1, LoginExpired
  <2>2. login' = [login EXCEPT ![l] = [login[l] EXCEPT !.live = FALSE]]
    BY <1>7 DEF LoginExpires
  <2>3. QED
    BY <1>2, <1>7, <2>1, <2>2 DEF LoginExpires
<1>8. QED
  BY <1>3, <1>4, <1>5, <1>6, <1>7

\* The contact shared while a login waits for it.
LEMMA LoginContactStep ==
    ASSUME IInv, NEW u \in TgUsers, ConfirmTelegramLoginContact(u)
    PROVE  After
<1>1. PICK l \in WaitsForContact(u) :
        IF acct[Owner[u]] = "banned"
        THEN login' = [login EXCEPT ![l] = EndTelegramLoginRequest(@, "blocked")] /\ UNCHANGED asked
        ELSE asked' = Nonce
             /\ login' = [login EXCEPT ![l] = AskTelegramLoginConfirmAfterContact(@, Owner[u], Nonce)]
  BY DEF ConfirmTelegramLoginContact
<1>2. l \in Logins /\ login[l].pending = u /\ login[l].st = "pending"
  BY DEF WaitsForContact
<1>3. LoginOK(l, login[l], Pend) /\ Logs(login, Pend) /\ asked \in Nat /\ Nonce \in Nat
  BY <1>2 DEF IInv, Core, Logs, Rest, Nonce
<1>4. /\ LoginOK(l, EndTelegramLoginRequest(login[l], "blocked"), Pend)
      /\ LoginOK(l, AskTelegramLoginConfirmAfterContact(login[l], Owner[u], Nonce), Pend)
  BY <1>2, <1>3, LoginEnded, LoginAsked
<1>5. Logs(login', Pend) /\ asked' \in Nat
  BY <1>1, <1>2, <1>3, <1>4, LoginRowChanged
<1>6. UNCHANGED <<acct, link, reset, stale>>
  BY DEF ConfirmTelegramLoginContact
<1>7. QED
  BY <1>5, <1>6 DEF After, IInv, Core, Rest

\* The tap after a contact: the profile of the shared number.
LEMMA AnswerByContactStep ==
    ASSUME IInv, NEW l \in Logins, NEW u \in TgUsers, NEW n \in Nat, AnswerByContact(l, u, n)
    PROVE  After
<1> DEFINE p == login[l].contact
           A == [login EXCEPT ![l] = ApproveTelegramLoginRequest(login[l], u, p, l \notin stale)]
<1>1. /\ login[l].pending = u /\ login[l].st = "pending" /\ p # "none"
      /\ UNCHANGED <<asked, stale>>
  BY DEF AnswerByContact, Answerable
<1>2. LoginOK(l, login[l], Pend) /\ Logs(login, Pend) /\ Rsts(reset, Pend) /\ LinksOK(link)
      /\ Rest
  BY DEF IInv, Core, Logs
<1>3. Owner[u] = p /\ p \in Phones
  BY <1>1, <1>2, NamesAssumption DEF LoginOK
<1>4. CASE acct[p] = "banned"
  <2>1. login' = [login EXCEPT ![l] = EndTelegramLoginRequest(login[l], "blocked")]
        /\ UNCHANGED <<acct, link, reset>>
    BY <1>4 DEF AnswerByContact
  <2>2. LoginOK(l, EndTelegramLoginRequest(login[l], "blocked"), Pend)
    BY <1>1, <1>2, LoginEnded
  <2>3. Logs(login', Pend)
    BY <1>2, <2>1, <2>2, LoginRowChanged
  <2>4. QED
    BY <1>1, <2>1, <2>3, Frame DEF After
<1>5. CASE acct[p] # "banned"
  <2>1. findOrCreateTelegramProfile(p) /\ linkVerifiedTelegramInTx(p, u, A, reset)
    BY <1>5 DEF AnswerByContact
  <2>10. (l \notin stale) = TRUE
    BY <1>2 DEF Rest
  <2>2. LoginOK(l, ApproveTelegramLoginRequest(login[l], u, p, l \notin stale), Pend)
    BY <1>1, <1>2, <1>3, <2>10, LoginApproved
  <2> HIDE DEF p
  <2>3. Logs(A, Pend)
    BY <1>2, <2>2, LoginRowChanged
  <2> HIDE DEF A
  <2>5. LinksOK(link') /\ Logs(login', Pend) /\ Rsts(reset', Pend)
    BY <1>2, <1>3, <2>1, <2>3, LinkVerified
  <2>6. acct' \in [Phones -> {"none", "active", "banned"}]
    BY <1>2, <1>3, <2>1 DEF findOrCreateTelegramProfile, Rest
  <2>7. QED
    BY <1>1, <1>2, <2>5, <2>6 DEF After, Rest
<1>6. QED
  BY <1>4, <1>5

\* The password reset.
LEMMA ResetSteps ==
    ASSUME IInv, NEW s \in Resets
    PROVE  /\ \A u \in TgUsers, n \in Nat :
                 (RefuseReset(s, u, n) => After) /\ (n # 0 /\ ConfirmReset(s, u, n) => After)
           /\ CompletePasswordReset(s) => After
           /\ ResetExpires(s) => After
<1>1. ResetOK(s, reset[s], Pend) /\ Rsts(reset, Pend) /\ LinksOK(link)
  BY DEF IInv, Core, Rsts
<1>2. ASSUME NEW r, ResetOK(s, r, Pend), reset' = [reset EXCEPT ![s] = r], LinksOK(link'),
             UNCHANGED <<acct, login, asked, stale>>
      PROVE After
  <2>1. Rsts(reset', Pend)
    BY <1>1, <1>2, ResetRowChanged
  <2>2. QED
    BY <1>2, <2>1, Frame DEF After
<1>3. ASSUME NEW u \in TgUsers, NEW n \in Nat, RefuseReset(s, u, n) PROVE After
  <2>1. ResetOK(s, CancelPasswordReset(reset[s]), Pend)
    BY <1>1, ResetUsed
  <2>2. reset' = [reset EXCEPT ![s] = CancelPasswordReset(reset[s])]
        /\ UNCHANGED <<acct, link, login, asked, stale>>
    BY <1>3 DEF RefuseReset
  <2>3. QED
    BY <1>1, <1>2, <2>1, <2>2
<1>4. ASSUME NEW u \in TgUsers, NEW n \in Nat, n # 0, ConfirmReset(s, u, n) PROVE After
  <2>1. reset[s].pending = u /\ reset[s].nonce # 0 /\ reset[s].st = "open"
    BY <1>4 DEF ConfirmReset, ResetAnswerable
  <2>2. Owner[u] = reset[s].phone /\ reset[s].phone \in Phones
    BY <1>1, <2>1 DEF ResetOK
  <2>10. (s \notin stale) = TRUE
    BY DEF IInv, Core, Rest
  <2>3. ResetOK(s, MarkPasswordResetVerified(reset[s], u, s \notin stale), Pend)
    BY <1>1, <2>1, <2>10, ResetVerified
  <2>4. /\ reset' = [reset EXCEPT ![s] = MarkPasswordResetVerified(reset[s], u, s \notin stale)]
        /\ UNCHANGED <<acct, login, asked, stale>>
        /\ link' = UpsertTelegramAccount(
              DeleteTelegramAccountForOtherProfiles(link, u, reset[s].phone), reset[s].phone, u, TRUE)
    BY <1>4 DEF ConfirmReset
  <2>5. LinksOK(link')
    BY <1>1, <2>2, <2>4, UpsertOwner
  <2>6. QED
    BY <1>2, <2>3, <2>4, <2>5
<1>5. ASSUME CompletePasswordReset(s) PROVE After
  <2>1. /\ reset' = [reset EXCEPT ![s] = MarkPasswordResetUsed(reset[s])]
        /\ UNCHANGED <<acct, login, asked, stale>> /\ reset[s].st = "verified"
        /\ link' = DeleteUnattributedTelegramAccount(link, reset[s].phone, reset[s].by)
    BY <1>5 DEF CompletePasswordReset
  <2>2. reset[s].phone \in Phones
    BY <1>1, <2>1 DEF ResetOK
  <2>3. LinksOK(link')
    BY <1>1, <2>1, <2>2, Unlinked DEF DeleteUnattributedTelegramAccount
  <2>4. ResetOK(s, MarkPasswordResetUsed(reset[s]), Pend)
    BY <1>1, ResetUsed
  <2>5. QED
    BY <1>2, <2>1, <2>3, <2>4
<1>6. ASSUME ResetExpires(s) PROVE After
  <2>1. ResetOK(s, [reset[s] EXCEPT !.live = FALSE], Pend)
    BY <1>1, ResetExpired
  <2>2. reset' = [reset EXCEPT ![s] = [reset[s] EXCEPT !.live = FALSE]]
        /\ UNCHANGED <<acct, link, login, asked, stale>>
    BY <1>6 DEF ResetExpires
  <2>3. QED
    BY <1>1, <1>2, <2>1, <2>2
<1>7. QED
  BY <1>3, <1>4, <1>5, <1>6

\* A new reset puts the profile's earlier ones aside.
LEMMA StartResetStep ==
    ASSUME IInv, NEW s \in Resets, NEW p \in Phones, StartPasswordReset(s, p)
    PROVE  After
<1> DEFINE new == [NewReset EXCEPT !.st = "open", !.live = TRUE, !.phone = p]
           old == [NewReset EXCEPT !.st = "used"]
<1>1. reset' = [k \in Resets |-> IF k = s THEN new
                 ELSE IF reset[k].phone = p /\ reset[k].st # "used" THEN old ELSE reset[k]]
      /\ UNCHANGED <<acct, link, login, asked, stale>>
  BY DEF StartPasswordReset
<1>2. \A k \in Resets : ResetOK(k, new, Pend) /\ ResetOK(k, old, Pend)
                        /\ ResetOK(k, reset[k], Pend)
  BY ResetStarted DEF IInv, Core, Rsts
<1> HIDE DEF new, old
<1>3. Rsts(reset', Pend)
  <2>1. DOMAIN reset' = Resets /\ reset' = [k \in Resets |-> reset'[k]]
    BY <1>1
  <2>2. \A k \in Resets : reset'[k] = new \/ reset'[k] = old \/ reset'[k] = reset[k]
    BY <1>1
  <2>3. QED
    BY <1>2, <2>1, <2>2 DEF Rsts
<1>4. QED
  BY <1>1, <1>3, Frame DEF After

\* The contact shared for a reset: the number must be the profile's.
LEMMA ResetContactStep ==
    ASSUME IInv, NEW u \in TgUsers, ConfirmTelegramPasswordResetContact(u)
    PROVE  After
<1>1. PICK s \in Resets :
        /\ reset[s].pending = u /\ reset[s].phone = Owner[u] /\ asked' = Nonce
        /\ reset' = [reset EXCEPT ![s] = SetPasswordResetConfirmNonce(reset[s], Nonce)]
  BY DEF ConfirmTelegramPasswordResetContact
<1>2. ResetOK(s, reset[s], Pend) /\ Rsts(reset, Pend) /\ Nonce \in Nat
  BY DEF IInv, Core, Rsts, Rest, Nonce
<1>3. ResetOK(s, SetPasswordResetConfirmNonce(reset[s], Nonce), Pend)
  BY <1>1, <1>2, ResetAsked
<1>4. Rsts(reset', Pend)
  BY <1>1, <1>2, <1>3, ResetRowChanged
<1>5. UNCHANGED <<acct, link, login, stale>>
  BY DEF ConfirmTelegramPasswordResetContact
<1>6. QED
  BY <1>1, <1>2, <1>4, <1>5 DEF After, IInv, Core, Rest

\* Link tokens, /unlink, the Mini App, bans and the switch.
LEMMA OtherSteps ==
    ASSUME IInv
    PROVE  /\ \A p \in Phones : (GenerateLinkToken(p) => After) /\ (Unlink(p) => After)
                                 /\ (Ban(p) => After)
           /\ \A u \in TgUsers : TelegramWebAppPhoneSignIn(u) => After
           /\ \A p \in Phones, u \in TgUsers :
                 (RedeemLinkToken(p, u) => After) /\ (LinkTelegramWebApp(p, u) => After)
           /\ KillSwitch => After
<1>1. LinksOK(link) /\ Logs(login, Pend) /\ Rsts(reset, Pend) /\ Rest
  BY DEF IInv, Core
<1>2. acct \in [Phones -> {"none", "active", "banned"}]
  BY <1>1 DEF Rest
<1>3. ASSUME NEW p \in Phones, GenerateLinkToken(p) PROVE After
  BY <1>3, Frame DEF GenerateLinkToken, After
<1>4. ASSUME NEW p \in Phones, NEW u \in TgUsers, RedeemLinkToken(p, u) PROVE After
  <2>1. LinksOK(link')
    BY <1>1, <1>4, UpsertPlain DEF RedeemLinkToken, GetTelegramAccountByTgUserID
  <2>2. QED
    BY <1>4, <2>1, Frame DEF RedeemLinkToken, After
<1>5. ASSUME NEW p \in Phones, Unlink(p) PROVE After
  <2>1. LinksOK(link')
    BY <1>1, <1>5, Unlinked DEF Unlink
  <2>2. QED
    BY <1>5, <2>1, Frame DEF Unlink, After
<1>6. ASSUME NEW u \in TgUsers, TelegramWebAppPhoneSignIn(u) PROVE After
  <2>1. /\ linkVerifiedTelegramInTx(Owner[u], u, login, reset)
        /\ findOrCreateTelegramProfile(Owner[u]) /\ UNCHANGED asked
        /\ stale' = IF link' = link THEN stale ELSE stale \cup PendingIn(login', reset', u)
    BY <1>6 DEF TelegramWebAppPhoneSignIn
  <2>2. Owner[u] \in Phones
    BY NamesAssumption
  <2>3. /\ LinksOK(link') /\ Logs(login', Pend) /\ Rsts(reset', Pend)
        /\ link' # link => PendingIn(login', reset', u) = {}
    BY <1>1, <2>1, <2>2, LinkVerified
  <2>5. acct' \in [Phones -> {"none", "active", "banned"}]
    BY <1>2, <2>1, <2>2 DEF findOrCreateTelegramProfile
  <2>6. stale' = {}
    BY <1>1, <2>1, <2>3 DEF Rest
  <2>7. QED
    BY <1>1, <2>1, <2>3, <2>5, <2>6 DEF After, Rest
<1>7. ASSUME NEW p \in Phones, NEW u \in TgUsers, LinkTelegramWebApp(p, u) PROVE After
  <2>1. linkVerifiedTelegramInTx(p, u, login, reset) /\ Owner[u] = p /\ UNCHANGED <<acct, asked, stale>>
    BY <1>7 DEF LinkTelegramWebApp
  <2>2. LinksOK(link') /\ Logs(login', Pend) /\ Rsts(reset', Pend)
    BY <1>1, <2>1, LinkVerified
  <2>3. QED
    BY <2>1, <2>2, Frame DEF After
<1>8. ASSUME NEW p \in Phones, Ban(p) PROVE After
  <2>1. acct' \in [Phones -> {"none", "active", "banned"}] /\ UNCHANGED <<link, login, reset, asked, stale>>
    BY <1>2, <1>8 DEF Ban
  <2>2. QED
    BY <1>1, <2>1 DEF After, Rest
<1>9. ASSUME KillSwitch PROVE After
  BY <1>9, Frame DEF KillSwitch, After
<1>10. QED
  BY <1>3, <1>4, <1>5, <1>6, <1>7, <1>8, <1>9

\* Whatever bounds the requests that wait in the chats, the chats hold no more.
LEMMA Tight ==
    ASSUME NEW L, NEW R, NEW t, Logs(L, t), Rsts(R, t)
    PROVE  /\ Logs(L, PendOf(L, R)) /\ Rsts(R, PendOf(L, R))
           /\ \A u \in TgUsers : PendOf(L, R)[u] \subseteq t[u]
<1> DEFINE P == PendOf(L, R)
<1>1. ASSUME NEW l \in Logins PROVE LoginOK(l, L[l], P)
  <2>1. LoginOK(l, L[l], t)
    BY DEF Logs
  <2>2. L[l].pending # NoUser => L[l].st = "pending" /\ L[l].pending \in TgUsers
    BY <2>1 DEF LoginOK, LoginRow, AnyUser
  <2>3. L[l].pending # NoUser => l \in P[L[l].pending]
    BY <2>2 DEF PendOf, PendingIn
  <2> HIDE DEF P
  <2>4. QED
    BY <2>1, <2>3 DEF LoginOK
<1>2. ASSUME NEW s \in Resets PROVE ResetOK(s, R[s], P)
  <2>1. ResetOK(s, R[s], t)
    BY DEF Rsts
  <2>2. R[s].pending # NoUser => R[s].st = "open" /\ R[s].pending \in TgUsers
    BY <2>1 DEF ResetOK, ResetRow, AnyUser
  <2>3. R[s].pending # NoUser => s \in P[R[s].pending]
    BY <2>2 DEF PendOf, PendingIn
  <2> HIDE DEF P
  <2>4. QED
    BY <2>1, <2>3 DEF ResetOK
<1>3. ASSUME NEW u \in TgUsers PROVE P[u] \subseteq t[u]
  <2>1. u # NoUser
    BY NamesAssumption DEF NoUser
  <2>2. ASSUME NEW k \in P[u] PROVE k \in t[u]
    <3>1. \/ k \in Logins /\ L[k].pending = u
          \/ k \in Resets /\ R[k].pending = u
      BY <2>2 DEF PendOf, PendingIn
    <3>2. QED
      BY <2>1, <3>1 DEF Logs, Rsts, LoginOK, ResetOK
  <2>3. QED
    BY <2>2
<1> HIDE DEF P
<1>4. Logs(L, P) /\ Rsts(R, P)
  BY <1>1, <1>2 DEF Logs, Rsts
<1>5. QED
  BY <1>3, <1>4 DEF P

\* The chats hold requests.
LEMMA PendRequests == \A u \in TgUsers : Pend[u] \subseteq Requests
BY DEF Pend, PendOf, PendingIn, Requests

\* A call leaves the openings as they are, and the rows they hold.
LEMMA CallKeeps ==
    ASSUME IInv, After, UNCHANGED opening,
           \A l \in Logins : opening[l].by # NoUser => login'[l].st = login[l].st,
           \A s \in Resets : opening[s].by # NoUser =>
                reset'[s].st = reset[s].st /\ reset'[s].phone = reset[s].phone
    PROVE  IInv'
<1>1. /\ Logs(login', Pend') /\ Rsts(reset', Pend')
      /\ \A u \in TgUsers : Pend'[u] \subseteq Pend[u]
  BY Tight DEF After, Pend
<1>2. Core'
  BY <1>1 DEF After, Core
<1>3. Held(opening', login', reset')
  BY DEF IInv, Chats, Held
<1>4. Seen(opening', Pend')
  <2>1. Held(opening, login, reset) /\ Seen(opening, Pend)
    BY DEF IInv, Chats
  <2> SUFFICES ASSUME NEW j \in Requests, opening[j].by # NoUser
               PROVE  Pend'[opening[j].by] \subseteq {j} \cup opening[j].rows \cup opening[j].since
    BY DEF Seen
  <2>2. opening[j].by \in TgUsers
    BY <2>1 DEF Held, OpeningRow, AnyUser
  <2>3. QED
    BY <1>1, <2>1, <2>2 DEF Seen
<1>5. OneEach(Pend')
  BY <1>1 DEF IInv, Chats, OneEach
<1>6. QED
  BY <1>2, <1>3, <1>4, <1>5 DEF IInv, Chats

\* Nothing but the openings moves.
LEMMA OpeningKeeps ==
    ASSUME IInv, UNCHANGED <<acct, link, login, reset, asked, stale>>,
           Held(opening', login, reset), Seen(opening', Pend)
    PROVE  IInv'
<1>1. Pend' = Pend
  BY DEF Pend
<1>2. QED
  BY <1>1 DEF IInv, Core, Chats, Rest

\* /start looks at the chat, and locks what waits there.
LEMMA LookStep ==
    ASSUME IInv, NEW k \in Requests, NEW u \in TgUsers, NEW how \in {"contact", "question", "blocked"},
           lockPending(k, u, how),
           k \in Logins => login[k].st = "pending",
           k \in Resets => reset[k].st = "open" /\ (how = "question" => reset[k].phone = Owner[u])
    PROVE  IInv'
<1> DEFINE rows == PendingFor(u) \ {k}
           o == [by |-> u, rows |-> rows, since |-> {}, how |-> how]
<1>1. opening' = [opening EXCEPT ![k] = o]
      /\ UNCHANGED <<acct, link, login, reset, asked, stale>>
  BY DEF lockPending
<1>2. Held(opening, login, reset) /\ Seen(opening, Pend)
  BY DEF IInv, Chats
<1>3. Pend[u] \subseteq {k} \cup rows /\ rows \subseteq Requests
  BY PendRequests DEF Pend, PendOf, PendingFor
<1> HIDE DEF rows
<1>4. o \in OpeningRow /\ o.by = u /\ o.rows = rows /\ o.since = {} /\ o.how = how
  BY <1>3 DEF OpeningRow, AnyUser
<1> HIDE DEF o
<1>5. opening'[k] = o /\ opening' \in [Requests -> OpeningRow]
      /\ \A j \in Requests \ {k} : opening'[j] = opening[j]
  BY <1>1, <1>2, <1>4 DEF Held
<1>6. Held(opening', login, reset)
  <2>1. ASSUME NEW l \in Logins, opening'[l].by # NoUser PROVE login[l].st = "pending"
    <3>1. CASE l = k
      BY <3>1
    <3>2. CASE l # k
      <4>1. opening'[l] = opening[l]
        BY <1>5, <3>2 DEF Requests
      <4>2. QED
        BY <1>2, <2>1, <4>1 DEF Held
    <3>3. QED
      BY <3>1, <3>2
  <2>2. ASSUME NEW s \in Resets, opening'[s].by # NoUser
        PROVE  reset[s].st = "open"
               /\ (opening'[s].how = "question" => reset[s].phone = Owner[opening'[s].by])
    <3>1. CASE s = k
      BY <1>4, <1>5, <3>1
    <3>2. CASE s # k
      <4>1. opening'[s] = opening[s]
        BY <1>5, <3>2 DEF Requests
      <4>2. QED
        BY <1>2, <2>2, <4>1 DEF Held
    <3>3. QED
      BY <3>1, <3>2
  <2>3. QED
    BY <1>5, <2>1, <2>2 DEF Held
<1>7. Seen(opening', Pend)
  BY <1>2, <1>3, <1>4, <1>5 DEF Seen
<1>8. QED
  BY <1>1, <1>6, <1>7, OpeningKeeps

LEMMA StartStep == ASSUME IInv, NEW u \in TgUsers, HandleStart(u) PROVE IInv'
<1>1. ASSUME NEW l \in Logins, beginTelegramLogin(l, u) PROVE IInv'
  <2>1. PICK how \in {"contact", "question", "blocked"} : lockPending(l, u, how)
    BY <1>1 DEF beginTelegramLogin
  <2>2. login[l].st = "pending" /\ l \in Requests /\ l \notin Resets
    BY <1>1, NamesAssumption DEF beginTelegramLogin, Requests
  <2>3. QED
    BY <2>1, <2>2, LookStep
<1>2. ASSUME NEW s \in Resets, beginTelegramPasswordReset(s, u) PROVE IInv'
  <2>1. PICK how \in {"contact", "question"} :
          lockPending(s, u, how) /\ (how = "question" => reset[s].phone \in verifiedLinkedProfile(u))
    BY <1>2 DEF beginTelegramPasswordReset
  <2>2. reset[s].st = "open" /\ s \in Requests /\ s \notin Logins
    BY <1>2, NamesAssumption DEF beginTelegramPasswordReset, Requests
  <2>3. how = "question" => reset[s].phone = Owner[u]
    BY <2>1 DEF IInv, Core, LinksOK, verifiedLinkedProfile, GetTelegramAccountByTgUserID
  <2>4. QED
    BY <2>1, <2>2, <2>3, LookStep
<1>3. QED
  BY <1>1, <1>2 DEF HandleStart, handleTelegramLoginStart, handlePasswordResetStart

LEMMA RollbackStep == ASSUME IInv, NEW k \in Requests, Rollback(k) PROVE IInv'
<1>1. /\ opening' = [opening EXCEPT ![k] = NoOpening]
      /\ UNCHANGED <<acct, link, login, reset, asked, stale>>
      /\ Held(opening, login, reset) /\ Seen(opening, Pend)
  BY DEF Rollback, IInv, Chats
<1>2. NoOpening \in OpeningRow /\ NoOpening.by = NoUser
  BY DEF NoOpening, OpeningRow, AnyUser
<1>3. opening' \in [Requests -> OpeningRow]
      /\ \A j \in Requests : opening'[j].by # NoUser => opening'[j] = opening[j]
  BY <1>1, <1>2 DEF Held
<1>4. Held(opening', login, reset)
  BY <1>1, <1>3 DEF Held, Requests
<1>5. Seen(opening', Pend)
  BY <1>1, <1>3 DEF Seen
<1>6. QED
  BY <1>1, <1>4, <1>5, OpeningKeeps

\* The commit of the opening of k moves the chat: what it locked is disarmed,
\* and whatever else waits there came while it was under way.
LEMMA MoveStep ==
    ASSUME IInv, NEW k \in Requests, NEW u, u = opening[k].by, u # NoUser, NEW rows, rows = opening[k].rows,
           chatMovesTo(k), UNCHANGED <<acct, link>>, asked' \in Nat,
           Logs(login', Moved(Pend, u, k, rows)), Rsts(reset', Moved(Pend, u, k, rows)),
           \A j \in Pend'[u] : (j \in Logins <=> k \in Logins) /\ k \in Pend'[u] => j = k,
           \A l \in Logins \ {k} : login'[l].st = login[l].st,
           \A s \in Resets \ {k} : reset'[s].st = reset[s].st /\ reset'[s].phone = reset[s].phone
    PROVE  IInv'
<1> DEFINE t2 == Moved(Pend, u, k, rows)
<1>1. /\ Held(opening, login, reset) /\ Seen(opening, Pend) /\ OneEach(Pend)
      /\ Rest /\ LinksOK(link)
  BY DEF IInv, Core, Chats
<1>2. u \in TgUsers /\ opening[k] \in OpeningRow
  BY <1>1 DEF Held, OpeningRow, AnyUser
<1>3. /\ Logs(login', Pend') /\ Rsts(reset', Pend')
      /\ \A v \in TgUsers : Pend'[v] \subseteq t2[v]
  BY Tight DEF Pend
<1>4. /\ t2[u] = (Pend[u] \ rows) \cup {k}
      /\ \A v \in TgUsers : v # u => t2[v] = Pend[v]
  BY <1>2 DEF Moved
<1> HIDE DEF t2
<1>5. \A v \in TgUsers : Pend'[v] \subseteq Pend[v] \cup (IF v = u THEN {k} ELSE {})
  BY <1>3, <1>4
<1>6. Pend'[u] \subseteq {k} \cup opening[k].since
  <2>1. Pend[u] \subseteq {k} \cup rows \cup opening[k].since
    BY <1>1 DEF Seen
  <2>2. Pend'[u] \subseteq (Pend[u] \ rows) \cup {k}
    BY <1>2, <1>3, <1>4
  <2>3. QED
    BY <2>1, <2>2
<1>7. stale' = (stale \ {k}) \cup (PendingIn(login', reset', u) \ ({k} \cup opening[k].since))
  BY DEF chatMovesTo
<1>8. Pend'[u] = PendingIn(login', reset', u)
  BY <1>2 DEF Pend, PendOf
<1>9. stale' = {}
  BY <1>1, <1>6, <1>7, <1>8 DEF Rest
<1>10. Core'
  BY <1>1, <1>3, <1>9 DEF Core, Rest
<1>11. ASSUME NEW j \in Requests
       PROVE  /\ opening'[j] \in OpeningRow
              /\ opening'[j].by # NoUser =>
                   /\ j # k /\ opening'[j].by = opening[j].by /\ opening'[j].how = opening[j].how
                   /\ opening'[j].rows = opening[j].rows
                   /\ opening[j].since \subseteq opening'[j].since
                   /\ opening[j].by = u => k \in opening'[j].since
  <2>1. opening[j] \in OpeningRow
    BY <1>1 DEF Held
  <2>2. opening'[j] = IF j = k THEN NoOpening
                      ELSE IF opening[j].by = u THEN [opening[j] EXCEPT !.since = opening[j].since \cup {k}]
                      ELSE opening[j]
    BY DEF chatMovesTo
  <2>3. CASE j = k
    BY <2>2, <2>3 DEF NoOpening, OpeningRow, AnyUser
  <2>4. CASE j # k /\ opening[j].by = u
    <3> DEFINE q == opening[j].since \cup {k}
    <3>1. q \in SUBSET Requests /\ opening[j].since \subseteq q /\ k \in q
      BY <2>1 DEF OpeningRow
    <3>2. opening'[j] = [opening[j] EXCEPT !.since = q]
      BY <2>2, <2>4
    <3> HIDE DEF q
    <3>3. QED
      BY <2>1, <2>4, <3>1, <3>2 DEF OpeningRow
  <2>5. CASE j # k /\ opening[j].by # u
    BY <2>1, <2>2, <2>5
  <2>6. QED
    BY <2>3, <2>4, <2>5
<1>12. Held(opening', login', reset')
  <2>1. opening' \in [Requests -> OpeningRow]
    <3>1. opening' = [j \in Requests |-> opening'[j]]
      BY DEF chatMovesTo
    <3>2. QED
      BY <1>11, <3>1
  <2>2. ASSUME NEW l \in Logins, opening'[l].by # NoUser PROVE login'[l].st = "pending"
    <3>1. l \in Requests
      BY DEF Requests
    <3>2. l # k /\ opening[l].by # NoUser
      BY <1>11, <2>2, <3>1
    <3>3. QED
      BY <1>1, <3>2 DEF Held
  <2>3. ASSUME NEW s \in Resets, opening'[s].by # NoUser
        PROVE  reset'[s].st = "open"
               /\ (opening'[s].how = "question" => reset'[s].phone = Owner[opening'[s].by])
    <3>1. s \in Requests
      BY DEF Requests
    <3>2. s # k /\ opening[s].by # NoUser /\ opening'[s].by = opening[s].by
          /\ opening'[s].how = opening[s].how
      BY <1>11, <2>3, <3>1
    <3>3. QED
      BY <1>1, <3>2 DEF Held
  <2>4. QED
    BY <2>1, <2>2, <2>3 DEF Held
<1>13. Seen(opening', Pend')
  <2> SUFFICES ASSUME NEW j \in Requests, opening'[j].by # NoUser
               PROVE  Pend'[opening'[j].by] \subseteq {j} \cup opening'[j].rows \cup opening'[j].since
    BY DEF Seen
  <2> DEFINE v == opening[j].by
  <2>1. /\ opening'[j].by = v /\ opening'[j].rows = opening[j].rows
        /\ opening[j].since \subseteq opening'[j].since
        /\ v = u => k \in opening'[j].since
    BY <1>11
  <2>2. v \in TgUsers
    BY <1>1, <2>1 DEF Held, OpeningRow, AnyUser
  <2>3. Pend[v] \subseteq {j} \cup opening[j].rows \cup opening[j].since
    BY <1>1, <2>1 DEF Seen
  <2>4. Pend'[v] \subseteq Pend[v] \cup (IF v = u THEN {k} ELSE {})
    BY <1>5, <2>2
  <2> HIDE DEF v
  <2>5. QED
    BY <2>1, <2>3, <2>4
<1>14. OneEach(Pend')
  <2> SUFFICES ASSUME NEW v \in TgUsers, NEW i \in Requests, NEW j \in Requests,
                      i \in Pend'[v], j \in Pend'[v], i \in Logins <=> j \in Logins
               PROVE  i = j
    BY DEF OneEach
  <2>1. CASE i \in Pend[v] /\ j \in Pend[v]
    BY <1>1, <2>1 DEF OneEach
  <2>2. CASE i \notin Pend[v]
    <3>1. v = u /\ i = k
      BY <1>5, <2>2
    <3>2. QED
      BY <3>1
  <2>3. CASE j \notin Pend[v]
    <3>1. v = u /\ j = k
      BY <1>5, <2>3
    <3>2. QED
      BY <3>1
  <2>4. QED
    BY <2>1, <2>2, <2>3
<1>15. QED
  BY <1>10, <1>12, <1>13, <1>14 DEF IInv, Chats

\* Disarming keeps what the openings rely on.
LEMMA UnlockedState ==
    ASSUME IInv, NEW rows
    PROVE  /\ \A l \in Logins : ClearTelegramLoginPendingForTg(login, rows)[l].st = login[l].st
           /\ \A s \in Resets :
                 /\ ClearPasswordResetPendingForTg(reset, rows)[s].st = reset[s].st
                 /\ ClearPasswordResetPendingForTg(reset, rows)[s].phone = reset[s].phone
<1>1. (\A l \in Logins : login[l] \in LoginRow) /\ (\A s \in Resets : reset[s] \in ResetRow)
  BY DEF IInv, Core, Logs, Rsts, LoginOK, ResetOK
<1>2. ASSUME NEW l \in Logins PROVE ClearTelegramLoginPendingForTg(login, rows)[l].st = login[l].st
  <2>1. LoginDisarm(login[l]).st = login[l].st
    BY <1>1 DEF LoginRow, LoginDisarm
  <2>2. ClearTelegramLoginPendingForTg(login, rows)[l] \in {login[l], LoginDisarm(login[l])}
    BY DEF ClearTelegramLoginPendingForTg, LoginDisarm
  <2>3. QED
    BY <2>1, <2>2
<1>3. ASSUME NEW s \in Resets
      PROVE /\ ClearPasswordResetPendingForTg(reset, rows)[s].st = reset[s].st
            /\ ClearPasswordResetPendingForTg(reset, rows)[s].phone = reset[s].phone
  <2>1. ResetDisarm(reset[s]).st = reset[s].st /\ ResetDisarm(reset[s]).phone = reset[s].phone
    BY <1>1 DEF ResetRow, ResetDisarm
  <2>2. ClearPasswordResetPendingForTg(reset, rows)[s] \in {reset[s], ResetDisarm(reset[s])}
    BY DEF ClearPasswordResetPendingForTg, ResetDisarm
  <2>3. QED
    BY <2>1, <2>2
<1>4. QED
  BY <1>2, <1>3

\* /start login_<token> commits.
LEMMA LoginBegunStep ==
    ASSUME IInv, NEW l \in Logins, LoginBegun(l)
    PROVE  IInv'
<1> DEFINE u == opening[l].by
           rows == opening[l].rows
           how == opening[l].how
           C == ClearTelegramLoginPendingForTg(login, rows)
           t2 == Moved(Pend, u, l, rows)
           n == IF how = "question" THEN Nonce ELSE 0
           r == IF how = "blocked" THEN EndTelegramLoginRequest(login[l], "blocked")
                ELSE ArmTelegramLoginForTg(login[l], u, n)
<1>1. /\ u # NoUser /\ login' = [C EXCEPT ![l] = r] /\ chatMovesTo(l)
      /\ reset' = ClearPasswordResetPendingForTg(reset, rows)
      /\ how = "blocked" \/ \A k \in Logins \ {l} : C[k].pending # u
      /\ asked' = Nonce \/ UNCHANGED asked
      /\ UNCHANGED <<acct, link>>
  BY DEF LoginBegun
<1>2. /\ Logs(login, Pend) /\ Rsts(reset, Pend) /\ asked \in Nat /\ Held(opening, login, reset)
      /\ l \in Requests /\ l \notin Resets
  BY NamesAssumption DEF IInv, Core, Rest, Chats, Requests
<1>3. u \in TgUsers /\ login[l].st = "pending"
  BY <1>1, <1>2 DEF Held, OpeningRow, AnyUser
<1>4. n \in Nat /\ asked' \in Nat
  BY <1>1, <1>2 DEF Nonce
<1>5. Logs(C, t2) /\ Rsts(reset', t2)
  BY <1>1, <1>2, <1>3, LoginsUnlocked, ResetsUnlocked
<1>6. l \in t2[u]
  BY <1>3 DEF Moved
<1>7. C = [k \in Logins |-> C[k]]
  BY DEF ClearTelegramLoginPendingForTg
<1>8. UNCHANGED <<acct, link>> /\ \A k \in Logins \ {l} : C[k].st = login[k].st
  BY <1>1, UnlockedState
<1>9. \A s \in Resets : reset'[s].st = reset[s].st /\ reset'[s].phone = reset[s].phone
  BY <1>1, UnlockedState
<1> HIDE DEF C, t2, n
<1>10. LoginOK(l, r, t2)
  <2>1. LoginOK(l, login[l], Pend)
    BY <1>2 DEF Logs
  <2>2. LoginOK(l, EndTelegramLoginRequest(login[l], "blocked"), t2)
    BY <1>3, <2>1, LoginEnded
  <2>3. LoginOK(l, ArmTelegramLoginForTg(login[l], u, n), t2)
    BY <1>3, <1>4, <1>6, <2>1, LoginArmed
  <2>4. QED
    BY <2>2, <2>3
<1>11. how = "blocked" => r.pending = NoUser
  <2>1. EndTelegramLoginRequest(login[l], "blocked").pending = NoUser
    BY <1>2 DEF Logs, LoginOK, LoginRow, EndTelegramLoginRequest
  <2>2. QED
    BY <2>1
<1> HIDE DEF r
<1>12. Logs(login', t2)
  BY <1>1, <1>5, <1>10, LoginRowChanged
<1>13. login'[l] = r /\ \A k \in Logins \ {l} : login'[k] = C[k]
  BY <1>1, <1>7
<1>14. \A j \in Pend'[u] : (j \in Logins <=> l \in Logins) /\ l \in Pend'[u] => j = l
  <2> SUFFICES ASSUME NEW j \in Logins, j \in PendingIn(login', reset', u),
                      l \in PendingIn(login', reset', u), j # l
               PROVE  FALSE
    BY <1>3 DEF Pend, PendOf
  <2>1. login'[j].pending = u /\ login'[l].pending = u
    BY <1>2, NamesAssumption DEF PendingIn
  <2>2. how # "blocked"
    BY <1>1, <1>11, <1>13, <2>1
  <2>3. QED
    BY <1>1, <1>13, <2>1, <2>2
<1>15. \A k \in Logins \ {l} : login'[k].st = login[k].st
  BY <1>8, <1>13
<1>16. QED
  BY <1>1, <1>2, <1>4, <1>5, <1>9, <1>12, <1>14, <1>15, MoveStep DEF t2

\* /start pwr_<token> commits.
LEMMA ResetBegunStep ==
    ASSUME IInv, NEW s \in Resets, ResetBegun(s)
    PROVE  IInv'
<1> DEFINE u == opening[s].by
           rows == opening[s].rows
           how == opening[s].how
           C == ClearPasswordResetPendingForTg(reset, rows)
           t2 == Moved(Pend, u, s, rows)
           a == SetPasswordResetPendingTg(reset[s], u)
           b == SetPasswordResetConfirmNonce(a, Nonce)
           r == IF how = "question" THEN b ELSE a
<1>1. /\ u # NoUser /\ reset' = [C EXCEPT ![s] = r] /\ chatMovesTo(s)
      /\ login' = ClearTelegramLoginPendingForTg(login, rows)
      /\ \A k \in Resets \ {s} : C[k].pending # u
      /\ asked' = Nonce \/ UNCHANGED asked
      /\ UNCHANGED <<acct, link>>
  BY DEF ResetBegun
<1>2. /\ Logs(login, Pend) /\ Rsts(reset, Pend) /\ asked \in Nat /\ Held(opening, login, reset)
      /\ s \in Requests /\ s \notin Logins
  BY NamesAssumption DEF IInv, Core, Rest, Chats, Requests
<1>3. u \in TgUsers /\ reset[s].st = "open" /\ (how = "question" => reset[s].phone = Owner[u])
  BY <1>1, <1>2 DEF Held, OpeningRow, AnyUser
<1>4. Nonce \in Nat /\ asked' \in Nat
  BY <1>1, <1>2 DEF Nonce
<1>5. Rsts(C, t2) /\ Logs(login', t2)
  BY <1>1, <1>2, <1>3, LoginsUnlocked, ResetsUnlocked
<1>6. s \in t2[u]
  BY <1>3 DEF Moved
<1>7. C = [k \in Resets |-> C[k]]
  BY DEF ClearPasswordResetPendingForTg
<1>8. \A k \in Resets : C[k].st = reset[k].st /\ C[k].phone = reset[k].phone
  BY UnlockedState
<1>9. \A l \in Logins : login'[l].st = login[l].st
  BY <1>1, UnlockedState
<1> HIDE DEF C, t2
<1>10. ResetOK(s, r, t2)
  <2>1. ResetOK(s, reset[s], Pend)
    BY <1>2 DEF Rsts
  <2>2. ResetOK(s, a, t2) /\ a.pending = u /\ a.phone = reset[s].phone
    BY <1>3, <1>6, <2>1, ResetArmed
  <2> HIDE DEF a
  <2>3. how = "question" => ResetOK(s, b, t2)
    BY <1>3, <1>4, <2>2, ResetAsked
  <2>4. QED
    BY <2>2, <2>3
<1> HIDE DEF r
<1>12. Rsts(reset', t2)
  BY <1>1, <1>5, <1>10, ResetRowChanged
<1>13. \A k \in Resets \ {s} : reset'[k] = C[k]
  BY <1>1, <1>7
<1>14. \A j \in Pend'[u] : (j \in Logins <=> s \in Logins) /\ s \in Pend'[u] => j = s
  <2> SUFFICES ASSUME NEW j \in Resets, j \in PendingIn(login', reset', u), j # s, j \notin Logins
               PROVE  FALSE
    <3>1. \A j \in Pend'[u] : j \in PendingIn(login', reset', u) /\ (j \notin Logins => j \in Resets)
      BY <1>3 DEF Pend, PendOf, PendingIn
    <3>2. QED
      BY <1>2, <3>1
  <2>1. reset'[j].pending = u
    BY DEF PendingIn
  <2>2. QED
    BY <1>1, <1>13, <2>1
<1>15. \A k \in Resets \ {s} : reset'[k].st = reset[k].st /\ reset'[k].phone = reset[k].phone
  BY <1>8, <1>13
<1>16. QED
  BY <1>1, <1>2, <1>4, <1>5, <1>9, <1>12, <1>14, <1>15, MoveStep DEF t2

\* The invariant is inductive.
LEMMA InitIInv == TgInit => IInv
<1> SUFFICES ASSUME TgInit PROVE IInv
  OBVIOUS
<1>1. Rest
  BY DEF TgInit, Rest
<1>2. LinksOK(link)
  BY DEF TgInit, LinksOK, NoLink, LinkRow, AnyUser
<1>3. Logs(login, Pend)
  <2>1. login = [l \in Logins |-> NewLogin]
    BY DEF TgInit
  <2>2. QED
    BY <2>1, LoginStarted DEF Logs
<1>4. Rsts(reset, Pend)
  <2>1. reset = [s \in Resets |-> NewReset]
    BY DEF TgInit
  <2>2. \A s \in Resets : ResetOK(s, NewReset, Pend)
    <3>1. NewReset \in ResetRow
      BY DEF NewReset, ResetRow, AnyUser, AnyPhone
    <3>2. QED
      BY <3>1 DEF NewReset, ResetOK
  <2>3. QED
    BY <2>1, <2>2 DEF Rsts
<1>5. NoOpening \in OpeningRow /\ NoOpening.by = NoUser
  BY DEF NoOpening, OpeningRow, AnyUser
<1>6. opening = [k \in Requests |-> NoOpening]
  BY DEF TgInit
<1>7. Held(opening, login, reset) /\ Seen(opening, Pend)
  BY <1>5, <1>6 DEF Held, Seen, Requests
<1>8. OneEach(Pend)
  <2>1. \A u \in TgUsers : u # NoUser
    BY NamesAssumption DEF NoUser
  <2>2. \A u \in TgUsers : Pend[u] = {}
    BY <2>1 DEF TgInit, NewLogin, NewReset, Pend, PendOf, PendingIn
  <2>3. QED
    BY <2>2 DEF OneEach
<1>9. QED
  BY <1>1, <1>2, <1>3, <1>4, <1>7, <1>8 DEF IInv, Core, Chats

\* Every call is one of the operations above.
LEMMA Steps ==
    ASSUME IInv, Calls
    PROVE  \/ \E l \in Logins : StartTelegramLogin(l) \/ CompleteTelegramLogin(l)
           \/ \E l \in Logins, u \in TgUsers, n \in Nat : n # 0 /\
                 (CancelLogin(l, u, n) \/ AnswerByContact(l, u, n) \/ AnswerByLink(l, u, n))
           \/ \E u \in TgUsers : ConfirmTelegramLoginContact(u) \/ ConfirmTelegramPasswordResetContact(u)
           \/ \E s \in Resets : CompletePasswordReset(s)
           \/ \E s \in Resets, p \in Phones : StartPasswordReset(s, p)
           \/ \E s \in Resets, u \in TgUsers, n \in Nat : n # 0 /\
                 (RefuseReset(s, u, n) \/ ConfirmReset(s, u, n))
           \/ \E p \in Phones, u \in TgUsers : RedeemLinkToken(p, u) \/ LinkTelegramWebApp(p, u)
           \/ \E p \in Phones : GenerateLinkToken(p) \/ Unlink(p)
           \/ \E u \in TgUsers : TelegramWebAppPhoneSignIn(u)
<1>1. \A n \in 1 .. asked : n \in Nat /\ n # 0
  BY DEF IInv, Core, Rest
<1>2. ASSUME NEW u \in TgUsers, HandleUpdate(u)
      PROVE \/ \E p \in Phones : RedeemLinkToken(p, u)
            \/ ConfirmTelegramLoginContact(u) \/ ConfirmTelegramPasswordResetContact(u)
            \/ \E l \in Logins, n \in Nat : n # 0 /\
                  (CancelLogin(l, u, n) \/ AnswerByContact(l, u, n) \/ AnswerByLink(l, u, n))
            \/ \E s \in Resets, n \in Nat : n # 0 /\ (RefuseReset(s, u, n) \/ ConfirmReset(s, u, n))
            \/ \E p \in Phones : Unlink(p)
  BY <1>1, <1>2
     DEF HandleUpdate, handleLink,
         handleTelegramLoginContact, handlePasswordResetContact, handleTelegramLoginCallback,
         handlePasswordResetCallback, handleUnlink, GetTelegramAccountByTgUserID
<1>3. QED
  BY <1>2, Zenon DEF Calls, WebAppRoutes, LoginRoutes, ResetRoutes, LinkRoutes

LEMMA CallStep == ASSUME IInv, Calls, WaitsForLocks, UNCHANGED opening PROVE IInv'
<1>1. After
  BY Steps, LoginSteps, LoginContactStep, AnswerByContactStep,
     ResetSteps, StartResetStep, ResetContactStep, OtherSteps
<1>2. \A j \in Requests : opening[j].by # NoUser => Locked(j)
  BY DEF Locked
<1>3. QED
  BY <1>1, <1>2, CallKeeps DEF WaitsForLocks, Requests

LEMMA UpsetStep == ASSUME IInv, Upsets, UNCHANGED opening PROVE IInv'
<1>1. /\ Logs(login, Pend) /\ Rsts(reset, Pend)
      /\ (\A l \in Logins : login[l] \in LoginRow) /\ (\A s \in Resets : reset[s] \in ResetRow)
  BY DEF IInv, Core, Logs, Rsts, LoginOK, ResetOK
<1>2. ASSUME NEW l \in Logins, LoginExpires(l) PROVE IInv'
  <2>1. After
    BY <1>2, LoginSteps
  <2>2. login' = [login EXCEPT ![l] = [login[l] EXCEPT !.live = FALSE]] /\ UNCHANGED reset
    BY <1>2 DEF LoginExpires
  <2>3. [login[l] EXCEPT !.live = FALSE].st = login[l].st
    BY <1>1 DEF LoginRow
  <2>4. \A k \in Logins : login'[k].st = login[k].st
    BY <1>1, <2>2, <2>3 DEF Logs
  <2>5. QED
    BY <2>1, <2>2, <2>4, CallKeeps
<1>3. ASSUME NEW s \in Resets, ResetExpires(s) PROVE IInv'
  <2>1. After
    BY <1>3, ResetSteps
  <2>2. reset' = [reset EXCEPT ![s] = [reset[s] EXCEPT !.live = FALSE]] /\ UNCHANGED login
    BY <1>3 DEF ResetExpires
  <2>3. [reset[s] EXCEPT !.live = FALSE].st = reset[s].st
        /\ [reset[s] EXCEPT !.live = FALSE].phone = reset[s].phone
    BY <1>1 DEF ResetRow
  <2>4. \A k \in Resets : reset'[k].st = reset[k].st /\ reset'[k].phone = reset[k].phone
    BY <1>1, <2>2, <2>3 DEF Rsts
  <2>5. QED
    BY <2>1, <2>2, <2>4, CallKeeps
<1>4. ASSUME (\E p \in Phones : Ban(p)) \/ KillSwitch PROVE IInv'
  <2>1. After
    BY <1>4, OtherSteps
  <2>2. UNCHANGED <<login, reset>>
    BY <1>4 DEF Ban, KillSwitch
  <2>3. QED
    BY <2>1, <2>2, CallKeeps
<1>5. QED
  BY <1>2, <1>3, <1>4 DEF Upsets

LEMMA Inductive == ASSUME IInv, [TgNext]_tgVars PROVE IInv'
<1>1. CASE UNCHANGED tgVars
  <2>1. UNCHANGED <<acct, link, login, reset, asked, stale, opening>>
    BY <1>1 DEF tgVars
  <2>2. After
    BY <2>1, Frame DEF After
  <2>3. QED
    BY <2>1, <2>2, CallKeeps
<1>2. CASE TgNext
  BY <1>2, StartStep, LoginBegunStep, ResetBegunStep, RollbackStep, CallStep, UpsetStep
     DEF TgNext, StartEnds
<1>3. QED
  BY <1>1, <1>2

\* A set without two different elements.
LEMMA AtMostOne ==
    ASSUME NEW S, \A x, y \in S : x = y
    PROVE  Cardinality(S) \in 0 .. 1
<1>1. CASE S = {}
  BY <1>1, FS_EmptySet
<1>2. CASE S # {}
  <2>1. PICK x : S = {x}
    BY <1>2
  <2>2. QED
    BY <2>1, FS_Singleton
<1>3. QED
  BY <1>1, <1>2

\* The rules about links, approvals and chats follow from the invariant.
LEMMA Implied == IInv => VerifiedLinkIsOwner /\ ApprovedByOwner /\ OneMeaning
<1> SUFFICES ASSUME IInv PROVE VerifiedLinkIsOwner /\ ApprovedByOwner /\ OneMeaning
  OBVIOUS
<1>1. VerifiedLinkIsOwner
  <2>1. \A p \in Phones : link[p].verified => Owner[link[p].tg] = p
    BY DEF IInv, Core, LinksOK
  <2>2. ASSUME NEW u \in TgUsers PROVE Cardinality(GetTelegramAccountByTgUserID(u)) <= 1
    <3>1. \A p, q \in GetTelegramAccountByTgUserID(u) : p = q
      BY NamesAssumption DEF IInv, Core, LinksOK, GetTelegramAccountByTgUserID, NoUser
    <3>2. QED
      BY <3>1, AtMostOne
  <2>3. QED
    BY <2>1, <2>2 DEF VerifiedLinkIsOwner
<1>2. ApprovedByOwner
  BY DEF IInv, Core, Logs, Rsts, LoginOK, ResetOK, ApprovedByOwner
<1>3. OneMeaning
  <2>1. (\A l \in Logins : login[l].sessions <= 1) /\ stale = {}
    BY DEF IInv, Core, Rest, Logs, LoginOK
  <2>2. ASSUME NEW u \in TgUsers
        PROVE  /\ Cardinality({l \in Logins : login[l].pending = u}) <= 1
               /\ Cardinality({s \in Resets : reset[s].pending = u}) <= 1
    <3> DEFINE A == {l \in Logins : login[l].pending = u}
               B == {s \in Resets : reset[s].pending = u}
    <3>1. u # NoUser
      BY NamesAssumption DEF NoUser
    <3>2. (\A l \in A : l \in Pend[u] /\ l \in Logins) /\ (\A s \in B : s \in Pend[u] /\ s \in Resets)
      BY <3>1 DEF IInv, Core, Logs, Rsts, LoginOK, ResetOK
    <3> HIDE DEF A, B
    <3>3. (\A i, j \in A : i = j) /\ (\A i, j \in B : i = j)
      BY <3>2, NamesAssumption DEF IInv, Chats, OneEach, Requests
    <3>4. Cardinality(A) \in 0 .. 1 /\ Cardinality(B) \in 0 .. 1
      BY <3>3, AtMostOne
    <3>5. QED
      BY <3>4 DEF A, B
  <2>3. QED
    BY <2>1, <2>2 DEF OneMeaning
<1>4. QED
  BY <1>1, <1>2, <1>3

-----------------------------------------------------------------------------
(* What a step never does.                                                 *)

\* Nobody but the first opener gets a request.
OpenerKept == \A l \in Logins : login[l].opened # NoUser => login'[l].opened = login[l].opened
\* A finished reset leaves no link but its confirmer's.
LinkCleaned ==
    \A s \in Resets : reset[s].st = "verified" /\ reset'[s].st = "used" /\ reset'[s].phone # "none"
        => link'[reset[s].phone] \in {NoLink, [tg |-> reset[s].by, verified |-> TRUE]}

\* No change of a row forgets who opened it.
LEMMA OpenedRow ==
    ASSUME NEW r \in LoginRow, NEW u, NEW n, NEW p, NEW st, NEW c
    PROVE  /\ LoginDisarm(r).opened = r.opened
           /\ EndTelegramLoginRequest(r, st).opened = r.opened
           /\ ApproveTelegramLoginRequest(r, u, p, c).opened = r.opened
           /\ AskTelegramLoginConfirmAfterContact(r, p, n).opened = r.opened
           /\ ConsumeTelegramLoginRequest(r).opened = r.opened
           /\ [r EXCEPT !.live = FALSE].opened = r.opened
           /\ r.opened # NoUser => ArmTelegramLoginForTg(r, u, n).opened = r.opened
BY DEF LoginRow, LoginDisarm, EndTelegramLoginRequest, ApproveTelegramLoginRequest,
       AskTelegramLoginConfirmAfterContact, ConsumeTelegramLoginRequest, ArmTelegramLoginForTg

\* Nor does disarming a chat.
LEMMA OpenedCleared ==
    ASSUME NEW L, \A k \in Logins : L[k] \in LoginRow, NEW u, NEW rows
    PROVE  \A k \in Logins : /\ ClearAllTelegramLoginPendingForTg(L, u)[k].opened = L[k].opened
                             /\ ClearTelegramLoginPendingForTg(L, rows)[k].opened = L[k].opened
<1> SUFFICES ASSUME NEW k \in Logins
             PROVE  /\ ClearAllTelegramLoginPendingForTg(L, u)[k].opened = L[k].opened
                    /\ ClearTelegramLoginPendingForTg(L, rows)[k].opened = L[k].opened
  OBVIOUS
<1>1. /\ ClearAllTelegramLoginPendingForTg(L, u)[k] \in {L[k], LoginDisarm(L[k])}
      /\ ClearTelegramLoginPendingForTg(L, rows)[k] \in {L[k], LoginDisarm(L[k])}
  BY DEF ClearAllTelegramLoginPendingForTg, ClearTelegramLoginPendingForTg, LoginDisarm
<1>2. QED
  BY <1>1, OpenedRow

\* The first opener keeps a request through every step.
LEMMA OpenerStep == ASSUME IInv, TgNext PROVE OpenerKept
<1>1. /\ \A k \in Logins : login[k] \in LoginRow /\ LoginOK(k, login[k], Pend)
      /\ DOMAIN login = Logins /\ login = [k \in Logins |-> login[k]]
  BY DEF IInv, Core, Logs, LoginOK
<1>2. CASE UNCHANGED login
  BY <1>2 DEF OpenerKept
<1>3. ASSUME NEW l \in Logins, NEW r, login[l].opened # NoUser => r.opened = login[l].opened,
             login' = [login EXCEPT ![l] = r]
      PROVE OpenerKept
  <2>1. login'[l] = r /\ \A k \in Logins \ {l} : login'[k] = login[k]
    BY <1>1, <1>3
  <2>2. QED
    BY <1>3, <2>1 DEF OpenerKept
<1>4. ASSUME NEW l \in Logins, StartTelegramLogin(l) PROVE OpenerKept
  <2>1. login[l].opened = NoUser
    BY <1>1, <1>4 DEF StartTelegramLogin, LoginOK
  <2>2. QED
    BY <1>3, <1>4, <2>1 DEF StartTelegramLogin
<1>5. ASSUME NEW l \in Logins, CompleteTelegramLogin(l) PROVE OpenerKept
  BY <1>1, <1>3, <1>5, OpenedRow DEF CompleteTelegramLogin
<1>6. ASSUME NEW l \in Logins, LoginExpires(l) PROVE OpenerKept
  <2>1. login' = [login EXCEPT ![l] = [login[l] EXCEPT !.live = FALSE]]
    BY <1>6 DEF LoginExpires
  <2>2. [login[l] EXCEPT !.live = FALSE].opened = login[l].opened
    BY <1>1 DEF LoginRow
  <2>3. QED
    BY <1>3, <2>1, <2>2
<1>7. ASSUME NEW l \in Logins, NEW u \in TgUsers, NEW n \in Nat, CancelLogin(l, u, n) PROVE OpenerKept
  BY <1>1, <1>3, <1>7, OpenedRow DEF CancelLogin
<1>8. ASSUME NEW l \in Logins, NEW u \in TgUsers, NEW n \in Nat, AnswerByLink(l, u, n) PROVE OpenerKept
  <2>1. PICK p : \/ login' = [login EXCEPT ![l] = ApproveTelegramLoginRequest(login[l], u, p, l \notin stale)]
                 \/ login' = [login EXCEPT ![l] = EndTelegramLoginRequest(login[l], "blocked")]
    BY <1>8 DEF AnswerByLink
  <2>2. QED
    BY <1>1, <1>3, <2>1, OpenedRow
<1>9. ASSUME NEW L, \A k \in Logins : L[k] \in LoginRow /\ L[k].opened = login[k].opened,
             NEW u \in TgUsers, NEW p, NEW R, linkVerifiedTelegramInTx(p, u, L, R)
      PROVE OpenerKept
  <2>1. CASE login' = L
    BY <1>9, <2>1 DEF OpenerKept
  <2>2. CASE login' = ClearAllTelegramLoginPendingForTg(L, u)
    <3>1. \A k \in Logins : login'[k].opened = L[k].opened
      BY <1>9, <2>2, OpenedCleared
    <3>2. QED
      BY <1>9, <3>1 DEF OpenerKept
  <2>3. QED
    BY <1>9, <2>1, <2>2 DEF linkVerifiedTelegramInTx
<1>10. ASSUME NEW l \in Logins, NEW u \in TgUsers, NEW n \in Nat, AnswerByContact(l, u, n)
       PROVE OpenerKept
  <2> DEFINE a == ApproveTelegramLoginRequest(login[l], u, login[l].contact, l \notin stale)
             A == [login EXCEPT ![l] = a]
  <2>1. \/ login' = [login EXCEPT ![l] = EndTelegramLoginRequest(login[l], "blocked")]
        \/ linkVerifiedTelegramInTx(login[l].contact, u, A, reset)
    BY <1>10 DEF AnswerByContact
  <2>2. a \in LoginRow
    <3>1. login[l].pending = u /\ login[l].contact # "none"
      BY <1>10 DEF AnswerByContact, Answerable
    <3>2. login[l].contact = Owner[u] /\ Owner[u] \in Phones
      BY <1>1, <3>1, NamesAssumption DEF LoginOK
    <3>3. (l \notin stale) = TRUE
      BY DEF IInv, Core, Rest
    <3>4. LoginOK(l, a, Pend)
      BY <1>1, <3>1, <3>2, <3>3, LoginApproved
    <3> HIDE DEF a
    <3>5. QED
      BY <3>4 DEF LoginOK
  <2>3. a.opened = login[l].opened
    BY <1>1, OpenedRow
  <2> HIDE DEF a
  <2>4. \A k \in Logins : A[k] \in LoginRow /\ A[k].opened = login[k].opened
    BY <1>1, <2>2, <2>3
  <2> HIDE DEF A
  <2>5. CASE login' = [login EXCEPT ![l] = EndTelegramLoginRequest(login[l], "blocked")]
    BY <1>1, <1>3, <2>5, OpenedRow
  <2>6. QED
    BY <1>9, <2>1, <2>4, <2>5
<1>11. ASSUME NEW u \in TgUsers, ConfirmTelegramLoginContact(u) PROVE OpenerKept
  <2>1. PICK l \in WaitsForContact(u) :
          \/ login' = [login EXCEPT ![l] = EndTelegramLoginRequest(login[l], "blocked")]
          \/ login' = [login EXCEPT ![l] = AskTelegramLoginConfirmAfterContact(login[l], Owner[u], Nonce)]
    BY <1>11 DEF ConfirmTelegramLoginContact
  <2>2. l \in Logins
    BY DEF WaitsForContact
  <2>3. QED
    BY <1>1, <1>3, <2>1, <2>2, OpenedRow
<1>12. ASSUME NEW l \in Logins, LoginBegun(l) PROVE OpenerKept
  <2> DEFINE C == ClearTelegramLoginPendingForTg(login, opening[l].rows)
  <2>1. C = [k \in Logins |-> C[k]]
    BY DEF ClearTelegramLoginPendingForTg
  <2>2. \A k \in Logins : C[k].opened = login[k].opened
    BY <1>1, OpenedCleared
  <2>3. PICK r : /\ login' = [C EXCEPT ![l] = r]
                 /\ \/ r = EndTelegramLoginRequest(login[l], "blocked")
                    \/ \E u, n : r = ArmTelegramLoginForTg(login[l], u, n)
    BY <1>12 DEF LoginBegun
  <2> HIDE DEF C
  <2>4. login[l].opened # NoUser => r.opened = login[l].opened
    BY <1>1, <2>3, OpenedRow
  <2>5. login'[l] = r /\ \A k \in Logins \ {l} : login'[k] = C[k]
    BY <2>1, <2>3
  <2>6. QED
    BY <2>2, <2>4, <2>5 DEF OpenerKept
<1>13. ASSUME NEW s \in Resets, ResetBegun(s) PROVE OpenerKept
  <2>1. login' = ClearTelegramLoginPendingForTg(login, opening[s].rows)
    BY <1>13 DEF ResetBegun
  <2>2. \A k \in Logins : login'[k].opened = login[k].opened
    BY <1>1, <2>1, OpenedCleared
  <2>3. QED
    BY <2>2 DEF OpenerKept
<1>14. ASSUME NEW u \in TgUsers, TelegramWebAppPhoneSignIn(u) PROVE OpenerKept
  BY <1>1, <1>9, <1>14 DEF TelegramWebAppPhoneSignIn
<1>15. ASSUME NEW p \in Phones, NEW u \in TgUsers, LinkTelegramWebApp(p, u) PROVE OpenerKept
  BY <1>1, <1>9, <1>15 DEF LinkTelegramWebApp
<1>16. ASSUME \/ \E u \in TgUsers : ConfirmTelegramPasswordResetContact(u)
              \/ \E s \in Resets : CompletePasswordReset(s) \/ ResetExpires(s)
              \/ \E s \in Resets, p \in Phones : StartPasswordReset(s, p)
              \/ \E s \in Resets, u \in TgUsers, n \in Nat : RefuseReset(s, u, n) \/ ConfirmReset(s, u, n)
              \/ \E p \in Phones, u \in TgUsers : RedeemLinkToken(p, u)
              \/ \E p \in Phones : GenerateLinkToken(p) \/ Unlink(p) \/ Ban(p)
              \/ KillSwitch
       PROVE OpenerKept
  BY <1>2, <1>16
     DEF ConfirmTelegramPasswordResetContact, CompletePasswordReset, ResetExpires, StartPasswordReset,
         RefuseReset, ConfirmReset, RedeemLinkToken, GenerateLinkToken, Unlink, Ban, KillSwitch
<1>17. ASSUME (\E u \in TgUsers : HandleStart(u)) \/ (\E k \in Requests : Rollback(k)) PROVE OpenerKept
  BY <1>2, <1>17 DEF HandleStart, handleTelegramLoginStart, handlePasswordResetStart,
                     beginTelegramLogin, beginTelegramPasswordReset, lockPending, Rollback
<1>18. ASSUME Calls PROVE OpenerKept
  BY <1>18, Steps, <1>4, <1>5, <1>7, <1>8, <1>10, <1>11, <1>14, <1>15, <1>16, Zenon
<1>19. ASSUME Upsets PROVE OpenerKept
  BY <1>6, <1>16, <1>19 DEF Upsets
<1>20. QED
  BY <1>12, <1>13, <1>17, <1>18, <1>19 DEF TgNext, StartEnds

\* Disarming a chat verifies no reset and finishes none.
LEMMA StateCleared ==
    ASSUME NEW R, \A k \in Resets : R[k] \in ResetRow, NEW u, NEW rows
    PROVE  \A k \in Resets : /\ ClearAllPasswordResetPendingForTg(R, u)[k].st = R[k].st
                             /\ ClearPasswordResetPendingForTg(R, rows)[k].st = R[k].st
<1> SUFFICES ASSUME NEW k \in Resets
             PROVE  /\ ClearAllPasswordResetPendingForTg(R, u)[k].st = R[k].st
                    /\ ClearPasswordResetPendingForTg(R, rows)[k].st = R[k].st
  OBVIOUS
<1>1. /\ ClearAllPasswordResetPendingForTg(R, u)[k] \in {R[k], ResetDisarm(R[k])}
      /\ ClearPasswordResetPendingForTg(R, rows)[k] \in {R[k], ResetDisarm(R[k])}
  BY DEF ClearAllPasswordResetPendingForTg, ClearPasswordResetPendingForTg, ResetDisarm
<1>2. ResetDisarm(R[k]).st = R[k].st
  BY DEF ResetDisarm, ResetRow
<1>3. QED
  BY <1>1, <1>2

\* A verified reset is finished only by CompletePasswordReset, which leaves no
\* link but the one of the user who confirmed it.
LEMMA CleanStep == ASSUME IInv, TgNext PROVE LinkCleaned
<1> DEFINE Stays(k) == reset'[k].st = reset[k].st \/ reset[k].st # "verified"
<1>1. /\ \A k \in Resets : reset[k] \in ResetRow /\ ResetOK(k, reset[k], Pend)
      /\ DOMAIN reset = Resets /\ reset = [k \in Resets |-> reset[k]]
  BY DEF IInv, Core, Rsts, ResetOK
<1>2. ASSUME \A k \in Resets : Stays(k) PROVE LinkCleaned
  BY <1>2 DEF LinkCleaned
<1>3. ASSUME NEW s \in Resets, NEW r, reset' = [reset EXCEPT ![s] = r],
             reset[s].st = "verified" => r.st = "verified"
      PROVE LinkCleaned
  <2>1. reset'[s] = r /\ \A k \in Resets \ {s} : reset'[k] = reset[k]
    BY <1>1, <1>3
  <2>2. QED
    BY <1>2, <1>3, <2>1
<1>4. ASSUME NEW s \in Resets, CompletePasswordReset(s) PROVE LinkCleaned
  <2>1. /\ reset' = [reset EXCEPT ![s] = MarkPasswordResetUsed(reset[s])] /\ reset[s].st = "verified"
        /\ link' = DeleteUnattributedTelegramAccount(link, reset[s].phone, reset[s].by)
    BY <1>4 DEF CompletePasswordReset
  <2>2. reset[s].phone \in Phones /\ link \in [Phones -> LinkRow]
    BY <1>1, <2>1 DEF ResetOK, IInv, Core, LinksOK
  <2>3. link'[reset[s].phone] \in {NoLink, [tg |-> reset[s].by, verified |-> TRUE]}
    <3>1. CASE link[reset[s].phone].verified /\ link[reset[s].phone].tg = reset[s].by
      <4>1. link' = link
        BY <2>1, <3>1 DEF DeleteUnattributedTelegramAccount
      <4>2. link[reset[s].phone] = [tg |-> reset[s].by, verified |-> TRUE]
        BY <2>2, <3>1 DEF LinkRow
      <4>3. QED
        BY <4>1, <4>2
    <3>2. CASE ~(link[reset[s].phone].verified /\ link[reset[s].phone].tg = reset[s].by)
      <4>1. link' = [link EXCEPT ![reset[s].phone] = NoLink]
        BY <2>1, <3>2 DEF DeleteUnattributedTelegramAccount
      <4>2. QED
        BY <2>2, <4>1
    <3>3. QED
      BY <3>1, <3>2
  <2>4. \A k \in Resets \ {s} : reset'[k] = reset[k]
    BY <1>1, <2>1
  <2>5. QED
    BY <2>3, <2>4 DEF LinkCleaned
<1>5. ASSUME NEW s \in Resets, NEW p \in Phones, StartPasswordReset(s, p) PROVE LinkCleaned
  <2>1. reset[s].st = "none"
    BY <1>5 DEF StartPasswordReset
  <2>2. \A k \in Resets \ {s} : reset'[k] = reset[k] \/ reset'[k] = [NewReset EXCEPT !.st = "used"]
    BY <1>5 DEF StartPasswordReset
  <2>3. [NewReset EXCEPT !.st = "used"].phone = "none"
    BY DEF NewReset
  <2>4. QED
    BY <2>1, <2>2, <2>3 DEF LinkCleaned
<1>6. ASSUME NEW s \in Resets, NEW u \in TgUsers, NEW n \in Nat, RefuseReset(s, u, n) PROVE LinkCleaned
  BY <1>3, <1>6 DEF RefuseReset, ResetAnswerable
<1>7. ASSUME NEW s \in Resets, NEW u \in TgUsers, NEW n \in Nat, ConfirmReset(s, u, n) PROVE LinkCleaned
  BY <1>3, <1>7 DEF ConfirmReset, ResetAnswerable
<1>8. ASSUME NEW s \in Resets, ResetExpires(s) PROVE LinkCleaned
  <2>1. reset' = [reset EXCEPT ![s] = [reset[s] EXCEPT !.live = FALSE]]
    BY <1>8 DEF ResetExpires
  <2>2. [reset[s] EXCEPT !.live = FALSE].st = reset[s].st
    BY <1>1 DEF ResetRow
  <2>3. QED
    BY <1>3, <2>1, <2>2
<1>9. ASSUME NEW u \in TgUsers, ConfirmTelegramPasswordResetContact(u) PROVE LinkCleaned
  <2>1. PICK s \in Resets : reset[s].st = "open" /\
          reset' = [reset EXCEPT ![s] = SetPasswordResetConfirmNonce(reset[s], Nonce)]
    BY <1>9 DEF ConfirmTelegramPasswordResetContact
  <2>2. QED
    BY <1>3, <2>1
<1>10. ASSUME NEW s \in Resets, ResetBegun(s) PROVE LinkCleaned
  <2> DEFINE C == ClearPasswordResetPendingForTg(reset, opening[s].rows)
  <2>1. C = [k \in Resets |-> C[k]]
    BY DEF ClearPasswordResetPendingForTg
  <2>2. \A k \in Resets : C[k].st = reset[k].st
    BY <1>1, StateCleared
  <2>3. reset[s].st = "open" /\ \E a : reset' = [C EXCEPT ![s] = a]
    BY <1>10 DEF ResetBegun, IInv, Chats, Held
  <2> HIDE DEF C
  <2>4. \A k \in Resets \ {s} : reset'[k] = C[k]
    BY <2>1, <2>3
  <2>5. QED
    BY <1>2, <2>2, <2>3, <2>4
<1>11. ASSUME NEW u \in TgUsers, NEW L, NEW p, linkVerifiedTelegramInTx(p, u, L, reset) PROVE LinkCleaned
  <2>1. reset' = reset \/ reset' = ClearAllPasswordResetPendingForTg(reset, u)
    BY <1>11 DEF linkVerifiedTelegramInTx
  <2>2. \A k \in Resets : reset'[k].st = reset[k].st
    BY <1>1, <2>1, StateCleared
  <2>3. QED
    BY <1>2, <2>2
<1>12. ASSUME NEW l \in Logins, NEW u \in TgUsers, NEW n \in Nat, AnswerByContact(l, u, n)
       PROVE LinkCleaned
  <2>1. UNCHANGED reset \/ \E L, p : linkVerifiedTelegramInTx(p, u, L, reset)
    BY <1>12 DEF AnswerByContact
  <2>2. QED
    BY <1>2, <1>11, <2>1
<1>13. ASSUME NEW l \in Logins, LoginBegun(l) PROVE LinkCleaned
  <2>1. reset' = ClearPasswordResetPendingForTg(reset, opening[l].rows)
    BY <1>13 DEF LoginBegun
  <2>2. QED
    BY <1>1, <1>2, <2>1, StateCleared
<1>14. ASSUME NEW u \in TgUsers, TelegramWebAppPhoneSignIn(u) PROVE LinkCleaned
  BY <1>11, <1>14 DEF TelegramWebAppPhoneSignIn
<1>15. ASSUME NEW p \in Phones, NEW u \in TgUsers, LinkTelegramWebApp(p, u) PROVE LinkCleaned
  BY <1>11, <1>15 DEF LinkTelegramWebApp
<1>16. ASSUME \/ \E l \in Logins : StartTelegramLogin(l) \/ CompleteTelegramLogin(l) \/ LoginExpires(l)
              \/ \E l \in Logins, u \in TgUsers, n \in Nat : CancelLogin(l, u, n) \/ AnswerByLink(l, u, n)
              \/ \E u \in TgUsers : ConfirmTelegramLoginContact(u)
              \/ \E p \in Phones, u \in TgUsers : RedeemLinkToken(p, u)
              \/ \E p \in Phones : GenerateLinkToken(p) \/ Unlink(p) \/ Ban(p)
              \/ KillSwitch
       PROVE LinkCleaned
  <2>1. UNCHANGED reset
    BY <1>16
       DEF StartTelegramLogin, CompleteTelegramLogin, LoginExpires, CancelLogin, AnswerByLink,
           ConfirmTelegramLoginContact, RedeemLinkToken, GenerateLinkToken, Unlink, Ban, KillSwitch
  <2>2. QED
    BY <1>2, <2>1
<1>17. ASSUME (\E u \in TgUsers : HandleStart(u)) \/ (\E k \in Requests : Rollback(k)) PROVE LinkCleaned
  <2>1. UNCHANGED reset
    BY <1>17 DEF HandleStart, handleTelegramLoginStart, handlePasswordResetStart,
                 beginTelegramLogin, beginTelegramPasswordReset, lockPending, Rollback
  <2>2. QED
    BY <1>2, <2>1
<1>18. ASSUME Calls PROVE LinkCleaned
  BY <1>18, Steps, <1>4, <1>5, <1>6, <1>7, <1>9, <1>12, <1>14, <1>15, <1>16, Zenon
<1>19. ASSUME Upsets PROVE LinkCleaned
  BY <1>8, <1>16, <1>19 DEF Upsets
<1>20. QED
  BY <1>10, <1>13, <1>17, <1>18, <1>19 DEF TgNext, StartEnds

-----------------------------------------------------------------------------
\* A browser is signed in and a password reset only for the owner of the
\* profile's number, who was asked about that very request; a chat has one
\* meaning at a time, the first opener keeps a request, and a finished reset
\* leaves no foreign link (telegram_login.go, password_reset.go).
THEOREM TgSafeThm == TgSpec => TgSafe
<1>1. TgSpec => []IInv
  BY InitIInv, Inductive, PTL DEF TgSpec
<1>2. IInv => VerifiedLinkIsOwner /\ ApprovedByOwner /\ OneMeaning
  BY Implied
<1>3. IInv /\ [TgNext]_tgVars => [OpenerKept /\ LinkCleaned]_tgVars
  BY OpenerStep, CleanStep
<1>4. FirstOpenerKeeps <=> [][OpenerKept /\ LinkCleaned]_tgVars
  BY PTL DEF FirstOpenerKeeps, OpenerKept, LinkCleaned
<1>5. QED
  BY <1>1, <1>2, <1>3, <1>4, PTL DEF TgSpec, TgSafe

-----------------------------------------------------------------------------
(***************************************************************************)
(* The classroom (Classroom), for any PCs, keys, licence terms and seats.  *)
(*                                                                         *)
(* Whoever holds the row lock of b2b_org may still rely, when it commits,  *)
(* on the seats, stations and key it read under the lock: what the others  *)
(* do without the lock only frees seats or adds licences (CallOK, DeskOK). *)
(* A PC whose station is in use was seen at its last renewal (PcOK).       *)
(***************************************************************************)
ClassConstants ==
    /\ Admin \notin Machines /\ Nobody \notin Machines /\ Admin # Nobody
    /\ MaxStations \in Nat /\ MaxTime \in Nat /\ UsesPerSeat \in Nat /\ LicenceTerms \subseteq Nat

LicenceRow == [seats : {1}, from : Nat, till : Nat]
CodeRow == [st : {"none", "live", "revoked"}, used : Nat, max : Nat, ends : Nat, won : Nat]
StationRow ==
    [st : {"none", "active", "revoked", "deleted"}, m : Machines \cup {Nobody}, gen : {0, 1},
     seen : Nat, act : Nat, touched : BOOLEAN]
PcRow == [id : 0 .. MaxStations, gen : {0, 1}, till : Nat, nonce : BOOLEAN, phase : {"up", "blocked"}]
CallRow ==
    [pc : {"idle", "read", "locked", "answer"}, c : Codes \cup {Nobody}, t0 : Nat,
     seats : Nat, active : Nat]
DeskRow ==
    [pc : {"idle", "begun", "locked"}, op : {"none", "reactivate", "open", "rotate"},
     s : 0 .. MaxStations, t0 : Nat, seats : Nat, active : Nat]

LiveOf(L, t) == {l \in L : l.from <= t /\ l.till > t}
SeatsOf(L, t) == Cardinality(LiveOf(L, t))
ActiveOf(S) == {i \in Class!Ids : S[i].st = "active"}
Taken(S) == Cardinality(ActiveOf(S))

Contract(L) == IsFiniteSet(L) /\ L \subseteq LicenceRow
Fleet(S) == S \in [Class!Ids -> StationRow]

\* The keys K: no use without a PC, none beyond max_uses, one that opens at t.
Keyring(K, t) ==
    /\ K \in [Codes -> CodeRow]
    /\ \A c \in Codes : K[c].used <= K[c].max /\ K[c].used = K[c].won
    /\ \A c, d \in Codes :
          K[c].st = "live" /\ K[c].ends > t /\ K[d].st = "live" /\ K[d].ends > t => c = d

\* Station i, while its row exists, is the PC m with its keypair g.
Exists(s) == s.st \in {"active", "revoked"}
Owns(S, i, m, g) == S[i].st # "none" /\ (Exists(S[i]) => S[i].m = m /\ S[i].gen = g)

\* The PC m is p and its enrolment q, at t.
PcOK(m, p, q, S, t) ==
    /\ p.till <= t + 1
    /\ p.id # 0 => /\ Owns(S, p.id, m, p.gen)
                   /\ Exists(S[p.id]) /\ S[p.id].touched => p.till <= S[p.id].seen + 1
    /\ p.id = 0 => p.till = 0 /\ p.nonce = FALSE
    /\ q.pc # "idle" => p.id = 0

\* A transaction that began at t0 counted n stations and k seats.
Counts(S, L, n, k, t0) == Taken(S) <= n /\ k <= SeatsOf(L, t0)

CallOK(m, p, q, S, K, L, t) ==
    /\ q.t0 <= t
    /\ q.pc \in {"read", "locked"} => q.c \in Codes
    /\ q.pc = "answer" => q.active \in Class!Ids /\ Owns(S, q.active, m, p.gen)
    /\ q.pc = "locked" => /\ K[q.c].st = "live" /\ K[q.c].used < K[q.c].max
                          /\ Counts(S, L, q.active, q.seats, q.t0)

DeskOK(a, S, L, t) ==
    /\ a.t0 <= t
    /\ a.op = "reactivate" => a.s \in Class!Ids
    /\ a.pc = "locked" => Counts(S, L, a.active, a.seats, a.t0)

Locks(k, q, a) ==
    /\ k \in Machines \cup {Admin, Nobody}
    /\ k = Admin <=> a.pc = "locked"
    /\ \A m \in Machines : k = m <=> q[m].pc = "locked"

ClassRows ==
    /\ now \in 0 .. MaxTime /\ org \in {"active", "suspended", "gone"}
    /\ Contract(licences) /\ Fleet(station)
    /\ machine \in [Machines -> PcRow] /\ req \in [Machines -> CallRow] /\ adm \in DeskRow

ClassIInv ==
    /\ ClassRows
    /\ Keyring(code, now)
    /\ Locks(lock, req, adm)
    /\ \A m \in Machines : PcOK(m, machine[m], req[m], station, now)
    /\ \A m \in Machines : CallOK(m, machine[m], req[m], station, code, licences, now)
    /\ DeskOK(adm, station, licences, now)

-----------------------------------------------------------------------------
(* The seats of a contract.                                                 *)

\* A set of natural numbers that is not empty has a least element.
LEMMA LeastNat ==
    ASSUME NEW T, T \subseteq Nat, T # {}
    PROVE  \E x \in T : \A y \in T : x <= y
<1> DEFINE R == {ss \in Nat \X Nat : ss[1] < ss[2]}
<1>1. IsWellFoundedOn(R, Nat)
  BY NatLessThanWellFounded DEF OpToRel
<1>2. \A x, y \in Nat : y < x => <<y, x>> \in R
  OBVIOUS
<1> HIDE DEF R
<1>3. PICK x \in T : \A y \in T : ~(<<y, x>> \in R)
  BY <1>1, WFMin
<1>4. ASSUME NEW y \in T PROVE x <= y
  <2>1. x \in Nat /\ y \in Nat
    OBVIOUS
  <2>2. ~(y < x)
    BY <1>2, <1>3, <2>1
  <2>3. QED
    BY <2>1, <2>2
<1>5. QED
  BY <1>4

\* A set of finite subsets that is not empty has one of the fewest elements.
LEMMA LeastSubset ==
    ASSUME NEW R, IsFiniteSet(R), NEW X, X \subseteq SUBSET R, X # {}
    PROVE  \E s \in X : \A t \in X : Cardinality(s) <= Cardinality(t)
<1> DEFINE T == {n \in Nat : \E s \in X : Cardinality(s) = n}
<1>1. \A s \in X : IsFiniteSet(s) /\ Cardinality(s) \in Nat
  BY FS_Subset, FS_CardinalityType
<1>2. T # {} /\ T \subseteq Nat
  BY <1>1
<1>3. PICK n \in T : \A m \in T : n <= m
  BY <1>2, LeastNat
<1>4. PICK s \in X : Cardinality(s) = n
  BY <1>3
<1>5. \A t \in X : Cardinality(s) <= Cardinality(t)
  BY <1>1, <1>3, <1>4
<1>6. QED
  BY <1>5

\* What remains of a finite set without one of its elements.
LEMMA OneLess ==
    ASSUME NEW S, IsFiniteSet(S), NEW x \in S
    PROVE  /\ IsFiniteSet(S \ {x}) /\ Cardinality(S) \in Nat
           /\ Cardinality(S \ {x}) = Cardinality(S) - 1
  BY FS_CardinalityType, FS_RemoveElement, FS_Subset

\* A finite set of natural numbers that is not empty has a greatest element.
LEMMA GreatestNat ==
    ASSUME NEW S, S \subseteq Nat, IsFiniteSet(S), S # {}
    PROVE  \E m \in S : \A x \in S : m >= x
<1> DEFINE X == {T \in SUBSET S : T # {} /\ ~\E m \in T : \A x \in T : m >= x}
<1>1. X = {}
  <2> SUFFICES ASSUME X # {} PROVE FALSE
    OBVIOUS
  <2>1. PICK T \in X : \A U \in X : Cardinality(T) <= Cardinality(U)
    BY LeastSubset
  <2>2. PICK y \in T : TRUE
    BY <2>1
  <2>3. IsFiniteSet(T) /\ y \in Nat /\ T \subseteq Nat
    BY <2>1, <2>2, FS_Subset
  <2>4. T \ {y} \notin X
    <3> DEFINE a == Cardinality(T)  d == Cardinality(T \ {y})
    <3>1. a \in Nat /\ d = a - 1
      BY <2>2, <2>3, OneLess
    <3>2. T \ {y} \in X => a <= d
      BY <2>1
    <3> HIDE DEF a, d
    <3>3. QED
      BY <3>1, <3>2
  <2>5. CASE T \ {y} = {}
    <3>1. \A x \in T : y >= x
      BY <2>3, <2>5
    <3>2. QED
      BY <2>1, <2>2, <3>1
  <2>6. CASE T \ {y} # {}
    <3>1. PICK m \in T \ {y} : \A x \in T \ {y} : m >= x
      BY <2>1, <2>4, <2>6
    <3>2. CASE m >= y
      BY <2>1, <3>1, <3>2
    <3>3. CASE ~(m >= y)
      <4>1. \A x \in T : y >= x
        BY <2>3, <3>1, <3>3
      <4>2. QED
        BY <2>1, <2>2, <4>1
    <3>4. QED
      BY <3>2, <3>3
  <2>7. QED
    BY <2>5, <2>6
<1>2. QED
  BY <1>1

\* The sum of the seats, in whatever order it is taken.
Pick1(s) == CHOOSE x \in s : TRUE
SeatRow(g, s) == IF s = {} THEN 0 ELSE Pick1(s).seats + g[s \ {Pick1(s)}]
SeatFun(R) == CHOOSE g : g = [s \in SUBSET R |-> SeatRow(g, s)]

LEMMA SeatsAtIs ==
    ASSUME NEW t
    PROVE  Class!SeatsAt(t) = SeatFun(LiveOf(licences, t))[LiveOf(licences, t)]
<1>1. Class!LiveAt(t) = LiveOf(licences, t)
  BY DEF Class!LiveAt, LiveOf
<1>2. Class!SeatsAt(t) = SeatFun(Class!LiveAt(t))[Class!LiveAt(t)]
  BY DEF Class!SeatsAt, Class!MapThenSumSet, Class!MapThenFoldSet, SeatFun, SeatRow, Pick1
<1>3. QED
  BY <1>1, <1>2

\* A licence of the model is one seat, so a contract has as many as licences.
LEMMA SeatsAreLicences ==
    ASSUME NEW R, IsFiniteSet(R), \A l \in R : l.seats = 1
    PROVE  SeatFun(R)[R] = Cardinality(R)
<1> DEFINE g == [s \in SUBSET R |-> Cardinality(s)]
           F == SeatFun(R)
           X == {s \in SUBSET R : F[s] # Cardinality(s)}
<1>1. \A s \in SUBSET R : s # {} =>
         /\ Pick1(s) \in s /\ Pick1(s).seats = 1 /\ s \ {Pick1(s)} \in SUBSET R
         /\ Cardinality(s) \in Nat /\ Cardinality(s \ {Pick1(s)}) = Cardinality(s) - 1
  <2> SUFFICES ASSUME NEW s \in SUBSET R, s # {}
               PROVE  /\ Pick1(s) \in s /\ Pick1(s).seats = 1 /\ s \ {Pick1(s)} \in SUBSET R
                      /\ Cardinality(s) \in Nat /\ Cardinality(s \ {Pick1(s)}) = Cardinality(s) - 1
    OBVIOUS
  <2>1. Pick1(s) \in s
    BY DEF Pick1
  <2>2. IsFiniteSet(s)
    BY FS_Subset
  <2>3. QED
    BY <2>1, <2>2, OneLess
<1>2. \A s \in SUBSET R : g[s] = SeatRow(g, s)
  <2> SUFFICES ASSUME NEW s \in SUBSET R PROVE g[s] = SeatRow(g, s)
    OBVIOUS
  <2>1. CASE s = {}
    BY <2>1, FS_EmptySet DEF SeatRow
  <2>2. CASE s # {}
    <3> DEFINE a == Cardinality(s)  d == Cardinality(s \ {Pick1(s)})
    <3>1. g[s] = a /\ SeatRow(g, s) = 1 + d /\ a \in Nat /\ d = a - 1
      BY <1>1, <2>2 DEF SeatRow
    <3> HIDE DEF a, d, g
    <3>2. QED
      BY <3>1
  <2>3. QED
    BY <2>1, <2>2
<1>3. g = [s \in SUBSET R |-> SeatRow(g, s)]
  BY <1>2
<1>4. F = [s \in SUBSET R |-> SeatRow(F, s)]
  BY <1>3 DEF SeatFun
<1> HIDE DEF F, g
<1>5. \A s \in SUBSET R : F[s] = SeatRow(F, s)
  BY <1>4
<1>6. X = {}
  <2> SUFFICES ASSUME X # {} PROVE FALSE
    OBVIOUS
  <2>1. PICK s \in X : \A t \in X : Cardinality(s) <= Cardinality(t)
    BY LeastSubset
  <2>2. CASE s = {}
    BY <1>5, <2>1, <2>2, FS_EmptySet DEF SeatRow
  <2>3. CASE s # {}
    <3> DEFINE a == Cardinality(s)  d == Cardinality(s \ {Pick1(s)})
    <3>1. F[s] = 1 + F[s \ {Pick1(s)}] /\ F[s] # a
      BY <1>1, <1>5, <2>1, <2>3 DEF SeatRow
    <3>2. a \in Nat /\ d = a - 1
      BY <1>1, <2>1, <2>3
    <3>3. s \ {Pick1(s)} \in X => a <= d
      BY <2>1
    <3>4. s \ {Pick1(s)} \in SUBSET R
      BY <2>1
    <3>5. s \ {Pick1(s)} \notin X => F[s \ {Pick1(s)}] = d
      BY <3>4
    <3> HIDE DEF a, d
    <3>6. QED
      BY <3>1, <3>2, <3>3, <3>5
  <2>4. QED
    BY <2>2, <2>3
<1>7. QED
  BY <1>6 DEF F

LEMMA SeatsAtCounts ==
    ASSUME Contract(licences), NEW t \in Nat
    PROVE  Class!SeatsAt(t) = SeatsOf(licences, t) /\ SeatsOf(licences, t) \in Nat
<1>1. IsFiniteSet(LiveOf(licences, t)) /\ \A l \in LiveOf(licences, t) : l.seats = 1
  BY FS_Subset DEF Contract, LiveOf, LicenceRow
<1>2. QED
  BY <1>1, SeatsAtIs, SeatsAreLicences, FS_CardinalityType DEF SeatsOf

\* More licences are not fewer seats.
LEMMA MoreSeats ==
    ASSUME NEW L, NEW M, L \subseteq M, Contract(M), NEW t
    PROVE  SeatsOf(L, t) \in Nat /\ SeatsOf(M, t) \in Nat /\ SeatsOf(L, t) <= SeatsOf(M, t)
<1>1. IsFiniteSet(LiveOf(M, t)) /\ LiveOf(L, t) \subseteq LiveOf(M, t)
  BY FS_Subset DEF Contract, LiveOf
<1>2. QED
  BY <1>1, FS_Subset, FS_CardinalityType DEF SeatsOf

\* A licence of a contract ends at some time.
LEMMA EndsAt ==
    ASSUME Contract(licences), NEW t \in Nat
    PROVE  Class!LicenseEndsAt(t) \in Nat
<1> DEFINE V == LiveOf(licences, t)
           E == {l.till : l \in V}
           f == [l \in V |-> l.till]
<1>1. IsFiniteSet(V) /\ E \subseteq Nat
  BY FS_Subset DEF Contract, LiveOf, LicenceRow
<1>2. f \in Surjection(V, E)
  BY DEF Surjection
<1>3. IsFiniteSet(E)
  BY <1>1, <1>2, FS_Surjection
<1>4. IsFiniteSet(E \cup {t}) /\ E \cup {t} \subseteq Nat /\ E \cup {t} # {}
  BY <1>1, <1>3, FS_AddElement
<1>5. Class!LicenseEndsAt(t) = Class!Max(E \cup {t})
  BY DEF Class!LicenseEndsAt, Class!LiveAt, LiveOf
<1> HIDE DEF E
<1>6. Class!Max(E \cup {t}) \in E \cup {t}
  BY <1>4, GreatestNat DEF Class!Max
<1>7. QED
  BY <1>4, <1>5, <1>6

-----------------------------------------------------------------------------
(* What a change of the stations leaves to everybody.                       *)

\* From S to T, at t: a row may go, or be revoked and reactivated; it is the
\* same PC's, and what it was seen at only grows or is noted now.
RowStays(a, b, t) ==
    /\ a.st # "none" => b.st # "none"
    /\ a.st # "none" /\ Exists(b) =>
          /\ Exists(a) /\ b.m = a.m /\ b.gen = a.gen
          /\ b.touched => (a.touched /\ b.seen = a.seen) \/ b.seen = t
Stays(S, T, t) == \A i \in Class!Ids : RowStays(S[i], T[i], t)

LEMMA PcStays ==
    ASSUME NEW m, NEW p, NEW q, NEW S, NEW T, NEW t \in Nat,
           p \in PcRow, Stays(S, T, t), PcOK(m, p, q, S, t), ClassConstants
    PROVE  PcOK(m, p, q, T, t)
<1>1. CASE p.id = 0
  BY <1>1 DEF PcOK
<1>2. CASE p.id # 0
  <2>1. p.id \in Class!Ids
    BY <1>2 DEF PcRow, Class!Ids, ClassConstants
  <2>2. RowStays(S[p.id], T[p.id], t)
    BY <2>1 DEF Stays
  <2>3. QED
    BY <1>2, <2>2 DEF PcOK, RowStays, Owns
<1>3. QED
  BY <1>1, <1>2

\* Nobody is added to the stations while the transaction has the lock, its key
\* is left alone, and no licence goes.
Calm(S, T, L, M) == Taken(S) \in Nat /\ Taken(T) \in Nat /\ Taken(T) <= Taken(S) /\ L \subseteq M

LEMMA CountsStay ==
    ASSUME NEW S, NEW T, NEW L, NEW M, NEW n \in Nat, NEW k \in Nat, NEW t0,
           Calm(S, T, L, M), Contract(M), Counts(S, L, n, k, t0)
    PROVE  Counts(T, M, n, k, t0)
<1> DEFINE a == Taken(S)  b == Taken(T)  c == SeatsOf(L, t0)  d == SeatsOf(M, t0)
<1>1. c \in Nat /\ d \in Nat /\ c <= d
  BY MoreSeats DEF Calm
<1>2. a \in Nat /\ b \in Nat /\ b <= a /\ a <= n /\ k <= c
  BY DEF Calm, Counts
<1>3. Counts(T, M, n, k, t0) <=> b <= n /\ k <= d
  BY DEF Counts
<1> HIDE DEF a, b, c, d
<1>4. QED
  BY <1>1, <1>2, <1>3

LEMMA CallStays ==
    ASSUME NEW m, NEW p, NEW q, NEW S, NEW T, NEW K, NEW J, NEW L, NEW M, NEW t \in Nat,
           q \in CallRow, Contract(M),
           Stays(S, T, t), CallOK(m, p, q, S, K, L, t),
           q.pc = "locked" => Calm(S, T, L, M) /\ K = J
    PROVE  CallOK(m, p, q, T, J, M, t)
<1>1. q.active \in Nat /\ q.seats \in Nat
  BY DEF CallRow
<1>2. q.pc = "locked" => Counts(T, M, q.active, q.seats, q.t0)
  BY <1>1, CountsStay DEF CallOK
<1>3. q.pc = "answer" => q.active \in Class!Ids /\ Owns(T, q.active, m, p.gen)
  BY DEF CallOK, Stays, RowStays, Owns
<1>4. QED
  BY <1>2, <1>3 DEF CallOK

LEMMA DeskStays ==
    ASSUME NEW a \in DeskRow, NEW S, NEW T, NEW L, NEW M, NEW t, Contract(M), DeskOK(a, S, L, t),
           a.pc = "locked" => Calm(S, T, L, M)
    PROVE  DeskOK(a, T, M, t)
<1>1. a.active \in Nat /\ a.seats \in Nat
  BY DEF DeskRow
<1>2. QED
  BY <1>1, CountsStay DEF DeskOK

LEMMA IdsFinite ==
    ASSUME ClassConstants, NEW S
    PROVE  IsFiniteSet(Class!Ids) /\ IsFiniteSet(ActiveOf(S)) /\ Taken(S) \in Nat
<1>1. IsFiniteSet(Class!Ids)
  BY FS_Interval DEF Class!Ids, ClassConstants
<1>2. IsFiniteSet(ActiveOf(S))
  BY <1>1, FS_Subset DEF ActiveOf
<1>3. QED
  BY <1>1, <1>2, FS_CardinalityType DEF Taken

LEMMA TakenIs ==
    Class!Active = ActiveOf(station) /\ Class!CountActiveStations = Taken(station)
<1>1. Class!Active = ActiveOf(station)
  BY DEF Class!Active, ActiveOf
<1>2. Class!CountActiveStations = Taken(station)
  BY DEF Class!CountActiveStations, Class!Active, Taken, ActiveOf, Class!Cardinality, Cardinality
<1>3. QED
  BY <1>1, <1>2

LEMMA FewerTaken ==
    ASSUME ClassConstants, NEW S, NEW T, ActiveOf(T) \subseteq ActiveOf(S),
           NEW L, NEW M, L \subseteq M
    PROVE  Calm(S, T, L, M)
<1>1. Taken(T) <= Taken(S)
  BY IdsFinite, FS_Subset DEF Taken
<1>2. QED
  BY <1>1, IdsFinite DEF Calm

LEMMA SameStays ==
    ASSUME NEW S, NEW t
    PROVE  Stays(S, S, t)
  BY DEF Stays, RowStays, Exists

\* One enrolment in the new state, given what the stations, the keys and the
\* licences became.
LEMMA PairKeeps ==
    ASSUME ClassIInv, ClassConstants, now' = now, NEW m \in Machines,
           Stays(station, station', now), Contract(licences'),
           req'[m] = req[m], machine'[m] = machine[m],
           req[m].pc = "locked" => Calm(station, station', licences, licences') /\ code' = code
    PROVE  /\ PcOK(m, machine[m], req[m], station', now')
           /\ CallOK(m, machine[m], req[m], station', code', licences', now')
           /\ PcOK(m, machine'[m], req'[m], station', now')
           /\ CallOK(m, machine'[m], req'[m], station', code', licences', now')
<1>1. /\ machine[m] \in PcRow /\ req[m] \in CallRow /\ now \in Nat
      /\ PcOK(m, machine[m], req[m], station, now)
      /\ CallOK(m, machine[m], req[m], station, code, licences, now)
  BY DEF ClassIInv, ClassRows
<1>2. PcOK(m, machine[m], req[m], station', now)
  BY <1>1, PcStays
<1>3. CallOK(m, machine[m], req[m], station', code', licences', now)
  BY <1>1, CallStays
<1>4. QED
  BY <1>2, <1>3

-----------------------------------------------------------------------------
(* Enrolment.                                                               *)

\* The invariant after a step of the one PC m that leaves the licences alone.
LEMMA OnePc ==
    ASSUME ClassIInv, ClassConstants, NEW m \in Machines,
           now' = now, org' = org, licences' = licences,
           Fleet(station'), Stays(station, station', now), Keyring(code', now),
           NEW p \in PcRow, machine' = [machine EXCEPT ![m] = p],
           NEW q \in CallRow, req' = [req EXCEPT ![m] = q],
           PcOK(m, p, q, station', now),
           CallOK(m, p, q, station', code', licences, now),
           adm' = adm, Locks(lock', req', adm),
           \A n \in Machines \ {m} : req[n].pc = "locked" =>
               Calm(station, station', licences, licences') /\ code' = code,
           adm.pc = "locked" => Calm(station, station', licences, licences')
    PROVE  ClassIInv'
<1>1. machine \in [Machines -> PcRow] /\ req \in [Machines -> CallRow] /\ Contract(licences)
      /\ adm \in DeskRow /\ DeskOK(adm, station, licences, now)
  BY DEF ClassIInv, ClassRows
<1>2. ClassRows'
  BY <1>1 DEF ClassIInv, ClassRows, Contract, Fleet
<1>3. ASSUME NEW n \in Machines
      PROVE  /\ PcOK(n, machine'[n], req'[n], station', now')
             /\ CallOK(n, machine'[n], req'[n], station', code', licences', now')
  <2>1. CASE n = m
    <3>1. machine'[n] = p /\ req'[n] = q
      BY <1>1, <2>1
    <3>2. QED
      BY <2>1, <3>1
  <2>2. CASE n # m
    <3>1. machine'[n] = machine[n] /\ req'[n] = req[n]
      BY <1>1, <2>2
    <3>2. Contract(licences')
      BY <1>1
    <3>3. QED
      BY <2>2, <3>1, <3>2, PairKeeps
  <2>3. QED
    BY <2>1, <2>2
<1>4. DeskOK(adm, station', licences', now)
  BY <1>1, DeskStays
<1>5. QED
  BY <1>2, <1>3, <1>4 DEF ClassIInv

\* A step of m that touches neither stations nor keys nor licences.
LEMMA PcOnly ==
    ASSUME ClassIInv, ClassConstants, NEW m \in Machines,
           now' = now, org' = org, licences' = licences, station' = station, code' = code,
           NEW p \in PcRow, machine' = [machine EXCEPT ![m] = p],
           NEW q \in CallRow, req' = [req EXCEPT ![m] = q],
           PcOK(m, p, q, station, now),
           CallOK(m, p, q, station, code, licences, now),
           adm' = adm, Locks(lock', req', adm)
    PROVE  ClassIInv'
<1>1. Fleet(station') /\ Keyring(code', now)
  BY DEF ClassIInv, ClassRows
<1>2. Stays(station, station', now)
  BY SameStays
<1>3. Calm(station, station', licences, licences')
  BY FewerTaken
<1>4. PcOK(m, p, q, station', now) /\ CallOK(m, p, q, station', code', licences, now)
  OBVIOUS
<1>5. QED
  BY <1>1, <1>2, <1>3, <1>4, OnePc

LEMMA ClassFacts ==
    ASSUME ClassIInv, NEW m \in Machines
    PROVE  /\ machine[m] \in PcRow /\ req[m] \in CallRow /\ now \in Nat
           /\ PcOK(m, machine[m], req[m], station, now)
           /\ CallOK(m, machine[m], req[m], station, code, licences, now)
           /\ lock = m <=> req[m].pc = "locked"
           /\ DOMAIN machine = Machines /\ DOMAIN req = Machines
           /\ machine = [machine EXCEPT ![m] = machine[m]]
           /\ req = [req EXCEPT ![m] = req[m]]
<1>1. machine \in [Machines -> PcRow] /\ req \in [Machines -> CallRow]
  BY DEF ClassIInv, ClassRows
<1>2. machine = [machine EXCEPT ![m] = machine[m]] /\ req = [req EXCEPT ![m] = req[m]]
  BY <1>1
<1>3. QED
  BY <1>1, <1>2 DEF ClassIInv, ClassRows, Locks

\* The call of m moves while the lock stays as it is.
LEMMA LocksStay ==
    ASSUME ClassIInv, NEW m \in Machines, NEW q, req' = [req EXCEPT ![m] = q],
           req[m].pc = "locked" <=> q.pc = "locked", lock' = lock
    PROVE  Locks(lock', req', adm)
<1>1. \A n \in Machines : req'[n] = IF n = m THEN q ELSE req[n]
  BY ClassFacts
<1>2. QED
  BY <1>1 DEF ClassIInv, Locks

LEMMA LockTaken ==
    ASSUME ClassIInv, ClassConstants, NEW m \in Machines, NEW q, req' = [req EXCEPT ![m] = q],
           lock = Nobody, lock' = m, q.pc = "locked"
    PROVE  Locks(lock', req', adm)
<1>1. \A n \in Machines : req'[n] = IF n = m THEN q ELSE req[n]
  BY ClassFacts
<1>2. QED
  BY <1>1 DEF ClassIInv, Locks, ClassConstants

LEMMA LockGiven ==
    ASSUME ClassIInv, ClassConstants, NEW m \in Machines, NEW q, req' = [req EXCEPT ![m] = q],
           lock = m, lock' = Nobody, q.pc # "locked"
    PROVE  Locks(lock', req', adm)
<1>1. \A n \in Machines : req'[n] = IF n = m THEN q ELSE req[n]
  BY ClassFacts
<1>2. QED
  BY <1>1 DEF ClassIInv, Locks, ClassConstants

LEMMA IdleCall ==
    /\ Class!NoReq \in CallRow /\ Class!NoReq.pc = "idle" /\ Class!NoReq.t0 = 0
  BY DEF Class!NoReq, CallRow

\* A refusal, whether or not the transaction had the lock.
LEMMA RefusedKeeps ==
    ASSUME ClassIInv, ClassConstants, NEW m \in Machines, Class!Refused(m),
           now' = now, org' = org, licences' = licences, station' = station, code' = code,
           adm' = adm,
           \/ req[m].pc = "locked" /\ lock' = Nobody
           \/ req[m].pc # "locked" /\ lock' = lock
    PROVE  ClassIInv'
<1> DEFINE p == [machine[m] EXCEPT !.phase = "blocked"]
           q == Class!NoReq
<1>1. machine' = [machine EXCEPT ![m] = p] /\ req' = [req EXCEPT ![m] = q]
  BY DEF Class!Refused
<1>2. p \in PcRow /\ p.id = machine[m].id /\ p.gen = machine[m].gen /\ p.till = machine[m].till
      /\ p.nonce = machine[m].nonce
  BY ClassFacts DEF PcRow
<1>3. q \in CallRow /\ q.pc = "idle" /\ q.t0 = 0
  BY IdleCall
<1> HIDE DEF p, q
<1>4. PcOK(m, p, q, station, now)
  BY <1>2, <1>3, ClassFacts DEF PcOK
<1>5. CallOK(m, p, q, station, code, licences, now)
  BY <1>3, ClassFacts DEF CallOK
<1>6. Locks(lock', req', adm)
  <2>1. CASE req[m].pc = "locked" /\ lock' = Nobody
    BY <1>1, <1>3, <2>1, ClassFacts, LockGiven
  <2>2. CASE req[m].pc # "locked" /\ lock' = lock
    BY <1>1, <1>3, <2>2, LocksStay
  <2>3. QED
    BY <2>1, <2>2
<1>7. QED
  BY <1>1, <1>2, <1>3, <1>4, <1>5, <1>6, PcOnly

LEMMA EnrollKeeps ==
    ASSUME ClassIInv, ClassConstants, NEW m \in Machines, NEW c \in Codes,
           Class!enrollStation(m, c)
    PROVE  ClassIInv'
<1> USE DEF Class!enrollStation
<1>1. CASE ~Class!Redeemable(c, now)
  BY <1>1, RefusedKeeps DEF Class!WantsToEnroll
<1>2. CASE Class!Redeemable(c, now)
  <2> DEFINE q == [Class!NoReq EXCEPT !.pc = "read", !.c = c, !.t0 = now]
             p == machine[m]
  <2>1. req' = [req EXCEPT ![m] = q] /\ machine' = [machine EXCEPT ![m] = p]
    BY <1>2, ClassFacts
  <2>2. now \in Nat /\ Class!NoReq \in CallRow
    BY ClassFacts, IdleCall
  <2>3. q \in CallRow /\ q.pc = "read" /\ q.t0 = now /\ q.c = c
    BY <2>2 DEF CallRow
  <2>4. p \in PcRow /\ p.id = 0 /\ PcOK(m, p, req[m], station, now) /\ req[m].pc = "idle"
    BY ClassFacts DEF Class!WantsToEnroll
  <2> HIDE DEF q
  <2>5. PcOK(m, p, q, station, now)
    BY <2>3, <2>4 DEF PcOK
  <2>6. CallOK(m, p, q, station, code, licences, now)
    BY <2>3, ClassFacts DEF CallOK
  <2>7. Locks(lock', req', adm)
    BY <2>1, <2>3, <2>4, LocksStay
  <2>8. QED
    BY <2>1, <2>3, <2>4, <2>5, <2>6, <2>7, PcOnly
<1>3. QED
  BY <1>1, <1>2

LEMMA EnrollLockKeeps ==
    ASSUME ClassIInv, ClassConstants, NEW m \in Machines, Class!EnrollLock(m)
    PROVE  ClassIInv'
<1> DEFINE r == req[m]
           Open == org = "active" /\ Class!StillOpen(r.c, r.t0) /\ Class!SeatsAt(r.t0) > 0
<1>0. r.pc = "read" /\ r \in CallRow /\ r.t0 \in Nat
  BY ClassFacts DEF Class!EnrollLock, CallRow
<1>1. CASE ~Open
  BY <1>0, <1>1, RefusedKeeps DEF Class!EnrollLock
<1>2. CASE Open
  <2> DEFINE k == Class!SeatsAt(r.t0)
             n == Class!CountActiveStations
             q == [r EXCEPT !.pc = "locked", !.seats = k, !.active = n]
             p == machine[m]
  <2>1. /\ req' = [req EXCEPT ![m] = q] /\ lock' = m /\ lock = Nobody
        /\ machine' = [machine EXCEPT ![m] = p]
    BY <1>2, ClassFacts DEF Class!EnrollLock, Class!LockOrg
  <2>2. k \in Nat /\ k <= SeatsOf(licences, r.t0) /\ n \in Nat /\ n = Taken(station)
    <3>1. Contract(licences)
      BY DEF ClassIInv, ClassRows
    <3>2. k = SeatsOf(licences, r.t0) /\ k \in Nat
      BY <1>0, <3>1, SeatsAtCounts
    <3>3. n = Taken(station) /\ n \in Nat
      BY TakenIs, IdsFinite
    <3>4. QED
      BY <3>2, <3>3
  <2> HIDE DEF k, n
  <2>3. q \in CallRow /\ q.pc = "locked" /\ q.t0 = r.t0 /\ q.c = r.c /\ q.seats = k /\ q.active = n
    BY <1>0, <2>2 DEF CallRow
  <2> HIDE DEF q
  <2>4. p \in PcRow /\ PcOK(m, p, r, station, now) /\ CallOK(m, p, r, station, code, licences, now)
    BY ClassFacts
  <2>5. PcOK(m, p, q, station, now)
    BY <1>0, <2>3, <2>4 DEF PcOK
  <2>6. CallOK(m, p, q, station, code, licences, now)
    <3>1. code[q.c].st = "live" /\ code[q.c].used < code[q.c].max
      BY <1>2, <2>3 DEF Class!StillOpen, Class!Redeemable
    <3>2. Counts(station, licences, q.active, q.seats, q.t0)
      BY <2>2, <2>3 DEF Counts
    <3>3. QED
      BY <1>0, <2>3, <2>4, <3>1, <3>2 DEF CallOK
  <2>7. Locks(lock', req', adm)
    BY <2>1, <2>3, LockTaken
  <2>8. QED
    BY <2>1, <2>3, <2>4, <2>5, <2>6, <2>7, PcOnly DEF Class!EnrollLock
<1>3. QED
  BY <1>1, <1>2

\* A commit takes a free row, and at most one silent PC off the licence.
LEMMA SeatsFreed ==
    ASSUME NEW m \in Machines, NEW gone \in Class!SeatFor(m)
    PROVE  /\ gone \subseteq ActiveOf(station)
           /\ req[m].active < req[m].seats => gone = {}
           /\ ~(req[m].active < req[m].seats) => \E j : gone = {j}
           /\ \A j \in gone : Class!LastSign(j) + Class!StaleAfter < req[m].t0
<1>1. CASE req[m].active < req[m].seats
  BY <1>1 DEF Class!SeatFor
<1>2. CASE ~(req[m].active < req[m].seats)
  <2>1. PICK j \in Class!ReclaimStaleSeat(m, req[m].t0) : gone = {j}
    BY <1>2 DEF Class!SeatFor
  <2>2. j \in Class!StaleSeats(m, req[m].t0)
    BY <2>1 DEF Class!ReclaimStaleSeat
  <2>3. j \in ActiveOf(station) /\ Class!LastSign(j) + Class!StaleAfter < req[m].t0
    BY <2>2, TakenIs DEF Class!StaleSeats
  <2>4. QED
    BY <1>2, <2>1, <2>3
<1>3. QED
  BY <1>1, <1>2

LEMMA InsertFacts ==
    ASSUME ClassIInv, ClassConstants, NEW m \in Machines, req[m].pc = "locked",
           NEW gone \in Class!SeatFor(m), NEW i \in Class!Ids, Class!FreeId(i),
           Class!InsertStation(m, i, gone)
    PROVE  /\ Fleet(station') /\ Stays(station, station', now)
           /\ station'[i] = Class!NewStation(m)
           /\ \A j \in gone : j # i /\ station'[j].st = "revoked"
           /\ \A j \in Class!Ids \ gone : j # i => station'[j] = station[j]
<1> DEFINE New(j) == CASE j = i -> Class!NewStation(m)
                       [] j \in gone -> [station[j] EXCEPT !.st = "revoked"]
                       [] OTHER -> station[j]
<1>1. station' = [j \in Class!Ids |-> New(j)]
  BY DEF Class!InsertStation
<1>2. Fleet(station) /\ machine[m] \in PcRow /\ req[m] \in CallRow
  BY ClassFacts DEF ClassIInv, ClassRows
<1>3. gone \subseteq ActiveOf(station) /\ station[i].st = "none"
  BY SeatsFreed DEF Class!FreeId
<1>4. i \notin gone
  BY <1>3 DEF ActiveOf
<1>5. Class!NewStation(m) \in StationRow
  BY <1>2 DEF Class!NewStation, StationRow, PcRow, CallRow
<1>6. \A j \in gone : [station[j] EXCEPT !.st = "revoked"] \in StationRow
  BY <1>2, <1>3 DEF Fleet, StationRow, ActiveOf
<1>7. \A j \in Class!Ids :
         /\ j = i => New(j) = Class!NewStation(m)
         /\ j \in gone => New(j) = [station[j] EXCEPT !.st = "revoked"]
         /\ j # i /\ j \notin gone => New(j) = station[j]
  BY <1>4
<1> HIDE DEF New
<1>8. \A j \in Class!Ids : New(j) \in StationRow
  BY <1>2, <1>5, <1>6, <1>7 DEF Fleet
<1>9. \A j \in gone : /\ New(j).st = "revoked" /\ New(j).m = station[j].m
                      /\ New(j).gen = station[j].gen /\ New(j).seen = station[j].seen
                      /\ New(j).touched = station[j].touched /\ station[j].st = "active"
                      /\ j \in Class!Ids
  <2> SUFFICES ASSUME NEW j \in gone
               PROVE  /\ New(j).st = "revoked" /\ New(j).m = station[j].m
                      /\ New(j).gen = station[j].gen /\ New(j).seen = station[j].seen
                      /\ New(j).touched = station[j].touched /\ station[j].st = "active"
                      /\ j \in Class!Ids
    OBVIOUS
  <2>1. j \in Class!Ids /\ station[j].st = "active"
    BY <1>3 DEF ActiveOf
  <2>2. station[j] \in StationRow /\ New(j) = [station[j] EXCEPT !.st = "revoked"]
    BY <1>2, <1>7, <2>1 DEF Fleet
  <2>3. QED
    BY <2>1, <2>2 DEF StationRow
<1>10. Stays(station, station', now)
  <2> SUFFICES ASSUME NEW j \in Class!Ids PROVE RowStays(station[j], New(j), now)
    BY <1>1 DEF Stays
  <2>1. CASE j = i
    BY <1>3, <1>5, <1>7, <2>1 DEF RowStays, Class!NewStation
  <2>2. CASE j \in gone
    BY <1>9, <2>2 DEF RowStays, Exists
  <2>3. CASE j # i /\ j \notin gone
    BY <1>7, <2>3 DEF RowStays, Exists
  <2>4. QED
    BY <2>1, <2>2, <2>3
<1>11. Fleet(station')
  BY <1>1, <1>8 DEF Fleet
<1>12. QED
  BY <1>1, <1>4, <1>7, <1>9, <1>10, <1>11

LEMMA OneMoreUse ==
    ASSUME NEW k \in CodeRow
    PROVE  LET e == [k EXCEPT !.used = @ + 1, !.won = @ + 1] IN
           /\ e \in CodeRow /\ e.st = k.st /\ e.ends = k.ends /\ e.max = k.max
           /\ e.used = k.used + 1 /\ e.won = k.won + 1
<1>1. k.used + 1 \in Nat /\ k.won + 1 \in Nat
  BY DEF CodeRow
<1>2. k = [st |-> k.st, used |-> k.used, max |-> k.max, ends |-> k.ends, won |-> k.won]
  BY DEF CodeRow
<1> DEFINE a == k.used + 1  b == k.won + 1
           e == [k EXCEPT !.used = a, !.won = b]
<1>3. a \in Nat /\ b \in Nat
  BY <1>1
<1> HIDE DEF a, b
<1>4. /\ e \in CodeRow /\ e.st = k.st /\ e.ends = k.ends /\ e.max = k.max
      /\ e.used = a /\ e.won = b
  BY <1>3 DEF CodeRow
<1>5. QED
  BY <1>4 DEF a, b

LEMMA CommitKeeps ==
    ASSUME ClassIInv, ClassConstants, NEW m \in Machines, Class!EnrollCommit(m)
    PROVE  ClassIInv'
<1>1. /\ req[m].pc = "locked" /\ lock = m /\ lock' = Nobody
      /\ now' = now /\ org' = org /\ licences' = licences /\ adm' = adm
  BY ClassFacts DEF Class!EnrollCommit
<1>2. CASE Class!Refused(m) /\ UNCHANGED <<station, code>>
  <2>1. Class!Refused(m) /\ station' = station /\ code' = code
    BY <1>2
  <2>2. QED
    BY <1>1, <2>1, RefusedKeeps
<1>3. ASSUME NEW gone \in Class!SeatFor(m), NEW i \in Class!Ids, Class!FreeId(i),
             Class!InsertStation(m, i, gone)
      PROVE  ClassIInv'
  <2> DEFINE r == req[m]
             q == [r EXCEPT !.pc = "answer", !.active = i]
             p == machine[m]
             c == r.c
             k == code[c]
             e == [k EXCEPT !.used = @ + 1, !.won = @ + 1]
  <2>1. r \in CallRow /\ p \in PcRow /\ i \in Nat
    BY ClassFacts DEF Class!Ids
  <2>2. q \in CallRow /\ q.pc = "answer" /\ q.active = i /\ q.t0 = r.t0
    BY <2>1 DEF CallRow
  <2>3. req' = [req EXCEPT ![m] = q] /\ machine' = [machine EXCEPT ![m] = p]
    BY <1>3, ClassFacts DEF Class!InsertStation
  <2>4. /\ PcOK(m, p, r, station, now) /\ CallOK(m, p, r, station, code, licences, now)
        /\ c \in Codes /\ k.st = "live" /\ k.used < k.max /\ now \in Nat
    BY <1>1, ClassFacts DEF CallOK
  <2>5. code \in [Codes -> CodeRow] /\ k \in CodeRow /\ k.used = k.won
    BY <2>4 DEF ClassIInv, Keyring
  <2>6. code' = [code EXCEPT ![c] = e]
    BY <1>3, <2>5 DEF Class!InsertStation
  <2>7. /\ e \in CodeRow /\ e.st = k.st /\ e.ends = k.ends /\ e.used <= e.max /\ e.used = e.won
    <3>1. k.used \in Nat /\ k.won \in Nat /\ k.max \in Nat /\ k.used + 1 <= k.max
      BY <2>4, <2>5 DEF CodeRow
    <3>2. /\ e \in CodeRow /\ e.st = k.st /\ e.ends = k.ends /\ e.max = k.max
          /\ e.used = k.used + 1 /\ e.won = k.won + 1
      BY <2>5, OneMoreUse
    <3>3. QED
      BY <2>5, <3>1, <3>2
  <2> HIDE DEF q, e
  <2>8. Keyring(code', now)
    <3>1. \A d \in Codes : code'[d] = IF d = c THEN e ELSE code[d]
      BY <2>5, <2>6
    <3>2. code' \in [Codes -> CodeRow]
      BY <2>5, <2>6, <2>7
    <3>3. QED
      BY <2>5, <2>7, <3>1, <3>2 DEF ClassIInv, Keyring
  <2>9. Fleet(station') /\ Stays(station, station', now) /\ station'[i] = Class!NewStation(m)
    BY <1>1, <1>3, InsertFacts
  <2>10. PcOK(m, p, q, station', now)
    <3>1. PcOK(m, p, r, station', now)
      BY <2>1, <2>4, <2>9, PcStays
    <3>2. QED
      BY <1>1, <2>2, <3>1 DEF PcOK
  <2>11. CallOK(m, p, q, station', code', licences, now)
    <3>1. Owns(station', i, m, p.gen)
      BY <2>9 DEF Owns, Class!NewStation
    <3>2. QED
      BY <2>2, <2>4, <3>1 DEF CallOK
  <2>12. Locks(lock', req', adm)
    BY <1>1, <2>2, <2>3, LockGiven
  <2>13. /\ \A n \in Machines \ {m} : req[n].pc # "locked"
         /\ adm.pc # "locked"
    BY <1>1 DEF ClassIInv, Locks, ClassConstants
  <2>14. QED
    BY <1>1, <2>1, <2>2, <2>3, <2>8, <2>9, <2>10, <2>11, <2>12, <2>13, OnePc
<1>4. QED
  BY <1>2, <1>3 DEF Class!EnrollCommit

LEMMA AnswerKeeps ==
    ASSUME ClassIInv, ClassConstants, NEW m \in Machines, Class!EnrollAnswered(m)
    PROVE  ClassIInv'
<1> DEFINE p == [machine[m] EXCEPT !.id = req[m].active]
           q == Class!NoReq
<1>1. machine' = [machine EXCEPT ![m] = p] /\ req' = [req EXCEPT ![m] = q] /\ req[m].pc = "answer"
  BY DEF Class!EnrollAnswered
<1>2. /\ req[m].active \in Class!Ids /\ Owns(station, req[m].active, m, machine[m].gen)
      /\ machine[m].id = 0 /\ machine[m].till = 0 /\ now \in Nat
  BY <1>1, ClassFacts DEF CallOK, PcOK
<1>3. req[m].active \in 0 .. MaxStations /\ req[m].active # 0
  BY <1>2 DEF Class!Ids, ClassConstants
<1>4. p \in PcRow /\ p.id = req[m].active /\ p.gen = machine[m].gen /\ p.till = 0
  BY <1>2, <1>3, ClassFacts DEF PcRow
<1>5. q \in CallRow /\ q.pc = "idle" /\ q.t0 = 0
  BY IdleCall
<1>6. Fleet(station)
  BY DEF ClassIInv, ClassRows
<1>7. station[req[m].active].seen \in Nat
  BY <1>2, <1>6 DEF Fleet, StationRow
<1> HIDE DEF p, q
<1>8. PcOK(m, p, q, station, now)
  BY <1>2, <1>3, <1>4, <1>5, <1>7 DEF PcOK
<1>9. CallOK(m, p, q, station, code, licences, now)
  BY <1>2, <1>5 DEF CallOK
<1>10. Locks(lock', req', adm)
  BY <1>1, <1>5, LocksStay DEF Class!EnrollAnswered
<1>11. QED
  BY <1>1, <1>4, <1>5, <1>8, <1>9, <1>10, PcOnly DEF Class!EnrollAnswered

\* The call of m ends without an answer.
LEMMA CallDropped ==
    ASSUME ClassIInv, ClassConstants, NEW m \in Machines,
           req' = [req EXCEPT ![m] = Class!NoReq], machine' = machine,
           now' = now, org' = org, licences' = licences, station' = station, code' = code,
           adm' = adm,
           lock' = IF req[m].pc = "locked" THEN Nobody ELSE lock
    PROVE  ClassIInv'
<1> DEFINE p == machine[m]
           q == Class!NoReq
<1>1. machine' = [machine EXCEPT ![m] = p] /\ p \in PcRow /\ now \in Nat
      /\ PcOK(m, p, req[m], station, now)
  BY ClassFacts
<1>2. q \in CallRow /\ q.pc = "idle" /\ q.t0 = 0 /\ req' = [req EXCEPT ![m] = q]
  BY IdleCall
<1> HIDE DEF p, q
<1>3. PcOK(m, p, q, station, now)
  BY <1>1, <1>2 DEF PcOK
<1>4. CallOK(m, p, q, station, code, licences, now)
  BY <1>1, <1>2 DEF CallOK
<1>5. Locks(lock', req', adm)
  <2>1. CASE req[m].pc = "locked"
    BY <1>2, <2>1, ClassFacts, LockGiven
  <2>2. CASE req[m].pc # "locked"
    BY <1>2, <2>2, LocksStay
  <2>3. QED
    BY <2>1, <2>2
<1>6. QED
  BY <1>1, <1>2, <1>3, <1>4, <1>5, PcOnly

LEMMA LostKeeps ==
    ASSUME ClassIInv, ClassConstants, NEW m \in Machines,
           Class!EnrollLost(m) \/ Class!EnrollAbandoned(m)
    PROVE  ClassIInv'
<1>1. CASE Class!EnrollLost(m)
  BY <1>1, CallDropped DEF Class!EnrollLost
<1>2. CASE Class!EnrollAbandoned(m)
  BY <1>2, ClassFacts, CallDropped DEF Class!EnrollAbandoned
<1>3. QED
  BY <1>1, <1>2

-----------------------------------------------------------------------------
(* The running agent.                                                       *)

LEMMA ChallengeKeeps ==
    ASSUME ClassIInv, ClassConstants, NEW m \in Machines, Class!Challenge(m)
    PROVE  ClassIInv'
<1> DEFINE p == [machine[m] EXCEPT !.nonce = TRUE]
           q == req[m]
<1>1. machine' = [machine EXCEPT ![m] = p] /\ req' = [req EXCEPT ![m] = q] /\ machine[m].id # 0
  BY ClassFacts DEF Class!Challenge, Class!RenewalDue
<1>2. p \in PcRow /\ p.id = machine[m].id /\ p.gen = machine[m].gen /\ p.till = machine[m].till
  BY ClassFacts DEF PcRow
<1>3. q \in CallRow /\ PcOK(m, machine[m], q, station, now)
      /\ CallOK(m, machine[m], q, station, code, licences, now)
  BY ClassFacts
<1> HIDE DEF p, q
<1>4. PcOK(m, p, q, station, now)
  BY <1>1, <1>2, <1>3 DEF PcOK
<1>5. CallOK(m, p, q, station, code, licences, now)
  BY <1>2, <1>3 DEF CallOK
<1>6. Locks(lock', req', adm)
  BY <1>1, LocksStay DEF Class!Challenge, q
<1>7. QED
  BY <1>1, <1>2, <1>3, <1>4, <1>5, <1>6, PcOnly DEF Class!Challenge

\* A renewal or a request stamps the row of an active station.
LEMMA TouchFacts ==
    ASSUME ClassIInv, ClassConstants, NEW i \in Class!Ids, station[i].st = "active",
           NEW ok \in BOOLEAN, Class!Touch(i, ok), licences' = licences
    PROVE  /\ Fleet(station') /\ Stays(station, station', now)
           /\ station'[i].touched = ok /\ (ok => station'[i].seen = now)
           /\ Exists(station'[i]) /\ Calm(station, station', licences, licences')
           /\ ActiveOf(station') \subseteq ActiveOf(station)
<1> DEFINE s == station[i]
           n == IF ok THEN now ELSE s.seen
           t == [s EXCEPT !.seen = n, !.touched = ok]
<1>1. Fleet(station) /\ now \in Nat /\ s \in StationRow
  BY DEF ClassIInv, ClassRows, Fleet
<1>2. station' = [station EXCEPT ![i] = t]
  BY <1>1 DEF Class!Touch, Fleet
<1>3. n \in Nat
  BY <1>1 DEF StationRow
<1> HIDE DEF n
<1>4. /\ t \in StationRow /\ t.st = "active" /\ t.m = s.m /\ t.gen = s.gen
      /\ t.touched = ok /\ t.seen = n
  BY <1>1, <1>3 DEF StationRow
<1> HIDE DEF t
<1>5. \A j \in Class!Ids : station'[j] = IF j = i THEN t ELSE station[j]
  BY <1>1, <1>2 DEF Fleet
<1>6. Fleet(station')
  BY <1>1, <1>2, <1>4 DEF Fleet
<1>7. ok => n = now
  BY DEF n
<1>8. RowStays(s, t, now)
  BY <1>4, <1>7 DEF RowStays, Exists
<1>9. Stays(station, station', now)
  BY <1>5, <1>8 DEF Stays, RowStays, Exists
<1>10. ActiveOf(station') \subseteq ActiveOf(station)
  BY <1>4, <1>5 DEF ActiveOf
<1>11. Calm(station, station', licences, licences')
  BY <1>10, FewerTaken
<1>12. QED
  BY <1>4, <1>5, <1>6, <1>7, <1>9, <1>10, <1>11 DEF Exists

\* A step of m that stamps the row of its own active station.
LEMMA TouchKeeps ==
    ASSUME ClassIInv, ClassConstants, NEW m \in Machines, machine[m].id # 0,
           station[machine[m].id].st = "active",
           NEW ok \in BOOLEAN, Class!Touch(machine[m].id, ok),
           NEW p \in PcRow, machine' = [machine EXCEPT ![m] = p],
           p.id = machine[m].id, p.gen = machine[m].gen, p.till <= now + 1,
           now' = now, org' = org, licences' = licences, code' = code, req' = req,
           adm' = adm, lock' = lock
    PROVE  ClassIInv'
<1> DEFINE i == machine[m].id
           q == req[m]
<1>1. /\ machine[m] \in PcRow /\ q \in CallRow /\ now \in Nat
      /\ PcOK(m, machine[m], q, station, now)
      /\ CallOK(m, machine[m], q, station, code, licences, now)
      /\ req' = [req EXCEPT ![m] = q]
  BY ClassFacts
<1>2. i \in Class!Ids
  BY <1>1 DEF PcRow, Class!Ids, ClassConstants
<1>3. /\ Fleet(station') /\ Stays(station, station', now)
      /\ station'[i].touched = ok /\ (ok => station'[i].seen = now)
      /\ Calm(station, station', licences, licences')
  BY <1>2, TouchFacts
<1>4. PcOK(m, machine[m], q, station', now)
  BY <1>1, <1>3, PcStays
<1>5. Contract(licences)
  BY DEF ClassIInv, ClassRows
<1>6. CallOK(m, machine[m], q, station', code', licences, now)
  <2>1. q.pc = "locked" => Calm(station, station', licences, licences) /\ code = code'
    BY <1>3
  <2>2. QED
    BY <1>1, <1>3, <1>5, <2>1, CallStays
<1> HIDE DEF q
<1>7. PcOK(m, p, q, station', now)
  <2>1. (Exists(station'[i]) /\ station'[i].touched) => p.till <= station'[i].seen + 1
    <3>1. CASE ok = TRUE
      BY <1>3, <3>1
    <3>2. CASE ok = FALSE
      BY <1>3, <3>2
    <3>3. QED
      BY <3>1, <3>2
  <2>2. QED
    BY <1>4, <2>1 DEF PcOK
<1>8. CallOK(m, p, q, station', code', licences, now)
  BY <1>6 DEF CallOK
<1>9. Locks(lock', req', adm) /\ Keyring(code', now)
  BY DEF ClassIInv
<1>10. QED
  BY <1>1, <1>3, <1>7, <1>8, <1>9, OnePc

LEMMA TokenKeeps ==
    ASSUME ClassIInv, ClassConstants, NEW m \in Machines, Class!stationToken(m)
    PROVE  ClassIInv'
<1> DEFINE i == machine[m].id
<1>1. /\ machine[m] \in PcRow /\ now \in Nat /\ PcOK(m, machine[m], req[m], station, now)
      /\ i # 0
  BY ClassFacts DEF Class!stationToken, PcOK
<1>2. CASE Class!Token(m)
  <2> DEFINE p == [machine[m] EXCEPT !.nonce = FALSE, !.till = now + Class!TokenTTL]
  <2>1. machine' = [machine EXCEPT ![m] = p]
    BY <1>2, ClassFacts DEF Class!stationToken
  <2>2. now + Class!TokenTTL = now + 1 /\ now + 1 \in Nat
    BY <1>1 DEF Class!TokenTTL
  <2>3. p \in PcRow /\ p.id = i /\ p.gen = machine[m].gen /\ p.till = now + 1
    BY <1>1, <2>2 DEF PcRow
  <2> HIDE DEF p
  <2>4. p.till <= now + 1
    BY <1>1, <2>3
  <2>5. station[i].st = "active"
    BY <1>2 DEF Class!Token, Class!ActiveStationVIP
  <2>6. \E ok \in BOOLEAN : Class!Touch(i, ok)
    BY <1>2 DEF Class!stationToken
  <2>7. QED
    BY <1>1, <2>1, <2>3, <2>4, <2>5, <2>6, TouchKeeps DEF Class!stationToken
<1>3. CASE ~Class!Token(m)
  <2> DEFINE p == [machine[m] EXCEPT !.nonce = FALSE]
             q == req[m]
  <2>1. machine' = [machine EXCEPT ![m] = p] /\ req' = [req EXCEPT ![m] = q]
        /\ station' = station
    BY <1>3, ClassFacts DEF Class!stationToken
  <2>2. p \in PcRow /\ p.id = i /\ p.gen = machine[m].gen /\ p.till = machine[m].till
    BY <1>1 DEF PcRow
  <2>3. q \in CallRow /\ CallOK(m, machine[m], q, station, code, licences, now)
    BY ClassFacts
  <2> HIDE DEF p
  <2>4. PcOK(m, p, q, station, now)
    BY <1>1, <2>2 DEF PcOK
  <2>5. CallOK(m, p, q, station, code, licences, now)
    BY <2>2, <2>3 DEF CallOK
  <2>6. Locks(lock', req', adm)
    BY <2>1, LocksStay DEF Class!stationToken
  <2>7. QED
    BY <2>1, <2>2, <2>3, <2>4, <2>5, <2>6, PcOnly DEF Class!stationToken
<1>4. QED
  BY <1>2, <1>3

LEMMA PractiseKeeps ==
    ASSUME ClassIInv, ClassConstants, NEW m \in Machines, Class!Practise(m)
    PROVE  ClassIInv'
<1> DEFINE p == machine[m]
<1>1. /\ p \in PcRow /\ now \in Nat /\ PcOK(m, p, req[m], station, now)
      /\ machine' = [machine EXCEPT ![m] = p] /\ p.till > now
  BY ClassFacts DEF Class!Practise
<1>2. p.id # 0 /\ p.till <= now + 1
  BY <1>1 DEF PcOK
<1>3. station[p.id].st = "active" /\ Class!Touch(p.id, TRUE)
  BY DEF Class!Practise, Class!ActiveStationVIP
<1>4. QED
  BY <1>1, <1>2, <1>3, TouchKeeps DEF Class!Practise

\* A PC that starts over: from its saved station or with a new keypair.
LEMMA RestartKeeps ==
    ASSUME ClassIInv, ClassConstants, NEW m \in Machines,
           Class!Reboot(m) \/ Class!ResetEnrollment(m)
    PROVE  ClassIInv'
<1> DEFINE q == req[m]
<1>1. /\ machine[m] \in PcRow /\ q \in CallRow /\ now \in Nat
      /\ PcOK(m, machine[m], q, station, now)
      /\ CallOK(m, machine[m], q, station, code, licences, now)
      /\ req' = [req EXCEPT ![m] = q] /\ q.pc = "idle"
  BY ClassFacts DEF Class!Reboot, Class!ResetEnrollment
<1>2. \E p \in PcRow : /\ machine' = [machine EXCEPT ![m] = p]
                       /\ p.till = 0 /\ p.nonce = FALSE
                       /\ (p.id = machine[m].id /\ p.gen = machine[m].gen) \/ p.id = 0
  <2>1. CASE Class!Reboot(m)
    <3> DEFINE p == [machine[m] EXCEPT !.phase = "up", !.till = 0, !.nonce = FALSE]
    <3>1. machine' = [machine EXCEPT ![m] = p]
      BY <2>1, ClassFacts DEF Class!Reboot
    <3>2. p \in PcRow /\ p.till = 0 /\ p.id = machine[m].id /\ p.gen = machine[m].gen
      BY <1>1 DEF PcRow
    <3>3. p.nonce = FALSE
      BY <1>1 DEF PcRow
    <3>4. QED
      BY <3>1, <3>2, <3>3
  <2>2. CASE Class!ResetEnrollment(m)
    <3> DEFINE p == [id |-> 0, gen |-> 1, till |-> 0, nonce |-> FALSE, phase |-> "up"]
    <3>1. machine' = [machine EXCEPT ![m] = p]
      BY <2>2 DEF Class!ResetEnrollment
    <3>2. p \in PcRow /\ p.till = 0 /\ p.id = 0
      BY DEF PcRow, ClassConstants
    <3>3. QED
      BY <3>1, <3>2
  <2>3. QED
    BY <2>1, <2>2
<1>3. PICK p \in PcRow : /\ machine' = [machine EXCEPT ![m] = p]
                         /\ p.till = 0 /\ p.nonce = FALSE
                         /\ (p.id = machine[m].id /\ p.gen = machine[m].gen) \/ p.id = 0
  BY <1>2
<1> HIDE DEF q
<1>4. PcOK(m, p, q, station, now)
  <2>1. CASE p.id = 0
    BY <1>1, <1>3, <2>1 DEF PcOK
  <2>2. CASE p.id # 0
    <3>1. station[p.id].seen \in Nat
      BY <2>2 DEF ClassIInv, ClassRows, Fleet, StationRow, PcRow, Class!Ids, ClassConstants
    <3>2. p.till = 0 /\ p.till <= station[p.id].seen + 1 /\ p.till <= now + 1
      BY <1>1, <1>3, <3>1
    <3>3. QED
      BY <1>1, <1>3, <2>2, <3>2 DEF PcOK
  <2>3. QED
    BY <2>1, <2>2
<1>5. CallOK(m, p, q, station, code, licences, now)
  BY <1>1 DEF CallOK
<1>6. Locks(lock', req', adm)
  <2>1. lock' = lock
    BY DEF Class!Reboot, Class!ResetEnrollment
  <2>2. QED
    BY <1>1, <2>1, LocksStay DEF q
<1>7. QED
  BY <1>1, <1>3, <1>4, <1>5, <1>6, PcOnly DEF Class!Reboot, Class!ResetEnrollment

-----------------------------------------------------------------------------
(* The console, the contract and the clock.                                 *)

\* The invariant after a step that no PC takes.
LEMMA ServerKeeps ==
    ASSUME ClassIInv, ClassConstants, now' = now, org' \in {"active", "suspended", "gone"},
           req' = req, machine' = machine, Contract(licences'), Fleet(station'),
           Stays(station, station', now), Keyring(code', now),
           adm' \in DeskRow, DeskOK(adm', station', licences', now), Locks(lock', req, adm'),
           \A n \in Machines : req[n].pc = "locked" =>
               Calm(station, station', licences, licences') /\ code' = code
    PROVE  ClassIInv'
<1>1. ASSUME NEW n \in Machines
      PROVE  /\ PcOK(n, machine'[n], req'[n], station', now')
             /\ CallOK(n, machine'[n], req'[n], station', code', licences', now')
  <2>1. machine'[n] = machine[n] /\ req'[n] = req[n]
    OBVIOUS
  <2>2. QED
    BY <2>1, PairKeeps
<1>2. ClassRows'
  BY DEF ClassIInv, ClassRows, Contract, Fleet
<1>3. QED
  BY <1>1, <1>2 DEF ClassIInv

\* A step without the lock that only takes stations off the licence or adds a
\* licence.
LEMMA LooseKeeps ==
    ASSUME ClassIInv, ClassConstants, now' = now, org' = org, lock' = lock,
           req' = req, machine' = machine, adm' = adm, code' = code,
           licences \subseteq licences', Contract(licences'),
           Fleet(station'), Stays(station, station', now),
           ActiveOf(station') \subseteq ActiveOf(station)
    PROVE  ClassIInv'
<1>1. Calm(station, station', licences, licences')
  BY FewerTaken
<1>2. adm \in DeskRow /\ DeskOK(adm, station, licences, now) /\ Locks(lock, req, adm)
      /\ Keyring(code, now) /\ org \in {"active", "suspended", "gone"}
  BY DEF ClassIInv, ClassRows
<1>3. DeskOK(adm', station', licences', now)
  BY <1>1, <1>2, DeskStays
<1>4. Keyring(code', now) /\ Locks(lock', req, adm') /\ adm' \in DeskRow
  BY <1>2
<1>5. QED
  BY <1>1, <1>2, <1>3, <1>4, ServerKeeps

LEMMA IdleDesk ==
    /\ ClassConstants => Class!NoAdm \in DeskRow
    /\ Class!NoAdm.pc = "idle" /\ Class!NoAdm.op = "none" /\ Class!NoAdm.t0 = 0
  BY DEF Class!NoAdm, DeskRow, ClassConstants

LEMMA ConsoleFacts ==
    ASSUME ClassIInv
    PROVE  /\ adm \in DeskRow /\ DeskOK(adm, station, licences, now) /\ now \in Nat
           /\ Contract(licences) /\ Fleet(station) /\ Keyring(code, now)
           /\ Stays(station, station, now) /\ org \in {"active", "suspended", "gone"}
           /\ lock = Admin <=> adm.pc = "locked"
           /\ \A n \in Machines : lock = n <=> req[n].pc = "locked"
  BY SameStays DEF ClassIInv, ClassRows, Locks

\* The console's transaction moves while the lock stays as it is.
LEMMA DeskOnly ==
    ASSUME ClassIInv, ClassConstants, now' = now, org' = org, licences' = licences,
           code' = code, station' = station, req' = req, machine' = machine,
           NEW a \in DeskRow, adm' = a, DeskOK(a, station, licences, now), Locks(lock', req, a)
    PROVE  ClassIInv'
<1>1. Calm(station, station', licences, licences')
  BY FewerTaken
<1>2. Fleet(station') /\ Stays(station, station', now) /\ Keyring(code', now) /\ Contract(licences')
      /\ org' \in {"active", "suspended", "gone"}
  BY ConsoleFacts
<1>3. adm' \in DeskRow /\ DeskOK(adm', station', licences', now) /\ Locks(lock', req, adm')
  OBVIOUS
<1>4. QED
  BY <1>1, <1>2, <1>3, ServerKeeps

LEMMA BeginKeeps ==
    ASSUME ClassIInv, ClassConstants, NEW op \in {"reactivate", "open", "rotate"},
           NEW s \in 0 .. MaxStations, op = "reactivate" => s \in Class!Ids,
           Class!AdminBegin(op, s)
    PROVE  ClassIInv'
<1> DEFINE a == [Class!NoAdm EXCEPT !.pc = "begun", !.op = op, !.s = s, !.t0 = now]
<1>1. adm' = a /\ adm.pc = "idle" /\ now \in Nat
  BY ConsoleFacts DEF Class!AdminBegin
<1>2. Class!NoAdm \in DeskRow
  BY IdleDesk
<1>3. a \in DeskRow /\ a.pc = "begun" /\ a.op = op /\ a.s = s /\ a.t0 = now
  BY <1>1, <1>2 DEF DeskRow
<1> HIDE DEF a
<1>4. DeskOK(a, station, licences, now)
  BY <1>1, <1>3 DEF DeskOK
<1>5. Locks(lock', req, a)
  BY <1>1, <1>3 DEF Class!AdminBegin, ClassIInv, Locks
<1>6. QED
  BY <1>1, <1>3, <1>4, <1>5, DeskOnly DEF Class!AdminBegin

\* A transaction of the console that ends gives the lock back.
LEMMA EndLocks ==
    ASSUME ClassIInv, ClassConstants,
           \/ adm.pc # "locked" /\ lock' = lock
           \/ adm.pc = "locked" /\ lock' = Nobody
    PROVE  Locks(lock', req, Class!NoAdm) /\ \A S, L : DeskOK(Class!NoAdm, S, L, now)
<1>1. now \in Nat /\ Class!NoAdm.t0 = 0 /\ Class!NoAdm.op = "none" /\ Class!NoAdm.pc = "idle"
  BY ConsoleFacts, IdleDesk
<1>2. \A S, L : DeskOK(Class!NoAdm, S, L, now)
  BY <1>1 DEF DeskOK
<1>3. Locks(lock', req, Class!NoAdm)
  BY <1>1 DEF ClassIInv, Locks, ClassConstants
<1>4. QED
  BY <1>2, <1>3

LEMMA AdminLockKeeps ==
    ASSUME ClassIInv, ClassConstants, Class!AdminLock
    PROVE  ClassIInv'
<1> DEFINE Open == /\ org = "active"
                   /\ adm.op = "reactivate" => station[adm.s].st = "revoked"
                   /\ Class!SeatsAt(adm.t0) > 0
<1>0. adm.pc = "begun" /\ adm \in DeskRow /\ adm.t0 \in Nat /\ lock = Nobody
      /\ DeskOK(adm, station, licences, now) /\ Contract(licences)
  BY ConsoleFacts DEF Class!AdminLock, DeskRow
<1>1. CASE ~Open
  <2>1. adm' = Class!NoAdm /\ lock' = lock
    BY <1>1 DEF Class!AdminLock
  <2>2. Class!NoAdm \in DeskRow
    BY IdleDesk
  <2>3. Locks(lock', req, Class!NoAdm) /\ DeskOK(Class!NoAdm, station, licences, now)
    BY <1>0, <2>1, EndLocks
  <2>4. QED
    BY <2>1, <2>2, <2>3, DeskOnly DEF Class!AdminLock
<1>2. CASE Open
  <2> DEFINE k == Class!SeatsAt(adm.t0)
             n == Class!CountActiveStations
             a == [adm EXCEPT !.pc = "locked", !.seats = k, !.active = n]
  <2>1. adm' = a /\ lock' = Admin
    BY <1>2 DEF Class!AdminLock, Class!LockOrg
  <2>2. k \in Nat /\ k = SeatsOf(licences, adm.t0)
    BY <1>0, SeatsAtCounts
  <2>3. n \in Nat /\ n = Taken(station)
    BY TakenIs, IdsFinite
  <2> HIDE DEF k, n
  <2>4. a \in DeskRow /\ a.pc = "locked" /\ a.t0 = adm.t0 /\ a.s = adm.s /\ a.op = adm.op
        /\ a.seats = k /\ a.active = n
    BY <1>0, <2>2, <2>3 DEF DeskRow
  <2> HIDE DEF a
  <2>5. Counts(station, licences, a.active, a.seats, a.t0)
    BY <2>2, <2>3, <2>4 DEF Counts
  <2>6. DeskOK(a, station, licences, now)
    BY <1>0, <2>4, <2>5 DEF DeskOK
  <2>7. Locks(lock', req, a)
    BY <1>0, <2>1, <2>4 DEF ClassIInv, Locks, ClassConstants
  <2>8. QED
    BY <2>1, <2>4, <2>6, <2>7, DeskOnly DEF Class!AdminLock
<1>3. QED
  BY <1>1, <1>2

LEMMA ReactivateKeeps ==
    ASSUME ClassIInv, ClassConstants, Class!reactivateB2BStation
    PROVE  ClassIInv'
<1> DEFINE i == adm.s
           s == station[i]
<1>1. /\ adm.pc = "locked" /\ adm.op = "reactivate" /\ adm \in DeskRow /\ i \in Class!Ids
      /\ adm.t0 \in Nat /\ lock = Admin /\ Fleet(station) /\ s \in StationRow
      /\ Stays(station, station, now)
  BY ConsoleFacts DEF Class!reactivateB2BStation, DeskOK, DeskRow, Fleet
<1>2. adm' = Class!NoAdm /\ lock' = Nobody
  BY DEF Class!reactivateB2BStation, Class!AdminEnd
<1>3. Class!NoAdm \in DeskRow /\ Locks(lock', req, Class!NoAdm)
      /\ DeskOK(Class!NoAdm, station', licences, now)
  BY <1>1, <1>2, IdleDesk, EndLocks
<1>4. \A n \in Machines : req[n].pc # "locked"
  BY <1>1 DEF ClassIInv, Locks, ClassConstants
<1>5. Fleet(station') /\ Stays(station, station', now)
  <2>1. CASE station' = station
    BY <1>1, <2>1
  <2>2. CASE station' # station
    <3> DEFINE t == [s EXCEPT !.st = "active", !.act = adm.t0]
    <3>1. s.st = "revoked" /\ station' = [station EXCEPT ![i] = t]
      BY <1>1, <2>2 DEF Class!reactivateB2BStation, Class!ReactivateStation, Fleet
    <3>2. /\ t \in StationRow /\ t.st = "active" /\ t.m = s.m /\ t.gen = s.gen
          /\ t.seen = s.seen
      BY <1>1 DEF StationRow
    <3>3. t.touched = s.touched
      BY <1>1 DEF StationRow
    <3> HIDE DEF t
    <3>4. \A j \in Class!Ids : station'[j] = IF j = i THEN t ELSE station[j]
      BY <1>1, <3>1 DEF Fleet
    <3>5. Fleet(station')
      BY <1>1, <3>1, <3>2 DEF Fleet
    <3>6. RowStays(s, t, now)
      BY <3>1, <3>2, <3>3 DEF RowStays, Exists
    <3>7. QED
      BY <1>1, <3>4, <3>5, <3>6 DEF Stays
  <2>3. QED
    BY <2>1, <2>2
<1>6. QED
  BY <1>2, <1>3, <1>4, <1>5, ConsoleFacts, ServerKeeps DEF Class!reactivateB2BStation

\* Whatever the console revokes and mints, one key opens.
LEMMA RevokedKeys ==
    ASSUME ClassIInv, NEW t0 \in Nat, t0 <= now
    PROVE  /\ Keyring(Class!RevokeLiveCode(t0), now)
           /\ \A c \in Codes : /\ Class!RevokeLiveCode(t0)[c].won = code[c].won
                               /\ Class!RevokeLiveCode(t0)[c].st = "live" =>
                                     ~(Class!RevokeLiveCode(t0)[c].ends > now)
                               /\ code[c].st = "none" => Class!RevokeLiveCode(t0)[c] = code[c]
<1> DEFINE K == Class!RevokeLiveCode(t0)
<1>1. code \in [Codes -> CodeRow] /\ now \in Nat /\ Keyring(code, now)
  BY ConsoleFacts DEF Keyring
<1>2. \A c \in Codes : K[c] = IF code[c].st = "live" /\ code[c].ends > t0
                              THEN [code[c] EXCEPT !.st = "revoked"] ELSE code[c]
  BY DEF Class!RevokeLiveCode, Class!Redeemable
<1>3. DOMAIN K = Codes /\ K = [c \in Codes |-> K[c]]
  BY DEF Class!RevokeLiveCode
<1> HIDE DEF K
<1>4. ASSUME NEW c \in Codes
      PROVE  /\ K[c] \in CodeRow /\ K[c].won = code[c].won /\ K[c].used = code[c].used
             /\ K[c].max = code[c].max /\ (K[c].st = "live" => ~(K[c].ends > now))
             /\ (code[c].st = "none" => K[c] = code[c])
  <2>1. code[c] \in CodeRow
    BY <1>1
  <2>2. CASE code[c].st = "live" /\ code[c].ends > t0
    <3>1. K[c] = [code[c] EXCEPT !.st = "revoked"]
      BY <1>2, <2>2
    <3>2. QED
      BY <2>1, <2>2, <3>1 DEF CodeRow
  <2>3. CASE ~(code[c].st = "live" /\ code[c].ends > t0)
    <3>1. K[c] = code[c]
      BY <1>2, <2>3
    <3>2. code[c].st = "live" => ~(code[c].ends > now)
      BY <1>1, <2>1, <2>3 DEF CodeRow
    <3>3. QED
      BY <2>1, <3>1, <3>2
  <2>4. QED
    BY <2>2, <2>3
<1>5. K \in [Codes -> CodeRow]
  BY <1>3, <1>4
<1>6. Keyring(K, now)
  BY <1>1, <1>4, <1>5 DEF Keyring
<1>7. QED
  BY <1>4, <1>6 DEF K

LEMMA KeyWriteKeeps ==
    ASSUME ClassIInv, ClassConstants, Class!installerKeyWrite
    PROVE  ClassIInv' /\ \A c \in Codes : code[c].st # "none" => code'[c].won = code[c].won
<1>1. /\ adm.pc = "locked" /\ adm \in DeskRow /\ adm.t0 \in Nat /\ adm.t0 <= now
      /\ adm.seats \in Nat /\ lock = Admin
  BY ConsoleFacts DEF Class!installerKeyWrite, DeskOK, DeskRow
<1>2. adm' = Class!NoAdm /\ lock' = Nobody
  BY DEF Class!installerKeyWrite, Class!AdminEnd
<1>3. Class!NoAdm \in DeskRow /\ Locks(lock', req, Class!NoAdm)
      /\ DeskOK(Class!NoAdm, station', licences, now)
  BY <1>1, <1>2, IdleDesk, EndLocks
<1>4. \A n \in Machines : req[n].pc # "locked"
  BY <1>1 DEF ClassIInv, Locks, ClassConstants
<1>5. Keyring(code', now) /\ \A c \in Codes : code[c].st # "none" => code'[c].won = code[c].won
  <2> DEFINE K == Class!RevokeLiveCode(adm.t0)
             F == Class!FreshCode(adm.seats, adm.t0)
  <2>1. Keyring(K, now) /\ \A c \in Codes : /\ K[c].won = code[c].won
                                            /\ K[c].st = "live" => ~(K[c].ends > now)
    BY <1>1, RevokedKeys
  <2>2. F \in CodeRow /\ F.used = 0 /\ F.won = 0 /\ F.max \in Nat
    <3>1. Class!LicenseEndsAt(adm.t0) \in Nat
      BY <1>1, ConsoleFacts, EndsAt
    <3>2. Class!EnrollUsesFor(adm.seats) \in Nat
      BY <1>1 DEF Class!EnrollUsesFor, ClassConstants
    <3>3. QED
      BY <3>1, <3>2 DEF Class!FreshCode, CodeRow
  <2>3. CASE code' = code
    BY <2>3, ConsoleFacts
  <2>4. CASE code' = K
    BY <2>1, <2>4
  <2>5. CASE Class!MintEnrollCode
    <3>1. PICK c \in Codes : code[c].st = "none" /\ code' = [K EXCEPT ![c] = F]
      BY <2>5 DEF Class!MintEnrollCode
    <3> HIDE DEF K, F
    <3>2. K \in [Codes -> CodeRow]
      BY <2>1 DEF Keyring
    <3>3. code' \in [Codes -> CodeRow] /\ \A d \in Codes : code'[d] = IF d = c THEN F ELSE K[d]
      BY <2>2, <3>1, <3>2
    <3>4. \A d \in Codes : code'[d].used <= code'[d].max /\ code'[d].used = code'[d].won
      BY <2>1, <2>2, <3>3 DEF Keyring
    <3>5. Keyring(code', now)
      BY <2>1, <3>3, <3>4 DEF Keyring
    <3>6. QED
      BY <2>1, <3>1, <3>3, <3>5
  <2>6. QED
    BY <2>3, <2>4, <2>5 DEF Class!installerKeyWrite, Class!OpenInstallerKey, Class!RotateInstallerKey
<1>6. ClassIInv'
  <2>1. Fleet(station') /\ Stays(station, station', now) /\ Contract(licences')
        /\ org' \in {"active", "suspended", "gone"}
    BY ConsoleFacts DEF Class!installerKeyWrite
  <2>2. DeskOK(Class!NoAdm, station', licences', now)
    BY <1>3 DEF Class!installerKeyWrite
  <2>3. QED
    BY <1>2, <1>3, <1>4, <1>5, <2>1, <2>2, ServerKeeps DEF Class!installerKeyWrite
<1>7. QED
  BY <1>5, <1>6

LEMMA RevokeKeeps ==
    ASSUME ClassIInv, ClassConstants, NEW i \in Class!Ids, Class!revokeB2BStation(i)
    PROVE  ClassIInv'
<1> DEFINE t == [station[i] EXCEPT !.st = "revoked"]
<1>1. Fleet(station) /\ station[i] \in StationRow /\ station[i].st = "active"
      /\ station' = [station EXCEPT ![i] = t] /\ Contract(licences)
  BY ConsoleFacts DEF Class!revokeB2BStation, Class!RevokeStation, Fleet
<1>2. /\ t \in StationRow /\ t.st = "revoked" /\ t.m = station[i].m /\ t.gen = station[i].gen
      /\ t.seen = station[i].seen
  BY <1>1 DEF StationRow
<1>3. t.touched = station[i].touched
  BY <1>1 DEF StationRow
<1> HIDE DEF t
<1>4. Fleet(station') /\ \A j \in Class!Ids : station'[j] = IF j = i THEN t ELSE station[j]
  BY <1>1, <1>2 DEF Fleet
<1>5. RowStays(station[i], t, now)
  BY <1>1, <1>2, <1>3 DEF RowStays, Exists
<1>6. Stays(station, station', now)
  BY <1>4, <1>5, ConsoleFacts DEF Stays
<1>7. ActiveOf(station') \subseteq ActiveOf(station)
  BY <1>2, <1>4 DEF ActiveOf
<1>8. QED
  BY <1>1, <1>4, <1>6, <1>7, LooseKeeps DEF Class!revokeB2BStation

\* A row that was deleted.
LEMMA DeletedRow ==
    LET t == [Class!NoStation EXCEPT !.st = "deleted"] IN
    /\ t \in StationRow /\ t.st = "deleted" /\ Class!NoStation \in StationRow
    /\ Class!NoStation.st = "none"
    /\ \A s, k : s.st # "none" => RowStays(s, t, k)
    /\ \A s, k : s.st = "none" => RowStays(s, Class!NoStation, k)
<1> DEFINE t == [Class!NoStation EXCEPT !.st = "deleted"]
<1>1. Class!NoStation \in StationRow /\ Class!NoStation.st = "none"
  BY DEF Class!NoStation, StationRow
<1>2. t \in StationRow /\ t.st = "deleted"
  BY <1>1 DEF StationRow
<1> HIDE DEF t
<1>3. /\ \A s, k : s.st # "none" => RowStays(s, t, k)
      /\ \A s, k : s.st = "none" => RowStays(s, Class!NoStation, k)
  BY <1>1, <1>2 DEF RowStays, Exists
<1>4. QED
  BY <1>1, <1>2, <1>3 DEF t

LEMMA DeleteKeeps ==
    ASSUME ClassIInv, ClassConstants, NEW i \in Class!Ids, Class!deleteB2BStation(i)
    PROVE  ClassIInv'
<1> DEFINE t == [Class!NoStation EXCEPT !.st = "deleted"]
<1>1. Fleet(station) /\ station[i].st # "none"
      /\ station' = [station EXCEPT ![i] = t] /\ Contract(licences)
  BY ConsoleFacts DEF Class!deleteB2BStation, Class!DeleteStation
<1>2. t \in StationRow /\ t.st = "deleted" /\ RowStays(station[i], t, now)
  BY <1>1, DeletedRow
<1> HIDE DEF t
<1>3. Fleet(station') /\ \A j \in Class!Ids : station'[j] = IF j = i THEN t ELSE station[j]
  BY <1>1, <1>2 DEF Fleet
<1>4. Stays(station, station', now)
  BY <1>2, <1>3, ConsoleFacts DEF Stays
<1>5. ActiveOf(station') \subseteq ActiveOf(station)
  BY <1>2, <1>3 DEF ActiveOf
<1>6. QED
  BY <1>1, <1>3, <1>4, <1>5, LooseKeeps DEF Class!deleteB2BStation

LEMMA PatchKeeps ==
    ASSUME ClassIInv, ClassConstants, NEW s \in {"active", "suspended"}, Class!patchB2BOrg(s)
    PROVE  ClassIInv'
<1>1. /\ now' = now /\ lock' = lock /\ licences' = licences /\ code' = code
      /\ station' = station /\ machine' = machine /\ req' = req /\ adm' = adm
      /\ org' \in {"active", "suspended", "gone"}
  BY DEF Class!patchB2BOrg, Class!SetOrgStatus
<1>2. Calm(station, station', licences, licences')
  BY <1>1, FewerTaken
<1>3. /\ Fleet(station') /\ Stays(station, station', now) /\ Keyring(code', now)
      /\ Contract(licences') /\ adm' \in DeskRow /\ DeskOK(adm', station', licences', now)
  BY <1>1, ConsoleFacts
<1>4. Locks(lock', req, adm')
  BY <1>1 DEF ClassIInv
<1>5. QED
  BY <1>1, <1>2, <1>3, <1>4, ServerKeeps

LEMMA SellKeeps ==
    ASSUME ClassIInv, ClassConstants, NEW n \in LicenceTerms, Class!createB2BLicense(n)
    PROVE  ClassIInv'
<1> DEFINE l == Class!Licence(1, now, now + n)
<1>1. licences' = licences \cup {l} /\ now \in Nat /\ n \in Nat /\ Contract(licences)
  BY ConsoleFacts DEF Class!createB2BLicense, Class!CreateB2BLicense, ClassConstants
<1>2. now + n \in Nat
  BY <1>1
<1>3. l \in LicenceRow
  BY <1>1, <1>2 DEF Class!Licence, LicenceRow
<1> HIDE DEF l
<1>4. Contract(licences')
  BY <1>1, <1>3, FS_AddElement DEF Contract
<1>5. Fleet(station') /\ Stays(station, station', now) /\ station' = station
  BY ConsoleFacts DEF Class!createB2BLicense
<1>6. licences \subseteq licences' /\ ActiveOf(station') \subseteq ActiveOf(station)
  BY <1>1, <1>5
<1>7. QED
  BY <1>4, <1>5, <1>6, LooseKeeps DEF Class!createB2BLicense

LEMMA HardDeleteKeeps ==
    ASSUME ClassIInv, ClassConstants, Class!hardDeleteB2BOrg
    PROVE  ClassIInv'
<1> DEFINE D == [Class!NoStation EXCEPT !.st = "deleted"]
           N == Class!NoStation
           S == [i \in Class!Ids |-> IF station[i].st = "none" THEN N ELSE D]
           K == [c \in Codes |-> IF code[c].st = "none" THEN code[c]
                                 ELSE [code[c] EXCEPT !.st = "revoked"]]
<1>1. /\ lock = Nobody /\ org' = "gone" /\ licences' = {} /\ code' = K /\ station' = S
      /\ now' = now /\ lock' = lock /\ machine' = machine /\ req' = req /\ adm' = adm
  BY DEF Class!hardDeleteB2BOrg, Class!HardDeleteB2BOrg
<1>2. adm.pc # "locked" /\ \A m \in Machines : req[m].pc # "locked"
  BY <1>1, ConsoleFacts DEF ClassConstants
<1>3. /\ D \in StationRow /\ N \in StationRow
      /\ \A s, k : s.st # "none" => RowStays(s, D, k)
      /\ \A s, k : s.st = "none" => RowStays(s, N, k)
  BY DeletedRow
<1> HIDE DEF D, N
<1>4. Fleet(S) /\ Stays(station, S, now)
  BY <1>3 DEF Fleet, Stays
<1>5. Keyring(K, now)
  <2>1. code \in [Codes -> CodeRow] /\ Keyring(code, now)
    BY ConsoleFacts DEF Keyring
  <2>2. \A c \in Codes : /\ K[c] \in CodeRow /\ K[c].st # "live" /\ K[c].used = code[c].used
                         /\ K[c].max = code[c].max /\ K[c].won = code[c].won
    <3> SUFFICES ASSUME NEW c \in Codes
                 PROVE  /\ K[c] \in CodeRow /\ K[c].st # "live" /\ K[c].used = code[c].used
                        /\ K[c].max = code[c].max /\ K[c].won = code[c].won
      OBVIOUS
    <3>1. code[c] \in CodeRow
      BY <2>1
    <3>2. CASE code[c].st = "none"
      BY <3>1, <3>2
    <3>3. CASE code[c].st # "none"
      <4>1. K[c] = [code[c] EXCEPT !.st = "revoked"]
        BY <3>3
      <4>2. QED
        BY <3>1, <4>1 DEF CodeRow
    <3>4. QED
      BY <3>2, <3>3
  <2>3. K \in [Codes -> CodeRow]
    BY <2>2
  <2> HIDE DEF K
  <2>4. QED
    BY <2>1, <2>2, <2>3 DEF Keyring
<1> HIDE DEF S, K
<1>6. Contract(licences')
  BY <1>1, FS_EmptySet DEF Contract
<1>7. adm \in DeskRow /\ DeskOK(adm', station', licences', now)
  BY <1>1, <1>2, ConsoleFacts DEF DeskOK
<1>8. Locks(lock', req, adm')
  BY <1>1 DEF ClassIInv
<1>9. QED
  BY <1>1, <1>2, <1>4, <1>5, <1>6, <1>7, <1>8, ServerKeeps

LEMMA TickKeeps ==
    ASSUME ClassIInv, ClassConstants, Class!Tick
    PROVE  ClassIInv'
<1>1. /\ now' = now + 1 /\ now \in 0 .. MaxTime /\ now < MaxTime /\ now \in Nat
      /\ org' = org /\ lock' = lock /\ licences' = licences /\ code' = code
      /\ station' = station /\ req' = req /\ adm' = adm
  <2>1. now \in 0 .. MaxTime /\ now \in Nat
    BY ConsoleFacts DEF ClassIInv, ClassRows
  <2>2. QED
    BY <2>1 DEF Class!Tick
<1>2. now' \in 0 .. MaxTime /\ now' \in Nat
  BY <1>1 DEF ClassConstants
<1>3. ASSUME NEW m \in Machines
      PROVE  machine'[m] \in PcRow /\ PcOK(m, machine'[m], req[m], station, now + 1)
  <2> DEFINE p == machine[m]
             n == IF p.till <= now + 1 THEN 0 ELSE p.till
             r == [p EXCEPT !.nonce = FALSE, !.till = n]
  <2>1. machine'[m] = r
    BY DEF Class!Tick
  <2>2. p \in PcRow /\ PcOK(m, p, req[m], station, now) /\ Fleet(station)
    BY ClassFacts, ConsoleFacts
  <2>3. n \in Nat /\ (n = 0 \/ n = p.till) /\ p.till \in Nat
    BY <2>2 DEF PcRow
  <2> HIDE DEF n
  <2>4. r \in PcRow /\ r.id = p.id /\ r.gen = p.gen /\ r.till = n
    BY <2>2, <2>3 DEF PcRow
  <2>5. r.nonce = FALSE
    BY <2>2 DEF PcRow
  <2> HIDE DEF r
  <2>6. n <= now + 1 + 1
    BY <1>1, <2>2, <2>3 DEF PcOK
  <2>7. CASE p.id = 0
    <3>1. r.till = 0
      BY <2>2, <2>3, <2>4, <2>7 DEF PcOK
    <3>2. QED
      BY <2>1, <2>2, <2>4, <2>5, <2>6, <2>7, <3>1 DEF PcOK
  <2>8. CASE p.id # 0
    <3>1. station[p.id].seen \in Nat
      BY <2>2, <2>8 DEF PcRow, Fleet, StationRow, Class!Ids, ClassConstants
    <3>2. p.till <= station[p.id].seen + 1 => n <= station[p.id].seen + 1
      BY <2>3, <3>1
    <3>3. QED
      BY <2>1, <2>2, <2>4, <2>6, <2>8, <3>2 DEF PcOK
  <2>9. QED
    BY <2>7, <2>8
<1>4. machine' \in [Machines -> PcRow]
  <2>1. DOMAIN machine' = Machines /\ machine' = [m \in Machines |-> machine'[m]]
    BY DEF Class!Tick
  <2>2. QED
    BY <1>3, <2>1
<1>5. ASSUME NEW m \in Machines
      PROVE  CallOK(m, machine'[m], req[m], station, code, licences, now + 1)
  <2>1. CallOK(m, machine[m], req[m], station, code, licences, now) /\ req[m].t0 \in Nat
    BY ClassFacts DEF CallRow
  <2>2. machine'[m].gen = machine[m].gen
    <3>1. machine[m] \in PcRow
      BY ClassFacts
    <3>2. QED
      BY <3>1 DEF Class!Tick, PcRow
  <2>3. QED
    BY <1>1, <2>1, <2>2 DEF CallOK
<1>6. Keyring(code, now + 1)
  <2>1. Keyring(code, now)
    BY DEF ClassIInv
  <2>2. \A c \in Codes : code[c].ends > now + 1 => code[c].ends > now
    BY <1>1, <2>1 DEF Keyring, CodeRow
  <2>3. QED
    BY <2>1, <2>2 DEF Keyring
<1>7. DeskOK(adm, station, licences, now + 1)
  <2>1. DeskOK(adm, station, licences, now) /\ adm.t0 \in Nat
    BY ConsoleFacts DEF DeskRow
  <2>2. QED
    BY <1>1, <2>1 DEF DeskOK
<1>8. ClassRows'
  BY <1>1, <1>2, <1>4 DEF ClassIInv, ClassRows, Contract, Fleet
<1>9. QED
  BY <1>1, <1>3, <1>5, <1>6, <1>7, <1>8 DEF ClassIInv

LEMMA ClassStep ==
    ASSUME ClassIInv, ClassConstants, [Class!ClassNext]_Class!classVars
    PROVE  ClassIInv'
<1>1. CASE UNCHANGED Class!classVars
  <2>1. /\ now' = now /\ org' = org /\ lock' = lock /\ licences' = licences /\ code' = code
        /\ station' = station /\ machine' = machine /\ req' = req /\ adm' = adm
    BY <1>1 DEF Class!classVars
  <2>2. Contract(licences') /\ Fleet(station') /\ Stays(station, station', now)
    BY <2>1, ConsoleFacts
  <2>3. licences \subseteq licences' /\ ActiveOf(station') \subseteq ActiveOf(station)
    BY <2>1
  <2>4. QED
    BY <2>1, <2>2, <2>3, LooseKeeps
<1>2. ASSUME NEW m \in Machines,
             \/ \E c \in Codes : Class!enrollStation(m, c)
             \/ Class!EnrollLock(m) \/ Class!EnrollCommit(m)
             \/ Class!EnrollAnswered(m) \/ Class!EnrollLost(m) \/ Class!EnrollAbandoned(m)
             \/ Class!Challenge(m) \/ Class!stationToken(m) \/ Class!Practise(m)
             \/ Class!Reboot(m) \/ Class!ResetEnrollment(m)
      PROVE  ClassIInv'
  BY <1>2, EnrollKeeps, EnrollLockKeeps, CommitKeeps, AnswerKeeps, LostKeeps, ChallengeKeeps,
     TokenKeeps, PractiseKeeps, RestartKeeps
<1>3. ASSUME NEW i \in Class!Ids,
             \/ Class!AdminBegin("reactivate", i) \/ Class!revokeB2BStation(i)
             \/ Class!deleteB2BStation(i)
      PROVE  ClassIInv'
  <2>1. i \in 0 .. MaxStations
    BY DEF Class!Ids, ClassConstants
  <2>2. QED
    BY <1>3, <2>1, BeginKeeps, RevokeKeeps, DeleteKeeps
<1>4. ASSUME NEW op \in {"open", "rotate"}, Class!AdminBegin(op, 0)
      PROVE  ClassIInv'
  <2>1. 0 \in 0 .. MaxStations
    BY DEF ClassConstants
  <2>2. QED
    BY <1>4, <2>1, BeginKeeps
<1>5. CASE Class!AdminLock \/ Class!reactivateB2BStation \/ Class!installerKeyWrite
  BY <1>5, AdminLockKeeps, ReactivateKeeps, KeyWriteKeeps
<1>6. CASE \/ \E s \in {"active", "suspended"} : Class!patchB2BOrg(s)
           \/ \E n \in LicenceTerms : Class!createB2BLicense(n)
  BY <1>6, PatchKeeps, SellKeeps
<1>7. CASE Class!hardDeleteB2BOrg \/ Class!Tick
  BY <1>7, HardDeleteKeeps, TickKeeps
<1>8. QED
  BY <1>1, <1>2, <1>3, <1>4, <1>5, <1>6, <1>7 DEF Class!ClassNext

LEMMA ClassStarts ==
    ASSUME ClassConstants, Class!ClassInit
    PROVE  ClassIInv
<1>1. /\ now = 0 /\ org = "active" /\ lock = Nobody /\ adm = Class!NoAdm
      /\ station = [i \in Class!Ids |-> Class!NoStation]
      /\ machine = [m \in Machines |-> [id |-> 0, gen |-> 0, till |-> 0, nonce |-> FALSE, phase |-> "up"]]
      /\ req = [m \in Machines |-> Class!NoReq]
  BY DEF Class!ClassInit
<1>2. PICK n \in LicenceTerms, first \in Codes :
        /\ licences = {Class!Licence(1, 0, n)}
        /\ code = [c \in Codes |->
                      IF c = first
                      THEN [st |-> "live", used |-> 0, max |-> UsesPerSeat, ends |-> n, won |-> 0]
                      ELSE Class!NoCode]
  BY DEF Class!ClassInit
<1>3. n \in Nat /\ UsesPerSeat \in Nat
  BY DEF ClassConstants
<1>4. Contract(licences)
  <2>1. Class!Licence(1, 0, n) \in LicenceRow
    BY <1>3 DEF Class!Licence, LicenceRow
  <2>2. QED
    BY <1>2, <2>1, FS_Singleton DEF Contract
<1>5. Keyring(code, now)
  <2> DEFINE k == [st |-> "live", used |-> 0, max |-> UsesPerSeat, ends |-> n, won |-> 0]
  <2>1. k \in CodeRow /\ k.used <= k.max /\ k.used = k.won
    BY <1>3 DEF CodeRow
  <2>2. Class!NoCode \in CodeRow /\ Class!NoCode.used <= Class!NoCode.max
        /\ Class!NoCode.used = Class!NoCode.won /\ Class!NoCode.st # "live"
    BY DEF Class!NoCode, CodeRow
  <2> HIDE DEF k
  <2>3. code = [c \in Codes |-> IF c = first THEN k ELSE Class!NoCode]
    BY <1>2 DEF k
  <2>4. QED
    BY <2>1, <2>2, <2>3 DEF Keyring
<1>6. Fleet(station) /\ \A i \in Class!Ids : station[i].st = "none"
  BY <1>1, DeletedRow DEF Fleet
<1>7. req \in [Machines -> CallRow] /\ \A m \in Machines : req[m].pc = "idle" /\ req[m].t0 = 0
  BY <1>1, IdleCall
<1>8. /\ machine \in [Machines -> PcRow]
      /\ \A m \in Machines : machine[m].id = 0 /\ machine[m].till = 0 /\ machine[m].nonce = FALSE
  <2> DEFINE p == [id |-> 0, gen |-> 0, till |-> 0, nonce |-> FALSE, phase |-> "up"]
  <2>1. p \in PcRow /\ p.id = 0 /\ p.till = 0 /\ p.nonce = FALSE
    BY DEF PcRow, ClassConstants
  <2>2. machine = [m \in Machines |-> p]
    BY <1>1
  <2> HIDE DEF p
  <2>3. QED
    BY <2>1, <2>2
<1>9. adm \in DeskRow /\ adm.pc = "idle" /\ adm.op = "none" /\ adm.t0 = 0
  BY <1>1, IdleDesk
<1>10. ClassRows
  BY <1>1, <1>4, <1>6, <1>7, <1>8, <1>9 DEF ClassRows, ClassConstants
<1>11. Locks(lock, req, adm)
  BY <1>1, <1>7, <1>9 DEF Locks, ClassConstants
<1>12. \A m \in Machines : PcOK(m, machine[m], req[m], station, now)
  BY <1>1, <1>7, <1>8 DEF PcOK
<1>13. \A m \in Machines : CallOK(m, machine[m], req[m], station, code, licences, now)
  BY <1>1, <1>7 DEF CallOK
<1>14. DeskOK(adm, station, licences, now)
  BY <1>1, <1>9 DEF DeskOK
<1>15. QED
  BY <1>5, <1>10, <1>11, <1>12, <1>13, <1>14 DEF ClassIInv

LEMMA ClassMeans ==
    ASSUME ClassIInv, ClassConstants
    PROVE  Class!ClassInv
<1>1. Class!ClassTypeOK
  <2>1. \A i \in Class!Ids : station[i].st \in {"none", "active", "revoked", "deleted"}
    BY DEF ClassIInv, ClassRows, Fleet, StationRow
  <2>2. \A m \in Machines : machine[m].id \in 0 .. MaxStations
    BY ClassFacts DEF PcRow
  <2>3. QED
    BY <2>1, <2>2 DEF ClassIInv, ClassRows, Locks, Class!ClassTypeOK
<1>2. Class!Cardinality({c \in Codes : Class!Redeemable(c, now)}) <= 1
  <2> DEFINE R == {c \in Codes : Class!Redeemable(c, now)}
  <2>1. \A c, d \in R : c = d
    BY DEF Class!Redeemable, ClassIInv, Keyring
  <2>2. R = {} \/ \E c : R = {c}
    BY <2>1
  <2>3. Cardinality(R) \in {0, 1}
    BY <2>2, FS_EmptySet, FS_Singleton
  <2>4. Class!Cardinality(R) = Cardinality(R)
    BY DEF Class!Cardinality, Cardinality
  <2> HIDE DEF R
  <2>5. QED
    BY <2>3, <2>4 DEF R
<1>3. \A c \in Codes : code[c].used <= code[c].max /\ code[c].used = code[c].won
  BY DEF ClassIInv, Keyring
<1>4. \A m \in Machines :
         machine[m].id /= 0 /\ station[machine[m].id].st \in {"active", "revoked"} =>
             station[machine[m].id].m = m /\ station[machine[m].id].gen = machine[m].gen
  BY DEF ClassIInv, PcOK, Owns, Exists
<1>5. (lock = Admin <=> adm.pc = "locked") /\ \A m \in Machines : lock = m <=> req[m].pc = "locked"
  BY DEF ClassIInv, Locks
<1>6. QED
  BY <1>1, <1>2, <1>3, <1>4, <1>5 DEF Class!ClassInv

-----------------------------------------------------------------------------
(* What a step may not do.                                                  *)

\* A step that puts no station on the licence, by no use of a key.
Mild ==
    /\ ActiveOf(station') \subseteq ActiveOf(station)
    /\ \A c \in Codes : code[c].st = "revoked" => code'[c].won = code[c].won
    /\ \A n \in Machines : req[n].pc = "locked" => req'[n].pc # "answer"

Promises == Class!SeatsHold /\ Class!RevokedKeyEnrolsNobody /\ Class!LessonGoesOn

\* The seats as the model counts them.
LEMMA SeatsHoldIf ==
    ASSUME ClassConstants,
           ~(Taken(station') <= Taken(station)) =>
               \/ \E n \in Machines : req[n].pc = "locked" /\ Taken(station') <= Class!SeatsAt(req[n].t0)
               \/ adm.pc = "locked" /\ Taken(station') <= Class!SeatsAt(adm.t0)
    PROVE  Class!SeatsHold
<1> DEFINE b == Class!Cardinality(Class!Active')  a == Class!Cardinality(Class!Active)
<1>1. Class!Active' = ActiveOf(station') /\ Class!Active = ActiveOf(station)
  BY DEF Class!Active, ActiveOf
<1>2. b = Taken(station') /\ a = Taken(station)
  BY <1>1 DEF Taken, Class!Cardinality, Cardinality
<1>3. Taken(station) \in Nat /\ Taken(station') \in Nat
  BY IdsFinite
<1> HIDE DEF a, b
<1>4. b > a => ~(b <= a)
  BY <1>2, <1>3
<1>5. SUFFICES ASSUME b > a
               PROVE  \E t0 \in {req[m].t0 : m \in {n \in Machines : req[n].pc = "locked"}}
                                   \cup (IF adm.pc = "locked" THEN {adm.t0} ELSE {}) :
                         b <= Class!SeatsAt(t0)
  BY DEF Class!SeatsHold, a, b
<1>6. QED
  BY <1>2, <1>4, <1>5

LEMMA MildPromises ==
    ASSUME ClassIInv, ClassConstants, Mild
    PROVE  Promises
<1>1. Taken(station') <= Taken(station)
  BY FewerTaken DEF Mild, Calm
<1>2. Class!SeatsHold
  BY <1>1, SeatsHoldIf
<1>3. QED
  BY <1>2 DEF Promises, Mild, Class!RevokedKeyEnrolsNobody, Class!LessonGoesOn

LEMMA OneMore ==
    ASSUME ClassConstants, NEW i, ActiveOf(station') \subseteq ActiveOf(station) \cup {i}
    PROVE  Taken(station') <= Taken(station) + 1
<1>1. IsFiniteSet(ActiveOf(station)) /\ IsFiniteSet(ActiveOf(station) \cup {i})
      /\ Cardinality(ActiveOf(station) \cup {i}) <= Cardinality(ActiveOf(station)) + 1
  <2>1. IsFiniteSet(ActiveOf(station))
    BY IdsFinite
  <2> DEFINE a == Cardinality(ActiveOf(station))  b == Cardinality(ActiveOf(station) \cup {i})
  <2>2. IsFiniteSet(ActiveOf(station) \cup {i}) /\ (b = a \/ b = a + 1)
    BY <2>1, FS_AddElement
  <2>3. a \in Nat
    BY <2>1, FS_CardinalityType
  <2> HIDE DEF a, b
  <2>4. b <= a + 1
    BY <2>2, <2>3
  <2>5. QED
    BY <2>1, <2>2, <2>4 DEF a, b
<1>2. Cardinality(ActiveOf(station')) <= Cardinality(ActiveOf(station) \cup {i})
  BY <1>1, FS_Subset
<1> DEFINE x == Cardinality(ActiveOf(station'))  y == Cardinality(ActiveOf(station) \cup {i})
           z == Cardinality(ActiveOf(station))
<1>3. x \in Nat /\ y \in Nat /\ z \in Nat
  BY <1>1, IdsFinite, FS_CardinalityType
<1>4. Taken(station') = x /\ Taken(station) = z
  BY DEF Taken
<1> HIDE DEF x, y, z
<1>5. x <= y /\ y <= z + 1
  BY <1>1, <1>2 DEF x, y, z
<1>6. QED
  BY <1>3, <1>4, <1>5

\* A transaction that counted n stations and k seats at t0 may add one.
LEMMA RoomForOne ==
    ASSUME ClassConstants, Contract(licences), NEW n \in Nat, NEW k \in Nat, NEW t0 \in Nat,
           Counts(station, licences, n, k, t0), n < k, Taken(station') <= Taken(station) + 1
    PROVE  Taken(station') <= Class!SeatsAt(t0)
<1> DEFINE a == Taken(station)  b == Taken(station')  s == SeatsOf(licences, t0)
<1>1. a \in Nat /\ b \in Nat /\ s \in Nat /\ Class!SeatsAt(t0) = s
  BY IdsFinite, SeatsAtCounts
<1>2. a <= n /\ k <= s /\ b <= a + 1
  BY DEF Counts
<1> HIDE DEF a, b, s
<1>3. QED
  BY <1>1, <1>2 DEF b

LEMMA CommitPromises ==
    ASSUME ClassIInv, ClassConstants, NEW m \in Machines, Class!EnrollCommit(m)
    PROVE  Promises
<1>1. /\ req[m].pc = "locked" /\ req[m] \in CallRow /\ req[m].t0 <= now /\ req[m].c \in Codes
      /\ code[req[m].c].st = "live" /\ Contract(licences) /\ code \in [Codes -> CodeRow]
      /\ Counts(station, licences, req[m].active, req[m].seats, req[m].t0)
  BY ClassFacts, ConsoleFacts DEF Class!EnrollCommit, CallOK, Keyring
<1>2. CASE Class!Refused(m) /\ UNCHANGED <<station, code>>
  <2>1. station' = station /\ code' = code /\ req' = [req EXCEPT ![m] = Class!NoReq]
    BY <1>2 DEF Class!Refused
  <2>2. \A n \in Machines : req'[n] = IF n = m THEN Class!NoReq ELSE req[n]
    BY <2>1, ClassFacts
  <2>3. Mild
    BY <2>1, <2>2, IdleCall DEF Mild
  <2>4. QED
    BY <2>3, MildPromises
<1>3. ASSUME NEW gone \in Class!SeatFor(m), NEW i \in Class!Ids, Class!FreeId(i),
             Class!InsertStation(m, i, gone)
      PROVE  Promises
  <2> DEFINE r == req[m]
  <2>1. /\ \A j \in gone : j # i /\ station'[j].st = "revoked"
        /\ \A j \in Class!Ids \ gone : j # i => station'[j] = station[j]
    BY <1>1, <1>3, InsertFacts
  <2>2. /\ gone \subseteq ActiveOf(station)
        /\ r.active < r.seats => gone = {}
        /\ ~(r.active < r.seats) => \E j : gone = {j}
        /\ \A j \in gone : Class!LastSign(j) + Class!StaleAfter < r.t0
    BY <1>3, SeatsFreed
  <2>3. ActiveOf(station') \subseteq (ActiveOf(station) \ gone) \cup {i}
    BY <2>1 DEF ActiveOf
  <2>4. Class!SeatsHold
    <3>1. CASE r.active < r.seats
      <4>1. Taken(station') <= Taken(station) + 1
        BY <2>3, OneMore
      <4>2. r.active \in Nat /\ r.seats \in Nat /\ r.t0 \in Nat
        BY <1>1 DEF CallRow
      <4>3. Taken(station') <= Class!SeatsAt(r.t0)
        BY <1>1, <3>1, <4>1, <4>2, RoomForOne
      <4>4. QED
        BY <1>1, <4>3, SeatsHoldIf
    <3>2. CASE ~(r.active < r.seats)
      <4>1. PICK j : gone = {j}
        BY <2>2, <3>2
      <4> DEFINE A == ActiveOf(station)  B == A \ {j}  x == Cardinality(A)  y == Cardinality(B)
                 z == Cardinality(B \cup {i})  w == Cardinality(ActiveOf(station'))
      <4>2. IsFiniteSet(A) /\ j \in A
        BY <2>2, <4>1, IdsFinite
      <4>3. IsFiniteSet(B) /\ x \in Nat /\ y = x - 1
        BY <4>2, OneLess
      <4>4. IsFiniteSet(B \cup {i}) /\ y \in Nat /\ (z = y \/ z = y + 1)
        BY <4>3, FS_AddElement, FS_CardinalityType
      <4>5. ActiveOf(station') \subseteq B \cup {i}
        BY <2>3, <4>1
      <4>6. w \in Nat /\ w <= z
        BY <4>4, <4>5, FS_Subset, FS_CardinalityType
      <4>7. Taken(station') = w /\ Taken(station) = x
        BY DEF Taken
      <4> HIDE DEF w, x, y, z
      <4>8. Taken(station') <= Taken(station)
        BY <4>3, <4>4, <4>6, <4>7
      <4>9. QED
        BY <4>8, SeatsHoldIf
    <3>3. QED
      BY <3>1, <3>2
  <2>5. Class!RevokedKeyEnrolsNobody
    <3>1. \A c \in Codes : c # r.c => code'[c] = code[c]
      BY <1>1, <1>3 DEF Class!InsertStation
    <3>2. QED
      BY <1>1, <3>1 DEF Class!RevokedKeyEnrolsNobody
  <2>6. Class!LessonGoesOn
    <3> SUFFICES ASSUME NEW j \in Class!Active, NEW n \in Machines,
                        station'[j].st = "revoked", machine[n].id = j, station[j].m = n,
                        station[j].touched
                 PROVE  machine[n].till <= now
      BY DEF Class!LessonGoesOn
    <3>1. j \in Class!Ids /\ station[j].st = "active" /\ station[j] \in StationRow
      BY ConsoleFacts DEF Class!Active, Fleet
    <3>2. j # i
      BY <1>3, <3>1 DEF Class!FreeId
    <3>3. j \in gone
      BY <2>1, <3>1, <3>2
    <3> DEFINE s == station[j].seen  a == station[j].act  t == machine[n].till  k == r.t0
    <3>4. Class!LastSign(j) + 2 < k
      BY <2>2, <3>3 DEF Class!StaleAfter
    <3>5. s \in Nat /\ a \in Nat /\ Class!LastSign(j) = Class!Max({s, a})
      BY <3>1 DEF StationRow, Class!LastSign
    <3>6. Class!Max({s, a}) \in {s, a} /\ Class!Max({s, a}) >= s
      <4> HIDE DEF s, a
      <4>1. \E x \in {s, a} : \A y \in {s, a} : x >= y
        <5>1. CASE s >= a
          BY <3>5, <5>1
        <5>2. CASE ~(s >= a)
          BY <3>5, <5>2
        <5>3. QED
          BY <5>1, <5>2
      <4>2. QED
        BY <4>1 DEF Class!Max
    <3>7. t <= s + 1 /\ t \in Nat
      <4>1. machine[n] \in PcRow /\ PcOK(n, machine[n], req[n], station, now)
        BY ClassFacts
      <4>2. j # 0
        BY <3>1 DEF Class!Ids
      <4>3. QED
        BY <3>1, <4>1, <4>2 DEF PcOK, PcRow, Exists
    <3>8. k \in Nat /\ k <= now /\ now \in Nat
      BY <1>1, ConsoleFacts DEF CallRow
    <3> DEFINE l == Class!LastSign(j)
    <3>9. l \in Nat /\ l >= s /\ l + 2 < k
      BY <3>4, <3>5, <3>6
    <3> HIDE DEF s, a, t, k, l
    <3>10. t <= now
      BY <3>5, <3>7, <3>8, <3>9
    <3>11. QED
      BY <3>10 DEF t
  <2>7. QED
    BY <2>4, <2>5, <2>6 DEF Promises
<1>4. QED
  BY <1>2, <1>3 DEF Class!EnrollCommit

LEMMA ReactivatePromises ==
    ASSUME ClassIInv, ClassConstants, Class!reactivateB2BStation
    PROVE  Promises
<1>1. /\ adm.pc = "locked" /\ adm \in DeskRow /\ Contract(licences)
      /\ Counts(station, licences, adm.active, adm.seats, adm.t0) /\ Fleet(station)
      /\ req' = req /\ code' = code
  BY ConsoleFacts DEF Class!reactivateB2BStation, DeskOK
<1>2. CASE station' = station
  <2>1. Mild
    BY <1>1, <1>2 DEF Mild
  <2>2. QED
    BY <2>1, MildPromises
<1>3. CASE station' # station
  <2> DEFINE i == adm.s
             t == [station[i] EXCEPT !.st = "active", !.act = adm.t0]
  <2>1. adm.active < adm.seats /\ station' = [station EXCEPT ![i] = t]
    BY <1>1, <1>3 DEF Class!reactivateB2BStation, Class!ReactivateStation, Fleet
  <2> HIDE DEF t
  <2>2. \A j \in Class!Ids : j # i => station'[j] = station[j]
    BY <1>1, <2>1 DEF Fleet
  <2>3. ActiveOf(station') \subseteq ActiveOf(station) \cup {i}
    BY <2>2 DEF ActiveOf
  <2>4. Taken(station') <= Taken(station) + 1
    BY <2>3, OneMore
  <2>5. adm.active \in Nat /\ adm.seats \in Nat /\ adm.t0 \in Nat
    BY <1>1 DEF DeskRow
  <2>6. Taken(station') <= Class!SeatsAt(adm.t0)
    BY <1>1, <2>1, <2>4, <2>5, RoomForOne
  <2>7. Class!SeatsHold
    BY <1>1, <2>6, SeatsHoldIf
  <2>8. QED
    BY <1>1, <2>7 DEF Promises, Class!RevokedKeyEnrolsNobody, Class!LessonGoesOn
<1>4. QED
  BY <1>2, <1>3

\* The steps of a PC other than the commit.
LEMMA PcIsMild ==
    ASSUME ClassIInv, ClassConstants, NEW m \in Machines,
           \/ \E c \in Codes : Class!enrollStation(m, c)
           \/ Class!EnrollLock(m) \/ Class!EnrollAnswered(m) \/ Class!EnrollLost(m)
           \/ Class!EnrollAbandoned(m)
    PROVE  Mild
<1>1. station' = station /\ code' = code
  BY DEF Class!enrollStation, Class!EnrollLock, Class!EnrollAnswered, Class!EnrollLost,
         Class!EnrollAbandoned
<1>2. \E q : q.pc # "answer" /\ req' = [req EXCEPT ![m] = q]
  <2>1. CASE req' = [req EXCEPT ![m] = Class!NoReq]
    BY <2>1, IdleCall
  <2>2. CASE \E c \in Codes : Class!enrollStation(m, c) /\ Class!Redeemable(c, now)
    <3>1. PICK c \in Codes : req' = [req EXCEPT ![m] = [Class!NoReq EXCEPT !.pc = "read", !.c = c, !.t0 = now]]
      BY <2>2 DEF Class!enrollStation
    <3>2. [Class!NoReq EXCEPT !.pc = "read", !.c = c, !.t0 = now].pc = "read"
      BY IdleCall DEF CallRow
    <3>3. QED
      BY <3>1, <3>2
  <2>3. CASE Class!EnrollLock(m) /\ ~Class!Refused(m)
    <3>1. req' = [req EXCEPT ![m].pc = "locked", ![m].seats = Class!SeatsAt(req[m].t0),
                             ![m].active = Class!CountActiveStations]
      BY <2>3 DEF Class!EnrollLock
    <3> DEFINE k == Class!SeatsAt(req[m].t0)
               n == Class!CountActiveStations
               q == [req[m] EXCEPT !.pc = "locked", !.seats = k, !.active = n]
    <3>2. req' = [req EXCEPT ![m] = q]
      BY <3>1, ClassFacts
    <3> HIDE DEF k, n
    <3>3. q.pc = "locked"
      BY ClassFacts DEF CallRow
    <3>4. QED
      BY <3>2, <3>3
  <2>4. QED
    BY <2>1, <2>2, <2>3 DEF Class!enrollStation, Class!EnrollLock, Class!EnrollAnswered,
       Class!EnrollLost, Class!EnrollAbandoned, Class!Refused
<1>3. PICK q : q.pc # "answer" /\ req' = [req EXCEPT ![m] = q]
  BY <1>2
<1>4. \A n \in Machines : req'[n] = IF n = m THEN q ELSE req[n]
  BY <1>3, ClassFacts
<1>5. QED
  BY <1>1, <1>3, <1>4 DEF Mild

\* The steps of the agent and of the console that take no seat.
LEMMA AgentIsMild ==
    ASSUME ClassIInv, ClassConstants, NEW m \in Machines,
           \/ Class!Challenge(m) \/ Class!stationToken(m) \/ Class!Practise(m)
           \/ Class!Reboot(m) \/ Class!ResetEnrollment(m)
    PROVE  Mild
<1>1. req' = req /\ code' = code /\ licences' = licences
  BY DEF Class!Challenge, Class!stationToken, Class!Practise, Class!Reboot, Class!ResetEnrollment
<1>2. \/ station' = station
      \/ \E ok \in BOOLEAN : Class!Touch(machine[m].id, ok) /\ station[machine[m].id].st = "active"
                             /\ machine[m].id # 0
  <2>1. CASE Class!stationToken(m)
    <3>1. machine[m].id # 0
      BY <2>1, ClassFacts DEF Class!stationToken, PcOK
    <3>2. QED
      BY <2>1, <3>1 DEF Class!stationToken, Class!Token, Class!ActiveStationVIP
  <2>2. CASE Class!Practise(m)
    <3>1. machine[m].id # 0
      <4>1. machine[m].till > now /\ now \in Nat
        BY <2>2, ClassFacts DEF Class!Practise
      <4>2. machine[m].till # 0
        BY <4>1
      <4>3. QED
        BY <4>2, ClassFacts DEF PcOK
    <3>2. QED
      BY <2>2, <3>1 DEF Class!Practise, Class!ActiveStationVIP
  <2>3. CASE Class!Challenge(m) \/ Class!Reboot(m) \/ Class!ResetEnrollment(m)
    BY <2>3 DEF Class!Challenge, Class!Reboot, Class!ResetEnrollment
  <2>4. QED
    BY <2>1, <2>2, <2>3
<1>3. ActiveOf(station') \subseteq ActiveOf(station)
  <2>1. CASE station' = station
    BY <2>1
  <2>2. ASSUME NEW ok \in BOOLEAN, Class!Touch(machine[m].id, ok),
               station[machine[m].id].st = "active", machine[m].id # 0
        PROVE  ActiveOf(station') \subseteq ActiveOf(station)
    <3>1. machine[m].id \in Class!Ids
      BY <2>2, ClassFacts DEF PcRow, Class!Ids, ClassConstants
    <3>2. QED
      BY <1>1, <2>2, <3>1, TouchFacts
  <2>3. QED
    BY <1>2, <2>1, <2>2
<1>4. QED
  BY <1>1, <1>3 DEF Mild

LEMMA SchoolIsMild ==
    ASSUME ClassIInv, ClassConstants,
           \/ \E i \in Class!Ids : \/ Class!AdminBegin("reactivate", i)
                                   \/ Class!revokeB2BStation(i) \/ Class!deleteB2BStation(i)
           \/ \E op \in {"open", "rotate"} : Class!AdminBegin(op, 0)
           \/ Class!AdminLock \/ Class!installerKeyWrite
           \/ \E st \in {"active", "suspended"} : Class!patchB2BOrg(st)
           \/ \E n \in LicenceTerms : Class!createB2BLicense(n)
           \/ Class!hardDeleteB2BOrg \/ Class!Tick
    PROVE  Mild
<1>1. req' = req
  BY DEF Class!AdminBegin, Class!revokeB2BStation, Class!deleteB2BStation, Class!AdminLock,
         Class!installerKeyWrite, Class!patchB2BOrg, Class!createB2BLicense,
         Class!hardDeleteB2BOrg, Class!Tick
<1>2. \A c \in Codes : code[c].st = "revoked" => code'[c].won = code[c].won
  <2>1. CASE Class!installerKeyWrite
    BY <2>1, KeyWriteKeeps
  <2>2. CASE Class!hardDeleteB2BOrg
    <3>1. code \in [Codes -> CodeRow]
      BY ConsoleFacts DEF Keyring
    <3>2. \A c \in Codes : code[c].st = "revoked" => code'[c] = [code[c] EXCEPT !.st = "revoked"]
      BY <2>2 DEF Class!hardDeleteB2BOrg, Class!HardDeleteB2BOrg
    <3>3. QED
      BY <3>1, <3>2 DEF CodeRow
  <2>3. CASE code' = code
    BY <2>3
  <2>4. QED
    BY <2>1, <2>2, <2>3 DEF Class!AdminBegin, Class!revokeB2BStation, Class!deleteB2BStation,
       Class!AdminLock, Class!patchB2BOrg, Class!createB2BLicense, Class!Tick
<1>3. ActiveOf(station') \subseteq ActiveOf(station)
  <2>1. CASE station' = station
    BY <2>1
  <2>2. ASSUME NEW i \in Class!Ids, Class!revokeB2BStation(i) \/ Class!deleteB2BStation(i)
        PROVE  ActiveOf(station') \subseteq ActiveOf(station)
    <3>1. \A j \in Class!Ids : j # i => station'[j] = station[j]
      BY <2>2, ConsoleFacts DEF Class!revokeB2BStation, Class!deleteB2BStation,
         Class!RevokeStation, Class!DeleteStation, Fleet
    <3>2. i \in ActiveOf(station') => i \in ActiveOf(station)
      <4>1. CASE Class!revokeB2BStation(i)
        BY <4>1 DEF Class!revokeB2BStation, Class!RevokeStation, ActiveOf
      <4>2. CASE Class!deleteB2BStation(i)
        <5>1. station' = [station EXCEPT ![i] = [Class!NoStation EXCEPT !.st = "deleted"]]
          BY <4>2 DEF Class!deleteB2BStation, Class!DeleteStation
        <5>2. station'[i].st = "deleted"
          BY <5>1, DeletedRow, ConsoleFacts DEF Fleet
        <5>3. QED
          BY <5>2 DEF ActiveOf
      <4>3. QED
        BY <2>2, <4>1, <4>2
    <3>3. QED
      BY <3>1, <3>2 DEF ActiveOf
  <2>3. CASE Class!hardDeleteB2BOrg
    <3>1. \A i \in Class!Ids : station'[i] = IF station[i].st = "none" THEN Class!NoStation
                                             ELSE [Class!NoStation EXCEPT !.st = "deleted"]
      BY <2>3 DEF Class!hardDeleteB2BOrg, Class!HardDeleteB2BOrg
    <3>2. \A i \in Class!Ids : station'[i].st # "active"
      BY <3>1, DeletedRow
    <3>3. QED
      BY <3>2 DEF ActiveOf
  <2>4. QED
    BY <2>1, <2>2, <2>3 DEF Class!AdminBegin, Class!AdminLock, Class!installerKeyWrite,
       Class!patchB2BOrg, Class!createB2BLicense, Class!Tick
<1>4. QED
  BY <1>1, <1>2, <1>3 DEF Mild

LEMMA ClassPromises ==
    ASSUME ClassIInv, ClassConstants, [Class!ClassNext]_Class!classVars
    PROVE  [Class!SeatsHold /\ Class!RevokedKeyEnrolsNobody /\ Class!LessonGoesOn]_Class!classVars
<1>1. SUFFICES ASSUME Class!ClassNext PROVE Promises
  BY DEF Promises
<1>2. QED
  BY <1>1, CommitPromises, ReactivatePromises, PcIsMild, AgentIsMild, SchoolIsMild, MildPromises
     DEF Class!ClassNext

(* Whatever PCs, requests and the console do between the lock and the       *)
(* commit: one key opens at a time, every use of it put one PC on the       *)
(* licence and none passes the contract, a revoked key enrols nobody, and   *)
(* no seat is taken from a PC at work (EnrollStation, ReactivateStation,    *)
(* installerKeyTx, reclaimStaleSeat).                                       *)
THEOREM ClassSafeThm ==
    ASSUME ClassConstants
    PROVE  Class!ClassSpec => ClassSafe
<1>1. Class!ClassInit => ClassIInv
  BY ClassStarts
<1>2. ClassIInv /\ [Class!ClassNext]_Class!classVars => ClassIInv'
  BY ClassStep
<1>3. ClassIInv => (part = "class" => Class!ClassInv)
  BY ClassMeans
<1>4. ClassIInv /\ [Class!ClassNext]_Class!classVars
        => [Class!SeatsHold /\ Class!RevokedKeyEnrolsNobody /\ Class!LessonGoesOn]_Class!classVars
  BY ClassPromises
<1>5. QED
  BY <1>1, <1>2, <1>3, <1>4, PTL DEF Class!ClassSpec, ClassSafe, Class!SeatsAndKeys

=============================================================================
