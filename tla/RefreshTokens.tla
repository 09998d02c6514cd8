--------------------------- MODULE RefreshTokens ---------------------------
(***************************************************************************)
(* The learner's refresh tokens (auth/service.go): sign-in issues one,    *)
(* Refresh spends one and issues its successor, and a short-lived grace   *)
(* entry in Redis lets a parallel or repeated request with the spent      *)
(* token get the same successor.  Outside the grace a spent token is      *)
(* taken for theft and signs every device of the learner out.  One        *)
(* learner; every request is a process whose database and Redis round     *)
(* trips interleave with those of the others.                              *)
(***************************************************************************)
EXTENDS Naturals, FiniteSets

CONSTANTS NTok,       \* how many tokens are issued at most (bound)
          MaxUpsets,  \* how many faults and administrative acts happen (bound)
          Requests    \* requests in flight

ASSUME BoundsAssumption == NTok \in Nat /\ MaxUpsets \in Nat

Tokens == 1 .. NTok
NoTok == 0

VARIABLES
    row,       \* refresh_token: "unissued", "live", "revoked" or "deleted"
    root,      \* the sign-in token of the chain a token belongs to
    prior,     \* the token it replaced, NoTok for a sign-in
    past,      \* tokens whose expires_at has passed
    grace,     \* Redis auth:rtgrace: the successor handed to late requests
    claim,     \* Redis auth:rtclaim: tokens some rotation has claimed
    banned,    \* profile.status = 'banned'
    hasPw,     \* profile.password_hash is set
    req,       \* what each request is doing
    lost,      \* tokens whose grace a fault took away or hid from a request
    upsets     \* faults and administrative acts so far, at most MaxUpsets

refreshVars == <<row, root, prior, past, grace, claim, banned, hasPw, req, lost, upsets>>

Idle == [pc |-> "idle", tok |-> NoTok, snap |-> {}, late |-> FALSE, out |-> "none"]

RefreshInit ==
    /\ row = [t \in Tokens |-> "unissued"]
    /\ root = [t \in Tokens |-> NoTok] /\ prior = [t \in Tokens |-> NoTok]
    /\ past = {} /\ claim = {} /\ lost = {} /\ upsets = 0
    /\ grace = [t \in Tokens |-> NoTok]
    /\ banned = FALSE /\ hasPw = FALSE
    /\ req = [r \in Requests |-> Idle]

(* The row a transaction has updated and not yet committed: others that     *)
(* want to write it wait (Postgres row lock).                               *)
Locked(t) == \E r \in Requests : req[r].pc = "commit" /\ req[r].tok = t
Live == {t \in Tokens : row[t] = "live"}
Fresh(t) == row[t] = "unissued" /\ \A u \in Tokens : row[u] = "unissued" => t <= u

At(r, pc) == req[r].pc = pc
Goto(r, pc) == req' = [req EXCEPT ![r].pc = pc]
End(r, out) == req' = [req EXCEPT ![r] = [Idle EXCEPT !.pc = "end", !.tok = req[r].tok,
                                                     !.late = req[r].late, !.out = out]]

Upset == upsets < MaxUpsets /\ upsets' = upsets + 1

assertProfileActive == ~banned
GetRefreshToken(t) == row[t]
CreateRefreshToken(t, c, p) ==
    /\ row' = [row EXCEPT ![t] = "live"] /\ root' = [root EXCEPT ![t] = c]
    /\ prior' = [prior EXCEPT ![t] = p]

-----------------------------------------------------------------------------
(* Login: the credentials and the ban are read first; the session is issued *)
(* by a transaction of its own afterwards.                                  *)
LoginCheck(r) ==
    /\ At(r, "idle") /\ assertProfileActive
    /\ \E t \in Tokens : Fresh(t)
    /\ Goto(r, "issue")
    /\ UNCHANGED <<row, root, prior, past, grace, claim, banned, hasPw, lost, upsets>>

issueSession(r) ==
    /\ At(r, "issue")
    /\ \/ \E t \in Tokens :
            /\ Fresh(t) /\ CreateRefreshToken(t, t, NoTok)
            /\ req' = [req EXCEPT ![r] = [Idle EXCEPT !.pc = "end", !.out = "signed"]]
       \/ (\A t \in Tokens : ~Fresh(t)) /\ req' = [req EXCEPT ![r] = Idle]
            /\ UNCHANGED <<row, root, prior>>
    /\ UNCHANGED <<past, grace, claim, banned, hasPw, lost, upsets>>

(* A request presents a token some client holds; "late" remembers that the  *)
(* learner was banned already when it arrived.                              *)
RefreshArrives(r, t) ==
    /\ At(r, "idle") /\ row[t] # "unissued"
    /\ req' = [req EXCEPT ![r] = [Idle EXCEPT !.pc = "fast", !.tok = t, !.late = banned]]
    /\ UNCHANGED <<row, root, prior, past, grace, claim, banned, hasPw, lost, upsets>>

(* gracePair: a grace entry answers the request, unless the learner is no   *)
(* longer active.  Here and in refreshClaimHeld Redis answers; when it does *)
(* not, RedisReadFails is the step.                                         *)
gracePair(r, miss) ==
    /\ IF grace[req[r].tok] = NoTok THEN Goto(r, miss)
       ELSE End(r, IF assertProfileActive THEN "pair" ELSE "blocked")
    /\ UNCHANGED <<row, root, prior, past, grace, claim, banned, hasPw, lost, upsets>>

FastPath(r) == At(r, "fast") /\ gracePair(r, "get")

Get(r) ==
    /\ At(r, "get")
    /\ LET t == req[r].tok IN
       CASE GetRefreshToken(t) = "deleted" -> End(r, "invalid")
         [] GetRefreshToken(t) = "revoked" -> Goto(r, "late")
         [] GetRefreshToken(t) = "live" /\ t \in past -> End(r, "invalid")
         [] GetRefreshToken(t) = "live" /\ t \notin past -> Goto(r, "claim")
    /\ UNCHANGED <<row, root, prior, past, grace, claim, banned, hasPw, lost, upsets>>

(* The row is revoked: a second look at the grace, then at the claim.       *)
LateGrace(r) == At(r, "late") /\ gracePair(r, "held")

(* Mutant: a revoked row without a grace entry is taken for theft at once.  *)
NoClaimCheck(r) ==
    /\ At(r, "held") /\ Goto(r, "reuse")
    /\ UNCHANGED <<row, root, prior, past, grace, claim, banned, hasPw, lost, upsets>>

refreshClaimHeld(r) ==
    /\ At(r, "held")
    /\ Goto(r, IF req[r].tok \in claim THEN "waitRevoked" ELSE "reuse")
    /\ UNCHANGED <<row, root, prior, past, grace, claim, banned, hasPw, lost, upsets>>

(* waitRefreshGrace polls for two seconds; a miss at the deadline is a      *)
(* fault of the winner (slow, crashed, or its grace write failed).          *)
Waits == {"waitRevoked", "waitLost"}
waitRefreshGrace(r) ==
    /\ req[r].pc \in Waits /\ grace[req[r].tok] # NoTok
    /\ gracePair(r, req[r].pc)

WaitTimesOut(r) ==
    /\ req[r].pc \in Waits /\ grace[req[r].tok] = NoTok
    /\ IF At(r, "waitRevoked") THEN Goto(r, "reuse") ELSE End(r, "invalid")
    /\ lost' = lost \cup {req[r].tok}
    /\ UNCHANGED <<row, root, prior, past, grace, claim, banned, hasPw, upsets>>

(* A read of Redis fails, all polls of a wait included: readRefreshGrace    *)
(* takes any error for a missing entry, refreshClaimHeld for a claim nobody *)
(* holds.                                                                   *)
RedisReadFails(r) ==
    /\ Upset
    /\ \/ At(r, "fast") /\ Goto(r, "get")
       \/ At(r, "late") /\ Goto(r, "held")
       \/ req[r].pc \in {"held", "waitRevoked"} /\ Goto(r, "reuse")
       \/ At(r, "waitLost") /\ End(r, "invalid")
    /\ lost' = lost \cup {req[r].tok}
    /\ UNCHANGED <<row, root, prior, past, grace, claim, banned, hasPw>>

(* RevokeAllRefreshTokens is one UPDATE: it sees the rows committed when it *)
(* starts, waits for those another transaction is writing and skips the     *)
(* ones that are no longer live by then.                                    *)
RevokeAllStarts(r) ==
    /\ At(r, "reuse")
    /\ req' = [req EXCEPT ![r].pc = "sweep", ![r].snap = Live]
    /\ UNCHANGED <<row, root, prior, past, grace, claim, banned, hasPw, lost, upsets>>

RevokeAllRefreshTokens(S) ==
    row' = [t \in Tokens |-> IF t \in S /\ row[t] = "live" THEN "revoked" ELSE row[t]]

RevokeAllEnds(r) ==
    /\ At(r, "sweep") /\ \A t \in req[r].snap : ~Locked(t)
    /\ RevokeAllRefreshTokens(req[r].snap)
    /\ lost' = lost \cup {t \in req[r].snap : row[t] = "live"}
    /\ End(r, IF req[r].tok = NoTok THEN "changed" ELSE "reused")
    /\ UNCHANGED <<root, prior, past, grace, claim, banned, hasPw, upsets>>

(* claimRefreshRotation: SETNX; a Redis error lets the caller through.      *)
claimRefreshRotation(r) ==
    /\ At(r, "claim")
    /\ LET t == req[r].tok IN
       \/ t \notin claim /\ claim' = claim \cup {t} /\ Goto(r, "profile") /\ UNCHANGED <<lost, upsets>>
       \/ t \in claim /\ Goto(r, "waitLost") /\ UNCHANGED <<claim, lost, upsets>>
       \/ Upset /\ Goto(r, "profile") /\ lost' = lost \cup {t} /\ UNCHANGED claim
    /\ UNCHANGED <<row, root, prior, past, grace, banned, hasPw>>

CheckProfile(r) ==
    /\ At(r, "profile")
    /\ IF assertProfileActive THEN Goto(r, "update") ELSE End(r, "blocked")
    /\ UNCHANGED <<row, root, prior, past, grace, claim, banned, hasPw, lost, upsets>>

(* The conditional UPDATE decides who spends the token.                     *)
(* Mutant: the UPDATE has no "revoked_at IS NULL" and trusts the first read.*)
SpendsWhatItRead(t) == row[t] # "deleted" /\ t \notin past

CanSpend(t) == row[t] = "live" /\ t \notin past
SpendToken(r) ==
    /\ At(r, "update") /\ ~Locked(req[r].tok)
    /\ Goto(r, IF CanSpend(req[r].tok) THEN "commit" ELSE "waitLost")
    /\ UNCHANGED <<row, root, prior, past, grace, claim, banned, hasPw, lost, upsets>>

(* The successor is inserted and both writes commit together.               *)
RotateCommit(r) ==
    /\ At(r, "commit")
    /\ LET t == req[r].tok IN \E n \in Tokens :
         /\ Fresh(n)
         /\ row' = [row EXCEPT ![t] = "revoked", ![n] = "live"]
         /\ root' = [root EXCEPT ![n] = root[t]] /\ prior' = [prior EXCEPT ![n] = t]
    /\ Goto(r, "grace")
    /\ UNCHANGED <<past, grace, claim, banned, hasPw, lost, upsets>>

Successor(t) == CHOOSE n \in Tokens : prior[n] = t

(* Best effort: the entry is written, or the write fails unnoticed.         *)
writeRefreshGrace(r) ==
    /\ At(r, "grace")
    /\ LET t == req[r].tok IN
       \/ grace' = [grace EXCEPT ![t] = Successor(t)] /\ UNCHANGED <<lost, upsets>>
       \/ Upset /\ lost' = lost \cup {t} /\ UNCHANGED grace
    /\ End(r, "pair")
    /\ UNCHANGED <<row, root, prior, past, claim, banned, hasPw>>

(* A transaction that cannot commit, a cancelled request, a process that    *)
(* dies: an open transaction rolls back, the claim stays until it expires.  *)
Dies(r) ==
    /\ Upset
    /\ req[r].pc \notin {"idle", "end"}
    /\ lost' = IF req[r].pc \in {"profile", "update", "commit", "grace"}
               THEN lost \cup {req[r].tok} ELSE lost
    /\ req' = [req EXCEPT ![r] = Idle]
    /\ UNCHANGED <<row, root, prior, past, grace, claim, banned, hasPw>>

Answered(r) ==
    /\ At(r, "end") /\ req' = [req EXCEPT ![r] = Idle]
    /\ UNCHANGED <<row, root, prior, past, grace, claim, banned, hasPw, lost, upsets>>

-----------------------------------------------------------------------------
(* Logout deletes the row: a later request with that token is invalid, not  *)
(* a reuse.                                                                 *)
DeleteRefreshToken(S) ==
    row' = [t \in Tokens |-> IF t \in S THEN "deleted" ELSE row[t]]

Logout(t) ==
    /\ Upset
    /\ row[t] \in {"live", "revoked"} /\ ~Locked(t)
    /\ DeleteRefreshToken({t})
    /\ UNCHANGED <<root, prior, past, grace, claim, banned, hasPw, req, lost>>

(* The first password, set once: the sessions of the other devices are      *)
(* deleted, so that they wake up signed out rather than as a reuse that     *)
(* would sign the keeper out too.                                           *)
setFirstPassword(keep) ==
    /\ Upset
    /\ ~hasPw /\ hasPw' = TRUE
    /\ LET others == {t \in Tokens : row[t] # "unissued"} \ keep IN
       /\ \A t \in others : ~Locked(t)
       /\ DeleteRefreshToken(others)
    /\ UNCHANGED <<root, prior, past, grace, claim, banned, req, lost>>

(* A changed password revokes every row, after the new hash is stored.      *)
Sweep(r) ==
    /\ Upset
    /\ At(r, "idle")
    /\ req' = [req EXCEPT ![r].pc = "sweep", ![r].snap = Live]
    /\ UNCHANGED <<row, root, prior, past, grace, claim, banned, lost>>
changePassword(r) == hasPw /\ UNCHANGED hasPw /\ Sweep(r)
(* So does a completed reset, which may also set the first password.        *)
CompletePasswordReset(r) == assertProfileActive /\ hasPw' = TRUE /\ Sweep(r)
(* And so does the administrator.                                           *)
RevokeAllLearnerSessions(r) == UNCHANGED hasPw /\ Sweep(r)

RevokeLearnerSession(t) ==
    /\ Upset
    /\ row[t] = "live" /\ ~Locked(t)
    /\ row' = [row EXCEPT ![t] = "revoked"] /\ lost' = lost \cup {t}
    /\ UNCHANGED <<root, prior, past, grace, claim, banned, hasPw, req>>

(* Blocking a learner writes the status only; unblocking is out of scope.   *)
Ban == ~banned /\ banned' = TRUE /\ Upset
       /\ UNCHANGED <<row, root, prior, past, grace, claim, hasPw, req, lost>>

(* Redis forgets an entry when its time is up; a token expires.             *)
GraceLapses(t) ==
    /\ Upset
    /\ grace[t] # NoTok /\ grace' = [grace EXCEPT ![t] = NoTok] /\ lost' = lost \cup {t}
    /\ UNCHANGED <<row, root, prior, past, claim, banned, hasPw, req>>
ClaimLapses(t) ==
    /\ Upset
    /\ t \in claim /\ claim' = claim \ {t} /\ lost' = lost \cup {t}
    /\ UNCHANGED <<row, root, prior, past, grace, banned, hasPw, req>>
TokenExpires(t) ==
    /\ Upset
    /\ row[t] = "live" /\ t \notin past /\ past' = past \cup {t}
    /\ UNCHANGED <<row, root, prior, grace, claim, banned, hasPw, req, lost>>

RequestStep(r) ==
    \/ issueSession(r) \/ FastPath(r) \/ Get(r) \/ LateGrace(r) \/ refreshClaimHeld(r)
    \/ RedisReadFails(r) \/ waitRefreshGrace(r) \/ WaitTimesOut(r) \/ RevokeAllStarts(r) \/ RevokeAllEnds(r)
    \/ claimRefreshRotation(r) \/ CheckProfile(r) \/ SpendToken(r) \/ RotateCommit(r)
    \/ writeRefreshGrace(r) \/ Dies(r) \/ Answered(r)

RefreshNext ==
    \/ \E r \in Requests : \/ LoginCheck(r) \/ changePassword(r) \/ CompletePasswordReset(r)
                          \/ RevokeAllLearnerSessions(r) \/ RequestStep(r)
    \/ \E r \in Requests, t \in Tokens : RefreshArrives(r, t)
    \/ \E t \in Tokens : Logout(t) \/ RevokeLearnerSession(t)
    \/ \E k \in Tokens : setFirstPassword({k})
    \/ Ban
    \/ \E t \in Tokens : GraceLapses(t) \/ ClaimLapses(t) \/ TokenExpires(t)

RefreshSpec == RefreshInit /\ [][RefreshNext]_refreshVars
-----------------------------------------------------------------------------
Outcomes == {"none", "signed", "pair", "blocked", "invalid", "reused", "changed"}
Steps == {"idle", "issue", "fast", "get", "late", "held", "waitRevoked", "waitLost", "reuse",
          "sweep", "claim", "profile", "update", "commit", "grace", "end"}
RefreshTypeOK ==
    /\ row \in [Tokens -> {"unissued", "live", "revoked", "deleted"}]
    /\ root \in [Tokens -> 0 .. NTok] /\ prior \in [Tokens -> 0 .. NTok]
    /\ grace \in [Tokens -> 0 .. NTok]
    /\ past \subseteq Tokens /\ claim \subseteq Tokens /\ lost \subseteq Tokens
    /\ banned \in BOOLEAN /\ hasPw \in BOOLEAN /\ upsets \in 0 .. MaxUpsets
    /\ req \in [Requests -> [pc : Steps, tok : 0 .. NTok, snap : SUBSET Tokens,
                             late : BOOLEAN, out : Outcomes]]

(* A token is spent once: it has at most one successor, and the grace entry *)
(* a late request is answered with is that successor.                       *)
SpentOnce ==
    \A t \in Tokens :
        /\ Cardinality({n \in Tokens : prior[n] = t}) <= 1
        /\ grace[t] # NoTok => prior[grace[t]] = t

(* A learner's every device is signed out for reuse only when the token was *)
(* revoked by somebody, or a fault took the grace entry of its rotation     *)
(* away or made a read of it or of the claim fail: while Redis answers,     *)
(* never because two honest requests of one client ran side by side.        *)
NoFalseAlarm ==
    \A r \in Requests : req[r].pc = "reuse" => req[r].tok \in lost

(* A request that arrives once the learner is blocked gets no tokens,       *)
(* whichever path (rotation, grace, wait) it takes.                         *)
BlockedGetsNothing ==
    \A r \in Requests : req[r].late => req[r].out # "pair"

(* A sign-in has one live token at a time.                                  *)
LiveOf(c) == {t \in Tokens : root[t] = c /\ row[t] = "live"}
OneHead == \A c \in Tokens : Cardinality(LiveOf(c)) <= 1

(* No replay, no false alarm and no way round a block, however rotations,   *)
(* late requests, sweeps and lost grace entries interleave.                 *)
RefreshInv == RefreshTypeOK /\ SpentOnce /\ NoFalseAlarm /\ BlockedGetsNothing /\ OneHead

(* The rows implement SessionChain, one chain of single-use tokens per      *)
(* sign-in: a chain that was closed is never rotated again.                 *)
LiveHead == [c \in Tokens |-> IF LiveOf(c) = {} THEN NoTok ELSE CHOOSE t \in LiveOf(c) : TRUE]
Used == {t \in Tokens : row[t] # "unissued"}
Chain == INSTANCE SessionChain WITH NoToken <- NoTok, head <- LiveHead, used <- Used
RefreshIsAChain == Chain!ChainSpec
=============================================================================
