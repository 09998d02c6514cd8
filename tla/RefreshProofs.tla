--------------------------- MODULE RefreshProofs ---------------------------
(***************************************************************************)
(* The safety of accounts and of the console: refresh tokens               *)
(* (RefreshTokens) and their refinement of SessionChain, edits of staff    *)
(* (AdminDesk), the support inbox (SupportInbox) and staff sign-in         *)
(* (AdminAuth), one part each. This part is about the tokens, for any      *)
(* number of them and of requests.                                         *)
(*                                                                         *)
(* Neither RefreshInv nor the refinement follows from the conditional      *)
(* UPDATE alone.  Whoever may spend a token again must be known to find it *)
(* live and locked until the commit (RotationOwns), a live token must have *)
(* no successor yet (Lineage), and a token that was rotated must stay      *)
(* claimed until a fault takes the claim away (Excused): that is what      *)
(* keeps two honest requests apart from theft.                             *)
(***************************************************************************)
EXTENDS MCAccounts, FiniteSetTheorems, SequenceTheorems, TLAPS

\* A request that is past its arrival presents an issued token.
Presenting == Steps \ {"idle", "issue", "sweep", "end"}
ReqNamed ==
    \A r \in Requests : req[r].pc \in Presenting =>
        req[r].tok \in Tokens /\ row[req[r].tok] # "unissued"

\* A rotation that has updated its token's row is the only one, and the row
\* stays live until it commits.
RotationOwns ==
    \A r \in Requests : req[r].pc = "commit" =>
        /\ row[req[r].tok] = "live"
        /\ \A s \in Requests : req[s].pc = "commit" /\ req[s].tok = req[r].tok => s = r

\* A token belongs to the chain of an issued sign-in, follows at most one
\* spent token, and no other token follows that one.
Lineage ==
    \A t \in Tokens :
        /\ row[t] = "unissued" => root[t] = NoTok /\ prior[t] = NoTok
        /\ row[t] # "unissued" => root[t] \in Tokens /\ row[root[t]] # "unissued"
        /\ prior[t] # NoTok => row[prior[t]] \in {"revoked", "deleted"}
        /\ \A u \in Tokens : prior[t] # NoTok /\ prior[u] = prior[t] => u = t

\* A chain has one live token at most.
OneLive ==
    \A t, u \in Tokens : row[t] = "live" /\ row[u] = "live" /\ root[t] = root[u] => t = u

\* A grace entry is the successor of its token, and the rotation that is about
\* to write one has a successor to write.
Handed ==
    /\ \A t \in Tokens : grace[t] # NoTok => prior[grace[t]] = t
    /\ \A r \in Requests : req[r].pc = "grace" => \E n \in Tokens : prior[n] = req[r].tok

\* A token that somebody is rotating or has rotated is claimed, or a fault has
\* taken the claim away; so is one that a request found revoked.
Rotating == {"profile", "update", "commit", "grace"}
Suspicious == {"late", "held", "waitRevoked"}
Excused ==
    /\ \A t \in Tokens : row[t] = "revoked" => t \in claim \cup lost
    /\ \A r \in Requests : req[r].pc \in Rotating \cup Suspicious => req[r].tok \in claim \cup lost

\* A request that came after the block is never past the check of the profile.
Barred ==
    \A r \in Requests : req[r].late => banned /\ req[r].pc \notin {"update", "commit", "grace"}

IInv ==
    /\ RefreshTypeOK
    /\ ReqNamed /\ RotationOwns
    /\ Lineage /\ OneLive /\ Handed
    /\ Excused /\ NoFalseAlarm
    /\ Barred /\ BlockedGetsNothing

-----------------------------------------------------------------------------
(* Types.                                                                  *)

Request == [pc : Steps, tok : 0 .. NTok, snap : SUBSET Tokens, late : BOOLEAN, out : Outcomes]
RowState == {"unissued", "live", "revoked", "deleted"}

\* Tokens are numbered from 1 and NoTok is none of them.
LEMMA TokenSet ==
    /\ NoTok \notin Tokens /\ NoTok \in 0 .. NTok
    /\ 0 .. NTok = Tokens \cup {NoTok}
    /\ Idle \in Request
    /\ Idle.pc = "idle" /\ Idle.tok = NoTok /\ Idle.late = FALSE /\ Idle.out = "none"
BY BoundsAssumption DEF Tokens, NoTok, Idle, Request, Steps, Outcomes

\* What Goto and End do to the request that moves; the others stay.
LEMMA Moves ==
    ASSUME RefreshTypeOK, NEW r \in Requests
    PROVE  /\ req \in [Requests -> Request]
           /\ \A pc : Goto(r, pc) =>
                 /\ req'[r].pc = pc /\ req'[r].tok = req[r].tok
                 /\ req'[r].late = req[r].late /\ req'[r].out = req[r].out
                 /\ \A s \in Requests \ {r} : req'[s] = req[s]
                 /\ pc \in Steps => req' \in [Requests -> Request]
           /\ \A out : End(r, out) =>
                 /\ req'[r].pc = "end" /\ req'[r].tok = req[r].tok
                 /\ req'[r].late = req[r].late /\ req'[r].out = out
                 /\ \A s \in Requests \ {r} : req'[s] = req[s]
                 /\ out \in Outcomes => req' \in [Requests -> Request]
           /\ req' = [req EXCEPT ![r] = Idle] =>
                 /\ req'[r] = Idle
                 /\ \A s \in Requests \ {r} : req'[s] = req[s]
                 /\ req' \in [Requests -> Request]
<1>1. req \in [Requests -> Request]
  BY DEF RefreshTypeOK, Request
<1>2. ASSUME NEW pc, Goto(r, pc)
      PROVE  /\ req'[r].pc = pc /\ req'[r].tok = req[r].tok
             /\ req'[r].late = req[r].late /\ req'[r].out = req[r].out
             /\ \A s \in Requests \ {r} : req'[s] = req[s]
             /\ pc \in Steps => req' \in [Requests -> Request]
  BY <1>1, <1>2 DEF Goto, Request
<1>3. ASSUME NEW out, End(r, out)
      PROVE  /\ req'[r].pc = "end" /\ req'[r].tok = req[r].tok
             /\ req'[r].late = req[r].late /\ req'[r].out = out
             /\ \A s \in Requests \ {r} : req'[s] = req[s]
             /\ out \in Outcomes => req' \in [Requests -> Request]
  <2> DEFINE q == [Idle EXCEPT !.pc = "end", !.tok = req[r].tok, !.late = req[r].late,
                               !.out = out]
  <2>1. /\ q.pc = "end" /\ q.tok = req[r].tok /\ q.late = req[r].late /\ q.out = out
        /\ out \in Outcomes => q \in Request
    BY <1>1, TokenSet DEF Request, Idle, Steps
  <2>2. req' = [req EXCEPT ![r] = q]
    BY <1>3 DEF End
  <2> HIDE DEF q
  <2>3. QED
    BY <1>1, <2>1, <2>2
<1>4. req' = [req EXCEPT ![r] = Idle] =>
         /\ req'[r] = Idle
         /\ \A s \in Requests \ {r} : req'[s] = req[s]
         /\ req' \in [Requests -> Request]
  BY <1>1, TokenSet
<1>5. QED
  BY <1>1, <1>2, <1>3, <1>4

\* Issuing a token keeps the tables well typed.
LEMMA IssueType ==
    ASSUME RefreshTypeOK, NEW t \in Tokens, NEW c \in 0 .. NTok, NEW p \in 0 .. NTok
    PROVE  /\ [row EXCEPT ![t] = "live"] \in [Tokens -> RowState]
           /\ [root EXCEPT ![t] = c] \in [Tokens -> 0 .. NTok]
           /\ [prior EXCEPT ![t] = p] \in [Tokens -> 0 .. NTok]
           /\ \A u \in Tokens : [row EXCEPT ![u] = "revoked", ![t] = "live"] \in [Tokens -> RowState]
BY DEF RefreshTypeOK, RowState

\* The variables a request's own steps leave alone.
Tables == <<row, root, prior, past, banned, hasPw>>

\* Every step of a request keeps every variable in its type.
LEMMA RequestTypes ==
    ASSUME RefreshTypeOK, ReqNamed, RotationOwns, Lineage, Handed, NEW r \in Requests,
           RequestStep(r)
    PROVE  RefreshTypeOK'
<1>0. /\ req \in [Requests -> Request] /\ row \in [Tokens -> RowState]
      /\ \A pc \in Steps : Goto(r, pc) => req' \in [Requests -> Request]
      /\ \A out \in Outcomes : End(r, out) => req' \in [Requests -> Request]
      /\ req' = [req EXCEPT ![r] = Idle] => req' \in [Requests -> Request]
  BY Moves DEF RefreshTypeOK, RowState
<1>u. Upset => upsets' \in 0 .. MaxUpsets
  BY BoundsAssumption DEF Upset, RefreshTypeOK
<1>t. req[r].pc \in Presenting => req[r].tok \in Tokens
  BY DEF ReqNamed
<1>1. CASE issueSession(r)
  <2>1. CASE UNCHANGED <<row, root, prior>>
    <3>1. \/ req' = [req EXCEPT ![r] = Idle]
          \/ req' = [req EXCEPT ![r] = [Idle EXCEPT !.pc = "end", !.out = "signed"]]
      BY <1>1 DEF issueSession
    <3>2. [Idle EXCEPT !.pc = "end", !.out = "signed"] \in Request
      BY TokenSet DEF Request, Steps, Outcomes
    <3>3. req' \in [Requests -> Request]
      BY <1>0, <3>1, <3>2
    <3>4. QED
      BY <1>1, <2>1, <3>3 DEF issueSession, RefreshTypeOK, Request
  <2>2. CASE ~UNCHANGED <<row, root, prior>>
    <3>1. PICK t \in Tokens :
             /\ CreateRefreshToken(t, t, NoTok)
             /\ req' = [req EXCEPT ![r] = [Idle EXCEPT !.pc = "end", !.out = "signed"]]
      BY <1>1, <2>2 DEF issueSession
    <3>2. [Idle EXCEPT !.pc = "end", !.out = "signed"] \in Request
      BY TokenSet DEF Request, Steps, Outcomes
    <3>3. req' \in [Requests -> Request]
      BY <1>0, <3>1, <3>2
    <3>4. /\ row' \in [Tokens -> RowState] /\ root' \in [Tokens -> 0 .. NTok]
          /\ prior' \in [Tokens -> 0 .. NTok]
      BY <3>1, IssueType, TokenSet DEF CreateRefreshToken
    <3>5. QED
      BY <1>1, <3>3, <3>4 DEF issueSession, RefreshTypeOK, Request, RowState
  <2>3. QED
    BY <2>1, <2>2
<1>2. CASE FastPath(r) \/ LateGrace(r) \/ waitRefreshGrace(r) \/ refreshClaimHeld(r)
           \/ Get(r) \/ CheckProfile(r) \/ SpendToken(r) \/ Answered(r)
  <2>1. /\ \/ \E pc \in Steps : Goto(r, pc)
           \/ \E out \in Outcomes : End(r, out)
           \/ req' = [req EXCEPT ![r] = Idle]
        /\ UNCHANGED <<Tables, grace, claim, lost, upsets>>
    <3>1. CASE FastPath(r) \/ LateGrace(r) \/ waitRefreshGrace(r)
      BY <3>1 DEF FastPath, LateGrace, waitRefreshGrace, gracePair, Steps, Outcomes, Tables, Waits
    <3>2. CASE refreshClaimHeld(r) \/ CheckProfile(r) \/ SpendToken(r) \/ Answered(r)
      BY <3>2 DEF refreshClaimHeld, CheckProfile, SpendToken, Answered, Steps, Outcomes, Tables
    <3>3. CASE Get(r)
      <4>1. req[r].tok \in Tokens /\ row[req[r].tok] \in {"deleted", "revoked", "live"}
        BY <1>0, <3>3 DEF Get, At, ReqNamed, Presenting, Steps, RowState
      <4>2. End(r, "invalid") \/ Goto(r, "late") \/ Goto(r, "claim")
        BY <3>3, <4>1 DEF Get, GetRefreshToken
      <4>3. QED
        BY <3>3, <4>2 DEF Get, Steps, Outcomes, Tables
    <3>4. QED
      BY <1>2, <3>1, <3>2, <3>3
  <2>2. req' \in [Requests -> Request]
    BY <1>0, <2>1
  <2>3. QED
    BY <2>1, <2>2 DEF RefreshTypeOK, Request, Tables
<1>3. CASE WaitTimesOut(r)
  <2>1. req' \in [Requests -> Request]
    BY <1>0, <1>3 DEF WaitTimesOut, Steps, Outcomes
  <2>2. QED
    BY <1>3, <1>t, <2>1 DEF WaitTimesOut, RefreshTypeOK, Request, Presenting, Waits, Steps
<1>4. CASE RevokeAllStarts(r)
  <2> DEFINE swept == [req[r] EXCEPT !.pc = "sweep", !.snap = Live]
  <2>r. swept \in Request
    BY <1>0 DEF Request, Steps, Live
  <2>e. req' = [req EXCEPT ![r] = swept]
    BY <1>0, <1>4 DEF RevokeAllStarts
  <2> HIDE DEF swept
  <2>1. req' \in [Requests -> Request]
    BY <1>0, <2>r, <2>e
  <2>2. QED
    BY <1>4, <2>1 DEF RevokeAllStarts, RefreshTypeOK, Request
<1>5. CASE RevokeAllEnds(r)
  <2>1. req' \in [Requests -> Request]
    BY <1>0, <1>5 DEF RevokeAllEnds, Outcomes
  <2>2. row' \in [Tokens -> RowState] /\ req[r].snap \subseteq Tokens
    BY <1>0, <1>5 DEF RevokeAllEnds, RevokeAllRefreshTokens, RowState, Request
  <2>3. QED
    BY <1>5, <2>1, <2>2 DEF RevokeAllEnds, RefreshTypeOK, Request, RowState
<1>6. CASE claimRefreshRotation(r)
  <2>1. req' \in [Requests -> Request]
    BY <1>0, <1>6 DEF claimRefreshRotation, Steps
  <2>2. req[r].tok \in Tokens
    BY <1>6, <1>t DEF claimRefreshRotation, At, Presenting, Steps
  <2>3. claim' \subseteq Tokens /\ lost' \subseteq Tokens /\ upsets' \in 0 .. MaxUpsets
    BY <1>6, <1>u, <2>2 DEF claimRefreshRotation, RefreshTypeOK
  <2>4. QED
    BY <1>6, <2>1, <2>3 DEF claimRefreshRotation, RefreshTypeOK, Request
<1>7. CASE RotateCommit(r)
  <2>1. req' \in [Requests -> Request]
    BY <1>0, <1>7 DEF RotateCommit, Steps
  <2>2. req[r].tok \in Tokens
    BY <1>7, <1>t DEF RotateCommit, At, Presenting, Steps
  <2>3. PICK n \in Tokens :
           /\ row' = [row EXCEPT ![req[r].tok] = "revoked", ![n] = "live"]
           /\ root' = [root EXCEPT ![n] = root[req[r].tok]]
           /\ prior' = [prior EXCEPT ![n] = req[r].tok]
    BY <1>7 DEF RotateCommit
  <2>4. root[req[r].tok] \in 0 .. NTok /\ req[r].tok \in 0 .. NTok
    BY <2>2, TokenSet DEF RefreshTypeOK
  <2>5. /\ row' \in [Tokens -> RowState] /\ root' \in [Tokens -> 0 .. NTok]
        /\ prior' \in [Tokens -> 0 .. NTok]
    BY <2>2, <2>3, <2>4, IssueType
  <2>6. QED
    BY <1>7, <2>1, <2>5 DEF RotateCommit, RefreshTypeOK, Request, RowState
<1>8. CASE writeRefreshGrace(r)
  <2>1. req' \in [Requests -> Request]
    BY <1>0, <1>8 DEF writeRefreshGrace, Outcomes
  <2>2. req[r].tok \in Tokens /\ \E n \in Tokens : prior[n] = req[r].tok
    BY <1>8, <1>t DEF writeRefreshGrace, At, Presenting, Steps, Handed
  <2>3. Successor(req[r].tok) \in Tokens
    BY <2>2 DEF Successor
  <2>4. /\ grace' \in [Tokens -> 0 .. NTok] /\ lost' \subseteq Tokens
        /\ upsets' \in 0 .. MaxUpsets
    BY <1>8, <1>u, <2>2, <2>3, TokenSet DEF writeRefreshGrace, RefreshTypeOK
  <2>5. QED
    BY <1>8, <2>1, <2>4 DEF writeRefreshGrace, RefreshTypeOK, Request
<1>9. CASE Dies(r)
  <2>1. req' \in [Requests -> Request]
    BY <1>0, <1>9 DEF Dies
  <2>2. lost' \subseteq Tokens
    BY <1>9, <1>t DEF Dies, RefreshTypeOK, Presenting, Steps
  <2>3. QED
    BY <1>9, <1>u, <2>1, <2>2 DEF Dies, RefreshTypeOK, Request
<1>10. CASE RedisReadFails(r)
  <2>1. req' \in [Requests -> Request]
    BY <1>0, <1>10 DEF RedisReadFails, Steps, Outcomes
  <2>2. req[r].tok \in Tokens
    BY <1>10, <1>t DEF RedisReadFails, At, Presenting, Steps
  <2>3. QED
    BY <1>10, <1>u, <2>1, <2>2 DEF RedisReadFails, RefreshTypeOK, Request
<1>11. QED
  BY <1>1, <1>2, <1>3, <1>4, <1>5, <1>6, <1>7, <1>8, <1>9, <1>10 DEF RequestStep

\* Every step keeps every variable in its type.
LEMMA TypeStep ==
    ASSUME RefreshTypeOK, ReqNamed, RotationOwns, Lineage, Handed, [RefreshNext]_refreshVars
    PROVE  RefreshTypeOK'
<1>0. req \in [Requests -> Request] /\ row \in [Tokens -> RowState]
  BY DEF RefreshTypeOK, Request, RowState
<1>u. Upset => upsets' \in 0 .. MaxUpsets
  BY BoundsAssumption DEF Upset, RefreshTypeOK
<1>1. ASSUME NEW r \in Requests, RequestStep(r) PROVE RefreshTypeOK'
  BY <1>1, RequestTypes
<1>2. ASSUME NEW r \in Requests, LoginCheck(r) PROVE RefreshTypeOK'
  <2>1. req' \in [Requests -> Request]
    BY <1>2, Moves DEF LoginCheck, Steps
  <2>2. QED
    BY <1>2, <2>1 DEF LoginCheck, RefreshTypeOK, Request
<1>3. ASSUME NEW r \in Requests, changePassword(r) \/ CompletePasswordReset(r)
                                  \/ RevokeAllLearnerSessions(r)
      PROVE  RefreshTypeOK'
  <2>1. Sweep(r) /\ hasPw' \in BOOLEAN
    BY <1>3 DEF changePassword, CompletePasswordReset, RevokeAllLearnerSessions, RefreshTypeOK
  <2> DEFINE swept == [req[r] EXCEPT !.pc = "sweep", !.snap = Live]
  <2>r. swept \in Request
    BY <1>0 DEF Request, Steps, Live
  <2>e. req' = [req EXCEPT ![r] = swept]
    BY <1>0, <2>1 DEF Sweep
  <2> HIDE DEF swept
  <2>2. req' \in [Requests -> Request]
    BY <1>0, <2>r, <2>e
  <2>3. QED
    BY <1>u, <2>1, <2>2 DEF Sweep, RefreshTypeOK, Request
<1>4. ASSUME NEW r \in Requests, NEW t \in Tokens, RefreshArrives(r, t) PROVE RefreshTypeOK'
  <2>1. [Idle EXCEPT !.pc = "fast", !.tok = t, !.late = banned] \in Request
    BY TokenSet DEF Request, Steps, RefreshTypeOK
  <2>2. req' \in [Requests -> Request]
    BY <1>0, <1>4, <2>1 DEF RefreshArrives
  <2>3. QED
    BY <1>4, <2>2 DEF RefreshArrives, RefreshTypeOK, Request
<1>5. ASSUME NEW t \in Tokens, Logout(t) \/ RevokeLearnerSession(t) PROVE RefreshTypeOK'
  <2>1. row' \in [Tokens -> RowState] /\ lost' \subseteq Tokens
    BY <1>0, <1>5 DEF Logout, RevokeLearnerSession, DeleteRefreshToken, RowState, RefreshTypeOK
  <2>2. QED
    BY <1>5, <1>u, <2>1 DEF Logout, RevokeLearnerSession, RefreshTypeOK, RowState
<1>6. ASSUME NEW k \in Tokens, setFirstPassword({k}) PROVE RefreshTypeOK'
  <2>1. row' \in [Tokens -> RowState]
    BY <1>0, <1>6 DEF setFirstPassword, DeleteRefreshToken, RowState
  <2>2. QED
    BY <1>6, <1>u, <2>1 DEF setFirstPassword, RefreshTypeOK, RowState
<1>7. CASE Ban
  BY <1>7, <1>u DEF Ban, RefreshTypeOK
<1>8. ASSUME NEW t \in Tokens, GraceLapses(t) \/ ClaimLapses(t) \/ TokenExpires(t)
      PROVE  RefreshTypeOK'
  BY <1>8, <1>u, TokenSet DEF GraceLapses, ClaimLapses, TokenExpires, RefreshTypeOK
<1>9. CASE UNCHANGED refreshVars
  BY <1>9 DEF refreshVars, RefreshTypeOK
<1>10. QED
  BY <1>1, <1>2, <1>3, <1>4, <1>5, <1>6, <1>7, <1>8, <1>9 DEF RefreshNext

-----------------------------------------------------------------------------
(* Steps that issue no token.                                              *)

\* The invariants that speak of one request, together.
Good(r) ==
    /\ req[r].pc \in Presenting => req[r].tok \in Tokens /\ row[req[r].tok] # "unissued"
    /\ req[r].pc = "commit" => row[req[r].tok] = "live"
    /\ req[r].pc = "grace" => \E n \in Tokens : prior[n] = req[r].tok
    /\ req[r].pc \in Rotating \cup Suspicious => req[r].tok \in claim \cup lost
    /\ req[r].pc = "reuse" => req[r].tok \in lost
    /\ req[r].late => /\ banned /\ req[r].out # "pair"
                      /\ req[r].pc \notin {"update", "commit", "grace"}

\* No two rotations have updated the same row.
Apart ==
    \A r, s \in Requests :
        req[r].pc = "commit" /\ req[s].pc = "commit" /\ req[s].tok = req[r].tok => s = r

\* The invariants that speak of the tables.
Records ==
    /\ Lineage /\ OneLive
    /\ \A t \in Tokens : grace[t] # NoTok => prior[grace[t]] = t
    /\ \A t \in Tokens : row[t] = "revoked" => t \in claim \cup lost

\* The inductive invariant, request by request.
LEMMA Regroup ==
    IInv <=> RefreshTypeOK /\ Records /\ Apart /\ \A r \in Requests : Good(r)
<1>1. IInv => RefreshTypeOK /\ Records /\ Apart
  BY DEF IInv, Records, Apart, RotationOwns, Handed, Excused
<1>2. ASSUME IInv, NEW r \in Requests PROVE Good(r)
  BY <1>2 DEF IInv, Good, ReqNamed, RotationOwns, Handed, Excused, NoFalseAlarm, Barred,
     BlockedGetsNothing
<1>3. ASSUME RefreshTypeOK, Records, Apart, \A r \in Requests : Good(r) PROVE IInv
  <2>1. ReqNamed /\ RotationOwns
    BY <1>3 DEF Good, ReqNamed, RotationOwns, Apart
  <2>2. Lineage /\ OneLive /\ Handed
    BY <1>3 DEF Good, Records, Handed
  <2>3. Excused /\ NoFalseAlarm
    BY <1>3 DEF Good, Records, Excused, NoFalseAlarm
  <2>4. Barred /\ BlockedGetsNothing
    BY <1>3 DEF Good, Barred, BlockedGetsNothing
  <2>5. QED
    BY <1>3, <2>1, <2>2, <2>3, <2>4 DEF IInv
<1>4. QED
  BY <1>1, <1>2, <1>3

\* A step that issues nothing: rows only leave the live state, never under a
\* rotation's lock; a claim that goes leaves its token among the lost.
Settles ==
    /\ UNCHANGED <<root, prior>>
    /\ \A t \in Tokens : \/ row'[t] = row[t]
                         \/ /\ row[t] # "unissued" /\ ~Locked(t)
                            /\ row'[t] \in {"revoked", "deleted"}
                            /\ row'[t] = "revoked" => t \in lost'
    /\ \A t \in Tokens : grace'[t] \in {grace[t], NoTok} \/ prior[grace'[t]] = t
    /\ lost \subseteq lost' /\ claim \cup lost \subseteq claim' \cup lost'
    /\ banned => banned'

\* A step that leaves the tables alone settles them.
LEMMA TablesAlone ==
    ASSUME UNCHANGED <<row, root, prior, grace, banned>>,
           lost \subseteq lost', claim \cup lost \subseteq claim' \cup lost'
    PROVE  Settles
BY DEF Settles

\* A step that settles the tables, and in which at most one request moves to
\* a state that is good again, keeps the inductive invariant.
LEMMA SettleStep ==
    ASSUME IInv, RefreshTypeOK', Settles,
           \A r \in Requests :
              \/ req'[r] = req[r]
              \/ /\ Good(r)'
                 /\ req'[r].pc = "commit" =>
                       ~Locked(req'[r].tok) /\ \A s \in Requests \ {r} : req'[s] = req[s]
    PROVE  IInv'
<1>0. RefreshTypeOK /\ Records /\ Apart /\ \A r \in Requests : Good(r)
  BY Regroup
<1>1. \A t \in Tokens : row'[t] = "unissued" <=> row[t] = "unissued"
  BY DEF Settles
<1>2. \A t \in Tokens : row'[t] = "live" => row[t] = "live"
  BY DEF Settles
<1>3. Lineage'
  <2> SUFFICES ASSUME NEW t \in Tokens
               PROVE  /\ row'[t] = "unissued" => root'[t] = NoTok /\ prior'[t] = NoTok
                      /\ row'[t] # "unissued" => root'[t] \in Tokens /\ row'[root'[t]] # "unissued"
                      /\ prior'[t] # NoTok => row'[prior'[t]] \in {"revoked", "deleted"}
                      /\ \A u \in Tokens : prior'[t] # NoTok /\ prior'[u] = prior'[t] => u = t
    BY DEF Lineage
  <2>1. prior[t] \in Tokens \cup {NoTok}
    BY <1>0, TokenSet DEF RefreshTypeOK
  <2>2. QED
    BY <1>0, <1>1, <2>1 DEF Records, Lineage, Settles
<1>4. OneLive'
  BY <1>0, <1>2 DEF Records, OneLive, Settles
<1>5. \A t \in Tokens : grace'[t] # NoTok => prior'[grace'[t]] = t
  BY <1>0 DEF Records, Settles
<1>6. \A t \in Tokens : row'[t] = "revoked" => t \in claim' \cup lost'
  BY <1>0 DEF Records, Settles
<1>7. \A r \in Requests : Good(r)'
  <2> SUFFICES ASSUME NEW r \in Requests, req'[r] = req[r] PROVE Good(r)'
    OBVIOUS
  <2>1. Good(r)
    BY <1>0
  <2>2. req[r].pc = "commit" => row'[req[r].tok] = row[req[r].tok]
    BY <2>1 DEF Good, Settles, Locked, Presenting, Steps
  <2>3. QED
    BY <1>1, <2>1, <2>2 DEF Good, Settles
<1>8. Apart'
  <2> SUFFICES ASSUME NEW r \in Requests, NEW s \in Requests, r # s,
                      req'[r].pc = "commit", req'[s].pc = "commit", req'[s].tok = req'[r].tok
               PROVE  FALSE
    BY DEF Apart
  <2>1. CASE req'[r] = req[r] /\ req'[s] = req[s]
    BY <1>0, <2>1 DEF Apart
  <2>2. CASE req'[r] # req[r]
    BY <2>2 DEF Locked
  <2>3. CASE req'[s] # req[s]
    BY <2>3 DEF Locked
  <2>4. QED
    BY <2>1, <2>2, <2>3
<1>9. QED
  BY <1>3, <1>4, <1>5, <1>6, <1>7, <1>8, Regroup DEF IInv, Records, Apart, Good, ReqNamed,
     RotationOwns, Handed, Excused, NoFalseAlarm, Barred, BlockedGetsNothing

\* A request that has ended, with no tokens if it came after the block, or
\* that is idle or about to sign in, is good.
LEMMA QuietGood ==
    ASSUME NEW r \in Requests, req'[r].pc \in {"idle", "issue", "sweep", "end"},
           req'[r].late => banned' /\ req'[r].out # "pair"
    PROVE  Good(r)'
BY DEF Good, Presenting, Rotating, Suspicious

\* Each step of a request that issues nothing and leaves the rows alone.
LEMMA RequestSettles ==
    ASSUME IInv, RefreshTypeOK', NEW r \in Requests,
           RequestStep(r), ~issueSession(r), ~RotateCommit(r), ~RevokeAllEnds(r)
    PROVE  IInv' /\ Settles
<1>0. /\ RefreshTypeOK /\ Good(r) /\ \A t \in Tokens : row[t] = "revoked" => t \in claim \cup lost
  BY Regroup DEF Records
<1>1. CASE FastPath(r) \/ LateGrace(r) \/ waitRefreshGrace(r)
  <2>1. UNCHANGED <<row, root, prior, grace, claim, banned, lost>>
    BY <1>1 DEF FastPath, LateGrace, waitRefreshGrace, gracePair
  <2>2. \/ End(r, "pair") /\ ~banned
        \/ End(r, "blocked")
        \/ req[r].pc = "fast" /\ Goto(r, "get")
        \/ req[r].pc = "late" /\ Goto(r, "held")
    BY <1>1 DEF FastPath, LateGrace, waitRefreshGrace, gracePair, At, assertProfileActive
  <2>3. \A s \in Requests \ {r} : req'[s] = req[s]
    BY <1>0, <2>2, Moves
  <2>4. Good(r)'
    <3>1. CASE End(r, "pair") /\ ~banned
      BY <1>0, <2>1, <3>1, Moves, QuietGood DEF Good
    <3>2. CASE End(r, "blocked")
      BY <1>0, <2>1, <3>2, Moves, QuietGood DEF Good
    <3>3. CASE \/ req[r].pc = "fast" /\ Goto(r, "get")
               \/ req[r].pc = "late" /\ Goto(r, "held")
      BY <1>0, <2>1, <3>3, Moves DEF Good, Presenting, Steps, Rotating, Suspicious
    <3>4. QED
      BY <2>2, <3>1, <3>2, <3>3
  <2>5. req'[r].pc # "commit"
    BY <1>0, <2>2, Moves
  <2>6. QED
    BY <2>1, <2>3, <2>4, <2>5, TablesAlone, SettleStep
<1>2. CASE Get(r)
  <2>1. UNCHANGED <<row, root, prior, grace, claim, banned, lost>>
    BY <1>2 DEF Get
  <2>2. req[r].tok \in Tokens /\ row[req[r].tok] \in {"deleted", "revoked", "live"}
    BY <1>0, <1>2 DEF Get, At, Good, Presenting, Steps, RefreshTypeOK
  <2>3. \/ End(r, "invalid")
        \/ row[req[r].tok] = "revoked" /\ Goto(r, "late")
        \/ Goto(r, "claim")
    BY <1>2, <2>2 DEF Get, GetRefreshToken
  <2>4. \A s \in Requests \ {r} : req'[s] = req[s]
    BY <1>0, <2>3, Moves
  <2>5. Good(r)' /\ req'[r].pc # "commit"
    <3>1. CASE End(r, "invalid")
      BY <1>0, <2>1, <3>1, Moves, QuietGood DEF Good
    <3>2. CASE row[req[r].tok] = "revoked" /\ Goto(r, "late")
      BY <1>0, <2>1, <2>2, <3>2, Moves DEF Good, Presenting, Steps, Rotating, Suspicious
    <3>3. CASE Goto(r, "claim")
      BY <1>0, <2>1, <2>2, <3>3, Moves DEF Good, Presenting, Steps, Rotating, Suspicious
    <3>4. QED
      BY <2>3, <3>1, <3>2, <3>3
  <2>6. QED
    BY <2>1, <2>4, <2>5, TablesAlone, SettleStep
<1>3. CASE refreshClaimHeld(r)
  <2>1. UNCHANGED <<row, root, prior, grace, claim, banned, lost>> /\ req[r].pc = "held"
    BY <1>3 DEF refreshClaimHeld, At
  <2>2. req[r].tok \in Tokens /\ row[req[r].tok] # "unissued" /\ req[r].tok \in claim \cup lost
    BY <1>0, <2>1 DEF Good, Presenting, Steps, Rotating, Suspicious
  <2>3. \/ Goto(r, "waitRevoked")
        \/ Goto(r, "reuse") /\ req[r].tok \in lost
    BY <1>3, <2>2 DEF refreshClaimHeld
  <2>4. Good(r)' /\ req'[r].pc # "commit" /\ \A s \in Requests \ {r} : req'[s] = req[s]
    BY <1>0, <2>1, <2>2, <2>3, Moves DEF Good, Presenting, Steps, Rotating, Suspicious
  <2>5. QED
    BY <2>1, <2>4, TablesAlone, SettleStep
<1>4. CASE WaitTimesOut(r)
  <2>1. UNCHANGED <<row, root, prior, grace, claim, banned>> /\ lost' = lost \cup {req[r].tok}
    BY <1>4 DEF WaitTimesOut
  <2>2. req[r].tok \in Tokens /\ row[req[r].tok] # "unissued"
    BY <1>0, <1>4 DEF WaitTimesOut, Waits, Good, Presenting, Steps
  <2>3. Goto(r, "reuse") \/ End(r, "invalid")
    BY <1>4 DEF WaitTimesOut
  <2>4. Good(r)' /\ req'[r].pc # "commit" /\ \A s \in Requests \ {r} : req'[s] = req[s]
    <3>1. CASE Goto(r, "reuse")
      BY <1>0, <2>1, <2>2, <3>1, Moves DEF Good, Presenting, Steps, Rotating, Suspicious
    <3>2. CASE End(r, "invalid")
      BY <1>0, <2>1, <3>2, Moves, QuietGood DEF Good
    <3>3. QED
      BY <2>3, <3>1, <3>2
  <2>5. Settles
    BY <2>1, TablesAlone
  <2>6. QED
    BY <2>4, <2>5, SettleStep
<1>redis. CASE RedisReadFails(r)
  <2>1. UNCHANGED <<row, root, prior, grace, claim, banned>> /\ lost' = lost \cup {req[r].tok}
    BY <1>redis DEF RedisReadFails
  <2>2. req[r].tok \in Tokens /\ row[req[r].tok] # "unissued"
    BY <1>0, <1>redis DEF RedisReadFails, At, Good, Presenting, Steps
  <2>3. Goto(r, "get") \/ Goto(r, "held") \/ Goto(r, "reuse") \/ End(r, "invalid")
    BY <1>redis DEF RedisReadFails
  <2>4. Good(r)' /\ req'[r].pc # "commit" /\ \A s \in Requests \ {r} : req'[s] = req[s]
    <3>1. CASE Goto(r, "get") \/ Goto(r, "held") \/ Goto(r, "reuse")
      BY <1>0, <2>1, <2>2, <3>1, Moves DEF Good, Presenting, Steps, Rotating, Suspicious
    <3>2. CASE End(r, "invalid")
      BY <1>0, <2>1, <3>2, Moves, QuietGood DEF Good
    <3>3. QED
      BY <2>3, <3>1, <3>2
  <2>5. Settles
    BY <2>1, TablesAlone
  <2>6. QED
    BY <2>4, <2>5, SettleStep
<1>5. CASE RevokeAllStarts(r)
  <2>1. UNCHANGED <<row, root, prior, grace, claim, banned, lost>>
    BY <1>5 DEF RevokeAllStarts
  <2>2. /\ req'[r].pc = "sweep" /\ req'[r].late = req[r].late /\ req'[r].out = req[r].out
        /\ \A s \in Requests \ {r} : req'[s] = req[s]
    BY <1>0, <1>5 DEF RevokeAllStarts, RefreshTypeOK
  <2>3. Good(r)'
    BY <1>0, <2>1, <2>2, QuietGood DEF Good
  <2>4. QED
    BY <2>1, <2>2, <2>3, TablesAlone, SettleStep
<1>6. CASE claimRefreshRotation(r)
  <2>1. /\ UNCHANGED <<row, root, prior, grace, banned>> /\ req[r].pc = "claim"
        /\ \/ Goto(r, "profile") /\ req[r].tok \in claim' \cup lost'
           \/ Goto(r, "waitLost")
    BY <1>6 DEF claimRefreshRotation, At
  <2>2. Settles
    <3>1. lost \subseteq lost' /\ claim \cup lost \subseteq claim' \cup lost'
      BY <1>6 DEF claimRefreshRotation
    <3>2. QED
      BY <2>1, <3>1, TablesAlone
  <2>3. Good(r)' /\ req'[r].pc # "commit" /\ \A s \in Requests \ {r} : req'[s] = req[s]
    BY <1>0, <2>1, Moves DEF Good, Presenting, Steps, Rotating, Suspicious
  <2>4. QED
    BY <2>2, <2>3, SettleStep
<1>7. CASE CheckProfile(r)
  <2>1. /\ UNCHANGED <<row, root, prior, grace, claim, banned, lost>> /\ req[r].pc = "profile"
        /\ (~banned /\ Goto(r, "update")) \/ End(r, "blocked")
    BY <1>7 DEF CheckProfile, At, assertProfileActive
  <2>2. Good(r)' /\ req'[r].pc # "commit" /\ \A s \in Requests \ {r} : req'[s] = req[s]
    <3>1. CASE ~banned /\ Goto(r, "update")
      BY <1>0, <2>1, <3>1, Moves DEF Good, Presenting, Steps, Rotating, Suspicious
    <3>2. CASE End(r, "blocked")
      BY <1>0, <2>1, <3>2, Moves, QuietGood DEF Good
    <3>3. QED
      BY <2>1, <3>1, <3>2
  <2>3. QED
    BY <2>1, <2>2, TablesAlone, SettleStep
<1>8. CASE SpendToken(r)
  <2>1. /\ UNCHANGED <<row, root, prior, grace, claim, banned, lost>> /\ req[r].pc = "update"
        /\ ~Locked(req[r].tok)
        /\ \/ row[req[r].tok] = "live" /\ Goto(r, "commit")
           \/ Goto(r, "waitLost")
    BY <1>8 DEF SpendToken, At, CanSpend
  <2>2. /\ Good(r)' /\ req'[r].tok = req[r].tok
        /\ \A s \in Requests \ {r} : req'[s] = req[s]
    BY <1>0, <2>1, Moves DEF Good, Presenting, Steps, Rotating, Suspicious
  <2>3. QED
    BY <2>1, <2>2, TablesAlone, SettleStep
<1>9. CASE writeRefreshGrace(r)
  <2>1. /\ UNCHANGED <<row, root, prior, claim, banned>> /\ req[r].pc = "grace"
        /\ End(r, "pair") /\ lost \subseteq lost'
    BY <1>9 DEF writeRefreshGrace, At
  <2>2. prior[Successor(req[r].tok)] = req[r].tok
    BY <1>0, <2>1 DEF Good, Successor
  <2>3. \A t \in Tokens : grace'[t] = grace[t] \/ prior[grace'[t]] = t
    BY <1>0, <1>9, <2>2 DEF writeRefreshGrace, RefreshTypeOK
  <2>4. Settles
    BY <2>1, <2>3 DEF Settles
  <2>5. ~req[r].late
    BY <1>0, <2>1 DEF Good
  <2>6. Good(r)' /\ req'[r].pc # "commit" /\ \A s \in Requests \ {r} : req'[s] = req[s]
    BY <1>0, <2>1, <2>5, Moves, QuietGood
  <2>7. QED
    BY <2>4, <2>6, SettleStep
<1>10. CASE Dies(r) \/ Answered(r)
  <2>1. /\ UNCHANGED <<row, root, prior, grace, claim, banned>> /\ lost \subseteq lost'
        /\ req' = [req EXCEPT ![r] = Idle]
    BY <1>10 DEF Dies, Answered
  <2>2. req'[r] = Idle /\ \A s \in Requests \ {r} : req'[s] = req[s]
    BY <1>0, <2>1, Moves
  <2>3. Good(r)' /\ req'[r].pc # "commit"
    BY <2>2, TokenSet, QuietGood
  <2>4. Settles
    BY <2>1, TablesAlone
  <2>5. QED
    BY <2>2, <2>3, <2>4, SettleStep
<1>11. QED
  BY <1>1, <1>2, <1>3, <1>4, <1>5, <1>6, <1>7, <1>8, <1>9, <1>10, <1>redis DEF RequestStep

\* A sweep (reuse, new password, administrator) revokes the rows it saw and
\* waits for those under a rotation's lock.
LEMMA SweepStep ==
    ASSUME IInv, RefreshTypeOK', NEW r \in Requests, RevokeAllEnds(r)
    PROVE  IInv' /\ Settles
<1>0. RefreshTypeOK /\ Good(r)
  BY Regroup
<1>1. \E out \in {"changed", "reused"} : End(r, out)
  BY DEF RevokeAllEnds
<1>2. /\ req'[r].pc = "end" /\ req'[r].late = req[r].late /\ req'[r].out # "pair"
      /\ \A s \in Requests \ {r} : req'[s] = req[s]
  BY <1>0, <1>1, Moves
<1>3. Good(r)'
  BY <1>0, <1>2, QuietGood DEF Good, RevokeAllEnds
<1>4. Settles
  BY <1>0 DEF Settles, RevokeAllEnds, RevokeAllRefreshTokens, RefreshTypeOK
<1>5. QED
  BY <1>2, <1>3, <1>4, SettleStep

\* The steps of the learner, the administrator and the clock.
LEMMA OutsideStep ==
    ASSUME IInv, RefreshTypeOK', RefreshNext, \A r \in Requests : ~RequestStep(r)
    PROVE  IInv' /\ Settles
<1>0. RefreshTypeOK /\ \A r \in Requests : Good(r)
  BY Regroup
<1>1. ASSUME NEW r \in Requests, LoginCheck(r) PROVE IInv' /\ Settles
  <2>1. UNCHANGED <<row, root, prior, grace, claim, banned, lost>> /\ Goto(r, "issue")
    BY <1>1 DEF LoginCheck
  <2>2. Good(r)' /\ req'[r].pc # "commit" /\ \A s \in Requests \ {r} : req'[s] = req[s]
    BY <1>0, <2>1, Moves, QuietGood DEF Good
  <2>3. QED
    BY <2>1, <2>2, TablesAlone, SettleStep
<1>2. ASSUME NEW r \in Requests, Sweep(r) PROVE IInv' /\ Settles
  <2>1. /\ UNCHANGED <<row, root, prior, grace, claim, banned, lost>>
        /\ req'[r].pc = "sweep" /\ req'[r].late = req[r].late /\ req'[r].out = req[r].out
        /\ \A s \in Requests \ {r} : req'[s] = req[s]
    BY <1>0, <1>2 DEF Sweep, RefreshTypeOK
  <2>2. Good(r)'
    BY <1>0, <2>1, QuietGood DEF Good
  <2>3. QED
    BY <2>1, <2>2, TablesAlone, SettleStep
<1>3. ASSUME NEW r \in Requests, NEW t \in Tokens, RefreshArrives(r, t) PROVE IInv' /\ Settles
  <2>1. /\ UNCHANGED <<row, root, prior, grace, claim, banned, lost>> /\ row[t] # "unissued"
        /\ req'[r].pc = "fast" /\ req'[r].tok = t /\ req'[r].late = banned
        /\ req'[r].out = "none"
        /\ \A s \in Requests \ {r} : req'[s] = req[s]
    BY <1>0, <1>3 DEF RefreshArrives, RefreshTypeOK, Idle
  <2>2. Good(r)'
    BY <2>1 DEF Good, Presenting, Steps, Rotating, Suspicious
  <2>3. QED
    BY <2>1, <2>2, TablesAlone, SettleStep
<1>4. ASSUME NEW t \in Tokens, Logout(t) \/ RevokeLearnerSession(t) PROVE IInv' /\ Settles
  <2>1. Settles
    BY <1>0, <1>4 DEF Settles, Logout, RevokeLearnerSession, DeleteRefreshToken, RefreshTypeOK
  <2>2. req' = req
    BY <1>4 DEF Logout, RevokeLearnerSession
  <2>3. QED
    BY <2>1, <2>2, SettleStep
<1>5. ASSUME NEW k \in Tokens, setFirstPassword({k}) PROVE IInv' /\ Settles
  <2>1. Settles
    BY <1>0, <1>5 DEF Settles, setFirstPassword, DeleteRefreshToken, RefreshTypeOK
  <2>2. QED
    BY <1>5, <2>1, SettleStep DEF setFirstPassword
<1>6. CASE Ban
  <2>1. Settles /\ req' = req
    BY <1>6 DEF Ban, Settles
  <2>2. QED
    BY <2>1, SettleStep
<1>7. ASSUME NEW t \in Tokens, GraceLapses(t) \/ ClaimLapses(t) \/ TokenExpires(t)
      PROVE  IInv' /\ Settles
  <2>1. Settles /\ req' = req
    BY <1>0, <1>7 DEF GraceLapses, ClaimLapses, TokenExpires, Settles, RefreshTypeOK
  <2>2. QED
    BY <2>1, SettleStep
<1>8. QED
  BY <1>1, <1>2, <1>3, <1>4, <1>5, <1>6, <1>7
     DEF RefreshNext, changePassword, CompletePasswordReset, RevokeAllLearnerSessions

-----------------------------------------------------------------------------
(* Steps that issue a token.                                               *)

\* A sign-in opens a chain of its own.
LEMMA SignInStep ==
    ASSUME IInv, RefreshTypeOK', NEW r \in Requests, NEW t \in Tokens,
           row[t] = "unissued", CreateRefreshToken(t, t, NoTok),
           req' = [req EXCEPT ![r] = [Idle EXCEPT !.pc = "end", !.out = "signed"]],
           UNCHANGED <<grace, claim, banned, lost>>
    PROVE  IInv'
<1>0. RefreshTypeOK /\ Records /\ Apart /\ \A s \in Requests : Good(s)
  BY Regroup
<1>1. /\ row'[t] = "live" /\ root'[t] = t /\ prior'[t] = NoTok
      /\ \A u \in Tokens \ {t} : row'[u] = row[u] /\ root'[u] = root[u] /\ prior'[u] = prior[u]
      /\ prior[t] = NoTok
  BY <1>0 DEF CreateRefreshToken, RefreshTypeOK, Records, Lineage
<1>2. /\ req'[r].pc = "end" /\ req'[r].late = FALSE
      /\ \A s \in Requests \ {r} : req'[s] = req[s]
  BY <1>0 DEF RefreshTypeOK, Idle
<1>3. Lineage'
  <2> SUFFICES ASSUME NEW u \in Tokens
               PROVE  /\ row'[u] = "unissued" => root'[u] = NoTok /\ prior'[u] = NoTok
                      /\ row'[u] # "unissued" => root'[u] \in Tokens /\ row'[root'[u]] # "unissued"
                      /\ prior'[u] # NoTok => row'[prior'[u]] \in {"revoked", "deleted"}
                      /\ \A v \in Tokens : prior'[u] # NoTok /\ prior'[v] = prior'[u] => v = u
    BY DEF Lineage
  <2>1. prior[u] \in Tokens \cup {NoTok}
    BY <1>0, TokenSet DEF RefreshTypeOK
  <2>2. QED
    BY <1>0, <1>1, <2>1 DEF Records, Lineage
<1>4. OneLive'
  BY <1>0, <1>1 DEF Records, Lineage, OneLive
<1>5. \A u \in Tokens : grace'[u] # NoTok => prior'[grace'[u]] = u
  <2>1. \A u \in Tokens : grace[u] \in Tokens \cup {NoTok}
    BY <1>0, TokenSet DEF RefreshTypeOK
  <2>2. QED
    BY <1>0, <1>1, <2>1, TokenSet DEF Records
<1>6. \A u \in Tokens : row'[u] = "revoked" => u \in claim' \cup lost'
  BY <1>0, <1>1 DEF Records
<1>7. \A s \in Requests : Good(s)'
  <2>1. Good(r)'
    BY <1>2, QuietGood
  <2>2. ASSUME NEW s \in Requests \ {r} PROVE Good(s)'
    <3>1. Good(s) /\ req'[s] = req[s]
      BY <1>0, <1>2
    <3>2. req[s].pc \in Presenting => req[s].tok \in Tokens \ {t}
      BY <3>1 DEF Good
    <3>3. \A n \in Tokens : prior[n] = req[s].tok /\ req[s].tok \in Tokens
                              => prior'[n] = req[s].tok
      BY <1>1, TokenSet
    <3>4. QED
      BY <1>1, <3>1, <3>2, <3>3 DEF Good, Presenting, Steps
  <2>3. QED
    BY <2>1, <2>2
<1>8. Apart'
  BY <1>0, <1>2 DEF Apart
<1>9. QED
  BY <1>3, <1>4, <1>5, <1>6, <1>7, <1>8 DEF IInv, Records, Apart, Good, ReqNamed,
     RotationOwns, Handed, Excused, NoFalseAlarm, Barred, BlockedGetsNothing

\* The commit of a rotation: the spent token was live and had no successor,
\* the new one is live in the same chain.
LEMMA RotateStep ==
    ASSUME IInv, RefreshTypeOK', NEW r \in Requests, RotateCommit(r)
    PROVE  /\ IInv'
           /\ \E t, n \in Tokens :
                 /\ row[t] = "live" /\ row[n] = "unissued" /\ t # n
                 /\ root[t] \in Tokens /\ root'[t] = root[t] /\ root'[n] = root[t]
                 /\ row'[t] = "revoked" /\ row'[n] = "live"
                 /\ \A u \in Tokens \ {t, n} : row'[u] = row[u] /\ root'[u] = root[u]
<1>0. RefreshTypeOK /\ Records /\ Apart /\ \A s \in Requests : Good(s)
  BY Regroup
<1> DEFINE t == req[r].tok
<1>1. /\ t \in Tokens /\ row[t] = "live" /\ t \in claim \cup lost /\ ~req[r].late
      /\ req[r].pc = "commit"
  BY <1>0 DEF RotateCommit, At, Good, Presenting, Steps, Rotating
<1>2. PICK n \in Tokens :
         /\ row[n] = "unissued"
         /\ row' = [row EXCEPT ![t] = "revoked", ![n] = "live"]
         /\ root' = [root EXCEPT ![n] = root[t]] /\ prior' = [prior EXCEPT ![n] = t]
  BY DEF RotateCommit, Fresh
<1>3. /\ n # t /\ row'[t] = "revoked" /\ row'[n] = "live"
      /\ root'[n] = root[t] /\ prior'[n] = t /\ prior[n] = NoTok /\ root[n] = NoTok
      /\ \A u \in Tokens \ {n} : root'[u] = root[u] /\ prior'[u] = prior[u]
      /\ \A u \in Tokens \ {t, n} : row'[u] = row[u]
  BY <1>0, <1>1, <1>2 DEF RefreshTypeOK, Records, Lineage
<1>4. /\ req'[r].pc = "grace" /\ req'[r].tok = t /\ req'[r].late = req[r].late
      /\ \A s \in Requests \ {r} : req'[s] = req[s]
  BY <1>0, Moves DEF RotateCommit
<1>5. UNCHANGED <<grace, claim, lost, banned>>
  BY DEF RotateCommit
<1>6. root[t] \in Tokens /\ row[root[t]] # "unissued"
  BY <1>0, <1>1 DEF Records, Lineage
<1> HIDE DEF t
<1>8. Lineage'
  <2> SUFFICES ASSUME NEW u \in Tokens
               PROVE  /\ row'[u] = "unissued" => root'[u] = NoTok /\ prior'[u] = NoTok
                      /\ row'[u] # "unissued" => root'[u] \in Tokens /\ row'[root'[u]] # "unissued"
                      /\ prior'[u] # NoTok => row'[prior'[u]] \in {"revoked", "deleted"}
                      /\ \A v \in Tokens : prior'[u] # NoTok /\ prior'[v] = prior'[u] => v = u
    BY DEF Lineage
  <2>1. prior[u] \in Tokens \cup {NoTok} /\ \A v \in Tokens : prior[v] # t
    BY <1>0, <1>1, TokenSet DEF RefreshTypeOK, Records, Lineage
  <2>2. CASE u = n
    BY <1>1, <1>3, <1>6, <2>1, <2>2
  <2>3. CASE u # n
    <3>1. /\ row[u] = "unissued" => root[u] = NoTok /\ prior[u] = NoTok
          /\ row[u] # "unissued" => root[u] \in Tokens /\ row[root[u]] # "unissued"
          /\ prior[u] # NoTok => row[prior[u]] \in {"revoked", "deleted"}
          /\ \A v \in Tokens : prior[u] # NoTok /\ prior[v] = prior[u] => v = u
      BY <1>0 DEF Records, Lineage
    <3>2. root'[u] = root[u] /\ prior'[u] = prior[u] /\ (row'[u] = "unissued" <=> row[u] = "unissued")
      BY <1>1, <1>3, <2>3
    <3>3. row[u] # "unissued" => row'[root[u]] # "unissued"
      BY <1>1, <1>2, <1>3, <3>1
    <3>4. prior[u] # NoTok => row'[prior[u]] \in {"revoked", "deleted"}
      BY <1>2, <1>3, <2>1, <3>1
    <3>5. \A v \in Tokens : prior[u] # NoTok /\ prior'[v] = prior[u] => v = u
      BY <1>3, <2>1, <3>1
    <3>6. QED
      BY <3>1, <3>2, <3>3, <3>4, <3>5
  <2>4. QED
    BY <2>2, <2>3
<1>9. OneLive'
  BY <1>0, <1>1, <1>3 DEF Records, OneLive
<1>10. \A u \in Tokens : grace'[u] # NoTok => prior'[grace'[u]] = u
  <2>1. \A u \in Tokens : grace[u] \in Tokens \cup {NoTok}
    BY <1>0, TokenSet DEF RefreshTypeOK
  <2>2. QED
    BY <1>0, <1>3, <1>5, <2>1, TokenSet DEF Records
<1>11. \A u \in Tokens : row'[u] = "revoked" => u \in claim' \cup lost'
  BY <1>0, <1>1, <1>3, <1>5 DEF Records
<1>12. \A s \in Requests : Good(s)'
  <2>1. Good(r)'
    BY <1>1, <1>3, <1>4, <1>5 DEF Good, Presenting, Steps, Rotating, Suspicious
  <2>2. ASSUME NEW s \in Requests \ {r} PROVE Good(s)'
    <3>1. Good(s) /\ req'[s] = req[s]
      BY <1>0, <1>4
    <3>2. /\ req[s].pc \in Presenting => req[s].tok \in Tokens \ {n}
          /\ req[s].pc = "commit" => req[s].tok # t
      BY <1>0, <1>1, <1>2, <3>1 DEF Good, Apart, t
    <3>3. \A m \in Tokens : prior[m] = req[s].tok /\ req[s].tok \in Tokens
                              => prior'[m] = req[s].tok
      BY <1>3, TokenSet
    <3>4. QED
      BY <1>1, <1>3, <1>5, <3>1, <3>2, <3>3 DEF Good, Presenting, Steps
  <2>3. QED
    BY <2>1, <2>2
<1>13. Apart'
  BY <1>0, <1>4 DEF Apart
<1>14. IInv'
  BY <1>8, <1>9, <1>10, <1>11, <1>12, <1>13 DEF IInv, Records, Apart, Good, ReqNamed,
     RotationOwns, Handed, Excused, NoFalseAlarm, Barred, BlockedGetsNothing
<1>15. /\ row[t] = "live" /\ row[n] = "unissued" /\ t # n
       /\ root[t] \in Tokens /\ root'[t] = root[t] /\ root'[n] = root[t]
       /\ row'[t] = "revoked" /\ row'[n] = "live"
       /\ \A u \in Tokens \ {t, n} : row'[u] = row[u] /\ root'[u] = root[u]
  BY <1>1, <1>2, <1>3, <1>6
<1>16. QED
  BY <1>1, <1>14, <1>15

-----------------------------------------------------------------------------
(* The theorems.                                                           *)

\* A step that issues a session, seen from the tables.
LEMMA IssueShape ==
    ASSUME IInv, NEW r \in Requests, issueSession(r)
    PROVE  \/ UNCHANGED <<row, root, prior, grace, claim, banned, lost>> /\ req' = [req EXCEPT ![r] = Idle]
           \/ \E t \in Tokens :
                 /\ row[t] = "unissued" /\ CreateRefreshToken(t, t, NoTok)
                 /\ req' = [req EXCEPT ![r] = [Idle EXCEPT !.pc = "end", !.out = "signed"]]
                 /\ UNCHANGED <<grace, claim, banned, lost>>
BY DEF issueSession, Fresh

\* Every step keeps the inductive invariant; one that issues no token settles
\* the tables.
LEMMA Inductive ==
    ASSUME IInv, [RefreshNext]_refreshVars
    PROVE  /\ IInv'
           /\ \/ Settles
              \/ \E r \in Requests : issueSession(r) \/ RotateCommit(r)
<1>1. RefreshTypeOK'
  BY TypeStep DEF IInv
<1>2. CASE UNCHANGED refreshVars
  <2>1. Settles /\ req' = req
    BY <1>2 DEF refreshVars, Settles
  <2>2. QED
    BY <1>1, <2>1, SettleStep
<1>3. ASSUME NEW r \in Requests, RequestStep(r)
      PROVE  IInv' /\ (Settles \/ issueSession(r) \/ RotateCommit(r))
  <2>1. CASE issueSession(r)
    <3>1. CASE UNCHANGED <<row, root, prior, grace, claim, banned, lost>>
               /\ req' = [req EXCEPT ![r] = Idle]
      <4>1. req'[r] = Idle /\ \A s \in Requests \ {r} : req'[s] = req[s]
        BY <3>1, Moves DEF IInv
      <4>2. Good(r)' /\ req'[r].pc # "commit"
        BY <4>1, TokenSet, QuietGood
      <4>3. QED
        BY <1>1, <2>1, <3>1, <4>1, <4>2, TablesAlone, SettleStep
    <3>2. QED
      BY <1>1, <2>1, <3>1, IssueShape, SignInStep
  <2>2. CASE RotateCommit(r)
    BY <1>1, <2>2, RotateStep
  <2>3. CASE RevokeAllEnds(r)
    BY <1>1, <2>3, SweepStep
  <2>4. CASE ~issueSession(r) /\ ~RotateCommit(r) /\ ~RevokeAllEnds(r)
    BY <1>1, <1>3, <2>4, RequestSettles
  <2>5. QED
    BY <2>1, <2>2, <2>3, <2>4
<1>4. CASE RefreshNext /\ \A r \in Requests : ~RequestStep(r)
  BY <1>1, <1>4, OutsideStep
<1>5. QED
  BY <1>2, <1>3, <1>4

\* The empty tables satisfy the inductive invariant.
LEMMA InitIInv ==
    ASSUME RefreshInit
    PROVE  IInv
<1>1. RefreshTypeOK
  <2>1. req \in [Requests -> Request]
    BY TokenSet DEF RefreshInit
  <2>2. QED
    <3>1. /\ row \in [Tokens -> RowState] /\ root \in [Tokens -> 0 .. NTok]
          /\ prior \in [Tokens -> 0 .. NTok] /\ grace \in [Tokens -> 0 .. NTok]
      BY TokenSet DEF RefreshInit, RowState
    <3>2. /\ past \subseteq Tokens /\ claim \subseteq Tokens /\ lost \subseteq Tokens
          /\ banned \in BOOLEAN /\ hasPw \in BOOLEAN /\ upsets \in 0 .. MaxUpsets
      <4>1. upsets \in 0 .. MaxUpsets
        BY BoundsAssumption DEF RefreshInit
      <4>2. QED
        BY <4>1 DEF RefreshInit
    <3>3. QED
      BY <2>1, <3>1, <3>2 DEF RefreshTypeOK, Request, RowState
<1>2. Records
  BY DEF RefreshInit, Records, Lineage, OneLive
<1>3. Apart /\ \A r \in Requests : Good(r)
  BY TokenSet DEF RefreshInit, Apart, Good, Presenting, Rotating, Suspicious
<1>4. QED
  BY <1>1, <1>2, <1>3, Regroup

\* The inductive invariant holds in every reachable state.
THEOREM Invariance == RefreshSpec => []IInv
<1>1. RefreshInit => IInv
  BY InitIInv
<1>2. IInv /\ [RefreshNext]_refreshVars => IInv'
  BY Inductive
<1>3. QED
  BY <1>1, <1>2, PTL DEF RefreshSpec

\* A set of tokens without two different members has at most one.
LEMMA AtMostOne ==
    ASSUME NEW S, \A x, y \in S : x = y
    PROVE  Cardinality(S) <= 1
<1>1. CASE S = {}
  BY <1>1, FS_EmptySet
<1>2. ASSUME NEW x \in S PROVE Cardinality(S) = 1
  <2>1. S = {x}
    OBVIOUS
  <2>2. QED
    BY <2>1, FS_Singleton
<1>3. QED
  BY <1>1, <1>2

\* However rotations, late requests, sweeps, faults and lost grace entries
\* interleave: a token has at most one successor and the grace entry is that
\* successor, a reuse alarm means that somebody revoked the token or a fault
\* took the grace away, a request that came after the block gets no tokens,
\* and a sign-in has one live token at a time (auth/service.go, Refresh).
THEOREM RefreshSafe == RefreshSpec => []RefreshInv
<1>1. IInv => RefreshInv
  <2> SUFFICES ASSUME IInv PROVE RefreshInv
    OBVIOUS
  <2>1. \A t \in Tokens : Cardinality({n \in Tokens : prior[n] = t}) <= 1
    <3> TAKE t \in Tokens
    <3>1. \A m, n \in {k \in Tokens : prior[k] = t} : m = n
      BY TokenSet DEF IInv, Lineage
    <3>2. QED
      BY <3>1, AtMostOne
  <2>2. SpentOnce
    BY <2>1 DEF IInv, SpentOnce, Handed
  <2>3. OneHead
    <3> SUFFICES ASSUME NEW c \in Tokens PROVE Cardinality(LiveOf(c)) <= 1
      BY DEF OneHead
    <3>1. \A t, u \in LiveOf(c) : t = u
      BY DEF IInv, OneLive, LiveOf
    <3>2. QED
      BY <3>1, AtMostOne
  <2>4. QED
    BY <2>2, <2>3 DEF IInv, RefreshInv
<1>2. QED
  BY <1>1, Invariance, PTL

-----------------------------------------------------------------------------
(* The refinement.                                                         *)

\* The head of a chain is its one live token.
HeadIsLive ==
    \A c \in Tokens :
        /\ LiveHead[c] \in LiveOf(c) \cup {NoTok}
        /\ \A t \in LiveOf(c) : LiveHead[c] = t

LEMMA HeadFacts == OneLive => HeadIsLive
<1> SUFFICES ASSUME OneLive, NEW c \in Tokens
             PROVE  /\ LiveHead[c] \in LiveOf(c) \cup {NoTok}
                    /\ \A t \in LiveOf(c) : LiveHead[c] = t
  BY DEF HeadIsLive
<1>1. \A t, u \in LiveOf(c) : t = u
  BY DEF OneLive, LiveOf
<1>2. QED
  BY <1>1 DEF LiveHead

\* A step that issues no token closes the chains that lose their live token.
LEMMA SettlesIsClose ==
    ASSUME IInv, HeadIsLive, HeadIsLive', Settles
    PROVE  (\E S \in SUBSET Tokens : Chain!Close(S)) \/ UNCHANGED <<LiveHead, Used>>
<1>1. Used' = Used
  BY DEF Used, Settles
<1>2. \A c \in Tokens : LiveHead'[c] \in {LiveHead[c], NoTok}
  <2> TAKE c \in Tokens
  <2>1. \A t \in LiveOf(c)' : t \in LiveOf(c)
    BY DEF LiveOf, Settles
  <2>2. QED
    BY <2>1 DEF HeadIsLive
<1> DEFINE S == {c \in Tokens : LiveHead'[c] # LiveHead[c]}
<1>3. LiveHead' = [c \in Tokens |-> IF c \in S THEN NoTok ELSE LiveHead[c]]
  BY <1>2 DEF LiveHead
<1>4. CASE S = {}
  <2>1. LiveHead' = LiveHead
    BY <1>3, <1>4 DEF LiveHead
  <2>2. QED
    BY <1>1, <2>1
<1>5. CASE S # {}
  <2>1. \A c \in S : LiveHead[c] # NoTok
    BY <1>2
  <2>2. S \in SUBSET Tokens
    OBVIOUS
  <2>3. Chain!Close(S)
    BY <1>1, <1>3, <1>5, <2>1 DEF Chain!Close, Chain!Chains
  <2>4. QED
    BY <2>2, <2>3
<1>6. QED
  BY <1>4, <1>5

\* A chain whose live tokens stay the same keeps its head.
LEMMA HeadKept ==
    ASSUME HeadIsLive, HeadIsLive', NEW c \in Tokens, LiveOf(c)' = LiveOf(c)
    PROVE  LiveHead'[c] = LiveHead[c]
BY DEF HeadIsLive

\* A sign-in opens a chain.
LEMMA SignInIsOpen ==
    ASSUME IInv, HeadIsLive, HeadIsLive', NEW t \in Tokens, row[t] = "unissued",
           CreateRefreshToken(t, t, NoTok)
    PROVE  Chain!Open(t)
<1>1. /\ row'[t] = "live" /\ root'[t] = t
      /\ \A u \in Tokens \ {t} : row'[u] = row[u] /\ root'[u] = root[u]
  BY DEF CreateRefreshToken, IInv, RefreshTypeOK
<1>2. \A u \in Tokens : row[u] # "unissued" => root[u] # t
  BY DEF IInv, Lineage
<1>3. LiveOf(t)' = {t} /\ \A c \in Tokens \ {t} : LiveOf(c)' = LiveOf(c)
  BY <1>1, <1>2 DEF LiveOf
<1>4. LiveHead'[t] = t
  BY <1>3 DEF HeadIsLive
<1>5. \A c \in Tokens \ {t} : LiveHead'[c] = LiveHead[c]
  BY <1>3, HeadKept
<1>6. LiveHead' = [LiveHead EXCEPT ![t] = t]
  BY <1>4, <1>5 DEF LiveHead
<1>7. t \notin Used /\ Used' = Used \cup {t}
  BY <1>1 DEF Used
<1>8. QED
  BY <1>6, <1>7 DEF Chain!Open

\* The commit of a rotation rotates the chain of the spent token.
LEMMA CommitIsRotate ==
    ASSUME IInv, HeadIsLive, HeadIsLive', RefreshTypeOK', NEW r \in Requests, RotateCommit(r)
    PROVE  \E c, n \in Tokens : Chain!Rotate(c, n)
<1>1. PICK t \in Tokens, n \in Tokens :
         /\ row[t] = "live" /\ row[n] = "unissued" /\ t # n
         /\ root[t] \in Tokens /\ root'[t] = root[t] /\ root'[n] = root[t]
         /\ row'[t] = "revoked" /\ row'[n] = "live"
         /\ \A u \in Tokens \ {t, n} : row'[u] = row[u] /\ root'[u] = root[u]
  BY RotateStep
<1>2. PICK c \in Tokens : c = root[t]
  BY <1>1
<1>3. LiveHead[c] # NoTok /\ n \in LiveOf(c)'
  BY <1>1, <1>2, TokenSet DEF HeadIsLive, LiveOf
<1>4. LiveHead'[c] = n
  BY <1>3 DEF HeadIsLive
<1>5. \A d \in Tokens \ {c} : LiveOf(d)' = LiveOf(d)
  <2> SUFFICES ASSUME NEW d \in Tokens \ {c}, NEW u \in Tokens
               PROVE  root'[u] = d /\ row'[u] = "live" <=> root[u] = d /\ row[u] = "live"
    BY DEF LiveOf
  <2>1. QED
    BY <1>1, <1>2
<1>6. \A d \in Tokens \ {c} : LiveHead'[d] = LiveHead[d]
  BY <1>5, HeadKept
<1>7. LiveHead' = [LiveHead EXCEPT ![c] = n]
  <2>1. LiveHead = [d \in Tokens |-> LiveHead[d]] /\ LiveHead' = [d \in Tokens |-> LiveHead'[d]]
    BY DEF LiveHead
  <2>2. QED
    BY <1>4, <1>6, <2>1
<1>8. n \notin Used /\ Used' = Used \cup {n}
  BY <1>1 DEF Used
<1>9. Chain!Rotate(c, n)
  BY <1>3, <1>7, <1>8 DEF Chain!Rotate
<1>10. QED
  BY <1>9

\* Every step of the tokens is a step of the chains or leaves them alone.
LEMMA StepRefines ==
    ASSUME IInv, HeadIsLive, HeadIsLive', [RefreshNext]_refreshVars
    PROVE  [Chain!ChainNext]_<<LiveHead, Used>>
<1>1. CASE Settles
  <2>1. (\E S \in SUBSET Tokens : Chain!Close(S)) => Chain!ChainNext
    BY DEF Chain!ChainNext, Chain!Chains
  <2>2. QED
    BY <1>1, <2>1, SettlesIsClose
<1>2. ASSUME NEW r \in Requests, RotateCommit(r) PROVE Chain!ChainNext
  <2>1. RefreshTypeOK'
    BY Inductive DEF IInv
  <2>2. QED
    BY <1>2, <2>1, CommitIsRotate DEF Chain!ChainNext, Chain!Chains
<1>3. ASSUME NEW r \in Requests, issueSession(r)
      PROVE  Chain!ChainNext \/ UNCHANGED <<LiveHead, Used>>
  <2>1. CASE UNCHANGED <<row, root, prior, grace, claim, banned, lost>>
    BY <2>1 DEF LiveHead, LiveOf, Used
  <2>2. ASSUME NEW t \in Tokens, row[t] = "unissued", CreateRefreshToken(t, t, NoTok)
        PROVE  Chain!ChainNext
    BY <2>2, SignInIsOpen DEF Chain!ChainNext, Chain!Chains
  <2>3. QED
    BY <1>3, <2>1, <2>2, IssueShape
<1>4. QED
  BY <1>1, <1>2, <1>3, Inductive

\* The refresh tokens implement SessionChain: one chain of single-use tokens
\* per sign-in, whose head is spent once and moves to a token never used
\* before, and which is never reopened once it is closed (Refresh, Logout,
\* RevokeAllRefreshTokens, setFirstPassword).
THEOREM Refinement == RefreshSpec => RefreshIsAChain
<1>1. RefreshInit => Chain!ChainInit
  <2> SUFFICES ASSUME RefreshInit PROVE Chain!ChainInit
    OBVIOUS
  <2>1. \A c \in Tokens : LiveOf(c) = {}
    BY DEF RefreshInit, LiveOf
  <2>2. LiveHead = [c \in Tokens |-> NoTok] /\ Used = {}
    BY <2>1 DEF LiveHead, Used, RefreshInit
  <2>3. QED
    BY <2>2 DEF Chain!ChainInit, Chain!Chains
<1>2. IInv => HeadIsLive
  BY HeadFacts DEF IInv
<1>3. IInv /\ HeadIsLive /\ HeadIsLive' /\ [RefreshNext]_refreshVars
         => [Chain!ChainNext]_<<LiveHead, Used>>
  BY StepRefines
<1>4. QED
  BY <1>1, <1>2, <1>3, Invariance, PTL DEF RefreshSpec, RefreshIsAChain, Chain!ChainSpec

-----------------------------------------------------------------------------
(***************************************************************************)
(* Edits from the admin console, for any requests and number of edits.     *)
(*                                                                         *)
(* An edit is before its UPDATE (Early) or after it (Late).  An early edit *)
(* knows a value the row has had, a late one an entry of the trail that    *)
(* tells of it (Knows): that makes the attributed log true.  As long as no *)
(* two edits have overlapped there is one at most (OneAtATime), and it has *)
(* read what the row holds; so nothing is written back and, unless a       *)
(* request died, the log is the trail up to the edit in flight (Complete). *)
(***************************************************************************)
\* A request is no field value: not the one for a field that is not named.
DeskConstants == IsFiniteSet(Procs) /\ 9 \notin Procs /\ MaxEdits \in Nat

Val == {0, 1, 9} \cup Procs
Pair == [a : Val, b : Val]
Zero == [a |-> 0, b |-> 0]
DeskPc == {"idle", "reread", "write", "bulk", "revise", "audit", "summary"}
JobRow == [pc : DeskPc, ask : Pair, seen : Pair, before : Pair, after : Pair]
TrailRow == [before : Pair, after : Pair]
LogRow == [by : Procs, before : Pair, after : Pair]

Early(j) == j.pc \in {"reread", "write", "bulk"} \/ (j.pc = "revise" /\ kind # "question")
Late(j) == j.pc \in {"audit", "summary"} \/ (j.pc = "revise" /\ kind = "question")

DeskTypes ==
    /\ kind \in Desk!Kinds /\ field \in Pair /\ wanted \in Pair /\ edit \in [Procs -> JobRow]
    /\ trail \in Seq(TrailRow) /\ log \in Seq(LogRow) /\ revs \in Seq(Pair)
    /\ crossed \in BOOLEAN /\ cut \in BOOLEAN /\ edits \in Nat

\* What the request may name, by the table it edits.
Asks(p, j) ==
    /\ kind \in {"question", "flag", "provider"} => j.ask.a \in {0, 1} /\ j.ask.b = 9
    /\ kind = "explanation" => j.ask = [a |-> 1, b |-> p]
    /\ kind = "ticket" => j.ask.a \in {0, 1}

Told(v, m) == \E k \in 1..m : trail[k].before = v
Happened(v, w) == \E i \in 1..Len(trail) : trail[i].after = w /\ Told(v, i)
Knows(p, j, mixed) ==
    /\ j.pc # "idle" => Asks(p, j)
    /\ Early(j) => j.before = field \/ Told(j.before, Len(trail))
    /\ Late(j) => Happened(j.before, j.after)
    /\ ~mixed /\ Early(j) => j.seen = field /\ j.before = field
JobsKnow == \A p \in Procs : Knows(p, edit[p], crossed)

OneAtATime == ~crossed => \A p, q \in Procs : edit[p].pc # "idle" /\ edit[q].pc # "idle" => p = q

EarlySet == {p \in Procs : Early(edit[p])}
LateSet == {p \in Procs : Late(edit[p])}
Counts ==
    /\ Len(trail) + Cardinality(EarlySet) <= edits /\ edits <= MaxEdits
    /\ Len(log) + Cardinality(LateSet) <= Len(trail)

Replays ==
    /\ \A i \in 1..Len(trail) : trail[i].before = (IF i = 1 THEN Zero ELSE trail[i - 1].after)
    /\ field = IF Len(trail) = 0 THEN Zero ELSE trail[Len(trail)].after
LogTrue == \A i \in 1..Len(log) : Happened(log[i].before, log[i].after)

Complete ==
    ~crossed /\ ~cut =>
        /\ \A i \in 1..Len(log) : log[i].before = trail[i].before /\ log[i].after = trail[i].after
        /\ (\A p \in Procs : ~Late(edit[p])) => Len(log) = Len(trail)
        /\ \A p \in Procs : Late(edit[p]) =>
              /\ Len(log) + 1 = Len(trail)
              /\ edit[p].before = trail[Len(trail)].before /\ edit[p].after = trail[Len(trail)].after
Snapshots ==
    ~crossed /\ ~cut /\ kind = "question" =>
        /\ \A i \in 1..Len(revs) : revs[i] = trail[i].before
        /\ (\A p \in Procs : edit[p].pc # "revise") => Len(revs) = Len(trail)
        /\ \A p \in Procs : edit[p].pc = "revise" =>
              Len(revs) + 1 = Len(trail) /\ edit[p].seen = trail[Len(trail)].before

DeskIInv ==
    /\ DeskTypes /\ JobsKnow /\ OneAtATime /\ Counts /\ Replays /\ Desk!AskedIsHeld /\ LogTrue
    /\ Complete /\ Snapshots

LEMMA DeskCounted ==
    ASSUME IsFiniteSet(Procs)
    PROVE  /\ IsFiniteSet(EarlySet) /\ Cardinality(EarlySet) \in Nat
           /\ IsFiniteSet(LateSet) /\ Cardinality(LateSet) \in Nat
<1>1. EarlySet \subseteq Procs /\ LateSet \subseteq Procs
  BY DEF EarlySet, LateSet
<1>2. QED
  BY <1>1, FS_Subset, FS_CardinalityType

LEMMA DeskImplies ==
    ASSUME DeskConstants, DeskIInv
    PROVE  Desk!DeskInv
<1>1. /\ DeskTypes /\ Counts /\ Replays /\ Desk!AskedIsHeld /\ LogTrue /\ Complete /\ Snapshots
      /\ MaxEdits \in Nat /\ IsFiniteSet(Procs)
  BY DEF DeskIInv, DeskConstants
<1>2. /\ Len(trail) \in Nat /\ Len(log) \in Nat /\ Len(revs) \in Nat /\ edits \in Nat
      /\ DOMAIN trail = 1..Len(trail) /\ DOMAIN log = 1..Len(log) /\ DOMAIN revs = 1..Len(revs)
  BY <1>1 DEF DeskTypes
<1>3. Desk!DeskTypeOK
  <2> DEFINE e == Cardinality(EarlySet)
             l == Cardinality(LateSet)
  <2>1. /\ e \in Nat /\ l \in Nat /\ Len(trail) + e <= edits /\ edits <= MaxEdits
        /\ Len(log) + l <= Len(trail)
    BY <1>1, DeskCounted DEF Counts
  <2> HIDE DEF e, l
  <2>2. Len(log) <= Len(trail) /\ Len(trail) <= edits
    BY <1>2, <2>1
  <2>3. QED
    BY <1>1, <2>1, <2>2 DEF Desk!DeskTypeOK, DeskTypes
<1>4. Desk!TrailReplays
  <2>1. trail # <<>> => Len(trail) # 0
    BY <1>1 DEF DeskTypes
  <2>2. QED
    BY <1>1, <1>2, <2>1 DEF Replays, Zero, Desk!TrailReplays
<1>5. Desk!LogIsTrue
  BY <1>1, <1>2 DEF LogTrue, Happened, Told, Desk!LogIsTrue
<1>6. Desk!AloneIsComplete
  <2> SUFFICES ASSUME ~crossed, ~cut, \A p \in Procs : Desk!At(p, "idle")
               PROVE  /\ [i \in DOMAIN log |-> [before |-> log[i].before, after |-> log[i].after]] = trail
                      /\ kind = "question" => revs = [i \in DOMAIN trail |-> trail[i].before]
    BY DEF Desk!AloneIsComplete
  <2>1. \A p \in Procs : ~Late(edit[p]) /\ edit[p].pc # "revise"
    BY DEF Desk!At, Late
  <2>2. Len(log) = Len(trail) /\ \A i \in 1..Len(log) : log[i].before = trail[i].before /\ log[i].after = trail[i].after
    BY <1>1, <2>1 DEF Complete
  <2>3. \A i \in 1..Len(trail) : trail[i] \in TrailRow
    BY <1>1 DEF DeskTypes
  <2>4. \A i \in 1..Len(trail) : trail[i] = [before |-> trail[i].before, after |-> trail[i].after]
    BY <2>3 DEF TrailRow
  <2>5. trail = [i \in 1..Len(trail) |-> trail[i]]
    BY <1>1 DEF DeskTypes
  <2>6. [i \in DOMAIN log |-> [before |-> log[i].before, after |-> log[i].after]] = trail
    BY <1>2, <2>2, <2>4, <2>5
  <2>7. ASSUME kind = "question" PROVE revs = [i \in DOMAIN trail |-> trail[i].before]
    <3>1. Len(revs) = Len(trail) /\ \A i \in 1..Len(revs) : revs[i] = trail[i].before
      BY <1>1, <2>1, <2>7 DEF Snapshots
    <3>2. revs = [i \in 1..Len(revs) |-> revs[i]]
      BY <1>1 DEF DeskTypes
    <3>3. QED
      BY <1>2, <3>1, <3>2
  <2>8. QED
    BY <2>6, <2>7
<1>7. QED
  BY <1>1, <1>3, <1>4, <1>5, <1>6 DEF Desk!DeskInv

-----------------------------------------------------------------------------
(* A request moves to the row n.                                           *)

LEMMA DeskJobMoves ==
    ASSUME DeskTypes, NEW p \in Procs, NEW n \in JobRow, edit' = [edit EXCEPT ![p] = n]
    PROVE  /\ edit' \in [Procs -> JobRow] /\ edit'[p] = n
           /\ \A q \in Procs : q # p => edit'[q] = edit[q]
  BY DEF DeskTypes

LEMMA OneMoved ==
    ASSUME NEW S, NEW T, NEW p, IsFiniteSet(S), \A q : q # p => (q \in T <=> q \in S)
    PROVE  /\ IsFiniteSet(T) /\ Cardinality(T) \in Nat /\ Cardinality(S) \in Nat
           /\ (p \in S <=> p \in T) => Cardinality(T) = Cardinality(S)
           /\ p \notin S /\ p \in T => Cardinality(T) = Cardinality(S) + 1
           /\ p \in S /\ p \notin T => Cardinality(T) + 1 = Cardinality(S)
<1>1. Cardinality(S) \in Nat
  BY FS_CardinalityType
<1>2. CASE p \in S <=> p \in T
  <2>1. S = T
    BY <1>2
  <2>2. QED
    BY <1>1, <1>2, <2>1
<1>3. CASE p \notin S /\ p \in T
  <2>1. T = S \cup {p}
    BY <1>3
  <2>2. IsFiniteSet(T) /\ Cardinality(T) = Cardinality(S) + 1
    BY <1>3, <2>1, FS_AddElement
  <2>3. QED
    BY <1>1, <1>3, <2>2
<1>4. CASE p \in S /\ p \notin T
  <2>1. T = S \ {p}
    BY <1>4
  <2>2. IsFiniteSet(T) /\ Cardinality(T) = Cardinality(S) - 1
    BY <1>4, <2>1, FS_RemoveElement
  <2>3. Cardinality(T) \in Nat
    BY <2>2, FS_CardinalityType
  <2>4. QED
    BY <1>1, <1>4, <2>2, <2>3
<1>5. QED
  BY <1>2, <1>3, <1>4

LEMMA DeskSetsMove ==
    ASSUME IsFiniteSet(Procs), DeskTypes, NEW p \in Procs, NEW n \in JobRow,
           edit' = [edit EXCEPT ![p] = n], UNCHANGED kind
    PROVE  /\ Cardinality(EarlySet') \in Nat /\ Cardinality(LateSet') \in Nat
           /\ (Early(edit[p]) <=> Early(n)) => Cardinality(EarlySet') = Cardinality(EarlySet)
           /\ ~Early(edit[p]) /\ Early(n) => Cardinality(EarlySet') = Cardinality(EarlySet) + 1
           /\ Early(edit[p]) /\ ~Early(n) => Cardinality(EarlySet') + 1 = Cardinality(EarlySet)
           /\ (Late(edit[p]) <=> Late(n)) => Cardinality(LateSet') = Cardinality(LateSet)
           /\ ~Late(edit[p]) /\ Late(n) => Cardinality(LateSet') = Cardinality(LateSet) + 1
           /\ Late(edit[p]) /\ ~Late(n) => Cardinality(LateSet') + 1 = Cardinality(LateSet)
<1>1. edit'[p] = n /\ \A q \in Procs : q # p => edit'[q] = edit[q]
  BY DeskJobMoves
<1> DEFINE S == EarlySet
           T == EarlySet'
           V == LateSet
           W == LateSet'
<1>2. IsFiniteSet(S) /\ IsFiniteSet(V)
  BY DeskCounted
<1>3. \A q : q # p => (q \in T <=> q \in S)
  BY <1>1 DEF EarlySet, Early
<1>4. \A q : q # p => (q \in W <=> q \in V)
  BY <1>1 DEF LateSet, Late
<1>5. /\ p \in S <=> Early(edit[p])
      /\ p \in T <=> Early(n)
      /\ p \in V <=> Late(edit[p])
      /\ p \in W <=> Late(n)
  BY <1>1 DEF EarlySet, LateSet, Early, Late
<1> HIDE DEF S, T, V, W
<1>6. /\ Cardinality(T) \in Nat
      /\ (p \in S <=> p \in T) => Cardinality(T) = Cardinality(S)
      /\ p \notin S /\ p \in T => Cardinality(T) = Cardinality(S) + 1
      /\ p \in S /\ p \notin T => Cardinality(T) + 1 = Cardinality(S)
  BY <1>2, <1>3, OneMoved
<1>7. /\ Cardinality(W) \in Nat
      /\ (p \in V <=> p \in W) => Cardinality(W) = Cardinality(V)
      /\ p \notin V /\ p \in W => Cardinality(W) = Cardinality(V) + 1
      /\ p \in V /\ p \notin W => Cardinality(W) + 1 = Cardinality(V)
  BY <1>2, <1>4, OneMoved
<1>8. QED
  BY <1>5, <1>6, <1>7 DEF S, T, V, W

LEMMA EarlyOrLate ==
    ASSUME NEW j \in JobRow
    PROVE  /\ ~(Early(j) /\ Late(j))
           /\ j.pc # "idle" <=> Early(j) \/ Late(j)
  BY DEF JobRow, DeskPc, Early, Late

\* The row stays as it is.
LEMMA RowStays ==
    ASSUME DeskIInv, NEW p \in Procs, NEW n \in JobRow, edit' = [edit EXCEPT ![p] = n],
           UNCHANGED <<kind, field, trail, wanted>>, crossed => crossed', Knows(p, n, crossed')
    PROVE  JobsKnow' /\ Replays' /\ Desk!AskedIsHeld'
<1>1. DeskTypes /\ JobsKnow /\ Replays /\ Desk!AskedIsHeld
  BY DEF DeskIInv
<1>2. edit'[p] = n /\ \A q \in Procs : q # p => edit'[q] = edit[q]
  BY <1>1, DeskJobMoves
<1>3. ASSUME NEW q \in Procs PROVE Knows(q, edit[q], crossed)'
  <2>1. Knows(q, edit'[q], crossed')
    <3>1. CASE q = p
      BY <1>2, <3>1
    <3>2. CASE q # p
      <4>1. edit'[q] = edit[q] /\ Knows(q, edit[q], crossed)
        BY <1>1, <1>2, <3>2 DEF JobsKnow
      <4>2. QED
        BY <4>1 DEF Knows
    <3>3. QED
      BY <3>1, <3>2
  <2>2. QED
    BY <2>1 DEF Knows, Asks, Early, Late, Told, Happened
<1>4. Replays'
  BY <1>1 DEF Replays
<1>5. Desk!AskedIsHeld'
  BY <1>1 DEF Desk!AskedIsHeld
<1>6. QED
  BY <1>3, <1>4, <1>5 DEF JobsKnow

LEMMA DeskFree ==
    Desk!Free \in JobRow /\ Desk!Free.pc = "idle"
<1>1. [a |-> 0, b |-> 9] \in Pair /\ [a |-> 0, b |-> 0] \in Pair
  BY DEF Pair, Val
<1>2. QED
  BY <1>1 DEF Desk!Free, Desk!Unset, JobRow, DeskPc

LEMMA BeginKeeps ==
    ASSUME DeskConstants, DeskIInv, NEW p \in Procs, NEW ask \in Pair, NEW pc \in DeskPc,
           Desk!Begin(p, ask, pc),
           pc \in {"reread", "write", "bulk"} \/ (pc = "revise" /\ kind # "question"),
           \A j \in JobRow : j.ask = ask => Asks(p, j)
    PROVE  DeskIInv'
<1>1. /\ DeskTypes /\ JobsKnow /\ OneAtATime /\ Counts /\ LogTrue /\ Complete /\ Snapshots
      /\ field \in Pair /\ edits \in Nat /\ Len(trail) \in Nat /\ Len(log) \in Nat /\ MaxEdits \in Nat
      /\ IsFiniteSet(Procs) /\ edit[p] \in JobRow
  BY DEF DeskIInv, DeskTypes, DeskConstants
<1> DEFINE n == [Desk!Free EXCEPT !.pc = pc, !.ask = ask, !.seen = field, !.before = field]
<1>2. /\ edit[p].pc = "idle" /\ edits < MaxEdits /\ edits' = edits + 1 /\ edit' = [edit EXCEPT ![p] = n]
      /\ crossed' = (crossed \/ \E q \in Procs \ {p} : edit[q].pc # "idle")
      /\ UNCHANGED <<kind, field, trail, log, revs, wanted, cut>>
  BY DEF Desk!Begin, Desk!At
<1>3. /\ n \in JobRow /\ n.pc = pc /\ n.ask = ask /\ n.seen = field /\ n.before = field
  <2>1. Desk!Free \in JobRow
    BY DeskFree
  <2>2. QED
    BY <1>1, <2>1 DEF JobRow
<1> HIDE DEF n
<1>4. Early(n) /\ ~Late(n) /\ ~Early(edit[p]) /\ ~Late(edit[p])
  BY <1>2, <1>3 DEF Early, Late
<1>5. /\ edit' \in [Procs -> JobRow] /\ edit'[p] = n /\ \A q \in Procs : q # p => edit'[q] = edit[q]
  BY <1>1, <1>2, <1>3, DeskJobMoves
<1>6. crossed' \in BOOLEAN /\ (crossed => crossed')
  BY <1>1, <1>2 DEF DeskTypes
<1>7. DeskTypes'
  BY <1>1, <1>2, <1>5, <1>6 DEF DeskTypes
<1>8. JobsKnow' /\ Replays' /\ Desk!AskedIsHeld'
  <2>1. Knows(p, n, crossed')
    BY <1>3, <1>4 DEF Knows
  <2>2. QED
    BY <1>2, <1>3, <1>6, <2>1, RowStays
<1>9. OneAtATime'
  BY <1>2, <1>5 DEF OneAtATime
<1>10. Counts'
  <2> DEFINE e == Cardinality(EarlySet)
             f == Cardinality(EarlySet')
             l == Cardinality(LateSet)
             m == Cardinality(LateSet')
  <2>1. /\ e \in Nat /\ f = e + 1 /\ l \in Nat /\ m = l
        /\ Len(trail) + e <= edits /\ Len(log) + l <= Len(trail)
    BY <1>1, <1>2, <1>3, <1>4, DeskSetsMove, DeskCounted DEF Counts
  <2> HIDE DEF e, f, l, m
  <2>2. Len(trail) + f <= edits' /\ edits' <= MaxEdits /\ Len(log) + m <= Len(trail)
    BY <1>1, <1>2, <2>1
  <2>3. QED
    BY <1>2, <2>2 DEF Counts, f, m
<1>11. LogTrue'
  BY <1>1, <1>2 DEF LogTrue, Happened, Told
<1>12. \A q \in Procs : (Late(edit[q])' <=> Late(edit[q])) /\ (Late(edit[q]) => edit'[q] = edit[q])
  BY <1>2, <1>4, <1>5 DEF Late
<1>13. Complete'
  BY <1>1, <1>2, <1>6, <1>12 DEF Complete
<1>14. Snapshots'
  <2>1. ASSUME kind = "question", NEW q \in Procs
        PROVE  (edit'[q].pc = "revise" <=> edit[q].pc = "revise") /\ (edit[q].pc = "revise" => edit'[q] = edit[q])
    BY <1>2, <1>3, <1>5, <2>1
  <2>2. QED
    BY <1>1, <1>2, <1>6, <2>1 DEF Snapshots
<1>15. QED
  BY <1>7, <1>8, <1>9, <1>10, <1>11, <1>13, <1>14 DEF DeskIInv

-----------------------------------------------------------------------------
(* Statements that leave the row alone.                                    *)

\* Before its update a question is read once more.
LEMMA RereadKeeps ==
    ASSUME DeskConstants, DeskIInv, NEW p \in Procs, Desk!SetQuestionValidationStatus(p)
    PROVE  DeskIInv'
<1>1. /\ DeskTypes /\ JobsKnow /\ OneAtATime /\ Counts /\ LogTrue /\ Complete /\ Snapshots
      /\ field \in Pair /\ IsFiniteSet(Procs) /\ edit[p] \in JobRow /\ Knows(p, edit[p], crossed)
  BY DEF DeskIInv, DeskTypes, DeskConstants, JobsKnow
<1> DEFINE n == [edit[p] EXCEPT !.pc = "write", !.before = field]
<1>2. /\ edit[p].pc = "reread" /\ edit' = [edit EXCEPT ![p] = n]
      /\ UNCHANGED <<kind, field, trail, log, revs, wanted, crossed, cut, edits>>
  BY DEF Desk!SetQuestionValidationStatus, Desk!At
<1>3. n \in JobRow /\ n.pc = "write" /\ n.before = field /\ n.ask = edit[p].ask /\ n.seen = edit[p].seen
  BY <1>1 DEF JobRow, DeskPc
<1> HIDE DEF n
<1>4. Early(n) /\ ~Late(n) /\ Early(edit[p]) /\ ~Late(edit[p])
  BY <1>2, <1>3 DEF Early, Late
<1>5. /\ edit' \in [Procs -> JobRow] /\ edit'[p] = n /\ \A q \in Procs : q # p => edit'[q] = edit[q]
  BY <1>1, <1>2, <1>3, DeskJobMoves
<1>6. DeskTypes'
  BY <1>1, <1>2, <1>5 DEF DeskTypes
<1>7. JobsKnow' /\ Replays' /\ Desk!AskedIsHeld'
  <2>1. Knows(p, n, crossed')
    BY <1>1, <1>2, <1>3, <1>4 DEF Knows, Asks
  <2>2. QED
    BY <1>2, <1>3, <2>1, RowStays
<1>8. OneAtATime'
  BY <1>1, <1>2, <1>5 DEF OneAtATime
<1>9. Counts'
  BY <1>1, <1>2, <1>3, <1>4, DeskSetsMove DEF Counts
<1>10. LogTrue'
  BY <1>1, <1>2 DEF LogTrue, Happened, Told
<1>11. \A q \in Procs : (Late(edit[q])' <=> Late(edit[q])) /\ (Late(edit[q]) => edit'[q] = edit[q])
  BY <1>2, <1>4, <1>5 DEF Late
<1>12. Complete'
  BY <1>1, <1>2, <1>11 DEF Complete
<1>13. Snapshots'
  <2>1. \A q \in Procs :
          (edit'[q].pc = "revise" <=> edit[q].pc = "revise") /\ (edit[q].pc = "revise" => edit'[q] = edit[q])
    BY <1>2, <1>3, <1>5
  <2>2. QED
    BY <1>1, <1>2, <2>1 DEF Snapshots
<1>14. QED
  BY <1>6, <1>7, <1>8, <1>9, <1>10, <1>12, <1>13 DEF DeskIInv

LEMMA ReviseKeeps ==
    ASSUME DeskConstants, DeskIInv, NEW p \in Procs, Desk!Revise(p)
    PROVE  DeskIInv'
<1>1. /\ DeskTypes /\ JobsKnow /\ OneAtATime /\ Counts /\ LogTrue /\ Complete /\ Snapshots
      /\ IsFiniteSet(Procs) /\ edit[p] \in JobRow /\ Knows(p, edit[p], crossed)
      /\ revs \in Seq(Pair) /\ Len(revs) \in Nat /\ edit[p].seen \in Pair
  BY DEF DeskIInv, DeskTypes, DeskConstants, JobsKnow, JobRow
<1> DEFINE pc == IF kind = "question" THEN "audit" ELSE "write"
           n == [edit[p] EXCEPT !.pc = pc]
<1>2. /\ edit[p].pc = "revise" /\ edit' = [edit EXCEPT ![p] = n] /\ revs' = Append(revs, edit[p].seen)
      /\ UNCHANGED <<kind, field, trail, log, wanted, crossed, cut, edits>>
  BY DEF Desk!Revise, Desk!At, Desk!Goto, Desk!InsertContentRevision
<1>3. pc \in DeskPc /\ pc \in {"audit", "write"} /\ (pc = "audit" <=> kind = "question")
  BY DEF DeskPc
<1> HIDE DEF pc
<1>4. /\ n \in JobRow /\ n.pc = pc /\ n.before = edit[p].before /\ n.after = edit[p].after
      /\ n.ask = edit[p].ask /\ n.seen = edit[p].seen
  BY <1>1, <1>3 DEF JobRow
<1> HIDE DEF n
<1>5. (Early(edit[p]) <=> Early(n)) /\ (Late(edit[p]) <=> Late(n))
  BY <1>2, <1>3, <1>4 DEF Early, Late
<1>6. /\ edit' \in [Procs -> JobRow] /\ edit'[p] = n /\ \A q \in Procs : q # p => edit'[q] = edit[q]
  BY <1>1, <1>2, <1>4, DeskJobMoves
<1>7. /\ revs' \in Seq(Pair) /\ Len(revs') = Len(revs) + 1 /\ revs'[Len(revs) + 1] = edit[p].seen
      /\ \A i \in 1..Len(revs) : revs'[i] = revs[i]
  BY <1>1, <1>2
<1>8. DeskTypes'
  BY <1>1, <1>2, <1>6, <1>7 DEF DeskTypes
<1>9. JobsKnow' /\ Replays' /\ Desk!AskedIsHeld'
  <2>1. n.pc # "idle" /\ edit[p].pc # "idle"
    BY <1>2, <1>3, <1>4
  <2>2. Knows(p, n, crossed')
    BY <1>1, <1>2, <1>4, <1>5, <2>1 DEF Knows, Asks
  <2>3. QED
    BY <1>2, <1>4, <2>2, RowStays
<1>10. OneAtATime'
  BY <1>1, <1>2, <1>3, <1>4, <1>6 DEF OneAtATime
<1>11. Counts'
  BY <1>1, <1>2, <1>4, <1>5, DeskSetsMove DEF Counts
<1>12. LogTrue'
  BY <1>1, <1>2 DEF LogTrue, Happened, Told
<1>13. \A q \in Procs : /\ Late(edit[q])' <=> Late(edit[q])
                        /\ edit'[q].before = edit[q].before /\ edit'[q].after = edit[q].after
  BY <1>2, <1>4, <1>5, <1>6 DEF Late
<1>14. Complete'
  BY <1>1, <1>2, <1>13 DEF Complete
<1>15. Snapshots'
  <2> SUFFICES ASSUME ~crossed, ~cut, kind = "question"
               PROVE  /\ \A i \in 1..Len(revs') : revs'[i] = trail[i].before
                      /\ Len(revs') = Len(trail)
                      /\ \A q \in Procs : edit'[q].pc # "revise"
    BY <1>2 DEF Snapshots
  <2>1. /\ \A i \in 1..Len(revs) : revs[i] = trail[i].before
        /\ Len(revs) + 1 = Len(trail) /\ edit[p].seen = trail[Len(trail)].before
    BY <1>1, <1>2 DEF Snapshots
  <2>2. \A q \in Procs : q # p => edit[q].pc = "idle"
    BY <1>1, <1>2 DEF OneAtATime
  <2>3. \A q \in Procs : edit'[q].pc # "revise"
    BY <1>3, <1>4, <1>6, <2>2
  <2>4. \A i \in 1..Len(revs') : i \in 1..Len(revs) \/ i = Len(revs) + 1
    BY <1>1, <1>7
  <2>5. \A i \in 1..Len(revs') : revs'[i] = trail[i].before
    BY <1>7, <2>1, <2>4
  <2>6. QED
    BY <1>7, <2>1, <2>3, <2>5
<1>16. QED
  BY <1>8, <1>9, <1>10, <1>11, <1>12, <1>14, <1>15 DEF DeskIInv

\* A snapshot that fails is missing for good.
LEMMA RevisionFailsKeeps ==
    ASSUME DeskConstants, DeskIInv, NEW p \in Procs, Desk!RevisionFails(p)
    PROVE  DeskIInv'
<1>1. /\ DeskTypes /\ JobsKnow /\ OneAtATime /\ Counts /\ LogTrue
      /\ IsFiniteSet(Procs) /\ edit[p] \in JobRow /\ Knows(p, edit[p], crossed)
  BY DEF DeskIInv, DeskTypes, DeskConstants, JobsKnow
<1> DEFINE pc == IF kind = "question" THEN "audit" ELSE "write"
           n == [edit[p] EXCEPT !.pc = pc]
<1>2. /\ edit[p].pc = "revise" /\ edit' = [edit EXCEPT ![p] = n] /\ cut' = TRUE
      /\ UNCHANGED <<kind, field, trail, log, revs, wanted, crossed, edits>>
  BY DEF Desk!RevisionFails, Desk!At, Desk!Goto
<1>3. pc \in DeskPc /\ pc \in {"audit", "write"} /\ (pc = "audit" <=> kind = "question")
  BY DEF DeskPc
<1> HIDE DEF pc
<1>4. /\ n \in JobRow /\ n.pc = pc /\ n.before = edit[p].before /\ n.after = edit[p].after
      /\ n.ask = edit[p].ask /\ n.seen = edit[p].seen
  BY <1>1, <1>3 DEF JobRow
<1> HIDE DEF n
<1>5. (Early(edit[p]) <=> Early(n)) /\ (Late(edit[p]) <=> Late(n))
  BY <1>2, <1>3, <1>4 DEF Early, Late
<1>6. /\ edit' \in [Procs -> JobRow] /\ edit'[p] = n /\ \A q \in Procs : q # p => edit'[q] = edit[q]
  BY <1>1, <1>2, <1>4, DeskJobMoves
<1>7. DeskTypes'
  BY <1>1, <1>2, <1>6 DEF DeskTypes
<1>8. JobsKnow' /\ Replays' /\ Desk!AskedIsHeld'
  <2>1. n.pc # "idle" /\ edit[p].pc # "idle"
    BY <1>2, <1>3, <1>4
  <2>2. Knows(p, n, crossed')
    BY <1>1, <1>2, <1>4, <1>5, <2>1 DEF Knows, Asks
  <2>3. QED
    BY <1>2, <1>4, <2>2, RowStays
<1>9. OneAtATime'
  BY <1>1, <1>2, <1>3, <1>4, <1>6 DEF OneAtATime
<1>10. Counts'
  BY <1>1, <1>2, <1>4, <1>5, DeskSetsMove DEF Counts
<1>11. LogTrue'
  BY <1>1, <1>2 DEF LogTrue, Happened, Told
<1>12. Complete' /\ Snapshots'
  BY <1>2 DEF Complete, Snapshots
<1>13. QED
  BY <1>7, <1>8, <1>9, <1>10, <1>11, <1>12 DEF DeskIInv

LEMMA AuditKeeps ==
    ASSUME DeskConstants, DeskIInv, NEW p \in Procs, Desk!WriteAudit(p)
    PROVE  DeskIInv'
<1>1. /\ DeskTypes /\ JobsKnow /\ OneAtATime /\ Counts /\ LogTrue /\ Complete /\ Snapshots
      /\ IsFiniteSet(Procs) /\ edit[p] \in JobRow /\ Knows(p, edit[p], crossed)
      /\ log \in Seq(LogRow) /\ Len(log) \in Nat /\ Len(trail) \in Nat /\ edits \in Nat
      /\ edit[p].before \in Pair /\ edit[p].after \in Pair
  BY DEF DeskIInv, DeskTypes, DeskConstants, JobsKnow, JobRow
<1> DEFINE n == Desk!Free
           x == [by |-> p, before |-> edit[p].before, after |-> edit[p].after]
<1>2. /\ edit[p].pc = "audit" /\ edit' = [edit EXCEPT ![p] = n] /\ log' = Append(log, x)
      /\ UNCHANGED <<kind, field, trail, revs, wanted, crossed, cut, edits>>
  BY DEF Desk!WriteAudit, Desk!At, Desk!Done
<1>3. n \in JobRow /\ n.pc = "idle"
  BY DeskFree
<1>4. x \in LogRow /\ x.before = edit[p].before /\ x.after = edit[p].after
  BY <1>1 DEF LogRow
<1> HIDE DEF n, x
<1>5. ~Early(edit[p]) /\ Late(edit[p]) /\ ~Early(n) /\ ~Late(n)
  BY <1>2, <1>3 DEF Early, Late
<1>6. /\ edit' \in [Procs -> JobRow] /\ edit'[p] = n /\ \A q \in Procs : q # p => edit'[q] = edit[q]
  BY <1>1, <1>2, <1>3, DeskJobMoves
<1>7. /\ log' \in Seq(LogRow) /\ Len(log') = Len(log) + 1 /\ log'[Len(log) + 1] = x
      /\ \A i \in 1..Len(log) : log'[i] = log[i]
  BY <1>1, <1>2, <1>4
<1>8. \A i \in 1..Len(log') : i \in 1..Len(log) \/ i = Len(log) + 1
  BY <1>1, <1>7
<1>9. DeskTypes'
  BY <1>1, <1>2, <1>6, <1>7 DEF DeskTypes
<1>10. JobsKnow' /\ Replays' /\ Desk!AskedIsHeld'
  <2>1. Knows(p, n, crossed')
    BY <1>3, <1>5 DEF Knows
  <2>2. QED
    BY <1>2, <1>3, <2>1, RowStays
<1>11. OneAtATime'
  BY <1>1, <1>2, <1>3, <1>6 DEF OneAtATime
<1>12. Counts'
  <2> DEFINE e == Cardinality(EarlySet)
             f == Cardinality(EarlySet')
             l == Cardinality(LateSet)
             m == Cardinality(LateSet')
  <2>1. /\ e \in Nat /\ f = e /\ l \in Nat /\ m \in Nat /\ m + 1 = l
        /\ Len(trail) + e <= edits /\ Len(log) + l <= Len(trail) /\ edits <= MaxEdits
    BY <1>1, <1>2, <1>3, <1>5, DeskSetsMove, DeskCounted DEF Counts
  <2> HIDE DEF e, f, l, m
  <2>2. Len(log') + m <= Len(trail) /\ Len(trail) + f <= edits
    BY <1>1, <1>7, <2>1
  <2>3. QED
    BY <1>2, <2>1, <2>2 DEF Counts, f, m
<1>13. LogTrue'
  <2>1. \A i \in 1..Len(log') : Happened(log'[i].before, log'[i].after)
    BY <1>1, <1>4, <1>5, <1>7, <1>8 DEF LogTrue, Knows
  <2>2. QED
    BY <1>2, <2>1 DEF LogTrue, Happened, Told
<1>14. Complete'
  <2> SUFFICES ASSUME ~crossed, ~cut
               PROVE  /\ \A i \in 1..Len(log') : log'[i].before = trail[i].before /\ log'[i].after = trail[i].after
                      /\ Len(log') = Len(trail)
                      /\ \A q \in Procs : ~Late(edit[q])'
    BY <1>2 DEF Complete
  <2>1. /\ \A i \in 1..Len(log) : log[i].before = trail[i].before /\ log[i].after = trail[i].after
        /\ Len(log) + 1 = Len(trail)
        /\ edit[p].before = trail[Len(trail)].before /\ edit[p].after = trail[Len(trail)].after
    BY <1>1, <1>5 DEF Complete
  <2>2. \A q \in Procs : q # p => edit[q].pc = "idle"
    BY <1>1, <1>2 DEF OneAtATime
  <2>3. \A q \in Procs : ~Late(edit[q])'
    BY <1>3, <1>6, <2>2 DEF Late
  <2>4. \A i \in 1..Len(log') : log'[i].before = trail[i].before /\ log'[i].after = trail[i].after
    BY <1>4, <1>7, <1>8, <2>1
  <2>5. QED
    BY <1>7, <2>1, <2>3, <2>4
<1>15. Snapshots'
  <2>1. \A q \in Procs :
          (edit'[q].pc = "revise" <=> edit[q].pc = "revise") /\ (edit[q].pc = "revise" => edit'[q] = edit[q])
    BY <1>2, <1>3, <1>6
  <2>2. QED
    BY <1>1, <1>2, <2>1 DEF Snapshots
<1>16. QED
  BY <1>9, <1>10, <1>11, <1>12, <1>13, <1>14, <1>15 DEF DeskIInv

LEMMA AbandonKeeps ==
    ASSUME DeskConstants, DeskIInv, NEW p \in Procs, Desk!Abandon(p)
    PROVE  DeskIInv'
<1>1. /\ DeskTypes /\ OneAtATime /\ Counts /\ LogTrue /\ IsFiniteSet(Procs)
      /\ Len(log) \in Nat /\ Len(trail) \in Nat /\ edits \in Nat
  BY DEF DeskIInv, DeskTypes, DeskConstants
<1> DEFINE n == Desk!Free
<1>2. /\ edit' = [edit EXCEPT ![p] = n] /\ cut' = TRUE
      /\ UNCHANGED <<kind, field, trail, log, revs, wanted, crossed, edits>>
  BY DEF Desk!Abandon, Desk!Done
<1>3. n \in JobRow /\ n.pc = "idle"
  BY DeskFree
<1> HIDE DEF n
<1>4. ~Early(n) /\ ~Late(n)
  BY <1>3 DEF Early, Late
<1>5. /\ edit' \in [Procs -> JobRow] /\ edit'[p] = n /\ \A q \in Procs : q # p => edit'[q] = edit[q]
  BY <1>1, <1>2, <1>3, DeskJobMoves
<1>6. DeskTypes'
  BY <1>1, <1>2, <1>5 DEF DeskTypes
<1>7. JobsKnow' /\ Replays' /\ Desk!AskedIsHeld'
  <2>1. Knows(p, n, crossed')
    BY <1>3, <1>4 DEF Knows
  <2>2. QED
    BY <1>2, <1>3, <2>1, RowStays
<1>8. OneAtATime'
  BY <1>1, <1>2, <1>3, <1>5 DEF OneAtATime
<1>9. Counts'
  <2> DEFINE e == Cardinality(EarlySet)
             f == Cardinality(EarlySet')
             l == Cardinality(LateSet)
             m == Cardinality(LateSet')
  <2>1. /\ e \in Nat /\ f \in Nat /\ (f = e \/ f + 1 = e) /\ l \in Nat /\ m \in Nat /\ (m = l \/ m + 1 = l)
        /\ Len(trail) + e <= edits /\ Len(log) + l <= Len(trail) /\ edits <= MaxEdits
    BY <1>1, <1>2, <1>3, <1>4, DeskSetsMove, DeskCounted DEF Counts
  <2> HIDE DEF e, f, l, m
  <2>2. Len(log) + m <= Len(trail) /\ Len(trail) + f <= edits
    BY <1>1, <2>1
  <2>3. QED
    BY <1>2, <2>1, <2>2 DEF Counts, f, m
<1>10. LogTrue'
  BY <1>1, <1>2 DEF LogTrue, Happened, Told
<1>11. Complete' /\ Snapshots'
  BY <1>2 DEF Complete, Snapshots
<1>12. QED
  BY <1>6, <1>7, <1>8, <1>9, <1>10, <1>11 DEF DeskIInv

\* The summary of a bulk verify leaves the row's log as it is.
LEMMA SummaryKeeps ==
    ASSUME DeskConstants, DeskIInv, NEW p \in Procs, Desk!WriteSummary(p)
    PROVE  DeskIInv'
<1>1. Desk!Abandon(p)
  BY DEF Desk!WriteSummary, Desk!Abandon, Desk!At
<1>2. QED
  BY <1>1, AbandonKeeps

-----------------------------------------------------------------------------
(* The statement that updates the row.                                     *)

\* What is written is a value of the row and, but for a limit under
\* overlapping patches, what was last wanted for.
LEMMA WrittenHeld ==
    ASSUME DeskConstants, DeskIInv, NEW p \in Procs, Desk!Write(p)
    PROVE  Desk!Written(p) \in Pair /\ wanted' \in Pair /\ Desk!AskedIsHeld'
<1>1. /\ DeskTypes /\ Desk!AskedIsHeld /\ 9 \notin Procs /\ edit[p] \in JobRow /\ Knows(p, edit[p], crossed)
      /\ kind \in Desk!Kinds /\ field \in Pair /\ wanted \in Pair
  BY DEF DeskIInv, DeskTypes, DeskConstants, JobsKnow
<1>2. /\ edit[p].pc \in {"write", "bulk"} /\ field' = Desk!Written(p) /\ UNCHANGED <<kind, crossed>>
      /\ wanted' = [a |-> Desk!Named(edit[p].ask.a, wanted.a), b |-> Desk!Named(edit[p].ask.b, wanted.b)]
  BY DEF Desk!Write, Desk!At, Desk!Update
<1>3. /\ Asks(p, edit[p]) /\ (~crossed => edit[p].seen = field)
  BY <1>1, <1>2 DEF Knows, Early
<1>4. /\ edit[p].ask.a \in Val /\ edit[p].ask.b \in Val /\ edit[p].seen.a \in Val /\ edit[p].seen.b \in Val
      /\ field.a \in Val /\ field.b \in Val /\ wanted.a \in Val /\ wanted.b \in Val
  BY <1>1 DEF JobRow, Pair
<1>5. wanted' \in Pair
  BY <1>2, <1>4 DEF Pair, Desk!Named
<1>6. field = wanted \/ (kind = "limit" /\ crossed)
  BY <1>1 DEF Desk!AskedIsHeld
<1>7. CASE kind \in {"question", "flag", "provider"}
  <2>1. Desk!Written(p) = [field EXCEPT !.a = edit[p].ask.a]
    BY <1>7 DEF Desk!Written, Desk!SetColumn, Desk!SetFeatureFlagValue, Desk!SetProviderEnabled
  <2>2. Desk!Written(p) = [a |-> edit[p].ask.a, b |-> field.b]
    BY <1>1, <2>1 DEF Pair
  <2>3. wanted' = [a |-> edit[p].ask.a, b |-> wanted.b]
    BY <1>2, <1>3, <1>7 DEF Asks, Desk!Named, Desk!Unset
  <2>4. QED
    BY <1>2, <1>4, <1>5, <1>6, <1>7, <2>2, <2>3 DEF Pair, Desk!AskedIsHeld
<1>8. CASE kind = "explanation"
  <2>1. Desk!Written(p) = [a |-> 1, b |-> p]
    BY <1>8 DEF Desk!Written, Desk!VerifyQuestionExplanation
  <2>2. edit[p].ask.a = 1 /\ edit[p].ask.b = p /\ p # 9
    BY <1>1, <1>3, <1>8 DEF Asks
  <2>3. wanted' = [a |-> 1, b |-> p]
    BY <1>2, <2>2 DEF Desk!Named, Desk!Unset
  <2>4. QED
    BY <1>2, <1>5, <2>1, <2>3 DEF Desk!AskedIsHeld
<1>9. CASE kind = "limit"
  <2>1. Desk!Written(p) = [a |-> Desk!Named(edit[p].ask.a, edit[p].seen.a),
                           b |-> Desk!Named(edit[p].ask.b, edit[p].seen.b)]
    BY <1>9 DEF Desk!Written, Desk!SetLimitConfigValues
  <2>2. Desk!Written(p) \in Pair
    BY <1>4, <2>1 DEF Pair, Desk!Named
  <2>3. ~crossed => wanted' = Desk!Written(p)
    BY <1>2, <1>3, <1>6, <2>1
  <2>4. QED
    BY <1>2, <1>5, <1>9, <2>2, <2>3 DEF Desk!AskedIsHeld
<1>10. CASE kind = "ticket"
  <2>1. Desk!Written(p) = [a |-> edit[p].ask.a, b |-> Desk!Named(edit[p].ask.b, field.b)]
    BY <1>10 DEF Desk!Written, Desk!UpdateStatus
  <2>2. edit[p].ask.a # 9
    BY <1>3, <1>10 DEF Asks
  <2>3. wanted' = Desk!Written(p)
    BY <1>2, <1>6, <1>10, <2>1, <2>2 DEF Desk!Named, Desk!Unset
  <2>4. QED
    BY <1>2, <1>5, <2>3 DEF Desk!AskedIsHeld
<1>11. QED
  BY <1>1, <1>7, <1>8, <1>9, <1>10 DEF Desk!Kinds

LEMMA WriteKeeps ==
    ASSUME DeskConstants, DeskIInv, NEW p \in Procs, Desk!Write(p)
    PROVE  DeskIInv'
<1>1. /\ DeskTypes /\ JobsKnow /\ OneAtATime /\ Counts /\ Replays /\ LogTrue /\ Complete /\ Snapshots
      /\ IsFiniteSet(Procs) /\ edit[p] \in JobRow /\ Knows(p, edit[p], crossed) /\ field \in Pair
      /\ trail \in Seq(TrailRow) /\ Len(log) \in Nat /\ Len(trail) \in Nat /\ edits \in Nat
      /\ Len(revs) \in Nat
  BY DEF DeskIInv, DeskTypes, DeskConstants, JobsKnow
<1> DEFINE w == Desk!Written(p)
           pc == Desk!Afterwards(p)
           n == [edit[p] EXCEPT !.pc = pc, !.after = w]
           x == [before |-> field, after |-> w]
<1>2. /\ edit[p].pc \in {"write", "bulk"} /\ edit' = [edit EXCEPT ![p] = n] /\ field' = w /\ trail' = Append(trail, x)
      /\ UNCHANGED <<kind, log, revs, crossed, cut, edits>>
  BY DEF Desk!Write, Desk!At, Desk!Update, Desk!AuditTrigger
<1>3. w \in Pair /\ wanted' \in Pair /\ Desk!AskedIsHeld'
  BY WrittenHeld
<1>4. pc \in DeskPc /\ pc \in {"audit", "revise", "summary"} /\ (pc = "revise" <=> kind = "question")
  BY DEF DeskPc, Desk!Afterwards
<1> HIDE DEF pc, w
<1>5. /\ n \in JobRow /\ n.pc = pc /\ n.before = edit[p].before /\ n.after = w
      /\ n.ask = edit[p].ask /\ n.seen = edit[p].seen
  BY <1>1, <1>3, <1>4 DEF JobRow
<1>6. x \in TrailRow /\ x.before = field /\ x.after = w
  BY <1>1, <1>3 DEF TrailRow
<1> HIDE DEF n, x
<1>7. Early(edit[p]) /\ ~Late(edit[p]) /\ ~Early(n) /\ Late(n)
  BY <1>2, <1>4, <1>5 DEF Early, Late
<1>8. /\ edit' \in [Procs -> JobRow] /\ edit'[p] = n /\ \A q \in Procs : q # p => edit'[q] = edit[q]
  BY <1>1, <1>2, <1>5, DeskJobMoves
<1>9. /\ trail' \in Seq(TrailRow) /\ Len(trail') = Len(trail) + 1 /\ trail'[Len(trail) + 1] = x
      /\ \A i \in 1..Len(trail) : trail'[i] = trail[i]
  BY <1>1, <1>2, <1>6
<1>10. \A i \in 1..Len(trail') : i \in 1..Len(trail) \/ i = Len(trail) + 1
  BY <1>1, <1>9
<1>11. DeskTypes'
  BY <1>1, <1>2, <1>3, <1>8, <1>9 DEF DeskTypes
<1>12. /\ \A v, m : m \in 1..Len(trail) /\ Told(v, m) => \E k \in 1..m : trail'[k].before = v
       /\ \A v : Told(v, Len(trail)) \/ v = field => \E k \in 1..Len(trail') : trail'[k].before = v
  <2>1. \A m \in 1..Len(trail) : \A k \in 1..m : trail'[k] = trail[k]
    BY <1>1, <1>9
  <2>2. \A k \in 1..Len(trail) : k \in 1..Len(trail')
    BY <1>1, <1>9
  <2>3. Len(trail) + 1 \in 1..Len(trail')
    BY <1>1, <1>9
  <2>4. \A v, m : m \in 1..Len(trail) /\ Told(v, m) => \E k \in 1..m : trail'[k].before = v
    BY <2>1 DEF Told
  <2>5. \A v : Told(v, Len(trail)) \/ v = field => \E k \in 1..Len(trail') : trail'[k].before = v
    BY <1>6, <1>9, <2>2, <2>3 DEF Told
  <2>6. QED
    BY <2>4, <2>5
<1>13. \A v, y : Happened(v, y) => Happened(v, y)'
  <2>1. SUFFICES ASSUME NEW v, NEW y, Happened(v, y) PROVE Happened(v, y)'
    OBVIOUS
  <2>2. PICK i \in 1..Len(trail) : trail[i].after = y /\ Told(v, i)
    BY <2>1 DEF Happened
  <2>3. i \in 1..Len(trail') /\ trail'[i].after = y
    BY <1>1, <1>9, <2>2
  <2>4. \E k \in 1..i : trail'[k].before = v
    BY <1>12, <2>2
  <2>5. QED
    BY <2>3, <2>4 DEF Happened, Told
<1>14. edit[p].before = field \/ Told(edit[p].before, Len(trail))
  BY <1>1, <1>7 DEF Knows
<1>15. JobsKnow'
  <2>1. ASSUME NEW q \in Procs PROVE Knows(q, edit[q], crossed)'
    <3>1. CASE q = p
      <4>1. edit'[q] = n
        BY <1>8, <3>1
      <4>2. ~Early(edit[q])' /\ Late(edit[q])'
        BY <1>2, <1>7, <4>1 DEF Early, Late
      <4>3. \E k \in 1..Len(trail') : trail'[k].before = n.before
        BY <1>5, <1>12, <1>14
      <4>4. Len(trail') \in 1..Len(trail') /\ trail'[Len(trail')].after = n.after
        BY <1>1, <1>5, <1>6, <1>9
      <4>5. Happened(edit[q].before, edit[q].after)'
        BY <4>1, <4>3, <4>4 DEF Happened, Told
      <4>6. Asks(q, edit[q])'
        <5>1. Asks(p, edit[p])
          BY <1>1, <1>2 DEF Knows
        <5>2. QED
          BY <1>2, <1>5, <3>1, <4>1, <5>1 DEF Asks
      <4>7. QED
        BY <4>2, <4>5, <4>6 DEF Knows
    <3>2. CASE q # p
      <4>1. edit'[q] = edit[q] /\ Knows(q, edit[q], crossed) /\ edit[q] \in JobRow
        BY <1>1, <1>8, <3>2 DEF JobsKnow, DeskTypes
      <4>2. (Early(edit[q])' <=> Early(edit[q])) /\ (Late(edit[q])' <=> Late(edit[q])) /\ (Asks(q, edit[q])' <=> Asks(q, edit[q]))
        BY <1>2, <4>1 DEF Early, Late, Asks
      <4>3. ~crossed => edit[q].pc = "idle"
        BY <1>1, <1>2, <3>2 DEF OneAtATime
      <4>4. ~crossed => ~Early(edit[q])
        BY <4>3 DEF Early
      <4>5. Early(edit[q]) => Told(edit[q].before, Len(trail))'
        BY <1>12, <4>1 DEF Knows, Told
      <4>6. Late(edit[q]) => Happened(edit[q].before, edit[q].after)'
        <5>1. Late(edit[q]) => Happened(edit[q].before, edit[q].after)
          BY <4>1 DEF Knows
        <5>2. ASSUME NEW v, NEW y, v = edit'[q].before, y = edit'[q].after, Happened(v, y)'
              PROVE  Happened(edit[q].before, edit[q].after)'
          BY <5>2 DEF Happened, Told
        <5>3. QED
          BY <1>13, <4>1, <5>1, <5>2
      <4>7. QED
        BY <1>2, <4>1, <4>2, <4>4, <4>5, <4>6 DEF Knows
    <3>3. QED
      BY <3>1, <3>2
  <2>2. QED
    BY <2>1 DEF JobsKnow
<1>16. OneAtATime'
  BY <1>1, <1>2, <1>4, <1>5, <1>8 DEF OneAtATime
<1>17. Counts'
  <2> DEFINE e == Cardinality(EarlySet)
             f == Cardinality(EarlySet')
             l == Cardinality(LateSet)
             m == Cardinality(LateSet')
  <2>1. /\ e \in Nat /\ f \in Nat /\ f + 1 = e /\ l \in Nat /\ m = l + 1
        /\ Len(trail) + e <= edits /\ Len(log) + l <= Len(trail) /\ edits <= MaxEdits
    BY <1>1, <1>2, <1>5, <1>7, DeskSetsMove, DeskCounted DEF Counts
  <2> HIDE DEF e, f, l, m
  <2>2. Len(log) + m <= Len(trail') /\ Len(trail') + f <= edits
    BY <1>1, <1>9, <2>1
  <2>3. QED
    BY <1>2, <2>1, <2>2 DEF Counts, f, m
<1>18. Replays'
  <2>1. /\ \A i \in 1..Len(trail) : trail[i].before = (IF i = 1 THEN Zero ELSE trail[i - 1].after)
        /\ field = IF Len(trail) = 0 THEN Zero ELSE trail[Len(trail)].after
    BY <1>1 DEF Replays
  <2>2. ASSUME NEW i \in 1..Len(trail')
        PROVE  trail'[i].before = (IF i = 1 THEN Zero ELSE trail'[i - 1].after)
    <3>1. CASE i \in 1..Len(trail)
      <4>1. i # 1 => i - 1 \in 1..Len(trail)
        BY <1>1, <3>1
      <4>2. QED
        BY <1>9, <2>1, <3>1, <4>1
    <3>2. CASE i = Len(trail) + 1
      <4>1. trail'[i].before = field
        BY <1>6, <1>9, <3>2
      <4>2. i # 1 => Len(trail) \in 1..Len(trail) /\ i - 1 = Len(trail) /\ Len(trail) # 0
        BY <1>1, <3>2
      <4>3. i = 1 => Len(trail) = 0
        BY <1>1, <3>2
      <4>4. QED
        BY <1>9, <2>1, <4>1, <4>2, <4>3
    <3>3. QED
      BY <1>10, <3>1, <3>2
  <2>3. Len(trail') # 0 /\ field' = trail'[Len(trail')].after
    BY <1>1, <1>2, <1>6, <1>9
  <2>4. QED
    BY <2>2, <2>3 DEF Replays, Zero
<1>19. LogTrue'
  <2>1. \A i \in 1..Len(log) : Happened(log[i].before, log[i].after)
    BY <1>1 DEF LogTrue
  <2>2. ASSUME NEW i \in 1..Len(log) PROVE Happened(log[i].before, log[i].after)'
    <3>1. ASSUME NEW v, NEW y, v = log'[i].before, y = log'[i].after, Happened(v, y)'
          PROVE  Happened(log[i].before, log[i].after)'
      BY <3>1 DEF Happened, Told
    <3>2. QED
      BY <1>2, <1>13, <2>1, <3>1
  <2>3. QED
    BY <1>2, <2>2 DEF LogTrue
<1>20. ASSUME ~crossed PROVE \A q \in Procs : q # p => edit[q].pc = "idle" /\ edit'[q].pc = "idle"
  BY <1>1, <1>2, <1>8, <1>20 DEF OneAtATime
<1>21. ~crossed => edit[p].seen = field /\ edit[p].before = field
  BY <1>1, <1>7 DEF Knows
<1>22. Complete'
  <2> SUFFICES ASSUME ~crossed, ~cut
               PROVE  /\ \A i \in 1..Len(log) : log[i].before = trail'[i].before /\ log[i].after = trail'[i].after
                      /\ Late(edit[p])'
                      /\ Len(log) + 1 = Len(trail')
                      /\ \A q \in Procs : Late(edit[q])' =>
                            /\ edit'[q].before = trail'[Len(trail')].before
                            /\ edit'[q].after = trail'[Len(trail')].after
    BY <1>2 DEF Complete
  <2>1. \A q \in Procs : ~Late(edit[q])
    BY <1>7, <1>20 DEF Late
  <2>2. /\ \A i \in 1..Len(log) : log[i].before = trail[i].before /\ log[i].after = trail[i].after
        /\ Len(log) = Len(trail)
    BY <1>1, <2>1 DEF Complete
  <2>3. \A q \in Procs : Late(edit[q])' => q = p
    BY <1>20 DEF Late
  <2>4. Late(edit[p])'
    BY <1>2, <1>7, <1>8 DEF Late
  <2>5. edit'[p].before = trail'[Len(trail')].before /\ edit'[p].after = trail'[Len(trail')].after
    BY <1>5, <1>6, <1>8, <1>9, <1>21
  <2>6. QED
    BY <1>9, <2>2, <2>3, <2>4, <2>5
<1>23. Snapshots'
  <2> SUFFICES ASSUME ~crossed, ~cut, kind = "question"
               PROVE  /\ \A i \in 1..Len(revs) : revs[i] = trail'[i].before
                      /\ edit'[p].pc = "revise"
                      /\ Len(revs) + 1 = Len(trail')
                      /\ \A q \in Procs : edit'[q].pc = "revise" => edit'[q].seen = trail'[Len(trail')].before
    BY <1>2 DEF Snapshots
  <2>1. \A q \in Procs : edit[q].pc # "revise"
    BY <1>2, <1>20
  <2>2. Len(revs) = Len(trail) /\ \A i \in 1..Len(revs) : revs[i] = trail[i].before
    BY <1>1, <2>1 DEF Snapshots
  <2>3. edit'[p].pc = "revise" /\ edit'[p].seen = trail'[Len(trail')].before
    BY <1>4, <1>5, <1>6, <1>8, <1>9, <1>21
  <2>4. \A q \in Procs : edit'[q].pc = "revise" => q = p
    BY <1>20
  <2>5. QED
    BY <1>9, <2>2, <2>3, <2>4
<1>24. QED
  BY <1>3, <1>11, <1>15, <1>16, <1>17, <1>18, <1>19, <1>22, <1>23 DEF DeskIInv

-----------------------------------------------------------------------------
(* The handlers that begin an edit, and the whole desk.                    *)

LEMMA DeskBegins ==
    ASSUME DeskConstants, DeskIInv, NEW p \in Procs,
           \/ Desk!patchQuestion(p) \/ Desk!verifyQuestionExplanation(p) \/ Desk!bulkVerifyExplanations(p)
           \/ Desk!patchLimitConfig(p) \/ Desk!patchFeatureFlag(p) \/ Desk!patchPaymentProvider(p)
           \/ Desk!patchSupportTicket(p)
    PROVE  DeskIInv'
<1>1. {0, 1, 9, p} \subseteq Val
  BY DEF Val
<1>2. \A u, v \in Val : [a |-> u, b |-> v] \in Pair
  BY DEF Pair
<1>3. {"reread", "write", "bulk", "revise"} \subseteq DeskPc
  BY DEF DeskPc
<1>4. CASE kind \in {"question", "flag", "provider"} /\ \E v \in {0, 1}, pc \in {"reread", "write"} :
               Desk!Begin(p, [a |-> v, b |-> 9], pc)
  <2>1. PICK v \in {0, 1}, pc \in {"reread", "write"} : Desk!Begin(p, [a |-> v, b |-> 9], pc)
    BY <1>4
  <2> DEFINE ask == [a |-> v, b |-> 9]
  <2>2. ask \in Pair /\ ask.a \in {0, 1} /\ ask.b = 9
    BY <1>1, <1>2
  <2>3. \A j \in JobRow : j.ask = ask => Asks(p, j)
    BY <1>4, <2>2 DEF Asks
  <2>4. Desk!Begin(p, ask, pc)
    BY <2>1
  <2> HIDE DEF ask
  <2>5. QED
    BY <1>3, <2>2, <2>3, <2>4, BeginKeeps
<1>5. CASE kind = "explanation" /\ \E pc \in {"revise", "bulk"} : Desk!Begin(p, [a |-> 1, b |-> p], pc)
  <2>1. PICK pc \in {"revise", "bulk"} : Desk!Begin(p, [a |-> 1, b |-> p], pc)
    BY <1>5
  <2> DEFINE ask == [a |-> 1, b |-> p]
  <2>2. ask \in Pair /\ Desk!Begin(p, ask, pc)
    BY <1>1, <1>2, <2>1
  <2>3. \A j \in JobRow : j.ask = ask => Asks(p, j)
    BY <1>5 DEF Asks
  <2> HIDE DEF ask
  <2>4. QED
    BY <1>3, <1>5, <2>2, <2>3, BeginKeeps
<1>6. CASE \E u, v \in {0, 1, 9} : (kind = "limit" \/ (kind = "ticket" /\ u # 9)) /\ Desk!Begin(p, [a |-> u, b |-> v], "write")
  <2>1. PICK u \in {0, 1, 9}, v \in {0, 1, 9} :
               (kind = "limit" \/ (kind = "ticket" /\ u # 9)) /\ Desk!Begin(p, [a |-> u, b |-> v], "write")
    BY <1>6
  <2> DEFINE ask == [a |-> u, b |-> v]
  <2>2. ask \in Pair /\ ask.a = u /\ Desk!Begin(p, ask, "write")
    BY <1>1, <1>2, <2>1
  <2>3. \A j \in JobRow : j.ask = ask => Asks(p, j)
    BY <2>1, <2>2 DEF Asks
  <2> HIDE DEF ask
  <2>4. QED
    BY <1>3, <2>2, <2>3, BeginKeeps
<1>7. QED
  <2>1. Desk!patchQuestion(p) \/ Desk!patchFeatureFlag(p) \/ Desk!patchPaymentProvider(p) => DeskIInv'
    BY <1>4 DEF Desk!patchQuestion, Desk!patchFeatureFlag, Desk!patchPaymentProvider, Desk!Unset
  <2>2. Desk!verifyQuestionExplanation(p) \/ Desk!bulkVerifyExplanations(p) => DeskIInv'
    BY <1>5 DEF Desk!verifyQuestionExplanation, Desk!bulkVerifyExplanations
  <2>3. Desk!patchLimitConfig(p) \/ Desk!patchSupportTicket(p) => DeskIInv'
    BY <1>6 DEF Desk!patchLimitConfig, Desk!patchSupportTicket, Desk!Unset
  <2>4. QED
    BY <2>1, <2>2, <2>3

LEMMA DeskInitOK ==
    ASSUME DeskConstants, Desk!DeskInit
    PROVE  DeskIInv
<1>1. /\ kind \in Desk!Kinds /\ field = Zero /\ wanted = Zero /\ trail = <<>> /\ log = <<>> /\ revs = <<>>
      /\ crossed = FALSE /\ cut = FALSE /\ edits = 0 /\ edit = [p \in Procs |-> Desk!Free]
      /\ IsFiniteSet(Procs) /\ MaxEdits \in Nat
  BY DEF Desk!DeskInit, Zero, DeskConstants
<1>2. Zero \in Pair
  BY DEF Zero, Pair, Val
<1>3. edit \in [Procs -> JobRow] /\ \A p \in Procs : edit[p].pc = "idle"
  BY <1>1, DeskFree
<1>4. Len(trail) = 0 /\ Len(log) = 0 /\ Len(revs) = 0
  BY <1>1
<1>5. DeskTypes
  <2>1. crossed \in BOOLEAN /\ cut \in BOOLEAN
    BY <1>1
  <2>2. trail \in Seq(TrailRow) /\ log \in Seq(LogRow) /\ revs \in Seq(Pair)
    BY <1>1
  <2>3. kind \in Desk!Kinds /\ field \in Pair /\ wanted \in Pair /\ edits \in Nat
    BY <1>1, <1>2
  <2>4. QED
    BY <1>3, <2>1, <2>2, <2>3 DEF DeskTypes
<1>6. \A p \in Procs : ~Early(edit[p]) /\ ~Late(edit[p])
  BY <1>3 DEF Early, Late
<1>7. JobsKnow /\ OneAtATime
  BY <1>3, <1>6 DEF JobsKnow, Knows, OneAtATime
<1>8. Counts
  <2>1. EarlySet = {} /\ LateSet = {}
    BY <1>6 DEF EarlySet, LateSet
  <2>2. Cardinality(EarlySet) = 0 /\ Cardinality(LateSet) = 0
    BY <2>1, FS_EmptySet
  <2>3. QED
    BY <1>1, <1>4, <2>2 DEF Counts
<1>9. Replays /\ Desk!AskedIsHeld /\ LogTrue
  BY <1>1, <1>4 DEF Replays, Desk!AskedIsHeld, LogTrue
<1>10. Complete /\ Snapshots
  BY <1>3, <1>4, <1>6 DEF Complete, Snapshots
<1>11. QED
  BY <1>5, <1>7, <1>8, <1>9, <1>10 DEF DeskIInv

LEMMA DeskNextKeeps ==
    ASSUME DeskConstants, DeskIInv, [Desk!DeskNext]_Desk!deskVars
    PROVE  DeskIInv'
<1>1. CASE UNCHANGED Desk!deskVars
  <2>1. UNCHANGED <<kind, field, trail, log, revs, wanted, crossed, cut, edits, edit>>
    BY <1>1 DEF Desk!deskVars
  <2>2. DeskTypes' /\ JobsKnow' /\ OneAtATime'
    <3>1. DeskTypes'
      BY <2>1 DEF DeskIInv, DeskTypes
    <3>2. ASSUME NEW p \in Procs PROVE Knows(p, edit[p], crossed)'
      <4>1. Knows(p, edit[p], crossed)
        BY DEF DeskIInv, JobsKnow
      <4>2. QED
        BY <2>1, <4>1 DEF Knows, Asks, Early, Late, Told, Happened
    <3>3. OneAtATime'
      BY <2>1 DEF DeskIInv, OneAtATime
    <3>4. QED
      BY <3>1, <3>2, <3>3 DEF JobsKnow
  <2>3. EarlySet' = EarlySet /\ LateSet' = LateSet
    BY <2>1 DEF EarlySet, LateSet, Early, Late
  <2>4. Counts'
    BY <2>1, <2>3 DEF DeskIInv, Counts
  <2>5. Replays' /\ Desk!AskedIsHeld' /\ LogTrue'
    BY <2>1 DEF DeskIInv, Replays, Desk!AskedIsHeld, LogTrue, Happened, Told
  <2>6. Complete' /\ Snapshots'
    BY <2>1 DEF DeskIInv, Complete, Snapshots, Late
  <2>7. QED
    BY <2>2, <2>4, <2>5, <2>6 DEF DeskIInv
<1>2. CASE Desk!DeskNext
  <2>1. PICK p \in Procs : Desk!DeskProc(p)
    BY <1>2 DEF Desk!DeskNext
  <2>2. QED
    BY <2>1, DeskBegins, RereadKeeps, ReviseKeeps, RevisionFailsKeeps, WriteKeeps, AuditKeeps,
       SummaryKeeps, AbandonKeeps DEF Desk!DeskProc
<1>3. QED
  BY <1>1, <1>2

\* The admin desk's safety, for any number of requests and edits: the trail
\* replays the row, an edit is lost only from a limit under overlapping
\* patches (SetLimitConfigValues writes both columns), every WriteAudit entry
\* tells of an update that happened and, for edits of one row without overlap
\* or failure, none is missing; the summary of bulkVerifyExplanations names no
\* row and leaves the log alone (admin/handlers.go, content.go, limits.go).
THEOREM DeskThm ==
    ASSUME DeskConstants
    PROVE  Desk!DeskSpec => []DeskInv
<1>1. Desk!DeskInit => DeskIInv
  BY DeskInitOK
<1>2. DeskIInv /\ [Desk!DeskNext]_Desk!deskVars => DeskIInv'
  BY DeskNextKeeps
<1>3. DeskIInv => DeskInv
  BY DeskImplies DEF DeskInv
<1>4. QED
  BY <1>1, <1>2, <1>3, PTL DEF Desk!DeskSpec
-----------------------------------------------------------------------------
(***************************************************************************)
(* The support inbox (SupportInbox), for any number of requests in flight,  *)
(* of messages and of status changes.                                       *)
(*                                                                         *)
(* A staff request that clears the counter has listed a page before; what   *)
(* was off that page and what is posted since is marked as missed, so while *)
(* a request stands there nothing waits that the clear could lose (Cleared). *)
(***************************************************************************)
InboxConstants == MaxMsgs \in Nat /\ PageSize \in Nat

ConvRow == [exists : BOOLEAN, status : {"open", "closed"}, unreadAdmin : Nat, unreadUser : Nat]
MsgRow == [by : {"user", "admin"}, listed : BOOLEAN, missed : BOOLEAN]
HttpRow == [pc : {"idle", "opened", "listed", "broadcast"}, m : Nat]

InboxTypes ==
    /\ conv \in ConvRow /\ msgs \in Seq(MsgRow) /\ Len(msgs) <= MaxMsgs
    /\ sent \subseteq 1..Len(msgs) /\ post \in [Procs -> HttpRow]

\* The learner's messages that nobody has listed.
Awaits(r) == r.by = "user" /\ ~r.listed /\ ~r.missed
Unlisted(s) == {m \in 1..Len(s) : Awaits(s[m])}
Accounted == Cardinality(Unlisted(msgs)) <= conv.unreadAdmin
Cleared == Inbox!Opening => Unlisted(msgs) = {}

\* A request about to announce a message is the only one for it.
Announces(f, p) == f[p].pc = "broadcast" /\ f[p].m # 0
Announced ==
    \A p \in Procs : Announces(post, p) =>
        /\ post[p].m \in (1..Len(msgs)) \ sent
        /\ \A q \in Procs : q # p /\ Announces(post, q) => post[q].m # post[p].m

InboxIInv == InboxTypes /\ Accounted /\ Cleared /\ Announced

-----------------------------------------------------------------------------
LEMMA UnlistedFinite ==
    ASSUME NEW s \in Seq(MsgRow)
    PROVE  IsFiniteSet(Unlisted(s)) /\ Cardinality(Unlisted(s)) \in Nat
<1>1. IsFiniteSet(1..Len(s)) /\ Unlisted(s) \subseteq 1..Len(s)
  BY FS_Interval DEF Unlisted
<1>2. IsFiniteSet(Unlisted(s))
  BY <1>1, FS_Subset
<1>3. QED
  BY <1>2, FS_CardinalityType

\* One request moves on: what it announces is new, and what it opens is listed.
LEMMA HttpStep ==
    ASSUME InboxIInv, NEW p \in Procs, NEW r \in HttpRow, post' = [post EXCEPT ![p] = r],
           conv' \in ConvRow, msgs' \in Seq(MsgRow), Len(msgs') <= MaxMsgs, Len(msgs) <= Len(msgs'),
           sent' \subseteq 1..Len(msgs'), Accounted',
           Unlisted(msgs') = {} \/ (~Inbox!Opening /\ r.pc # "listed"),
           r.pc = "broadcast" /\ r.m # 0 => r.m \in (1..Len(msgs')) \ ((1..Len(msgs)) \cup sent'),
           \A m \in sent' : m \in sent \/ (post[p].pc = "broadcast" /\ m = post[p].m /\ m # 0)
    PROVE  InboxIInv'
<1>1. InboxTypes /\ Accounted /\ Cleared /\ Announced
  BY DEF InboxIInv
<1>2. /\ post' \in [Procs -> HttpRow] /\ post'[p] = r
      /\ \A q \in Procs \ {p} : post'[q] = post[q]
  BY <1>1 DEF InboxTypes
<1>3. InboxTypes'
  BY <1>1, <1>2 DEF InboxTypes, HttpRow
<1>4. Cleared'
  <2> SUFFICES ASSUME Inbox!Opening', Unlisted(msgs') # {} PROVE FALSE
    BY DEF Cleared
  <2>1. PICK q \in Procs : post'[q].pc = "listed"
    BY DEF Inbox!Opening, Inbox!At
  <2>2. q # p /\ post[q].pc = "listed"
    BY <1>2, <2>1
  <2>3. QED
    BY <2>2 DEF Inbox!Opening, Inbox!At
<1>5. Announced'
  <2> SUFFICES ASSUME NEW x \in Procs, Announces(post', x)
               PROVE  /\ post'[x].m \in (1..Len(msgs')) \ sent'
                      /\ \A q \in Procs : q # x /\ Announces(post', q) => post'[q].m # post'[x].m
    BY DEF Announced
  <2>1. Len(msgs) \in Nat /\ Len(msgs') \in Nat
    BY <1>1 DEF InboxTypes
  <2>2. \A q \in Procs \ {p} : Announces(post', q) => Announces(post, q) /\ post'[q].m \in 1..Len(msgs)
    BY <1>1, <1>2 DEF Announced, Announces
  <2>3. CASE x = p
    <3>1. r.pc = "broadcast" /\ r.m # 0 /\ post'[x].m = r.m
      BY <1>2, <2>3 DEF Announces
    <3>2. QED
      BY <2>2, <2>3, <3>1
  <2>4. CASE x # p
    <3>1. post'[x] = post[x] /\ Announces(post, x)
      BY <1>2, <2>2, <2>4
    <3>2. post[x].m \in 1..Len(msgs) /\ post[x].m \notin sent
      BY <1>1, <3>1 DEF Announced
    <3>3. post[x].m \notin sent'
      <4>1. SUFFICES ASSUME post[x].m \in sent' PROVE FALSE
        OBVIOUS
      <4>2. post[p].pc = "broadcast" /\ post[x].m = post[p].m /\ post[x].m # 0
        BY <3>2, <4>1
      <4>3. Announces(post, p)
        BY <4>2 DEF Announces
      <4>4. QED
        BY <1>1, <2>4, <3>1, <4>2, <4>3 DEF Announced
    <3>4. ASSUME NEW q \in Procs, q # x, Announces(post', q) PROVE post'[q].m # post'[x].m
      <4>1. CASE q = p
        BY <1>2, <3>1, <3>2, <3>4, <4>1 DEF Announces
      <4>2. CASE q # p
        <5>1. post'[q] = post[q] /\ Announces(post, q)
          BY <1>2, <2>2, <3>4, <4>2
        <5>2. QED
          BY <1>1, <3>1, <3>4, <5>1 DEF Announced
      <4>3. QED
        BY <4>1, <4>2
    <3>5. post[x].m \in 1..Len(msgs')
      BY <2>1, <3>2
    <3>6. QED
      BY <3>1, <3>3, <3>4, <3>5
  <2>5. QED
    BY <2>3, <2>4
<1>6. QED
  BY <1>3, <1>4, <1>5 DEF InboxIInv

\* A message is posted.
LEMMA PostKeeps ==
    ASSUME InboxConstants, InboxIInv, NEW p \in Procs, NEW by \in {"user", "admin"},
           Inbox!InsertMessage(by), Inbox!Goto(p, "broadcast", Len(msgs')), UNCHANGED sent
    PROVE  InboxIInv'
<1>1. InboxTypes /\ Accounted /\ Cleared
  BY DEF InboxIInv
<1> DEFINE r == [by |-> by, listed |-> FALSE, missed |-> Inbox!Opening]
           n == Len(msgs)
<1>2. msgs' = Append(msgs, r) /\ n < MaxMsgs /\ n \in Nat
  BY <1>1 DEF Inbox!InsertMessage, InboxTypes
<1>3. r \in MsgRow
  <2>1. Inbox!Opening \in BOOLEAN
    BY DEF Inbox!Opening
  <2>2. QED
    BY <2>1 DEF MsgRow
<1>4. r.by = by /\ (Inbox!Opening => ~Awaits(r)) /\ (by = "admin" => ~Awaits(r))
  BY DEF Awaits
<1> HIDE DEF r
<1>5. /\ msgs' \in Seq(MsgRow) /\ Len(msgs') = n + 1 /\ msgs'[n + 1] = r
      /\ \A i \in 1..n : msgs'[i] = msgs[i]
  BY <1>1, <1>2, <1>3 DEF InboxTypes
<1>6. Unlisted(msgs') = IF Awaits(r) THEN Unlisted(msgs) \cup {n + 1} ELSE Unlisted(msgs)
  <2> HIDE DEF n
  <2>1. \A i : i \in 1..(n + 1) <=> i \in 1..n \/ i = n + 1
    BY <1>2
  <2>2. Len(msgs) = n
    BY DEF n
  <2>3. n + 1 \notin 1..n
    BY <1>2
  <2>4. QED
    BY <1>5, <2>1, <2>2, <2>3 DEF Unlisted
<1>7. /\ conv' \in ConvRow
      /\ by = "user" => conv'.unreadAdmin = conv.unreadAdmin + 1 /\ conv'.status = "open"
      /\ by = "admin" => /\ conv'.unreadAdmin = conv.unreadAdmin /\ conv'.status = conv.status
  <2>1. conv \in ConvRow /\ conv.unreadAdmin + 1 \in Nat /\ conv.unreadUser + 1 \in Nat
    BY <1>1 DEF InboxTypes, ConvRow
  <2>2. CASE by = "user"
    <3>1. conv' = [conv EXCEPT !.exists = TRUE, !.status = "open", !.unreadAdmin = @ + 1]
      BY <2>2 DEF Inbox!InsertMessage
    <3>2. QED
      BY <2>1, <2>2, <3>1 DEF ConvRow
  <2>3. CASE by = "admin"
    <3>1. conv' = [conv EXCEPT !.unreadUser = @ + 1]
      BY <2>3 DEF Inbox!InsertMessage
    <3>2. QED
      BY <2>1, <2>3, <3>1 DEF ConvRow
  <2>4. QED
    BY <2>2, <2>3
<1>8. conv.unreadAdmin \in Nat /\ Cardinality(Unlisted(msgs)) \in Nat /\ IsFiniteSet(Unlisted(msgs))
  BY <1>1, UnlistedFinite DEF InboxTypes, ConvRow
<1>9. Cardinality(Unlisted(msgs')) <= Cardinality(Unlisted(msgs)) + (IF Awaits(r) THEN 1 ELSE 0)
  <2>1. CASE Awaits(r)
    <3>1. n + 1 \notin Unlisted(msgs)
      BY <1>2 DEF Unlisted
    <3>2. Cardinality(Unlisted(msgs) \cup {n + 1}) = Cardinality(Unlisted(msgs)) + 1
      BY <1>8, <3>1, FS_AddElement
    <3>3. QED
      BY <1>6, <1>8, <2>1, <3>2
  <2>2. CASE ~Awaits(r)
    BY <1>6, <1>8, <2>2
  <2>3. QED
    BY <2>1, <2>2
<1>10. Cardinality(Unlisted(msgs')) \in Nat
  BY <1>5, UnlistedFinite
<1>11. Accounted'
  <2>1. CASE by = "user"
    BY <1>1, <1>7, <1>8, <1>9, <1>10, <2>1 DEF Accounted
  <2>2. CASE by = "admin"
    <3>1. ~Awaits(r)
      BY <1>4, <2>2
    <3>2. QED
      BY <1>1, <1>7, <1>8, <1>9, <1>10, <2>2, <3>1 DEF Accounted
  <2>3. QED
    BY <2>1, <2>2
<1>13. Inbox!Opening => Unlisted(msgs') = {}
  BY <1>1, <1>4, <1>6 DEF Cleared
<1> DEFINE w == [pc |-> "broadcast", m |-> n + 1]
<1>14. post' = [post EXCEPT ![p] = w]
  BY <1>5 DEF Inbox!Goto
<1>15. w \in HttpRow /\ w.pc = "broadcast" /\ w.m = n + 1
  BY <1>2 DEF HttpRow
<1> HIDE DEF w
<1>16. n + 1 \in (1..(n + 1)) \ ((1..n) \cup sent') /\ sent' \subseteq 1..(n + 1)
  BY <1>1, <1>2 DEF InboxTypes
<1>17. Len(msgs') <= MaxMsgs /\ Len(msgs) <= Len(msgs')
  BY <1>2, <1>5 DEF InboxConstants
<1>18. QED
  BY <1>5, <1>7, <1>11, <1>13, <1>14, <1>15, <1>16, <1>17, HttpStep

\* A request that posts nothing: it clears a counter or sets the status.
LEMMA ConvKeeps ==
    ASSUME InboxIInv, NEW p \in Procs, NEW r \in HttpRow, post' = [post EXCEPT ![p] = r],
           r.pc # "listed", r.m = 0, UNCHANGED <<msgs, sent>>, conv' \in ConvRow,
           conv'.unreadAdmin = conv.unreadAdmin \/ Unlisted(msgs) = {}
    PROVE  InboxIInv'
<1>1. InboxTypes /\ Accounted /\ Cleared
  BY DEF InboxIInv
<1>2. Len(msgs) \in Nat
  BY <1>1 DEF InboxTypes
<1>3. Accounted'
  <2>1. CASE conv'.unreadAdmin = conv.unreadAdmin
    BY <1>1, <2>1 DEF Accounted
  <2>2. CASE Unlisted(msgs) = {}
    <3>1. Cardinality(Unlisted(msgs)) = 0 /\ conv'.unreadAdmin \in Nat
      BY <2>2, FS_EmptySet DEF ConvRow
    <3>2. QED
      BY <3>1 DEF Accounted
  <2>3. QED
    BY <2>1, <2>2
<1>4. Unlisted(msgs') = {} \/ (~Inbox!Opening /\ r.pc # "listed")
  BY <1>1 DEF Cleared
<1>5. msgs' \in Seq(MsgRow) /\ Len(msgs') <= MaxMsgs /\ Len(msgs) <= Len(msgs') /\ sent' \subseteq 1..Len(msgs')
  BY <1>1, <1>2 DEF InboxTypes
<1>6. QED
  BY <1>3, <1>4, <1>5, HttpStep

\* A page is listed: nothing new awaits and, when the counter is going to be
\* cleared, nothing awaits at all.
LEMMA ListStep ==
    ASSUME InboxTypes, NEW last, NEW clears \in BOOLEAN, Inbox!ListMessages(last, clears)
    PROVE  /\ msgs' \in Seq(MsgRow) /\ Len(msgs') = Len(msgs) /\ Unlisted(msgs') \subseteq Unlisted(msgs)
           /\ clears => Unlisted(msgs') = {}
<1>1. msgs \in Seq(MsgRow) /\ Len(msgs) \in Nat /\ DOMAIN msgs = 1..Len(msgs)
      /\ \A m \in 1..Len(msgs) : msgs[m] \in MsgRow
  BY DEF InboxTypes
<1> DEFINE seen(m) == [msgs[m] EXCEPT !.listed = @ \/ m \in Inbox!Page(last),
                                      !.missed = @ \/ (clears /\ m \notin Inbox!Page(last))]
<1>2. msgs' = [m \in 1..Len(msgs) |-> seen(m)]
  BY <1>1 DEF Inbox!ListMessages
<1>3. ASSUME NEW m \in 1..Len(msgs)
      PROVE  seen(m) \in MsgRow /\ (Awaits(seen(m)) => Awaits(msgs[m]) /\ ~clears)
  <2>1. msgs[m] \in MsgRow
    BY <1>1
  <2> DEFINE x == m \in Inbox!Page(last)
  <2>2. x \in BOOLEAN
    OBVIOUS
  <2>3. seen(m) = [msgs[m] EXCEPT !.listed = @ \/ x, !.missed = @ \/ (clears /\ ~x)]
    OBVIOUS
  <2> HIDE DEF x, seen
  <2>4. seen(m) = [by |-> msgs[m].by, listed |-> msgs[m].listed \/ x, missed |-> msgs[m].missed \/ (clears /\ ~x)]
    BY <2>1, <2>2, <2>3 DEF MsgRow
  <2>5. QED
    BY <2>1, <2>2, <2>4 DEF MsgRow, Awaits
<1> HIDE DEF seen
<1>4. msgs' \in [1..Len(msgs) -> MsgRow] /\ \A m \in 1..Len(msgs) : msgs'[m] = seen(m)
  BY <1>2, <1>3
<1>5. msgs' \in Seq(MsgRow)
  BY <1>1, <1>4, SeqDef
<1>6. 1..Len(msgs') = 1..Len(msgs) /\ Len(msgs') \in Nat
  BY <1>4, <1>5, LenProperties
<1>7. Len(msgs') = Len(msgs)
  BY <1>1, <1>6
<1>8. QED
  BY <1>3, <1>4, <1>5, <1>7 DEF Unlisted

LEMMA InboxKeeps ==
    ASSUME InboxConstants, InboxIInv, NEW p \in Procs, Inbox!HttpNext(p)
    PROVE  InboxIInv'
<1>1. InboxTypes /\ Accounted /\ Cleared /\ post[p] \in HttpRow /\ Len(msgs) \in Nat
  BY DEF InboxIInv, InboxTypes
<1>2. [pc |-> "broadcast", m |-> 0] \in HttpRow /\ [pc |-> "listed", m |-> 0] \in HttpRow
      /\ Inbox!Free \in HttpRow /\ Inbox!Free.pc = "idle"
  BY DEF HttpRow, Inbox!Free
<1>3. CASE Inbox!getMyConversation(p)
  <2>1. /\ conv' = [conv EXCEPT !.exists = TRUE] /\ UNCHANGED <<msgs, sent, post>>
    BY <1>3 DEF Inbox!getMyConversation, Inbox!GetOrCreateConversation
  <2>2. /\ conv' \in ConvRow /\ conv'.unreadAdmin = conv.unreadAdmin
        /\ conv'.status = conv.status
    BY <1>1, <2>1 DEF InboxTypes, ConvRow
  <2>3. QED
    BY <2>1, <2>2 DEF InboxIInv, InboxTypes, Accounted, Cleared, Inbox!Opening, Inbox!At,
                      Announced, Announces, Unlisted
<1>4. CASE Inbox!postMyMessage(p)
  BY <1>4, PostKeeps DEF Inbox!postMyMessage, Inbox!PostUserMessage
<1>5. CASE Inbox!adminPostMessage(p)
  BY <1>5, PostKeeps DEF Inbox!adminPostMessage, Inbox!PostAdminMessage
<1>6. CASE Inbox!markMyRead(p)
  <2> DEFINE r == [pc |-> "broadcast", m |-> 0]
  <2>1. /\ conv' = [conv EXCEPT !.unreadUser = 0] /\ UNCHANGED <<msgs, sent>>
        /\ post' = [post EXCEPT ![p] = r]
    BY <1>6 DEF Inbox!markMyRead, Inbox!ClearUnreadUser, Inbox!Goto
  <2>2. /\ conv' \in ConvRow /\ conv'.unreadAdmin = conv.unreadAdmin
        /\ conv'.status = conv.status
    BY <1>1, <2>1 DEF InboxTypes, ConvRow
  <2>3. r \in HttpRow /\ r.pc # "listed" /\ r.m = 0
    BY <1>1, <1>2, <2>2
  <2> HIDE DEF r
  <2>4. QED
    BY <2>1, <2>2, <2>3, ConvKeeps
<1>7. CASE Inbox!adminGetConversation(p)
  <2> DEFINE u == IF conv.unreadAdmin > 0 THEN 1 ELSE 0
             r == [pc |-> "opened", m |-> u]
  <2>1. UNCHANGED <<conv, msgs, sent>> /\ post' = [post EXCEPT ![p] = r]
    BY <1>7 DEF Inbox!adminGetConversation, Inbox!Goto
  <2>2. r \in HttpRow /\ r.pc = "opened"
    BY DEF HttpRow
  <2> HIDE DEF r
  <2>3. /\ conv' \in ConvRow /\ msgs' \in Seq(MsgRow) /\ Len(msgs') <= MaxMsgs /\ Len(msgs) <= Len(msgs')
        /\ sent' \subseteq 1..Len(msgs') /\ Accounted'
    BY <1>1, <2>1 DEF InboxTypes, Accounted
  <2>4. Unlisted(msgs') = {} \/ (~Inbox!Opening /\ r.pc # "listed")
    BY <1>1, <2>1, <2>2 DEF Cleared
  <2>5. QED
    BY <2>1, <2>2, <2>3, <2>4, HttpStep
<1>12. CASE Inbox!adminLists(p)
  <2>1. PICK last \in 0..Len(msgs) : Inbox!ListMessages(last, post[p].m = 1)
    BY <1>12 DEF Inbox!adminLists
  <2>2. UNCHANGED <<conv, sent>>
    BY <1>12 DEF Inbox!adminLists
  <2>3. /\ msgs' \in Seq(MsgRow) /\ Len(msgs') = Len(msgs) /\ Unlisted(msgs') \subseteq Unlisted(msgs)
        /\ (post[p].m = 1) => Unlisted(msgs') = {}
    BY <1>1, <2>1, ListStep
  <2>4. Accounted' /\ (Unlisted(msgs) = {} => Unlisted(msgs') = {})
    <3>1. conv'.unreadAdmin = conv.unreadAdmin /\ conv.unreadAdmin \in Nat
      BY <1>1, <2>2 DEF InboxTypes, ConvRow
    <3>2. IsFiniteSet(Unlisted(msgs)) /\ Cardinality(Unlisted(msgs)) \in Nat /\ Cardinality(Unlisted(msgs')) \in Nat
      BY <1>1, <2>3, UnlistedFinite DEF InboxTypes
    <3>3. Cardinality(Unlisted(msgs')) <= Cardinality(Unlisted(msgs))
      BY <2>3, <3>2, FS_Subset
    <3>4. QED
      BY <1>1, <2>3, <3>1, <3>2, <3>3 DEF Accounted
  <2>5. /\ conv' \in ConvRow /\ Len(msgs') <= MaxMsgs /\ Len(msgs) <= Len(msgs')
        /\ sent' \subseteq 1..Len(msgs')
    BY <1>1, <2>2, <2>3 DEF InboxTypes
  <2>6. CASE post[p].m = 1
    <3> DEFINE r == [pc |-> "listed", m |-> 0]
    <3>1. post' = [post EXCEPT ![p] = r] /\ r \in HttpRow /\ r.pc = "listed"
      BY <1>2, <1>12, <2>6 DEF Inbox!adminLists, Inbox!Goto
    <3> HIDE DEF r
    <3>2. QED
      BY <2>2, <2>3, <2>4, <2>5, <2>6, <3>1, HttpStep
  <2>7. CASE post[p].m # 1
    <3> DEFINE r == Inbox!Free
    <3>1. post' = [post EXCEPT ![p] = r] /\ r \in HttpRow /\ r.pc = "idle"
      BY <1>2, <1>12, <2>7 DEF Inbox!adminLists, Inbox!Done
    <3>2. Unlisted(msgs') = {} \/ (~Inbox!Opening /\ r.pc # "listed")
      BY <1>1, <2>4, <3>1 DEF Cleared
    <3> HIDE DEF r
    <3>3. QED
      BY <2>2, <2>3, <2>4, <2>5, <3>1, <3>2, HttpStep
  <2>8. QED
    BY <2>6, <2>7
<1>8. CASE Inbox!adminClears(p)
  <2> DEFINE r == [pc |-> "broadcast", m |-> 0]
  <2>1. /\ post[p].pc = "listed" /\ conv' = [conv EXCEPT !.unreadAdmin = 0] /\ UNCHANGED <<msgs, sent>>
        /\ post' = [post EXCEPT ![p] = r]
    BY <1>8 DEF Inbox!adminClears, Inbox!ClearUnreadAdmin, Inbox!Goto, Inbox!At
  <2>2. Unlisted(msgs) = {}
    BY <1>1, <2>1 DEF Cleared, Inbox!Opening, Inbox!At
  <2>3. /\ conv' \in ConvRow /\ conv'.status = conv.status
    BY <1>1, <2>1 DEF InboxTypes, ConvRow
  <2>4. r \in HttpRow /\ r.pc # "listed" /\ r.m = 0
    BY <1>1, <1>2, <2>3
  <2> HIDE DEF r
  <2>5. QED
    BY <2>1, <2>2, <2>3, <2>4, ConvKeeps
<1>9. CASE Inbox!adminPatchConversation(p)
  <2> DEFINE r == [pc |-> "broadcast", m |-> 0]
  <2>1. PICK to \in {"open", "closed"} : conv' = [conv EXCEPT !.status = to]
    BY <1>9 DEF Inbox!adminPatchConversation, Inbox!SetStatus
  <2>2. UNCHANGED <<msgs, sent>> /\ post' = [post EXCEPT ![p] = r]
    BY <1>9 DEF Inbox!adminPatchConversation, Inbox!Goto
  <2>3. /\ conv' \in ConvRow /\ conv'.unreadAdmin = conv.unreadAdmin
    BY <1>1, <2>1 DEF InboxTypes, ConvRow
  <2>4. r \in HttpRow /\ r.pc # "listed" /\ r.m = 0
    BY <1>2, <2>3
  <2> HIDE DEF r
  <2>5. QED
    BY <2>2, <2>3, <2>4, ConvKeeps
<1>10. CASE Inbox!broadcast(p)
  <2>1. /\ post[p].pc = "broadcast" /\ post' = [post EXCEPT ![p] = Inbox!Free]
        /\ sent' = sent \cup ({post[p].m} \ {0}) /\ UNCHANGED <<conv, msgs>>
    BY <1>10 DEF Inbox!broadcast, Inbox!Done, Inbox!At, Inbox!dbVars
  <2>2. post[p].m # 0 => post[p].m \in 1..Len(msgs)
    BY <2>1 DEF InboxIInv, Announced, Announces
  <2>3. /\ sent' \subseteq 1..Len(msgs') /\ Accounted'
        /\ conv' \in ConvRow /\ msgs' \in Seq(MsgRow) /\ Len(msgs') <= MaxMsgs /\ Len(msgs) <= Len(msgs')
    <3>1. sent' \subseteq 1..Len(msgs')
      BY <1>1, <2>1, <2>2 DEF InboxTypes
    <3>2. Accounted'
      BY <1>1, <2>1 DEF Accounted
    <3>3. QED
      BY <1>1, <2>1, <3>1, <3>2 DEF InboxTypes
  <2>4. Unlisted(msgs') = {} \/ ~Inbox!Opening
    BY <1>1, <2>1 DEF Cleared
  <2>5. \A m \in sent' : m \in sent \/ (post[p].pc = "broadcast" /\ m = post[p].m /\ m # 0)
    BY <2>1
  <2>6. QED
    BY <1>2, <2>1, <2>3, <2>4, <2>5, HttpStep
<1>11. QED
  BY <1>3, <1>4, <1>5, <1>6, <1>7, <1>8, <1>9, <1>10, <1>12 DEF Inbox!HttpNext

-----------------------------------------------------------------------------
\* No learner message drops out of the count while nobody has listed it,
\* unless a staff request that cleared the counter passed it over (it was off
\* the page, or posted between list and clear); what is announced is
\* committed, and by one request (supportchat/store.go, handlers.go,
\* service.go), for any number of requests and messages and any page size.
THEOREM InboxThm ==
    ASSUME InboxConstants
    PROVE  Inbox!InboxSpec => []InboxInv
<1>1. Inbox!InboxInit => InboxIInv
  <2> SUFFICES ASSUME Inbox!InboxInit PROVE InboxIInv
    OBVIOUS
  <2>1. /\ conv = [exists |-> FALSE, status |-> "open", unreadAdmin |-> 0, unreadUser |-> 0]
        /\ msgs = <<>> /\ sent = {} /\ post = [p \in Procs |-> Inbox!Free]
    BY DEF Inbox!InboxInit
  <2>2. conv \in ConvRow /\ conv.unreadAdmin = 0 /\ conv.status = "open"
    BY <2>1 DEF ConvRow
  <2>3. msgs \in Seq(MsgRow) /\ Len(msgs) = 0
    BY <2>1
  <2>4. post \in [Procs -> HttpRow] /\ \A p \in Procs : post[p].pc = "idle"
    BY <2>1 DEF HttpRow, Inbox!Free
  <2>5. InboxTypes
    BY <2>1, <2>2, <2>3, <2>4 DEF InboxTypes, InboxConstants
  <2>6. Unlisted(msgs) = {}
    BY <2>3 DEF Unlisted
  <2>7. Accounted
    <3>1. Cardinality(Unlisted(msgs)) = 0
      BY <2>6, FS_EmptySet
    <3>2. QED
      BY <2>2, <3>1 DEF Accounted
  <2>8. QED
    BY <2>2, <2>4, <2>5, <2>6, <2>7
       DEF InboxIInv, Cleared, Announced, Announces
<1>2. InboxIInv /\ [Inbox!InboxNext]_Inbox!inboxVars => InboxIInv'
  <2> SUFFICES ASSUME InboxIInv, [Inbox!InboxNext]_Inbox!inboxVars PROVE InboxIInv'
    OBVIOUS
  <2>1. CASE Inbox!InboxNext
    BY <2>1, InboxKeeps DEF Inbox!InboxNext
  <2>2. CASE UNCHANGED Inbox!inboxVars
    <3>1. UNCHANGED <<conv, msgs, sent, post>>
      BY <2>2 DEF Inbox!inboxVars
    <3>2. QED
      BY <3>1 DEF InboxIInv, InboxTypes, Accounted, Cleared, Inbox!Opening, Inbox!At,
                  Announced, Announces, Unlisted
  <2>3. QED
    BY <2>1, <2>2
<1>3. InboxIInv => InboxInv
  <2> SUFFICES ASSUME InboxIInv PROVE Inbox!InboxInv
    BY DEF InboxInv
  <2>1. InboxTypes /\ Accounted /\ Announced
    BY DEF InboxIInv
  <2>2. DOMAIN msgs = 1..Len(msgs)
    BY <2>1 DEF InboxTypes
  <2>3. Inbox!InboxTypeOK
    BY <2>1, <2>2 DEF InboxTypes, ConvRow, Inbox!InboxTypeOK
  <2>4. Inbox!UnreadAccounted
    <3> DEFINE W == {m \in DOMAIN msgs : msgs[m].by = "user" /\ ~msgs[m].listed /\ ~msgs[m].missed}
    <3>1. W = Unlisted(msgs)
      BY <2>2 DEF Unlisted, Awaits
    <3>2. Inbox!Cardinality(W) = Cardinality(W)
      BY DEF Inbox!Cardinality, Cardinality
    <3>3. Inbox!Cardinality(W) <= conv.unreadAdmin
      BY <2>1, <3>1, <3>2 DEF Accounted
    <3>4. QED
      BY <3>3 DEF Inbox!UnreadAccounted
  <2>5. Inbox!AnnouncedOnce
    BY <2>1, <2>2 DEF Announced, Announces, Inbox!AnnouncedOnce, Inbox!At
  <2>6. QED
    BY <2>1, <2>3, <2>4, <2>5 DEF Inbox!InboxInv
<1>4. QED
  BY <1>1, <1>2, <1>3, PTL DEF Inbox!InboxSpec
-----------------------------------------------------------------------------
(***************************************************************************)
(* Staff sign-in (AdminAuth), for any requests in flight and any limits.    *)
(*                                                                          *)
(* The lock counts what is over; the invariant adds the logins that have    *)
(* passed it and not yet compared (Lockout).  A refresh token is single use *)
(* because no two sessions ever hold the same one and no session holds one  *)
(* that was exchanged (OneHolder).                                          *)
(***************************************************************************)
StaffConstants ==
    /\ IsFiniteSet(Procs) /\ FailLimit \in Nat \ {0}
    /\ MaxWindow \in Nat \ {0} /\ MaxTokens \in Nat

StaffPc == {"idle", "login", "compare", "verify", "enroll", "disable", "refresh", "rotate", "revoke"}
StaffCall == [pc : StaffPc, good : BOOLEAN, seen : Nat, s : Nat, t : Nat]
StaffSess == [hash : Nat, live : BOOLEAN, fresh : BOOLEAN, factor : {"password", "code"}, ruled : BOOLEAN]
OnSession == {"refresh", "rotate", "revoke"}

\* A request that has found a session works on a row of the table.
CallsNamed(f, n) == \A p \in Procs : f[p].pc \in OnSession => f[p].s \in 1..n
StaffCalls == call \in [Procs -> StaffCall] /\ CallsNamed(call, Len(sess))

\* Logins that have read the counter and not yet compared the password.
Trying(f) == {p \in Procs : f[p].pc \in {"login", "compare"}}
Lockout(fa, tr, lo, f) ==
    /\ fa \in Nat /\ lo \in Nat /\ tr = fa + lo
    /\ fa + Cardinality(Trying(f)) <= FailLimit + Cardinality(Procs) - 1

\* No refresh token has two holders, and none that was exchanged has one.
OneHolder(ss, uu, mm) ==
    /\ \A s \in 1..Len(ss) : ss[s].hash \in 1..mm
    /\ \A i \in 1..Len(uu) : uu[i] \in 1..mm
    /\ \A s, r \in 1..Len(ss) : ss[s].hash = ss[r].hash => s = r
    /\ \A s \in 1..Len(ss), i \in 1..Len(uu) : ss[s].hash # uu[i]
    /\ \A i, j \in 1..Len(uu) : uu[i] = uu[j] => i = j
Ruled(ss) == \A s \in 1..Len(ss) : ss[s].ruled => ss[s].factor = "code"
Table(ss, uu, mm) ==
    /\ ss \in Seq(StaffSess) /\ uu \in Seq(Nat) /\ mm \in 0..MaxTokens /\ Len(ss) <= mm
    /\ OneHolder(ss, uu, mm) /\ Ruled(ss)

Identity ==
    /\ admin \in [active : BOOLEAN, totp : 0..MaxWindow] /\ enforce \in BOOLEAN
    /\ window \in 1..MaxWindow /\ scanned \subseteq 1..MaxWindow
    /\ admin.totp # 0 => admin.totp \in scanned
Tokens3 == held \subseteq {"access", "enroll", "challenge"}

StaffIInv ==
    /\ StaffCalls /\ Lockout(fails, tried, uncounted, call) /\ Table(sess, used, minted)
    /\ Identity /\ Tokens3

-----------------------------------------------------------------------------
(* Counting the logins under way, and the table of sessions.                *)

LEMMA TryingFinite ==
    ASSUME StaffConstants, NEW f
    PROVE  /\ IsFiniteSet(Trying(f)) /\ Cardinality(Trying(f)) \in Nat
           /\ Cardinality(Trying(f)) <= Cardinality(Procs) /\ Cardinality(Procs) \in Nat
<1>1. Trying(f) \subseteq Procs
  BY DEF Trying
<1>2. IsFiniteSet(Procs)
  BY DEF StaffConstants
<1>3. IsFiniteSet(Trying(f)) /\ Cardinality(Trying(f)) <= Cardinality(Procs)
  BY <1>1, <1>2, FS_Subset
<1>4. QED
  BY <1>2, <1>3, FS_CardinalityType

\* A request goes on; it joins those under way only before the limit.
LEMMA LockStep ==
    ASSUME StaffConstants, StaffIInv, NEW p \in Procs, NEW n \in StaffCall,
           call' = [call EXCEPT ![p] = n],
           n.pc \in {"login", "compare"} => p \in Trying(call) \/ fails < FailLimit
    PROVE  /\ Lockout(fails, tried, uncounted, call')
           /\ p \in Trying(call) /\ p \notin Trying(call')
                => /\ Lockout(fails + 1, tried + 1, uncounted, call')
                   /\ Lockout(fails, tried + 1, uncounted + 1, call')
           /\ Lockout(0, 0, 0, call')
<1>1. call \in [Procs -> StaffCall] /\ Lockout(fails, tried, uncounted, call)
  BY DEF StaffIInv, StaffCalls
<1> DEFINE a == Cardinality(Trying(call))  b == Cardinality(Trying(call'))  c == Cardinality(Procs)
<1>2. a \in Nat /\ b \in Nat /\ c \in Nat /\ a <= c /\ b <= c
  BY TryingFinite
<1>3. \A q \in Procs : q # p => (q \in Trying(call') <=> q \in Trying(call))
  BY <1>1 DEF Trying
<1>4. p \in Trying(call') <=> n.pc \in {"login", "compare"}
  BY <1>1 DEF Trying
<1>5. Trying(call) \subseteq Procs /\ Trying(call') \subseteq Procs
  BY DEF Trying
<1>6. p \in Trying(call) /\ p \notin Trying(call') => b = a - 1
  <2> SUFFICES ASSUME p \in Trying(call), p \notin Trying(call') PROVE b = a - 1
    OBVIOUS
  <2>1. Trying(call') = Trying(call) \ {p}
    BY <1>3, <1>5
  <2>2. QED
    BY <2>1, TryingFinite, FS_RemoveElement
<1>7. p \in Trying(call) /\ p \in Trying(call') => b = a
  <2> SUFFICES ASSUME p \in Trying(call), p \in Trying(call') PROVE b = a
    OBVIOUS
  <2>1. \A q \in Procs : q \in Trying(call') <=> q \in Trying(call)
    BY <1>3
  <2>2. Trying(call') = Trying(call)
    BY <1>5, <2>1
  <2>3. QED
    BY <2>2
<1>8. p \notin Trying(call) /\ p \notin Trying(call') => b = a
  <2> SUFFICES ASSUME p \notin Trying(call), p \notin Trying(call') PROVE b = a
    OBVIOUS
  <2>1. \A q \in Procs : q \in Trying(call') <=> q \in Trying(call)
    BY <1>3
  <2>2. Trying(call') = Trying(call)
    BY <1>5, <2>1
  <2>3. QED
    BY <2>2
<1>9. /\ fails \in Nat /\ uncounted \in Nat /\ tried = fails + uncounted /\ fails + a <= FailLimit + c - 1
      /\ FailLimit \in Nat \ {0}
  BY <1>1 DEF Lockout, StaffConstants
<1> HIDE DEF a, b, c
<1>10. fails + b <= FailLimit + c - 1
  BY <1>2, <1>4, <1>6, <1>7, <1>8, <1>9
<1>11. p \in Trying(call) /\ p \notin Trying(call') => fails + 1 + b <= FailLimit + c - 1
  BY <1>2, <1>6, <1>9
<1>12. 0 + b <= FailLimit + c - 1
  BY <1>2, <1>9
<1>13. QED
  BY <1>9, <1>10, <1>11, <1>12 DEF Lockout, a, b, c

LEMMA CallsStep2 ==
    ASSUME StaffIInv, NEW p \in Procs, NEW n \in StaffCall, call' = [call EXCEPT ![p] = n],
           NEW k \in Nat, Len(sess) <= k, n.pc \in OnSession => n.s \in 1..k
    PROVE  call' \in [Procs -> StaffCall] /\ CallsNamed(call', k)
<1>1. call \in [Procs -> StaffCall] /\ CallsNamed(call, Len(sess)) /\ Len(sess) \in Nat
  BY DEF StaffIInv, StaffCalls, Table
<1>2. call' \in [Procs -> StaffCall]
  BY <1>1
<1>3. \A q \in Procs : call'[q].pc \in OnSession => call'[q].s \in 1..k
  <2> SUFFICES ASSUME NEW q \in Procs, call'[q].pc \in OnSession PROVE call'[q].s \in 1..k
    OBVIOUS
  <2>1. CASE q = p
    BY <1>1, <2>1
  <2>2. CASE q # p
    <3>1. call[q].s \in 1..Len(sess)
      BY <1>1, <2>2 DEF CallsNamed
    <3>2. call'[q].s = call[q].s
      BY <1>1, <2>2
    <3>3. QED
      BY <1>1, <3>1, <3>2
  <2>3. QED
    BY <2>1, <2>2
<1>4. QED
  BY <1>2, <1>3 DEF CallsNamed

\* Ending a request leaves it idle.
LEMMA FreeCall ==
    /\ Staff!Free \in StaffCall /\ Staff!Free.pc = "idle"
    /\ "idle" \notin OnSession /\ "idle" \notin {"login", "compare"}
  BY DEF Staff!Free, StaffCall, StaffPc, OnSession

\* A step of one request that changes nothing but itself.
LEMMA JobOnly ==
    ASSUME StaffConstants, StaffIInv, NEW p \in Procs, NEW n \in StaffCall,
           call' = [call EXCEPT ![p] = n],
           n.pc \in {"login", "compare"} => p \in Trying(call) \/ fails < FailLimit,
           n.pc \in OnSession => n.s \in 1..Len(sess),
           UNCHANGED <<admin, window, scanned, enforce, fails, tried, uncounted, held, sess, used, minted>>
    PROVE  StaffIInv'
<1>1. Lockout(fails, tried, uncounted, call')
  BY LockStep
<1>2. Len(sess) \in Nat /\ Len(sess) <= Len(sess)
  BY DEF StaffIInv, Table
<1>3. call' \in [Procs -> StaffCall] /\ CallsNamed(call', Len(sess))
  BY <1>2, CallsStep2
<1>4. QED
  BY <1>1, <1>3 DEF StaffIInv, StaffCalls, Table, Identity, Tokens3

\* A new session holds a new token, and passes the rule if a code was shown.
LEMMA PairKeeps ==
    ASSUME StaffConstants, StaffIInv, NEW how \in {"password", "code"}, Staff!issuePair(how),
           enforce => how = "code"
    PROVE  /\ Table(sess', used', minted') /\ Tokens3' /\ Len(sess') = Len(sess) + 1
<1>1. /\ Table(sess, used, minted) /\ enforce \in BOOLEAN
  BY DEF StaffIInv, Identity
<1>2. /\ sess \in Seq(StaffSess) /\ used \in Seq(Nat) /\ minted \in Nat /\ Len(sess) <= minted
      /\ MaxTokens \in Nat
  BY <1>1 DEF Table, StaffConstants
<1> DEFINE r == [hash |-> minted + 1, live |-> TRUE, fresh |-> TRUE, factor |-> how, ruled |-> enforce]
<1>3. /\ sess' = Append(sess, r) /\ minted' = minted + 1 /\ minted < MaxTokens /\ used' = used
      /\ held' = held \cup {"access"}
  BY DEF Staff!issuePair, Staff!CreateSession
<1>4. r \in StaffSess /\ r.hash = minted + 1 /\ (r.ruled => r.factor = "code")
  BY <1>1, <1>2 DEF StaffSess
<1> HIDE DEF r
<1>5. /\ sess' \in Seq(StaffSess) /\ Len(sess') = Len(sess) + 1 /\ sess'[Len(sess) + 1] = r
      /\ \A s \in 1..Len(sess) : sess'[s] = sess[s]
  BY <1>2, <1>3, <1>4
<1>6. \A s \in 1..Len(sess') : s = Len(sess) + 1 \/ s \in 1..Len(sess)
  BY <1>2, <1>5
<1>7. \A s \in 1..Len(sess') : sess'[s].hash \in 1..minted'
  BY <1>1, <1>2, <1>3, <1>4, <1>5, <1>6 DEF Table, OneHolder
<1>8. \A s, q \in 1..Len(sess') : sess'[s].hash = sess'[q].hash => s = q
  <2>1. \A s \in 1..Len(sess) : sess[s].hash # minted + 1
    BY <1>1, <1>2 DEF Table, OneHolder
  <2>2. QED
    BY <1>1, <1>4, <1>5, <1>6, <2>1 DEF Table, OneHolder
<1>9. \A s \in 1..Len(sess'), i \in 1..Len(used') : sess'[s].hash # used'[i]
  <2>1. \A i \in 1..Len(used) : used[i] # minted + 1
    BY <1>1, <1>2 DEF Table, OneHolder
  <2>2. QED
    BY <1>1, <1>3, <1>4, <1>5, <1>6, <2>1 DEF Table, OneHolder
<1>10. \A i \in 1..Len(used') : used'[i] \in 1..minted'
  BY <1>1, <1>2, <1>3 DEF Table, OneHolder
<1>11. OneHolder(sess', used', minted')
  BY <1>1, <1>3, <1>7, <1>8, <1>9, <1>10 DEF OneHolder, Table
<1>12. Ruled(sess')
  BY <1>1, <1>4, <1>5, <1>6 DEF Ruled, Table
<1>13. minted' \in 0..MaxTokens /\ Len(sess') <= minted'
  BY <1>2, <1>3, <1>5
<1>14. Tokens3'
  BY <1>3 DEF StaffIInv, Tokens3
<1>15. QED
  BY <1>2, <1>3, <1>5, <1>11, <1>12, <1>13, <1>14 DEF Table

\* The row of one session changes, but neither its token nor how it was opened.
LEMMA RowKeeps ==
    ASSUME Table(sess, used, minted), NEW ss, NEW s \in 1..Len(sess), NEW r \in StaffSess,
           ss = [sess EXCEPT ![s] = r], r.hash = sess[s].hash,
           r.ruled = sess[s].ruled, r.factor = sess[s].factor
    PROVE  Table(ss, used, minted) /\ Len(ss) = Len(sess)
<1>1. sess \in Seq(StaffSess)
  BY DEF Table
<1>2. /\ ss \in Seq(StaffSess) /\ Len(ss) = Len(sess)
      /\ \A q \in 1..Len(sess) : ss[q] = IF q = s THEN r ELSE sess[q]
  BY <1>1
<1>3. \A q \in 1..Len(sess) : ss[q].hash = sess[q].hash /\ ss[q].ruled = sess[q].ruled /\ ss[q].factor = sess[q].factor
  BY <1>2
<1>4. OneHolder(ss, used, minted)
  BY <1>2, <1>3 DEF Table, OneHolder
<1>5. Ruled(ss)
  BY <1>2, <1>3 DEF Table, Ruled
<1>6. QED
  BY <1>2, <1>4, <1>5 DEF Table

\* The token of a live session is exchanged for a new one.
LEMMA ExchangeKeeps ==
    ASSUME StaffConstants, Table(sess, used, minted), NEW s \in 1..Len(sess), minted < MaxTokens,
           NEW r \in StaffSess, r.hash = minted + 1, r.ruled = sess[s].ruled, r.factor = sess[s].factor
    PROVE  /\ Table([sess EXCEPT ![s] = r], Append(used, sess[s].hash), minted + 1)
           /\ Len([sess EXCEPT ![s] = r]) = Len(sess)
<1> DEFINE ss == [sess EXCEPT ![s] = r]
           t == sess[s].hash
           uu == Append(used, t)
<1>1. sess \in Seq(StaffSess) /\ used \in Seq(Nat) /\ minted \in Nat /\ Len(sess) <= minted /\ MaxTokens \in Nat
  BY DEF Table, StaffConstants
<1>2. /\ ss \in Seq(StaffSess) /\ Len(ss) = Len(sess)
      /\ \A q \in 1..Len(sess) : ss[q] = IF q = s THEN r ELSE sess[q]
  BY <1>1
<1>3. t \in 1..minted /\ t \in Nat
  BY <1>1 DEF Table, OneHolder
<1>4. /\ uu \in Seq(Nat) /\ Len(uu) = Len(used) + 1 /\ uu[Len(used) + 1] = t
      /\ \A i \in 1..Len(used) : uu[i] = used[i]
  BY <1>1, <1>3
<1>5. \A i \in 1..Len(uu) : i = Len(used) + 1 \/ i \in 1..Len(used)
  BY <1>1, <1>4
<1>6. OneHolder(sess, used, minted)
  BY DEF Table
<1>7. \A q \in 1..Len(sess) : q # s => sess[q].hash # t
  BY <1>6 DEF OneHolder
<1>8. \A q \in 1..Len(sess) : sess[q].hash # minted + 1 /\ sess[q].hash \in 1..(minted + 1)
  BY <1>1, <1>6 DEF OneHolder
<1>9. \A i \in 1..Len(used) : used[i] # minted + 1 /\ used[i] # t /\ used[i] \in 1..(minted + 1)
  BY <1>1, <1>6 DEF OneHolder
<1>10. t # minted + 1 /\ t \in 1..(minted + 1)
  BY <1>1, <1>3
<1> HIDE DEF ss, uu, t
<1>11. \A q \in 1..Len(ss) : ss[q].hash \in 1..(minted + 1)
  <2> SUFFICES ASSUME NEW q \in 1..Len(ss) PROVE ss[q].hash \in 1..(minted + 1)
    OBVIOUS
  <2>1. minted + 1 \in 1..(minted + 1)
    BY <1>1
  <2>2. CASE q = s
    BY <1>2, <2>1, <2>2
  <2>3. CASE q # s
    BY <1>2, <1>8, <2>3
  <2>4. QED
    BY <2>2, <2>3
<1>12. \A i \in 1..Len(uu) : uu[i] \in 1..(minted + 1)
  BY <1>4, <1>5, <1>9, <1>10
<1>13. \A q, x \in 1..Len(ss) : ss[q].hash = ss[x].hash => q = x
  BY <1>2, <1>6, <1>8 DEF OneHolder
<1>14. \A q \in 1..Len(ss), i \in 1..Len(uu) : ss[q].hash # uu[i]
  <2> SUFFICES ASSUME NEW q \in 1..Len(ss), NEW i \in 1..Len(uu) PROVE ss[q].hash # uu[i]
    OBVIOUS
  <2>1. CASE q = s
    BY <1>2, <1>4, <1>5, <1>9, <1>10, <2>1
  <2>2. CASE q # s
    BY <1>2, <1>4, <1>5, <1>6, <1>7, <2>2 DEF OneHolder
  <2>3. QED
    BY <2>1, <2>2
<1>15. \A i, j \in 1..Len(uu) : uu[i] = uu[j] => i = j
  <2> SUFFICES ASSUME NEW i \in 1..Len(uu), NEW j \in 1..Len(uu), uu[i] = uu[j] PROVE i = j
    OBVIOUS
  <2>1. CASE i = Len(used) + 1 /\ j = Len(used) + 1
    BY <2>1
  <2>2. CASE i = Len(used) + 1 /\ j \in 1..Len(used)
    BY <1>4, <1>9, <2>2
  <2>3. CASE i \in 1..Len(used) /\ j = Len(used) + 1
    BY <1>4, <1>9, <2>3
  <2>4. CASE i \in 1..Len(used) /\ j \in 1..Len(used)
    BY <1>4, <1>6, <2>4 DEF OneHolder
  <2>5. QED
    BY <1>5, <2>1, <2>2, <2>3, <2>4
<1>16. OneHolder(ss, uu, minted + 1)
  BY <1>11, <1>12, <1>13, <1>14, <1>15 DEF OneHolder
<1>17. Ruled(ss)
  BY <1>2 DEF Ruled, Table
<1>18. QED
  BY <1>1, <1>2, <1>4, <1>16, <1>17 DEF Table, ss, uu, t

-----------------------------------------------------------------------------
(* Each operation keeps the invariant.  Most steps change one request only; *)
(* GoOn covers them.                                                        *)

Others == <<admin, window, scanned, enforce>>
Counters == <<fails, tried, uncounted>>
Sessions == <<sess, used, minted>>

\* What a step of a request knows of it.
LEMMA CallFacts ==
    ASSUME StaffIInv, NEW p \in Procs
    PROVE  /\ call[p] \in StaffCall /\ call[p].pc \in StaffPc /\ call[p].good \in BOOLEAN
           /\ call[p].seen \in Nat /\ call[p].s \in Nat /\ call[p].t \in Nat
           /\ call[p].pc \in OnSession => call[p].s \in 1..Len(sess)
<1>1. call \in [Procs -> StaffCall] /\ CallsNamed(call, Len(sess))
  BY DEF StaffIInv, StaffCalls
<1>2. call[p] \in StaffCall
  BY <1>1
<1>3. call[p].pc \in OnSession => call[p].s \in 1..Len(sess)
  BY <1>1 DEF CallsNamed
<1>4. QED
  BY <1>2, <1>3 DEF StaffCall

\* A request ends; what else changed has been accounted for.
LEMMA EndsCall ==
    ASSUME StaffConstants, StaffIInv, NEW p \in Procs, Staff!Done(p),
           Lockout(fails', tried', uncounted', call'),
           Table(sess', used', minted'), Len(sess') >= Len(sess), Identity', Tokens3'
    PROVE  StaffIInv'
<1>1. call' = [call EXCEPT ![p] = Staff!Free] /\ Staff!Free \in StaffCall
  BY FreeCall DEF Staff!Done
<1>2. Len(sess) \in Nat /\ Len(sess') \in Nat /\ Len(sess) <= Len(sess')
  BY DEF StaffIInv, Table
<1>3. call' \in [Procs -> StaffCall] /\ CallsNamed(call', Len(sess'))
  BY <1>1, <1>2, CallsStep2, FreeCall
<1>4. QED
  BY <1>3 DEF StaffIInv, StaffCalls

\* A request that ends leaves the lock as it was, or counts its failure.
LEMMA EndsLock ==
    ASSUME StaffConstants, StaffIInv, NEW p \in Procs, Staff!Done(p)
    PROVE  /\ Lockout(fails, tried, uncounted, call') /\ Lockout(0, 0, 0, call')
           /\ call[p].pc \in {"login", "compare"}
                => /\ Lockout(fails + 1, tried + 1, uncounted, call')
                   /\ Lockout(fails, tried + 1, uncounted + 1, call')
<1>1. call' = [call EXCEPT ![p] = Staff!Free] /\ Staff!Free \in StaffCall
  BY FreeCall DEF Staff!Done
<1>2. Staff!Free.pc \notin {"login", "compare"}
  BY FreeCall
<1>3. call \in [Procs -> StaffCall]
  BY DEF StaffIInv, StaffCalls
<1>4. p \notin Trying(call') /\ (p \in Trying(call) <=> call[p].pc \in {"login", "compare"})
  BY <1>1, <1>2, <1>3 DEF Trying
<1>5. QED
  BY <1>1, <1>2, <1>4, LockStep

LEMMA WrongPasswordKeeps ==
    ASSUME StaffConstants, StaffIInv, NEW p \in Procs, Staff!WrongPassword(p)
    PROVE  StaffIInv'
<1>1. /\ call[p].pc = "compare" /\ Staff!Done(p) /\ tried' = tried + 1
      /\ UNCHANGED <<Others, held, Sessions>>
      /\ \/ fails' = fails + 1 /\ uncounted' = uncounted
         \/ fails' = fails /\ uncounted' = uncounted + 1
  BY DEF Staff!WrongPassword, Staff!At, Staff!countFailure, Staff!idVars, Staff!sessVars, Others, Sessions
<1>2. Lockout(fails', tried', uncounted', call')
  BY <1>1, EndsLock
<1>3. Table(sess', used', minted') /\ Len(sess') >= Len(sess)
  BY <1>1 DEF StaffIInv, Table, Sessions
<1>4. Identity' /\ Tokens3'
  BY <1>1 DEF StaffIInv, Identity, Tokens3, Others
<1>5. QED
  BY <1>1, <1>2, <1>3, <1>4, EndsCall

LEMMA RightPasswordKeeps ==
    ASSUME StaffConstants, StaffIInv, NEW p \in Procs, Staff!RightPassword(p)
    PROVE  StaffIInv'
<1>1. /\ Staff!Done(p) /\ UNCHANGED Others
      /\ \/ fails' = 0 /\ tried' = 0 /\ uncounted' = 0
         \/ fails' = fails /\ tried' = tried /\ uncounted' = uncounted
  BY DEF Staff!RightPassword, Staff!Reset, Staff!idVars, Others
<1>2. \/ Staff!IssueTOTPEnroll /\ UNCHANGED Sessions
      \/ Staff!IssueTOTPChallenge /\ UNCHANGED Sessions
      \/ ~enforce /\ Staff!issuePair("password")
  BY DEF Staff!RightPassword, Staff!sessVars, Sessions
<1>3. Lockout(fails', tried', uncounted', call')
  BY <1>1, EndsLock
<1>4. Table(sess', used', minted') /\ Len(sess') >= Len(sess) /\ Tokens3'
  <2>1. CASE UNCHANGED Sessions /\ (Staff!IssueTOTPEnroll \/ Staff!IssueTOTPChallenge)
    <3>1. Table(sess', used', minted') /\ Len(sess') >= Len(sess)
      BY <2>1 DEF StaffIInv, Table, Sessions
    <3>2. held' = held \cup {"enroll"} \/ held' = held \cup {"challenge"}
      BY <2>1 DEF Staff!IssueTOTPEnroll, Staff!IssueTOTPChallenge
    <3>3. Tokens3'
      BY <3>2 DEF StaffIInv, Tokens3
    <3>4. QED
      BY <3>1, <3>3
  <2>2. CASE ~enforce /\ Staff!issuePair("password")
    <3>1. Table(sess', used', minted') /\ Tokens3' /\ Len(sess') = Len(sess) + 1
      BY <2>2, PairKeeps
    <3>2. Len(sess) \in Nat
      BY DEF StaffIInv, Table
    <3>3. QED
      BY <3>1, <3>2
  <2>3. QED
    BY <1>2, <2>1, <2>2
<1>5. Identity'
  BY <1>1 DEF StaffIInv, Identity, Others
<1>6. QED
  BY <1>1, <1>3, <1>4, <1>5, EndsCall

LEMMA CodeKeeps ==
    ASSUME StaffConstants, StaffIInv, NEW p \in Procs, Staff!verifyTOTPLogin(p)
    PROVE  StaffIInv'
<1>1. /\ Staff!Done(p) /\ UNCHANGED <<Others, Counters>>
      /\ Staff!issuePair("code") \/ UNCHANGED <<held, Sessions>>
  BY DEF Staff!verifyTOTPLogin, Staff!VerifyCode, Staff!idVars, Staff!lockVars, Staff!sessVars,
         Others, Counters, Sessions
<1>2. Lockout(fails', tried', uncounted', call')
  BY <1>1, EndsLock DEF Counters
<1>3. Table(sess', used', minted') /\ Len(sess') >= Len(sess) /\ Tokens3'
  <2>1. CASE UNCHANGED <<held, Sessions>>
    BY <2>1 DEF StaffIInv, Table, Tokens3, Sessions
  <2>2. CASE Staff!issuePair("code")
    <3>1. Table(sess', used', minted') /\ Tokens3' /\ Len(sess') = Len(sess) + 1
      BY <2>2, PairKeeps
    <3>2. Len(sess) \in Nat
      BY DEF StaffIInv, Table
    <3>3. QED
      BY <3>1, <3>2
  <2>3. QED
    BY <1>1, <2>1, <2>2
<1>4. Identity'
  BY <1>1 DEF StaffIInv, Identity, Others
<1>5. QED
  BY <1>1, <1>2, <1>3, <1>4, EndsCall

\* The stored authenticator is set to one that was scanned, or cleared.
LEMMA AuthenticatorKeeps ==
    ASSUME StaffConstants, StaffIInv, NEW p \in Procs,
           Staff!enrollTOTP(p) \/ Staff!confirmTOTP(p) \/ Staff!disableTOTP(p)
    PROVE  StaffIInv'
<1>1. Staff!Done(p) /\ UNCHANGED <<window, enforce, Counters, held, Sessions>>
  BY DEF Staff!enrollTOTP, Staff!confirmTOTP, Staff!disableTOTP, Staff!lockVars, Staff!sessVars,
         Counters, Sessions
<1>2. Lockout(fails', tried', uncounted', call')
  BY <1>1, EndsLock DEF Counters
<1>3. Table(sess', used', minted') /\ Len(sess') >= Len(sess) /\ Tokens3'
  BY <1>1 DEF StaffIInv, Table, Tokens3, Sessions
<1>4. Identity'
  <2>1. Identity
    BY DEF StaffIInv
  <2>2. CASE Staff!enrollTOTP(p)
    <3>1. admin' = admin /\ scanned' = scanned \cup {window}
      BY <2>2 DEF Staff!enrollTOTP, Staff!BeginTOTPEnroll
    <3>2. QED
      BY <1>1, <2>1, <3>1 DEF Identity
  <2>3. CASE Staff!confirmTOTP(p)
    <3>1. scanned' = scanned /\ \E app \in scanned : Staff!ConfirmTOTPEnroll(app)
      BY <2>3 DEF Staff!confirmTOTP
    <3>2. \/ admin' = admin
          \/ \E app \in scanned : admin' = [admin EXCEPT !.totp = app]
      BY <3>1 DEF Staff!ConfirmTOTPEnroll, Staff!pendingTOTPSecret, Staff!SetUserTOTPSecret
    <3>3. CASE admin' = admin
      BY <1>1, <2>1, <3>1, <3>3 DEF Identity
    <3>4. ASSUME NEW app \in scanned, admin' = [admin EXCEPT !.totp = app] PROVE Identity'
      <4>1. app \in 0..MaxWindow
        BY <2>1, <3>4 DEF Identity, StaffConstants
      <4>2. admin' \in [active : BOOLEAN, totp : 0..MaxWindow] /\ admin'.totp = app
        BY <2>1, <3>4, <4>1 DEF Identity
      <4>3. QED
        BY <1>1, <2>1, <3>1, <3>4, <4>2 DEF Identity
    <3>5. QED
      BY <3>2, <3>3, <3>4
  <2>4. CASE Staff!disableTOTP(p)
    <3>1. scanned' = scanned /\ (admin' = admin \/ admin' = [admin EXCEPT !.totp = 0])
      BY <2>4 DEF Staff!disableTOTP, Staff!DisableCode, Staff!SetUserTOTPSecret
    <3>2. 0 \in 0..MaxWindow
      BY DEF StaffConstants
    <3>3. admin' \in [active : BOOLEAN, totp : 0..MaxWindow] /\ (admin'.totp = 0 \/ admin' = admin)
      BY <2>1, <3>1, <3>2 DEF Identity
    <3>4. QED
      BY <1>1, <2>1, <3>1, <3>3 DEF Identity
  <2>5. QED
    BY <2>2, <2>3, <2>4
<1>5. QED
  BY <1>1, <1>2, <1>3, <1>4, EndsCall

\* The exchange tests the row in the statement that changes it.
LEMMA RotateKeeps ==
    ASSUME StaffConstants, StaffIInv, NEW p \in Procs, Staff!Rotate(p)
    PROVE  StaffIInv' /\ \A s \in DOMAIN sess : ~sess[s].live => sess'[s] = sess[s]
<1> DEFINE s == call[p].s
           t == call[p].t
<1>1. /\ Staff!Done(p) /\ UNCHANGED <<Others, Counters>> /\ s \in 1..Len(sess)
  BY CallFacts DEF Staff!Rotate, Staff!At, Staff!idVars, Staff!lockVars, Others, Counters, OnSession
<1>2. Lockout(fails', tried', uncounted', call')
  BY <1>1, EndsLock DEF Counters
<1>3. Identity'
  BY <1>1 DEF StaffIInv, Identity, Others
<1>4. /\ Table(sess, used, minted) /\ sess \in Seq(StaffSess) /\ minted \in Nat /\ Len(sess) \in Nat
  BY DEF StaffIInv, Table
<1>5. CASE sess[s].live /\ sess[s].hash = t
  <2>1. /\ minted < MaxTokens /\ minted' = minted + 1
        /\ sess' = [sess EXCEPT ![s].hash = minted', ![s].fresh = TRUE]
        /\ used' = Append(used, t) /\ held' = held \cup {"access"}
    BY <1>5 DEF Staff!Rotate, Staff!RotateSession
  <2> DEFINE r == [sess[s] EXCEPT !.hash = minted + 1, !.fresh = TRUE]
  <2>2. sess[s] \in StaffSess
    BY <1>1, <1>4
  <2>3. /\ r \in StaffSess /\ r.hash = minted + 1
        /\ r.ruled = sess[s].ruled /\ r.factor = sess[s].factor
    <3>1. minted + 1 \in Nat
      BY <1>4
    <3>2. QED
      BY <2>2, <3>1 DEF StaffSess
  <2>4. sess' = [sess EXCEPT ![s] = r]
    BY <1>1, <1>4, <2>1, <2>2 DEF StaffSess
  <2> HIDE DEF r
  <2>5. Table(sess', used', minted') /\ Len(sess') = Len(sess)
    <3>1. /\ Table([sess EXCEPT ![s] = r], Append(used, sess[s].hash), minted + 1)
          /\ Len([sess EXCEPT ![s] = r]) = Len(sess)
      BY <1>1, <1>4, <2>1, <2>3, ExchangeKeeps
    <3>2. used' = Append(used, sess[s].hash)
      BY <1>5, <2>1
    <3>3. QED
      BY <2>1, <2>4, <3>1, <3>2
  <2>6. Tokens3'
    BY <2>1 DEF StaffIInv, Tokens3
  <2>7. \A q \in DOMAIN sess : ~sess[q].live => sess'[q] = sess[q]
    BY <1>5, <2>4
  <2>8. Len(sess') >= Len(sess)
    BY <1>4, <2>5
  <2>9. QED
    BY <1>1, <1>2, <1>3, <2>5, <2>6, <2>7, <2>8, EndsCall
<1>6. CASE ~(sess[s].live /\ sess[s].hash = t)
  <2>1. UNCHANGED <<held, Sessions>>
    BY <1>6 DEF Staff!Rotate, Staff!RotateSession, Staff!sessVars, Sessions
  <2>2. Table(sess', used', minted') /\ Len(sess') >= Len(sess) /\ Tokens3'
    BY <2>1 DEF StaffIInv, Table, Tokens3, Sessions
  <2>3. sess' = sess
    BY <2>1 DEF Sessions
  <2>4. QED
    BY <1>1, <1>2, <1>3, <2>2, <2>3, EndsCall
<1>7. QED
  BY <1>5, <1>6

LEMMA RevokeKeeps ==
    ASSUME StaffConstants, StaffIInv, NEW p \in Procs, Staff!Revoke(p)
    PROVE  StaffIInv' /\ \A s \in DOMAIN sess : ~sess[s].live => sess'[s] = sess[s]
<1> DEFINE s == call[p].s
           r == [sess[s] EXCEPT !.live = FALSE]
<1>1. /\ Staff!Done(p) /\ UNCHANGED <<Others, Counters, held, used, minted>> /\ s \in 1..Len(sess)
      /\ sess' = [sess EXCEPT ![s].live = FALSE]
  BY CallFacts DEF Staff!Revoke, Staff!RevokeSession, Staff!At, Staff!idVars, Staff!lockVars,
                   Others, Counters, OnSession
<1>2. Lockout(fails', tried', uncounted', call')
  BY <1>1, EndsLock DEF Counters
<1>3. Identity' /\ Tokens3'
  BY <1>1 DEF StaffIInv, Identity, Tokens3, Others
<1>4. /\ Table(sess, used, minted) /\ sess \in Seq(StaffSess) /\ Len(sess) \in Nat
  BY DEF StaffIInv, Table
<1>5. sess[s] \in StaffSess
  BY <1>1, <1>4
<1>6. /\ r \in StaffSess /\ r.hash = sess[s].hash /\ r.ruled = sess[s].ruled /\ r.factor = sess[s].factor
      /\ ~sess[s].live => r = sess[s]
  BY <1>5 DEF StaffSess
<1>7. sess' = [sess EXCEPT ![s] = r]
  BY <1>1, <1>4, <1>5 DEF StaffSess
<1> HIDE DEF r
<1>8. Table(sess', used, minted) /\ Len(sess') = Len(sess)
  BY <1>1, <1>4, <1>6, <1>7, RowKeeps
<1>9. \A q \in DOMAIN sess : ~sess[q].live => sess'[q] = sess[q]
  BY <1>4, <1>6, <1>7
<1>10. Table(sess', used', minted') /\ Len(sess') >= Len(sess)
  BY <1>1, <1>4, <1>8
<1>11. QED
  BY <1>1, <1>2, <1>3, <1>9, <1>10, EndsCall

LEMMA SessionExpiresKeeps ==
    ASSUME StaffConstants, StaffIInv, Staff!SessionExpires
    PROVE  StaffIInv' /\ \A s \in DOMAIN sess : ~sess[s].live => sess'[s] = sess[s]
<1>1. /\ UNCHANGED <<Others, Counters, held, used, minted, call>>
      /\ \E s \in DOMAIN sess : sess[s].live /\ sess' = [sess EXCEPT ![s].fresh = FALSE]
  BY DEF Staff!SessionExpires, Staff!idVars, Staff!lockVars, Others, Counters
<1>2. PICK s \in DOMAIN sess : sess[s].live /\ sess' = [sess EXCEPT ![s].fresh = FALSE]
  BY <1>1
<1>3. Table(sess, used, minted) /\ sess \in Seq(StaffSess) /\ Len(sess) \in Nat
  BY DEF StaffIInv, Table
<1> DEFINE r == [sess[s] EXCEPT !.fresh = FALSE]
<1>4. s \in 1..Len(sess) /\ sess[s] \in StaffSess
  BY <1>3
<1>5. /\ r \in StaffSess /\ r.hash = sess[s].hash /\ r.ruled = sess[s].ruled /\ r.factor = sess[s].factor
  BY <1>4 DEF StaffSess
<1>6. sess' = [sess EXCEPT ![s] = r]
  BY <1>2, <1>3, <1>4 DEF StaffSess
<1> HIDE DEF r
<1>7. Table(sess', used, minted) /\ Len(sess') = Len(sess)
  BY <1>3, <1>4, <1>5, <1>6, RowKeeps
<1>8. \A q \in DOMAIN sess : ~sess[q].live => sess'[q] = sess[q]
  BY <1>2, <1>6
<1>9. StaffCalls' /\ Lockout(fails', tried', uncounted', call')
  BY <1>1, <1>7 DEF StaffIInv, StaffCalls, Counters
<1>10. Table(sess', used', minted')
  BY <1>1, <1>7
<1>11. Identity' /\ Tokens3'
  BY <1>1 DEF StaffIInv, Identity, Tokens3, Others
<1>12. QED
  BY <1>8, <1>9, <1>10, <1>11 DEF StaffIInv

\* The counter's hour ends, a token runs out, the window moves on, the
\* operator disables the account and the boot enables it again.
LEMMA ClockKeeps ==
    ASSUME StaffConstants, StaffIInv,
           \/ Staff!enrollWindowAt \/ Staff!FailWindowEnds \/ Staff!TokenExpires
           \/ Staff!OperatorDisables \/ Staff!EnsureSuperadmin
    PROVE  StaffIInv'
<1>1. UNCHANGED <<call, Sessions, enforce, scanned>>
  BY DEF Staff!enrollWindowAt, Staff!FailWindowEnds, Staff!TokenExpires, Staff!OperatorDisables,
         Staff!EnsureSuperadmin, Staff!idVars, Staff!sessVars, Sessions
<1>2. /\ UNCHANGED Counters \/ (fails' = 0 /\ tried' = 0 /\ uncounted' = 0)
      /\ held' \subseteq held
  BY DEF Staff!enrollWindowAt, Staff!FailWindowEnds, Staff!TokenExpires, Staff!OperatorDisables,
         Staff!EnsureSuperadmin, Staff!lockVars, Counters
<1>3. /\ window' = window \/ (window < MaxWindow /\ window' = window + 1)
      /\ admin' = admin \/ \E b \in BOOLEAN : admin' = [admin EXCEPT !.active = b]
  BY DEF Staff!enrollWindowAt, Staff!FailWindowEnds, Staff!TokenExpires, Staff!OperatorDisables,
         Staff!EnsureSuperadmin, Staff!idVars
<1>4. Lockout(fails', tried', uncounted', call')
  <2>1. Lockout(fails, tried, uncounted, call)
    BY DEF StaffIInv
  <2>2. Lockout(0, 0, 0, call)
    <3> DEFINE a == Cardinality(Trying(call))  c == Cardinality(Procs)
    <3>1. a \in Nat /\ c \in Nat /\ a <= c /\ FailLimit \in Nat \ {0}
      BY TryingFinite DEF StaffConstants
    <3> HIDE DEF a, c
    <3>2. 0 + a <= FailLimit + c - 1
      BY <3>1
    <3>3. QED
      BY <3>2 DEF Lockout, a, c
  <2>3. QED
    BY <1>1, <1>2, <2>1, <2>2 DEF Counters
<1>5. StaffCalls' /\ Table(sess', used', minted')
  BY <1>1 DEF StaffIInv, StaffCalls, Table, Sessions
<1>6. Tokens3'
  BY <1>2 DEF StaffIInv, Tokens3
<1>7. Identity'
  <2>1. Identity
    BY DEF StaffIInv
  <2>2. window' \in 1..MaxWindow
    BY <1>3, <2>1 DEF Identity, StaffConstants
  <2>3. admin' \in [active : BOOLEAN, totp : 0..MaxWindow] /\ admin'.totp = admin.totp
    BY <1>3, <2>1 DEF Identity
  <2>4. QED
    BY <1>1, <2>1, <2>2, <2>3 DEF Identity
<1>8. QED
  BY <1>4, <1>5, <1>6, <1>7 DEF StaffIInv

\* A deployment that enforces the second factor kills the requests in flight.
LEMMA RedeployKeeps ==
    ASSUME StaffConstants, StaffIInv, Staff!Redeploy
    PROVE  StaffIInv'
<1>1. /\ call' = [p \in Procs |-> Staff!Free] /\ enforce' = TRUE
      /\ UNCHANGED <<admin, window, scanned, Counters, held, Sessions>>
  BY DEF Staff!Redeploy, Staff!idVars, Staff!lockVars, Staff!sessVars, Counters, Sessions
<1>2. StaffCalls'
  BY <1>1, FreeCall DEF StaffCalls, CallsNamed
<1>3. Trying(call') = {}
  BY <1>1, FreeCall DEF Trying
<1>4. Lockout(fails', tried', uncounted', call')
  <2> DEFINE a == Cardinality(Trying(call))  b == Cardinality(Trying(call'))  c == Cardinality(Procs)
  <2>1. a \in Nat /\ b = 0 /\ c \in Nat
    BY <1>3, TryingFinite, FS_EmptySet
  <2>2. /\ fails \in Nat /\ uncounted \in Nat /\ tried = fails + uncounted
        /\ fails + a <= FailLimit + c - 1 /\ FailLimit \in Nat
    BY DEF StaffIInv, Lockout, StaffConstants
  <2> HIDE DEF a, b, c
  <2>3. fails + b <= FailLimit + c - 1
    BY <2>1, <2>2
  <2>4. QED
    BY <1>1, <2>2, <2>3 DEF Lockout, b, c, Counters
<1>5. Table(sess', used', minted') /\ Tokens3'
  BY <1>1 DEF StaffIInv, Table, Tokens3, Sessions
<1>6. Identity'
  BY <1>1 DEF StaffIInv, Identity
<1>7. QED
  BY <1>2, <1>4, <1>5, <1>6 DEF StaffIInv

\* The ways a request starts.
LEMMA FreshCall ==
    /\ \A pc \in StaffPc : LET n == [Staff!Free EXCEPT !.pc = pc]
                           IN  n \in StaffCall /\ n.pc = pc
    /\ \A pc \in StaffPc, good \in BOOLEAN :
         LET n == [Staff!Free EXCEPT !.pc = pc, !.good = good] IN n \in StaffCall /\ n.pc = pc
    /\ \A pc \in StaffPc, k \in Nat :
         LET n == [Staff!Free EXCEPT !.pc = pc, !.seen = k] IN n \in StaffCall /\ n.pc = pc
<1>1. Staff!Free \in [pc : StaffPc, good : BOOLEAN, seen : Nat, s : Nat, t : Nat]
  BY FreeCall DEF StaffCall
<1> HIDE DEF StaffPc
<1>2. \A pc \in StaffPc : [Staff!Free EXCEPT !.pc = pc] \in StaffCall
  BY <1>1 DEF StaffCall
<1>3. \A pc \in StaffPc, good \in BOOLEAN : [Staff!Free EXCEPT !.pc = pc, !.good = good] \in StaffCall
  BY <1>1 DEF StaffCall
<1>4. \A pc \in StaffPc, k \in Nat : [Staff!Free EXCEPT !.pc = pc, !.seen = k] \in StaffCall
  BY <1>1 DEF StaffCall
<1>5. QED
  BY <1>1, <1>2, <1>3, <1>4

\* What a request reads, and where it goes on.
LEMMA ReadKeeps ==
    ASSUME StaffConstants, StaffIInv, NEW p \in Procs,
           \/ \E good \in BOOLEAN : Staff!Login(p, good)
           \/ Staff!LoginThrottled(p) \/ Staff!GetUserByEmail(p)
           \/ Staff!VerifyTOTPLogin(p) \/ Staff!TOTPEnrollAuth(p) \/ Staff!DisableTOTP(p)
           \/ Staff!RefreshUser(p)
    PROVE  StaffIInv' /\ sess' = sess
<1>1. UNCHANGED <<admin, window, scanned, enforce, fails, tried, uncounted, held, sess, used, minted>>
  BY DEF Staff!Login, Staff!LoginThrottled, Staff!GetUserByEmail, Staff!VerifyTOTPLogin,
         Staff!TOTPEnrollAuth, Staff!DisableTOTP, Staff!RefreshUser,
         Staff!idVars, Staff!lockVars, Staff!sessVars
<1>2. admin.totp \in Nat
  BY DEF StaffIInv, Identity, StaffConstants
<1>3. /\ call \in [Procs -> StaffCall] /\ call[p] \in StaffCall
      /\ p \in Trying(call) <=> call[p].pc \in {"login", "compare"}
  BY DEF StaffIInv, StaffCalls, Trying
<1>4. \E n \in StaffCall : /\ call' = [call EXCEPT ![p] = n]
                           /\ n.pc \in {"login", "compare"} => p \in Trying(call) \/ fails < FailLimit
                           /\ n.pc \in OnSession => n.s \in 1..Len(sess)
  <2>1. ASSUME NEW good \in BOOLEAN, Staff!Login(p, good)
        PROVE  \E n \in StaffCall : /\ call' = [call EXCEPT ![p] = n]
                                    /\ n.pc \in {"login", "compare"} => p \in Trying(call) \/ fails < FailLimit
                                    /\ n.pc \in OnSession => n.s \in 1..Len(sess)
    <3> DEFINE n == [Staff!Free EXCEPT !.pc = "login", !.good = good]
    <3>1. n \in StaffCall /\ n.pc = "login"
      <4>1. "login" \in StaffPc
        BY DEF StaffPc
      <4>2. QED
        BY <4>1, FreshCall
    <3>2. call' = [call EXCEPT ![p] = n]
      BY <2>1 DEF Staff!Login
    <3>3. ~(fails >= FailLimit) /\ fails \in Nat /\ FailLimit \in Nat
      BY <2>1 DEF Staff!Login, Staff!Locked, StaffIInv, Lockout, StaffConstants
    <3>4. fails < FailLimit
      BY <3>3
    <3> HIDE DEF n
    <3>5. n.pc \notin OnSession
      BY <3>1 DEF OnSession
    <3>6. QED
      BY <3>1, <3>2, <3>4, <3>5
  <2>2. ASSUME Staff!Done(p)
        PROVE  \E n \in StaffCall : /\ call' = [call EXCEPT ![p] = n]
                                    /\ n.pc \in {"login", "compare"} => p \in Trying(call) \/ fails < FailLimit
                                    /\ n.pc \in OnSession => n.s \in 1..Len(sess)
    BY <2>2, FreeCall DEF Staff!Done
  <2>3. ASSUME Staff!GetUserByEmail(p), ~Staff!Done(p)
        PROVE  \E n \in StaffCall : /\ call' = [call EXCEPT ![p] = n]
                                    /\ n.pc \in {"login", "compare"} => p \in Trying(call) \/ fails < FailLimit
                                    /\ n.pc \in OnSession => n.s \in 1..Len(sess)
    <3> DEFINE n == [call[p] EXCEPT !.pc = "compare", !.seen = admin.totp]
    <3>1. n \in StaffCall /\ n.pc = "compare" /\ "compare" \notin OnSession
      BY <1>2, <1>3 DEF StaffCall, StaffPc, OnSession
    <3>2. call' = [call EXCEPT ![p].pc = "compare", ![p].seen = admin.totp] /\ call[p].pc = "login"
      BY <2>3 DEF Staff!GetUserByEmail, Staff!At
    <3>3. call' = [call EXCEPT ![p] = n]
      BY <1>3, <3>2 DEF StaffCall
    <3>4. p \in Trying(call)
      BY <1>3, <3>2
    <3>5. QED
      BY <3>1, <3>3, <3>4
  <2>4. ASSUME Staff!VerifyTOTPLogin(p) \/ Staff!TOTPEnrollAuth(p) \/ Staff!DisableTOTP(p)
        PROVE  \E n \in StaffCall : /\ call' = [call EXCEPT ![p] = n]
                                    /\ n.pc \in {"login", "compare"} => p \in Trying(call) \/ fails < FailLimit
                                    /\ n.pc \in OnSession => n.s \in 1..Len(sess)
    <3>1. \/ call' = [call EXCEPT ![p] = [Staff!Free EXCEPT !.pc = "verify", !.seen = admin.totp]]
          \/ call' = [call EXCEPT ![p] = [Staff!Free EXCEPT !.pc = "enroll"]]
          \/ call' = [call EXCEPT ![p] = [Staff!Free EXCEPT !.pc = "disable", !.seen = admin.totp]]
      BY <2>4 DEF Staff!VerifyTOTPLogin, Staff!TOTPEnrollAuth, Staff!DisableTOTP
    <3>2. \E n \in StaffCall : call' = [call EXCEPT ![p] = n] /\ n.pc \in {"verify", "enroll", "disable"}
      <4>1. "verify" \in StaffPc /\ "enroll" \in StaffPc /\ "disable" \in StaffPc
        BY DEF StaffPc
      <4> DEFINE v == [Staff!Free EXCEPT !.pc = "verify", !.seen = admin.totp]
                 e == [Staff!Free EXCEPT !.pc = "enroll"]
                 d == [Staff!Free EXCEPT !.pc = "disable", !.seen = admin.totp]
      <4>2. v \in StaffCall /\ v.pc = "verify"
        BY <1>2, <4>1, FreshCall
      <4>3. e \in StaffCall /\ e.pc = "enroll"
        BY <4>1, FreshCall
      <4>4. d \in StaffCall /\ d.pc = "disable"
        BY <1>2, <4>1, FreshCall
      <4>5. call' = [call EXCEPT ![p] = v] \/ call' = [call EXCEPT ![p] = e] \/ call' = [call EXCEPT ![p] = d]
        BY <3>1
      <4> HIDE DEF v, e, d
      <4>6. QED
        BY <4>2, <4>3, <4>4, <4>5
    <3>3. QED
      BY <3>2 DEF OnSession
  <2>5. ASSUME Staff!RefreshUser(p), ~Staff!Done(p)
        PROVE  \E n \in StaffCall : /\ call' = [call EXCEPT ![p] = n]
                                    /\ n.pc \in {"login", "compare"} => p \in Trying(call) \/ fails < FailLimit
                                    /\ n.pc \in OnSession => n.s \in 1..Len(sess)
    <3> DEFINE n == [call[p] EXCEPT !.pc = "rotate"]
    <3>1. call' = [call EXCEPT ![p].pc = "rotate"] /\ call[p].pc = "refresh"
      BY <2>5 DEF Staff!RefreshUser, Staff!At, Staff!Goto
    <3>2. call[p].s \in 1..Len(sess)
      BY <3>1, CallFacts DEF OnSession
    <3>3. n \in StaffCall /\ n.pc = "rotate" /\ n.s = call[p].s /\ "rotate" \notin {"login", "compare"}
      BY <1>3 DEF StaffCall, StaffPc
    <3>4. call' = [call EXCEPT ![p] = n]
      BY <1>3, <3>1 DEF StaffCall
    <3>5. QED
      BY <3>2, <3>3, <3>4
  <2>6. Staff!LoginThrottled(p) => Staff!Done(p)
    BY DEF Staff!LoginThrottled
  <2>7. QED
    BY <2>1, <2>2, <2>3, <2>4, <2>5, <2>6
<1>5. StaffIInv'
  BY <1>1, <1>4, JobOnly
<1>6. QED
  BY <1>1, <1>5

\* A token finds the live session that holds it, which is a row of the table.
LEMMA FindKeeps ==
    ASSUME StaffConstants, StaffIInv, NEW p \in Procs, NEW t \in 1..minted,
           Staff!Refresh(p, t) \/ Staff!Logout(p, t)
    PROVE  StaffIInv' /\ sess' = sess
<1>1. UNCHANGED <<admin, window, scanned, enforce, fails, tried, uncounted, held, sess, used, minted>>
  BY DEF Staff!Refresh, Staff!Logout, Staff!idVars, Staff!lockVars, Staff!sessVars
<1>2. \E s \in DOMAIN sess, pc \in {"refresh", "revoke"} :
        call' = [call EXCEPT ![p] = [Staff!Free EXCEPT !.pc = pc, !.s = s, !.t = t]]
  <2>1. CASE Staff!Logout(p, t)
    BY <2>1 DEF Staff!Logout, Staff!FindSessionByRefreshHash
  <2>2. CASE Staff!Refresh(p, t)
    <3>1. PICK s \in DOMAIN sess :
            call' = [call EXCEPT ![p] = [Staff!Free EXCEPT
                                           !.pc = IF sess[s].fresh THEN "refresh" ELSE "revoke",
                                           !.s = s, !.t = t]]
      BY <2>2 DEF Staff!Refresh, Staff!FindSessionByRefreshHash
    <3>2. QED
      BY <3>1
  <2>3. QED
    BY <2>1, <2>2
<1>3. PICK s \in DOMAIN sess, pc \in {"refresh", "revoke"} :
        call' = [call EXCEPT ![p] = [Staff!Free EXCEPT !.pc = pc, !.s = s, !.t = t]]
  BY <1>2
<1> DEFINE n == [Staff!Free EXCEPT !.pc = pc, !.s = s, !.t = t]
<1>4. sess \in Seq(StaffSess) /\ minted \in Nat /\ s \in 1..Len(sess) /\ s \in Nat /\ t \in Nat
  BY DEF StaffIInv, Table
<1>5. pc \in StaffPc /\ pc \notin {"login", "compare"}
  BY DEF StaffPc
<1>6. n \in StaffCall /\ n.pc = pc /\ n.s = s
  <2>1. Staff!Free \in [pc : StaffPc, good : BOOLEAN, seen : Nat, s : Nat, t : Nat]
    BY FreeCall DEF StaffCall
  <2>2. n \in [pc : StaffPc, good : BOOLEAN, seen : Nat, s : Nat, t : Nat]
    BY <1>4, <1>5, <2>1
  <2>3. n.pc = pc /\ n.s = s
    BY <2>1
  <2>4. QED
    BY <2>2, <2>3 DEF StaffCall
<1> HIDE DEF n
<1>7. call' = [call EXCEPT ![p] = n]
  BY <1>3 DEF n
<1>8. StaffIInv'
  BY <1>1, <1>4, <1>5, <1>6, <1>7, JobOnly
<1>9. QED
  BY <1>1, <1>8

\* The table only grows while a login ends.
LEMMA OpensKeeps ==
    ASSUME StaffIInv, NEW how, Staff!issuePair(how)
    PROVE  \A s \in DOMAIN sess : sess'[s] = sess[s]
<1>1. sess \in Seq(StaffSess)
  BY DEF StaffIInv, Table
<1>2. \E r : sess' = Append(sess, r)
  BY DEF Staff!issuePair, Staff!CreateSession
<1>3. PICK r : sess' = Append(sess, r)
  BY <1>2
<1>4. QED
  BY <1>1, <1>3

LEMMA StaffStarts ==
    ASSUME StaffConstants, Staff!AdminInit
    PROVE  StaffIInv
<1>1. StaffCalls
  BY FreeCall DEF Staff!AdminInit, StaffCalls, CallsNamed
<1>2. Trying(call) = {}
  BY FreeCall DEF Staff!AdminInit, Trying
<1>3. Cardinality(Trying(call)) = 0 /\ Cardinality(Procs) \in Nat
  BY <1>2, TryingFinite, FS_EmptySet
<1>4. Lockout(0, 0, 0, call)
  <2> DEFINE b == Cardinality(Trying(call))  c == Cardinality(Procs)
  <2>1. b = 0 /\ c \in Nat /\ FailLimit \in Nat \ {0}
    BY <1>3 DEF StaffConstants
  <2> HIDE DEF b, c
  <2>2. 0 + b <= FailLimit + c - 1
    BY <2>1
  <2>3. QED
    BY <2>2 DEF Lockout, b, c
<1>5. Lockout(fails, tried, uncounted, call)
  BY <1>4 DEF Staff!AdminInit
<1>6. Table(sess, used, minted)
  <2>1. sess = <<>> /\ used = <<>> /\ minted = 0 /\ MaxTokens \in Nat
    BY DEF Staff!AdminInit, StaffConstants
  <2>2. sess \in Seq(StaffSess) /\ used \in Seq(Nat) /\ Len(sess) = 0 /\ Len(used) = 0
    BY <2>1
  <2>3. QED
    BY <2>1, <2>2 DEF Table, OneHolder, Ruled
<1>7. Identity /\ Tokens3
  BY DEF Staff!AdminInit, Identity, Tokens3, StaffConstants
<1>8. QED
  BY <1>1, <1>5, <1>6, <1>7 DEF StaffIInv

LEMMA StaffStep ==
    ASSUME StaffConstants, StaffIInv, Staff!AdminNext
    PROVE  StaffIInv' /\ \A s \in DOMAIN sess : ~sess[s].live => sess'[s] = sess[s]
<1>1. ASSUME NEW p \in Procs, Staff!ProcNext(p)
      PROVE  StaffIInv' /\ \A s \in DOMAIN sess : ~sess[s].live => sess'[s] = sess[s]
  <2>1. CASE \/ \E good \in BOOLEAN : Staff!Login(p, good)
             \/ Staff!LoginThrottled(p) \/ Staff!GetUserByEmail(p)
             \/ Staff!VerifyTOTPLogin(p) \/ Staff!TOTPEnrollAuth(p) \/ Staff!DisableTOTP(p)
             \/ Staff!RefreshUser(p)
    BY <2>1, ReadKeeps
  <2>2. CASE \E t \in 1..minted : Staff!Refresh(p, t) \/ Staff!Logout(p, t)
    BY <2>2, FindKeeps
  <2>3. CASE Staff!WrongPassword(p)
    <3>1. sess' = sess
      BY <2>3 DEF Staff!WrongPassword, Staff!sessVars
    <3>2. QED
      BY <2>3, <3>1, WrongPasswordKeeps
  <2>4. CASE Staff!RightPassword(p)
    <3>1. sess' = sess \/ Staff!issuePair("password")
      BY <2>4 DEF Staff!RightPassword, Staff!sessVars
    <3>2. QED
      BY <2>4, <3>1, RightPasswordKeeps, OpensKeeps
  <2>5. CASE Staff!verifyTOTPLogin(p)
    <3>1. sess' = sess \/ Staff!issuePair("code")
      BY <2>5 DEF Staff!verifyTOTPLogin, Staff!VerifyCode, Staff!sessVars
    <3>2. QED
      BY <2>5, <3>1, CodeKeeps, OpensKeeps
  <2>6. CASE Staff!enrollTOTP(p) \/ Staff!confirmTOTP(p) \/ Staff!disableTOTP(p)
    <3>1. sess' = sess
      BY <2>6 DEF Staff!enrollTOTP, Staff!confirmTOTP, Staff!disableTOTP, Staff!sessVars
    <3>2. QED
      BY <2>6, <3>1, AuthenticatorKeeps
  <2>7. CASE Staff!Rotate(p)
    BY <2>7, RotateKeeps
  <2>8. CASE Staff!Revoke(p)
    BY <2>8, RevokeKeeps
  <2>9. QED
    BY <1>1, <2>1, <2>2, <2>3, <2>4, <2>5, <2>6, <2>7, <2>8 DEF Staff!ProcNext
<1>2. CASE \/ Staff!enrollWindowAt \/ Staff!FailWindowEnds \/ Staff!TokenExpires
           \/ Staff!OperatorDisables \/ Staff!EnsureSuperadmin
  <2>1. sess' = sess
    BY <1>2 DEF Staff!enrollWindowAt, Staff!FailWindowEnds, Staff!TokenExpires,
                Staff!OperatorDisables, Staff!EnsureSuperadmin, Staff!sessVars
  <2>2. QED
    BY <1>2, <2>1, ClockKeeps
<1>3. CASE Staff!SessionExpires
  BY <1>3, SessionExpiresKeeps
<1>4. CASE Staff!Redeploy
  <2>1. sess' = sess
    BY <1>4 DEF Staff!Redeploy, Staff!sessVars
  <2>2. QED
    BY <1>4, <2>1, RedeployKeeps
<1>5. QED
  BY <1>1, <1>2, <1>3, <1>4 DEF Staff!AdminNext

LEMMA StaffMeans ==
    ASSUME StaffConstants, StaffIInv
    PROVE  Staff!AdminInv
<1>1. Table(sess, used, minted) /\ Identity /\ Tokens3 /\ Lockout(fails, tried, uncounted, call)
  BY DEF StaffIInv
<1>2. Staff!AdminTypeOK
  BY <1>1 DEF Staff!AdminTypeOK, Table, Identity, Tokens3, StaffConstants
<1>3. Staff!LockHolds
  <2> DEFINE a == Cardinality(Trying(call))  c == Cardinality(Procs)
  <2>1. a \in Nat /\ c \in Nat
    BY TryingFinite
  <2>2. /\ fails \in Nat /\ uncounted \in Nat /\ tried = fails + uncounted
        /\ fails + a <= FailLimit + c - 1 /\ FailLimit \in Nat
    BY <1>1 DEF Lockout, StaffConstants
  <2> HIDE DEF a, c
  <2>3. tried <= FailLimit + c - 1 + uncounted
    BY <2>1, <2>2
  <2>4. QED
    BY <2>3 DEF Staff!LockHolds, c, Staff!Cardinality, Cardinality
<1>4. Staff!ExchangedOnce
  BY <1>1 DEF Staff!ExchangedOnce, Table, OneHolder
<1>5. Staff!FactorEnforced
  BY <1>1 DEF Staff!FactorEnforced, Table, Ruled
<1>6. Staff!AuthenticatorHeld
  BY <1>1 DEF Staff!AuthenticatorHeld, Identity
<1>7. QED
  BY <1>2, <1>3, <1>4, <1>5, <1>6 DEF Staff!AdminInv

(* However the logins, second steps, enrolments, exchanges and logouts of   *)
(* admin/service.go race, and whatever expires, is deployed or is counted   *)
(* wrong under them: wrong passwords overshoot the lock by at most the      *)
(* requests in flight, a refresh token is exchanged once, no session opened *)
(* under enforcement was opened without a code, the stored authenticator    *)
(* is one that was scanned, and a revoked session never changes again.      *)
THEOREM StaffThm ==
    ASSUME StaffConstants
    PROVE  Staff!AdminSpec => StaffSafe
<1>1. Staff!AdminInit => StaffIInv
  BY StaffStarts
<1>2. StaffIInv /\ [Staff!AdminNext]_Staff!adminVars => StaffIInv'
  <2>1. ASSUME StaffIInv, UNCHANGED Staff!adminVars PROVE StaffIInv'
    BY <2>1 DEF Staff!adminVars, StaffIInv, StaffCalls, Table, Identity, Tokens3, Lockout, Trying
  <2>2. QED
    BY <2>1, StaffStep
<1>3. StaffIInv => (part = "staff" => Staff!AdminInv)
  BY StaffMeans
<1>4. StaffIInv /\ [Staff!AdminNext]_Staff!adminVars
        => [\A s \in DOMAIN sess : ~sess[s].live => sess'[s] = sess[s]]_Staff!adminVars
  BY StaffStep
<1>5. QED
  BY <1>1, <1>2, <1>3, <1>4, PTL DEF Staff!AdminSpec, StaffSafe, Staff!RevokedIsDead
=============================================================================
