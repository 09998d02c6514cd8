----------------------------- MODULE Classroom -----------------------------
(***************************************************************************)
(* One driving school, its licences, its installer keys and the classroom  *)
(* PCs that enrol under them: the server side (backend/internal/b2b and    *)
(* the b2b screens of the admin console) and the station agent that calls  *)
(* it (backend/station/internal/agent, cmd/avtotest-station).              *)
(*                                                                         *)
(* Every transaction that counts seats takes the row lock of b2b_org; the  *)
(* ones that do not (revoking or deleting a station, selling a licence,    *)
(* touching last_seen_at) run between its steps.  now() is the time the    *)
(* transaction began, so each transaction carries its own t0.  One unit of *)
(* time is the life of a station token, a quarter of an hour.              *)
(***************************************************************************)
EXTENDS Integers, FiniteSets, FiniteSetsExt

CONSTANTS
    Machines,      \* the PCs; each holds one keypair at a time
    Hwids,         \* values of hwid_hash: PCs cloned from one disk share one
    Codes,         \* installer keys that can be minted
    Nobody,        \* the org row is not locked
    Admin,         \* the admin console, as the holder of the lock
    UsesPerSeat,   \* enrollUsesPerSeat
    LicenceTerms,  \* lengths of licence an admin may sell
    MaxStations,   \* bound on rows of b2b_station
    MaxTime,       \* bound on the clock
    MaxOps         \* bound on what admins, crashes and losses do

VARIABLES
    now, org, lock, licences, code, station, machine, hwid, req, adm, ops

classVars == <<now, org, lock, licences, code, station, machine, hwid, req, adm, ops>>

TokenTTL == 1
StaleAfter == 2
Ids == 1 .. MaxStations

NoStation == [st |-> "none", m |-> Nobody, gen |-> 0, seen |-> 0, act |-> 0, touched |-> TRUE]
NoCode == [st |-> "none", used |-> 0, max |-> 0, ends |-> 0, won |-> 0]
NoReq == [pc |-> "idle", c |-> Nobody, t0 |-> 0, seats |-> 0, active |-> 0]
NoAdm == [pc |-> "idle", op |-> "none", s |-> 0, t0 |-> 0, seats |-> 0, active |-> 0]

Licence(seats, from, till) == [seats |-> seats, from |-> from, till |-> till]

ClassInit ==
    /\ now = 0
    /\ org = "active"
    /\ lock = Nobody
    /\ \E n \in LicenceTerms, first \in Codes :
          /\ licences = {Licence(1, 0, n)}
          /\ code = [c \in Codes |-> IF c = first
                                    THEN [st |-> "live", used |-> 0, max |-> UsesPerSeat, ends |-> n, won |-> 0]
                                    ELSE NoCode]
    /\ station = [i \in Ids |-> NoStation]
    /\ machine = [m \in Machines |-> [id |-> 0, gen |-> 0, till |-> 0, nonce |-> FALSE, phase |-> "up"]]
    /\ hwid \in [Machines -> Hwids]
    /\ req = [m \in Machines |-> NoReq]
    /\ adm = NoAdm
    /\ ops = 0

\* The seats of the licences live at t, and the latest end among them.
LiveAt(t) == {l \in licences : l.from <= t /\ l.till > t}
SeatsAt(t) == MapThenSumSet(LAMBDA l : l.seats, LiveAt(t))
LicenseEndsAt(t) == Max({l.till : l \in LiveAt(t)} \cup {t})

Active == {i \in Ids : station[i].st = "active"}
CountActiveStations == Cardinality(Active)

\* b2b_station_active_hwid_key_uidx: one active row per machine and keypair.
SameInstallation(i, m, gen) ==
    station[i].st = "active" /\ hwid[station[i].m] = hwid[m] /\ station[i].m = m /\ station[i].gen = gen

Spend == ops < MaxOps /\ ops' = ops + 1

----------------------------------------------------------------------------
(* Enrolment, as the server runs it                                        *)

\* The key as a transaction begun at t0 reads it, before and under the lock.
Redeemable(c, t0) == code[c].st = "live" /\ code[c].ends > t0

\* diagnose.Enroll: a refusal is final for this run of the agent.
Refused(m) ==
    /\ req' = [req EXCEPT ![m] = NoReq]
    /\ machine' = [machine EXCEPT ![m].phase = "blocked"]

\* connect enrols only while no station id is saved.
WantsToEnroll(m) == machine[m].id = 0 /\ machine[m].phase = "up" /\ req[m].pc = "idle"

\* enrollStation, and EnrollStation up to its wait for the lock.
enrollStation(m, c) ==
    /\ WantsToEnroll(m)
    /\ code[c].st /= "none"
    /\ IF Redeemable(c, now)
       THEN /\ req' = [req EXCEPT ![m] = [NoReq EXCEPT !.pc = "read", !.c = c, !.t0 = now]]
            /\ UNCHANGED machine
       ELSE Refused(m)
    /\ UNCHANGED <<now, org, lock, licences, code, station, hwid, adm, ops>>

LockOrg(who) == lock = Nobody /\ lock' = who

\* Mutant: trusts the key as it was read before waiting for the lock.
TrustsFirstRead(c, t0) == code[c].used < code[c].max
\* The key is read again once the org row is locked.
StillOpen(c, t0) == Redeemable(c, t0) /\ code[c].used < code[c].max

\* SELECT ... FOR UPDATE on the org, the second look at the key, the seats and
\* the stations that hold them.
EnrollLock(m) ==
    /\ req[m].pc = "read"
    /\ lock = Nobody
    /\ IF /\ org = "active"
          /\ StillOpen(req[m].c, req[m].t0)
          /\ SeatsAt(req[m].t0) > 0
       THEN /\ LockOrg(m)
            /\ req' = [req EXCEPT ![m].pc = "locked",
                                  ![m].seats = SeatsAt(req[m].t0),
                                  ![m].active = CountActiveStations]
            /\ UNCHANGED machine
       ELSE Refused(m) /\ UNCHANGED lock
    /\ UNCHANGED <<now, org, licences, code, station, hwid, adm, ops>>

LastSign(i) == Max({station[i].seen, station[i].act})

\* Stations of the same hwid that have been silent for longer than staleSeatAfter.
StaleSeats(m, t0) ==
    {i \in Active : hwid[station[i].m] = hwid[m] /\ LastSign(i) + StaleAfter < t0}

\* reclaimStaleSeat: the least recently seen of them, or nothing.
ReclaimStaleSeat(m, t0) ==
    LET stale == StaleSeats(m, t0) IN
    {i \in stale : \A j \in stale : LastSign(i) <= LastSign(j)}

\* The shadow profile and the row of the new PC.
NewStation(m) == [st |-> "active", m |-> m, gen |-> machine[m].gen,
                  seen |-> req[m].t0, act |-> req[m].t0, touched |-> TRUE]

\* The inserts, the use of the key and the commit, with the seat taken back.
InsertStation(m, i, gone) ==
    /\ station' = [j \in Ids |-> CASE j = i -> NewStation(m)
                                   [] j \in gone -> [station[j] EXCEPT !.st = "revoked"]
                                   [] OTHER -> station[j]]
    /\ code' = [code EXCEPT ![req[m].c].used = @ + 1, ![req[m].c].won = @ + 1]
    /\ req' = [req EXCEPT ![m].pc = "answer", ![m].active = i]
    /\ UNCHANGED machine

FreeId(i) == station[i].st = "none" /\ \A j \in Ids : station[j].st = "none" => i <= j

\* What a full licence gives up for m: one silent PC, if there is one.
SeatFor(m) ==
    IF req[m].active < req[m].seats THEN {{}}
    ELSE {{i} : i \in ReclaimStaleSeat(m, req[m].t0)}

\* The rest of EnrollStation: no seat, or a unique violation, rolls back.
EnrollCommit(m) ==
    /\ req[m].pc = "locked"
    /\ \/ \E gone \in SeatFor(m), i \in Ids :
             /\ FreeId(i)
             /\ IF \E j \in Ids \ gone : SameInstallation(j, m, machine[m].gen)
                THEN Refused(m) /\ UNCHANGED <<station, code>>
                ELSE InsertStation(m, i, gone)
       \/ SeatFor(m) = {} /\ Refused(m) /\ UNCHANGED <<station, code>>
    /\ lock' = Nobody
    /\ UNCHANGED <<now, org, licences, hwid, adm, ops>>

\* The answer reaches the agent, which saves station.json.
EnrollAnswered(m) ==
    /\ req[m].pc = "answer"
    /\ machine' = [machine EXCEPT ![m].id = req[m].active]
    /\ req' = [req EXCEPT ![m] = NoReq]
    /\ UNCHANGED <<now, org, lock, licences, code, station, hwid, adm, ops>>

\* The answer is lost, the call times out, or the PC stops before it has saved
\* the answer; enrollWithRetry tries again with the same keypair.
EnrollLost(m) ==
    /\ req[m].pc = "answer"
    /\ Spend
    /\ req' = [req EXCEPT ![m] = NoReq]
    /\ UNCHANGED <<now, org, lock, licences, code, station, machine, hwid, adm>>

\* The client goes away during the transaction, which is rolled back.
EnrollAbandoned(m) ==
    /\ req[m].pc \in {"read", "locked"}
    /\ Spend
    /\ req' = [req EXCEPT ![m] = NoReq]
    /\ lock' = IF lock = m THEN Nobody ELSE lock
    /\ UNCHANGED <<now, org, licences, code, station, machine, hwid, adm>>

----------------------------------------------------------------------------
(* The running agent                                                       *)

\* ActiveStationVIP: active, under an active org, with a live licence.
ActiveStationVIP(i) == station[i].st = "active" /\ org = "active" /\ LiveAt(now) /= {}

\* fetchToken keeps the token it holds until it is about to expire.
RenewalDue(m) == machine[m].id /= 0 /\ machine[m].till <= now

\* keepTokenWarm asks for a challenge.
Challenge(m) ==
    /\ RenewalDue(m)
    /\ ~machine[m].nonce
    /\ machine' = [machine EXCEPT ![m].nonce = TRUE]
    /\ UNCHANGED <<now, org, lock, licences, code, station, hwid, req, adm, ops>>

Touch(i, ok) == station' = [station EXCEPT ![i].seen = IF ok THEN now ELSE @, ![i].touched = ok]

\* StationAuth.Token: the signature is good when the row holds this PC's key.
Token(m) ==
    LET i == machine[m].id IN
    ActiveStationVIP(i) /\ station[i].m = m /\ station[i].gen = machine[m].gen

\* The nonce is claimed whatever follows.  The touch of last_seen_at may fail
\* without anybody noticing.
stationToken(m) ==
    LET i == machine[m].id IN
    /\ machine[m].nonce
    /\ IF Token(m)
       THEN /\ machine' = [machine EXCEPT ![m].nonce = FALSE, ![m].till = now + TokenTTL]
            /\ \/ Touch(i, TRUE) /\ UNCHANGED ops
               \/ Touch(i, FALSE) /\ Spend
       ELSE /\ machine' = [machine EXCEPT ![m].nonce = FALSE]
            /\ UNCHANGED <<station, ops>>
    /\ UNCHANGED <<now, org, lock, licences, code, hwid, req, adm>>

\* A request of the kiosk through the proxy, with the token the agent holds.
Practise(m) ==
    /\ machine[m].till > now
    /\ ActiveStationVIP(machine[m].id)
    /\ Touch(machine[m].id, TRUE)
    /\ UNCHANGED <<now, org, lock, licences, code, machine, hwid, req, adm, ops>>

\* The PC is switched off and on: connect starts over from station.json.
Reboot(m) ==
    /\ req[m].pc = "idle"
    /\ Spend
    /\ machine' = [machine EXCEPT ![m].phase = "up", ![m].till = 0, ![m].nonce = FALSE]
    /\ UNCHANGED <<now, org, lock, licences, code, station, hwid, req, adm>>

\* -reenroll: ResetEnrollment drops the station id and the keypair.
ResetEnrollment(m) ==
    /\ req[m].pc = "idle"
    /\ machine[m].gen = 0
    /\ Spend
    /\ machine' = [machine EXCEPT ![m] = [id |-> 0, gen |-> 1, till |-> 0, nonce |-> FALSE, phase |-> "up"]]
    /\ UNCHANGED <<now, org, lock, licences, code, station, hwid, req, adm>>

----------------------------------------------------------------------------
(* The admin console                                                       *)

\* A transaction that will lock the org: reactivate a station, open or rotate
\* the installer key.
AdminBegin(op, s) ==
    /\ adm.pc = "idle"
    /\ Spend
    /\ adm' = [NoAdm EXCEPT !.pc = "begun", !.op = op, !.s = s, !.t0 = now]
    /\ UNCHANGED <<now, org, lock, licences, code, station, machine, hwid, req>>

\* SELECT ... FOR UPDATE, and the seats and stations read under it.
AdminLock ==
    /\ adm.pc = "begun"
    /\ lock = Nobody
    /\ IF /\ org = "active"
          /\ adm.op = "reactivate" => station[adm.s].st = "revoked"
          /\ SeatsAt(adm.t0) > 0
       THEN /\ LockOrg(Admin)
            /\ adm' = [adm EXCEPT !.pc = "locked", !.seats = SeatsAt(adm.t0),
                                  !.active = CountActiveStations]
       ELSE adm' = NoAdm /\ UNCHANGED lock
    /\ UNCHANGED <<now, org, licences, code, station, machine, hwid, req, ops>>

AdminEnd == adm' = NoAdm /\ lock' = Nobody

\* ReactivateStation: activated_at is stamped; a row deleted meanwhile updates
\* nothing, and an active row of the same installation rolls it back.
ReactivateStation(i) ==
    station' = IF /\ adm.active < adm.seats
                  /\ station[i].st = "revoked"
                  /\ ~\E j \in Ids : SameInstallation(j, station[i].m, station[i].gen)
               THEN [station EXCEPT ![i].st = "active", ![i].act = adm.t0]
               ELSE station

reactivateB2BStation ==
    /\ adm.pc = "locked" /\ adm.op = "reactivate"
    /\ ReactivateStation(adm.s)
    /\ AdminEnd
    /\ UNCHANGED <<now, org, licences, code, machine, hwid, req, ops>>

\* activeEnrollCodeTx: the live key that still has uses.
ActiveInstallerKey(t0) == {c \in Codes : StillOpen(c, t0)}

RevokeLiveCode(t0) ==
    [c \in Codes |-> IF Redeemable(c, t0) THEN [code[c] EXCEPT !.st = "revoked"] ELSE code[c]]

EnrollUsesFor(seats) == UsesPerSeat * seats

\* insertEnrollCode: the key ends with the licence.
FreshCode(seats, t0) ==
    [st |-> "live", used |-> 0, max |-> EnrollUsesFor(seats), ends |-> LicenseEndsAt(t0), won |-> 0]

\* mintEnrollCode: revoke what is live, insert its replacement.
MintEnrollCode ==
    \E c \in Codes :
        /\ code[c].st = "none"
        /\ code' = [RevokeLiveCode(adm.t0) EXCEPT ![c] = FreshCode(adm.seats, adm.t0)]

\* installerKeyTx with reuse: a live key is handed out again as it is.
OpenInstallerKey ==
    IF ActiveInstallerKey(adm.t0) = {} /\ adm.active < adm.seats
    THEN MintEnrollCode
    ELSE UNCHANGED code

\* installerKeyTx without reuse: the live key dies whether or not a seat is
\* free for its replacement.
RotateInstallerKey ==
    IF adm.active < adm.seats THEN MintEnrollCode ELSE code' = RevokeLiveCode(adm.t0)

installerKeyWrite ==
    /\ adm.pc = "locked"
    /\ \/ adm.op = "open" /\ OpenInstallerKey
       \/ adm.op = "rotate" /\ RotateInstallerKey
    /\ AdminEnd
    /\ UNCHANGED <<now, org, licences, station, machine, hwid, req, ops>>

\* RevokeStation: one statement, no org lock.
RevokeStation(i) == station[i].st = "active" /\ station' = [station EXCEPT ![i].st = "revoked"]

revokeB2BStation(i) ==
    /\ RevokeStation(i)
    /\ Spend
    /\ UNCHANGED <<now, org, lock, licences, code, machine, hwid, req, adm>>

\* DeleteStation: the row goes, with its shadow profile and all it practised.
DeleteStation(i) ==
    /\ station[i].st \in {"active", "revoked"}
    /\ station' = [station EXCEPT ![i] = [NoStation EXCEPT !.st = "deleted"]]

deleteB2BStation(i) ==
    /\ DeleteStation(i)
    /\ Spend
    /\ UNCHANGED <<now, org, lock, licences, code, machine, hwid, req, adm>>

\* SetOrgStatus waits for the row lock of the org.
SetOrgStatus(status) ==
    /\ lock = Nobody
    /\ org \in {"active", "suspended"} \ {status}
    /\ org' = status

patchB2BOrg(status) ==
    /\ SetOrgStatus(status)
    /\ Spend
    /\ UNCHANGED <<now, lock, licences, code, station, machine, hwid, req, adm>>

\* CreateB2BLicense: no lock; the licence starts now.
CreateB2BLicense(n) ==
    /\ org /= "gone"
    /\ licences' = licences \cup {Licence(1, now, now + n)}

createB2BLicense(n) ==
    /\ Cardinality(licences) < 2
    /\ CreateB2BLicense(n)
    /\ Spend
    /\ UNCHANGED <<now, org, lock, code, station, machine, hwid, req, adm>>

\* HardDeleteB2BOrg: locks the org and cascades to stations, keys and licences;
\* the shadow profiles stay.
HardDeleteB2BOrg ==
    /\ lock = Nobody
    /\ org /= "gone"
    /\ org' = "gone"
    /\ licences' = {}
    /\ code' = [c \in Codes |-> IF code[c].st = "none" THEN code[c]
                                ELSE [code[c] EXCEPT !.st = "revoked"]]
    /\ station' = [i \in Ids |-> IF station[i].st = "none" THEN NoStation
                                 ELSE [NoStation EXCEPT !.st = "deleted"]]

hardDeleteB2BOrg ==
    /\ HardDeleteB2BOrg
    /\ Spend
    /\ UNCHANGED <<now, lock, machine, hwid, req, adm>>

\* A nonce lives for a minute, so none outlives a quarter of an hour, and a
\* token that has expired is as good as none.
Tick ==
    /\ now < MaxTime
    /\ now' = now + 1
    /\ machine' = [m \in Machines |->
           [machine[m] EXCEPT !.nonce = FALSE, !.till = IF @ <= now + 1 THEN 0 ELSE @]]
    /\ UNCHANGED <<org, lock, licences, code, station, hwid, req, adm, ops>>

----------------------------------------------------------------------------

ClassNext ==
    \/ \E m \in Machines :
          \/ \E c \in Codes : enrollStation(m, c)
          \/ EnrollLock(m) \/ EnrollCommit(m)
          \/ EnrollAnswered(m) \/ EnrollLost(m) \/ EnrollAbandoned(m)
          \/ Challenge(m) \/ stationToken(m) \/ Practise(m)
          \/ Reboot(m) \/ ResetEnrollment(m)
    \/ \E i \in Ids : AdminBegin("reactivate", i) \/ revokeB2BStation(i) \/ deleteB2BStation(i)
    \/ \E op \in {"open", "rotate"} : AdminBegin(op, 0)
    \/ AdminLock \/ reactivateB2BStation \/ installerKeyWrite
    \/ \E st \in {"active", "suspended"} : patchB2BOrg(st)
    \/ \E n \in LicenceTerms : createB2BLicense(n)
    \/ hardDeleteB2BOrg \/ Tick

ClassSpec == ClassInit /\ [][ClassNext]_classVars

----------------------------------------------------------------------------
(* What the school relies on                                               *)

ClassTypeOK ==
    /\ now \in 0 .. MaxTime
    /\ org \in {"active", "suspended", "gone"}
    /\ lock \in Machines \cup {Admin, Nobody}
    /\ \A i \in Ids : station[i].st \in {"none", "active", "revoked", "deleted"}
    /\ \A m \in Machines : machine[m].id \in 0 .. MaxStations

\* Whoever put a station on the licence found a free seat on it: no
\* interleaving of enrolments, reactivations and revocations passes the cap.
SeatsHold ==
    Cardinality(Active') > Cardinality(Active) =>
        \E t0 \in {req[m].t0 : m \in {n \in Machines : req[n].pc = "locked"}}
                    \cup (IF adm.pc = "locked" THEN {adm.t0} ELSE {}) :
            Cardinality(Active') <= SeatsAt(t0)

\* The emergency stop: once a key is revoked it puts nobody on the licence, not
\* even an enrolment that was already waiting for the org lock.
RevokedKeyEnrolsNobody ==
    \A c \in Codes : code[c].st = "revoked" => code'[c].won = code[c].won

\* An enrolment takes a seat only from a PC nobody is sitting at: one whose
\* token has run out, unless the server failed to note the last renewal.
LessonGoesOn ==
    \A i \in Active, m \in Machines :
        (/\ station'[i].st = "revoked"
         /\ \E n \in Machines : req[n].pc = "locked" /\ req'[n].pc = "answer"
         /\ machine[m].id = i /\ station[i].m = m /\ station[i].touched) => machine[m].till <= now

\* SeatsHold, RevokedKeyEnrolsNobody and LessonGoesOn on every step of
\* EnrollStation, ReactivateStation, RotateInstallerKey and the rest.
SeatsAndKeys == [][SeatsHold /\ RevokedKeyEnrolsNobody /\ LessonGoesOn]_classVars

\* A school has one key that opens at a time; every use of a key put exactly
\* one PC on the licence and none goes past max_uses; a PC whose saved station
\* still exists can sign for it; the lock belongs to whoever is at work.
ClassInv ==
    /\ ClassTypeOK
    /\ Cardinality({c \in Codes : Redeemable(c, now)}) <= 1
    /\ \A c \in Codes : code[c].used <= code[c].max /\ code[c].used = code[c].won
    /\ \A m \in Machines : machine[m].id /= 0 /\ station[machine[m].id].st \in {"active", "revoked"} =>
          station[machine[m].id].m = m /\ station[machine[m].id].gen = machine[m].gen
    /\ lock = Admin <=> adm.pc = "locked"
    /\ \A m \in Machines : lock = m <=> req[m].pc = "locked"
=============================================================================
