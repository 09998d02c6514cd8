------------------------------ MODULE WebPush ------------------------------
(***************************************************************************)
(* Web push (push/service.go, digest.go, broadcast.go, handlers.go): a     *)
(* browser's endpoint belongs to the profile that subscribed it last, and  *)
(* the pushdigest command, the support broadcast and the learner's own     *)
(* test button all deliver through Notify.  Each reads the subscriptions   *)
(* of a profile once and sends to them one by one; nothing locks the rows  *)
(* it read.  The digest takes one profile at a time, the broadcast hands   *)
(* its list to a pool of workers.                                          *)
(***************************************************************************)
EXTENDS Naturals, FiniteSets

CONSTANTS Profiles,
          Endpoints,       \* browsers
          Jobs,            \* deliveries running at one time
          Workers,         \* broadcastWorkers
          MaxJobs,         \* deliveries begun at most (bound)
          MaxMoves         \* subscriptions made, dropped or gone at most (bound)

VARIABLES owner,     \* push_subscription.profile_id of each endpoint; 0 if no row
          gone,      \* endpoints the push service answers 404 or 410 for
          due,       \* profiles with a due card
          recent,    \* recent[k][p]: notification rows of kind k inside its cooldown
          job,       \* the deliveries: the kind, the profiles still to come, and
                     \* those at work on with the browsers left (none: not read yet)
          blind,     \* test pushes let through because the cooldown could not be read
          begun, moves

rowsP == <<owner, recent>>
pushVars == <<rowsP, gone, due, blind, job, begun, moves>>

Kinds == {"fsrs_due", "push_test", "broadcast"}
NoJob == [kind |-> "none", todo |-> {}, at |-> {}]

PushInit ==
    /\ owner \in [Endpoints -> Profiles] /\ gone = {} /\ due \in {Profiles, {1}}
    /\ recent = [k \in Kinds |-> [p \in Profiles |-> 0]]
    /\ blind = 0
    /\ job = [j \in Jobs |-> NoJob] /\ begun = 0 /\ moves = 0

Move == moves < MaxMoves /\ moves' = moves + 1

-----------------------------------------------------------------------------
(* The learner's browser.                                                   *)
UpsertPushSubscription(p, e) == owner' = [owner EXCEPT ![e] = p]
Subscribe(p, e) ==
    /\ Move /\ e \notin gone /\ owner[e] # p /\ UpsertPushSubscription(p, e)
    /\ UNCHANGED <<recent, gone, due, blind, job, begun>>
(* Only the owner's own row is deleted.                                     *)
DeletePushSubscription(p, e) ==
    owner' = [owner EXCEPT ![e] = IF owner[e] = p THEN 0 ELSE owner[e]]
Unsubscribe(p, e) ==
    /\ Move /\ DeletePushSubscription(p, e)
    /\ UNCHANGED <<recent, gone, due, blind, job, begun>>
Expire(e) ==
    /\ Move /\ e \notin gone /\ gone' = gone \cup {e}
    /\ UNCHANGED <<rowsP, due, blind, job, begun>>

-----------------------------------------------------------------------------
(* Who is to be told.                                                       *)
ListPushSubscriptions(p) == {e \in Endpoints : owner[e] = p}
ListBroadcastRecipients == {p \in Profiles : ListPushSubscriptions(p) # {}}
(* Mutant: a profile told before is a candidate again.                      *)
DueWhateverTold == due \cap ListBroadcastRecipients
(* Active profiles with a due card and a browser, not told inside           *)
(* DigestCooldown.                                                          *)
ListFSRSDueCandidates == {p \in due \cap ListBroadcastRecipients : recent["fsrs_due"][p] = 0}

(* The slots are alike: a delivery takes the first that is free.  A run     *)
(* with nobody to tell leaves no trace.                                     *)
Launch(j, kind, todo) ==
    /\ job[j] = NoJob /\ (\A i \in Jobs : i < j => job[i] # NoJob)
    /\ todo # {} /\ begun < MaxJobs /\ begun' = begun + 1
    /\ job' = [job EXCEPT ![j] = [kind |-> kind, todo |-> todo, at |-> {}]]
    /\ UNCHANGED <<rowsP, gone, due, moves>>
RunFSRSDueDigest(j) == Launch(j, "fsrs_due", ListFSRSDueCandidates) /\ UNCHANGED blind
BroadcastSupport(j) == Launch(j, "broadcast", ListBroadcastRecipients) /\ UNCHANGED blind
(* A click inside TestCooldown is refused by the row of the last one; when  *)
(* that row cannot be read the click goes through.                          *)
SendTest(j, p) ==
    /\ Launch(j, "push_test", {p})
    /\ \/ recent["push_test"][p] = 0 /\ UNCHANGED blind
       \/ blind' = blind + 1
testPush(j) == \E p \in Profiles : SendTest(j, p)

-----------------------------------------------------------------------------
(* Notify: the row, then the profile's browsers one by one.                 *)
InsertNotification(j, p) == recent' = [recent EXCEPT ![job[j].kind][p] = @ + 1]
(* The list is gone through in order, by one hand or by the pool.           *)
Hands(kind) == IF kind = "broadcast" THEN Workers ELSE 1
NextIn(j) ==
    {p \in job[j].todo :
        Cardinality({q \in job[j].todo : q < p}) + Cardinality(job[j].at) < Hands(job[j].kind)}
Notify(j) == \E p \in NextIn(j) :
    /\ InsertNotification(j, p)
    /\ job' = [job EXCEPT ![j].todo = @ \ {p}, ![j].at = @ \cup {[p |-> p, subs |-> {}]}]
    /\ UNCHANGED <<owner, gone, due, blind, begun, moves>>

(* A worker goes on with the browsers left, or is free again.               *)
GoesOnWith(j, w, subs) ==
    job' = [job EXCEPT ![j].at =
               (@ \ {w}) \cup (IF subs = {} THEN {} ELSE {[w EXCEPT !.subs = subs]})]
deliverRaw(j, w) ==
    /\ w \in job[j].at /\ w.subs = {}
    /\ GoesOnWith(j, w, ListPushSubscriptions(w.p))
    /\ UNCHANGED <<rowsP, gone, due, blind, begun, moves>>
(* A browser that is gone loses its row; any other failure is skipped.      *)
DeletePushSubscriptionByEndpoint(e) == owner' = [owner EXCEPT ![e] = 0]
Send(j, w, e) ==
    /\ w \in job[j].at /\ e \in w.subs
    /\ IF e \in gone THEN DeletePushSubscriptionByEndpoint(e) ELSE UNCHANGED owner
    /\ GoesOnWith(j, w, w.subs \ {e})
    /\ UNCHANGED <<recent, gone, due, blind, begun, moves>>
(* The run is over.  One that is killed half way takes no more steps.       *)
Ends(j) ==
    /\ job[j].kind # "none" /\ job[j].todo = {} /\ job[j].at = {}
    /\ job' = [job EXCEPT ![j] = NoJob]
    /\ UNCHANGED <<rowsP, gone, due, blind, begun, moves>>

(* The cooldowns pass, and the cards fall due anew.                         *)
NextDayP ==
    /\ Move /\ recent' = [k \in Kinds |-> [p \in Profiles |-> 0]] /\ due' \in {Profiles, {1}}
    /\ UNCHANGED <<owner, gone, blind, job, begun>>

PushNext ==
    \/ \E p \in Profiles, e \in Endpoints : Subscribe(p, e) \/ Unsubscribe(p, e)
    \/ \E e \in Endpoints : Expire(e)
    \/ \E j \in Jobs : \/ RunFSRSDueDigest(j) \/ BroadcastSupport(j) \/ testPush(j)
                       \/ Notify(j) \/ Ends(j)
                       \/ \E w \in job[j].at :
                             deliverRaw(j, w) \/ \E e \in Endpoints : Send(j, w, e)
    \/ NextDayP
PushSpec == PushInit /\ [][PushNext]_pushVars

-----------------------------------------------------------------------------
(* A run tells a profile once, however many workers it has.  A cooldown is  *)
(* checked against a row that only a later step inserts, so runs that       *)
(* overlap each tell the profile, runs one after another tell it once; and  *)
(* a test push goes through whenever the check cannot be made.              *)
ToldOncePerRun ==
    \A p \in Profiles :
        /\ \A k \in Kinds : recent[k][p] <= begun
        /\ recent["fsrs_due"][p] <= Cardinality(Jobs)
        /\ recent["push_test"][p] <= Cardinality(Jobs) + blind
(* What web push promises.                                                  *)
PushInv == ToldOncePerRun
=============================================================================
