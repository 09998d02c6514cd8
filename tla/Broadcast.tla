----------------------------- MODULE Broadcast -----------------------------
(***************************************************************************)
(* One support campaign from the admin's form to the learners' inboxes     *)
(* (broadcast/service.go, audience.go, handlers_learner.go).  Every API    *)
(* instance and the broadcastworker command run the same loop against one  *)
(* outbox table; a worker may die between any two statements or outlive    *)
(* the lease on the rows it claimed.                                       *)
(***************************************************************************)
EXTENDS Naturals, FiniteSets

CONSTANTS Workers,         \* processes running RunWorker
          Learners,        \* profiles, numbered in id order
          Subscribers,     \* profiles that start with a push subscription
          MaxAttempts,     \* maxAttempts
          PageSize,        \* expandPageSize
          Limits,          \* values of Cfg.MaxRecipients
          MaxUpsets,       \* failed statements and deaths at most (bound)
          MaxExpiries      \* leases outlived at most (bound)

ASSUME BroadcastAssumption == IsFiniteSet(Workers) /\ MaxAttempts \in Nat

VARIABLES camp,      \* broadcast_campaign.status; "none" before the form is sent
          retracted, \* the campaign was retracted
          audience,  \* active profiles the campaign's audience matches
          rec,       \* broadcast_recipient rows
          inbox,     \* profiles with this campaign's in-app notification
          seen,      \* ... of which read_at is set
          subs,      \* profiles with a push subscription
          pushes,    \* web pushes shown to each profile
          wk,        \* what each worker is doing
          maxRecipients, \* Cfg.MaxRecipients, fixed at start
          upsets, expiries

outbox == <<camp, retracted, rec>>
learnerVars == <<audience, inbox, seen, subs, pushes>>
faults == <<upsets, expiries, maxRecipients>>
broadcastVars == <<outbox, learnerVars, wk, faults>>

NoRow == [st |-> "none", att |-> 0, ready |-> FALSE, stale |-> FALSE]
Idle == [pc |-> "idle", cursor |-> 0, page |-> {}, total |-> 0, claims |-> {}, cur |-> 0]
Terminal == {"completed", "completed_with_errors", "cancelled", "failed"}

BroadcastInit ==
    /\ camp = "none" /\ retracted = FALSE
    /\ audience \in {{}, {l \in Learners : l > 1}, Learners} /\ subs = Subscribers
    /\ rec = [l \in Learners |-> NoRow] /\ inbox = {} /\ seen = {}
    /\ pushes = [l \in Learners |-> 0]
    /\ wk = [w \in Workers |-> Idle] /\ upsets = 0 /\ expiries = 0
    /\ maxRecipients \in Limits

At(w, pc) == wk[w].pc = pc
Goto(w, pc) == wk' = [wk EXCEPT ![w] = [@ EXCEPT !.pc = pc]]
Resume(w, pc) == wk' = [wk EXCEPT ![w] = [Idle EXCEPT !.pc = pc, !.claims = wk[w].claims]]
Rows(sts) == {l \in Learners : rec[l].st \in sts}

-----------------------------------------------------------------------------
(* The admin console.                                                       *)
CountAudience == Cardinality(audience)
GetBroadcastCampaignByIdempotencyKey == camp # "none"
InsertBroadcastCampaign == camp' = "queued"
(* A repeated key returns the campaign that is there; the audience is       *)
(* counted against the limit before the row is queued.                      *)
Create ==
    /\ ~GetBroadcastCampaignByIdempotencyKey
    /\ CountAudience <= maxRecipients
    /\ InsertBroadcastCampaign
    /\ UNCHANGED <<retracted, rec, learnerVars, wk, faults>>
createBroadcastCampaign == Create     \* the admin route: 202 with the campaign

(* The console acts on a campaign it has listed and opened.                 *)
CountBroadcastCampaigns == IF camp = "none" THEN 0 ELSE 1
ListBroadcastCampaigns == {c \in {camp} : CountBroadcastCampaigns > 0}
GetBroadcastCampaignByID == camp \in ListBroadcastCampaigns
CancelBroadcastCampaign ==
    camp \in {"queued", "expanding", "sending"} /\ camp' = "cancelled"
Cancel ==
    /\ GetBroadcastCampaignByID /\ CancelBroadcastCampaign
    /\ UNCHANGED <<retracted, rec, learnerVars, wk, faults>>

DeleteInappNotificationsByCampaign == inbox' = {} /\ seen' = {}
FailPendingRecipientsForCampaign ==
    rec' = [l \in Learners |-> IF rec[l].st \in {"pending", "processing", "failed"}
                               THEN [rec[l] EXCEPT !.st = "failed", !.stale = FALSE] ELSE rec[l]]
RetractBroadcastCampaign == camp' = "cancelled"
Retract ==
    /\ GetBroadcastCampaignByID /\ ~retracted
    /\ DeleteInappNotificationsByCampaign /\ FailPendingRecipientsForCampaign
    /\ RetractBroadcastCampaign /\ retracted' = TRUE
    /\ UNCHANGED <<audience, subs, pushes, wk, faults>>

-----------------------------------------------------------------------------
(* Learners.                                                                *)
JoinAudience(l) ==
    /\ l \notin audience /\ audience' = audience \cup {l}
    /\ UNCHANGED <<outbox, inbox, seen, subs, pushes, wk, faults>>
(* What the bell counts and the list shows; a learner marks what is shown.  *)
CountUnreadInappNotifications(l) == Cardinality({l} \cap (inbox \ seen))
unreadCount(l) == CountUnreadInappNotifications(l)
ListInappNotifications(l) == {l} \cap inbox
list(l) == [n \in ListInappNotifications(l) |-> [read |-> n \in seen]]
MarkInappNotificationRead(l) == seen' = seen \cup ({l} \cap inbox)
readOne(l) ==
    /\ l \in DOMAIN list(l) /\ MarkInappNotificationRead(l)
    /\ UNCHANGED <<outbox, audience, inbox, subs, pushes, wk, faults>>
MarkAllInappNotificationsRead(l) == seen' = seen \cup (ListInappNotifications(l) \ seen)
readAll(l) ==
    /\ unreadCount(l) > 0 /\ MarkAllInappNotificationsRead(l)
    /\ UNCHANGED <<outbox, audience, inbox, subs, pushes, wk, faults>>
Subscribed(l) == l \in subs

-----------------------------------------------------------------------------
(* ProcessOnce: reclaim, expand, claim and deliver, recount.                *)
MaxedOut(r) == r.att >= MaxAttempts
(* Mutant: rows whose worker died stay in processing.                       *)
ReclaimNothing(w) ==
    /\ At(w, "idle") /\ camp # "none"
    /\ wk' = [wk EXCEPT ![w] = [Idle EXCEPT !.pc = IF camp \in {"queued", "expanding"}
                                                   THEN "mark" ELSE "claim"]]
    /\ UNCHANGED <<outbox, learnerVars, faults>>
reclaimStaleProcessing(w) ==
    /\ At(w, "idle") /\ camp # "none"
    /\ rec' = [l \in Learners |->
                 IF rec[l].st = "processing" /\ rec[l].stale
                 THEN [rec[l] EXCEPT !.st = IF MaxedOut(rec[l]) THEN "failed" ELSE "pending",
                                     !.ready = TRUE, !.stale = FALSE]
                 ELSE rec[l]]
    /\ wk' = [wk EXCEPT ![w] = [Idle EXCEPT !.pc = IF camp \in {"queued", "expanding"}
                                                   THEN "mark" ELSE "claim"]]
    /\ UNCHANGED <<camp, retracted, learnerVars, faults>>

expandQueued(w) ==
    /\ At(w, "mark")
    /\ IF camp \in {"queued", "expanding"}
       THEN camp' = "expanding" /\ Goto(w, "check")
       ELSE UNCHANGED camp /\ Resume(w, "claim")
    /\ UNCHANGED <<retracted, rec, learnerVars, faults>>
ListAudiencePage(w) ==
    LET later == {l \in audience : l > wk[w].cursor}
    IN {l \in later : Cardinality({k \in later : k < l}) < PageSize}
(* Before every page the status is read again; the page is then listed, and *)
(* inserted by a later statement.                                           *)
NextPage(w) ==
    /\ At(w, "check")
    /\ LET ids == ListAudiencePage(w)
       IN \/ camp = "cancelled" /\ Resume(w, "claim")
          \/ /\ camp # "cancelled" /\ wk[w].total + Cardinality(ids) <= maxRecipients
             /\ wk' = [wk EXCEPT ![w] = [@ EXCEPT !.page = ids, !.pc = IF ids = {} THEN "total" ELSE "insert"]]
    /\ UNCHANGED <<outbox, learnerVars, faults>>
Last(page) == CHOOSE l \in page : \A k \in page : k <= l
(* ON CONFLICT (campaign_id, profile_id) DO NOTHING.                        *)
InsertRecipients(w) ==
    /\ At(w, "insert")
    /\ rec' = [l \in Learners |-> IF l \in wk[w].page /\ rec[l].st = "none"
                                  THEN [NoRow EXCEPT !.st = "pending", !.ready = TRUE] ELSE rec[l]]
    /\ wk' = [wk EXCEPT ![w] =
                 [@ EXCEPT !.total = wk[w].total + Cardinality(wk[w].page),
                           !.cursor = Last(wk[w].page), !.page = {},
                           !.pc = IF Cardinality(wk[w].page) < PageSize THEN "total" ELSE "check"]]
    /\ UNCHANGED <<camp, retracted, learnerVars, faults>>
FinishExpand(w) ==
    /\ At(w, "total") /\ Resume(w, "claim")
    /\ camp' = IF camp \in {"expanding", "sending"}
               THEN IF Rows({"none"}) = Learners THEN "completed" ELSE "sending"
               ELSE camp
    /\ UNCHANGED <<retracted, rec, learnerVars, faults>>
(* An error while expanding, an audience that outgrew the limit included,   *)
(* fails the campaign unless another worker has taken it further.           *)
ExpandFails(w) ==
    /\ \/ At(w, "check") /\ camp # "cancelled" /\ wk[w].total + Cardinality(ListAudiencePage(w)) > maxRecipients
          /\ UNCHANGED upsets
       \/ wk[w].pc \in {"check", "insert", "total"}
          /\ upsets < MaxUpsets /\ upsets' = upsets + 1
    /\ camp' = IF camp \in {"queued", "expanding"} THEN "failed" ELSE camp
    /\ wk' = [wk EXCEPT ![w] = Idle]
    /\ UNCHANGED <<retracted, rec, learnerVars, expiries, maxRecipients>>

(* UPDATE ... FOR UPDATE SKIP LOCKED, one statement.                        *)
(* Mutant: the attempt limit is not part of the claim.                      *)
ClaimableForEver == {l \in Rows({"pending", "failed"}) : camp = "sending" /\ rec[l].ready}
Claimable == {l \in Rows({"pending", "failed"}) :
                camp = "sending" /\ rec[l].ready /\ ~MaxedOut(rec[l])}
processRecipients(w) ==
    /\ At(w, "claim")
    /\ rec' = [l \in Learners |-> IF l \in Claimable
                 THEN [rec[l] EXCEPT !.st = "processing", !.att = @ + 1, !.stale = FALSE] ELSE rec[l]]
    /\ wk' = [wk EXCEPT ![w] = [@ EXCEPT !.claims = Claimable, !.pc = "next"]]
    /\ UNCHANGED <<camp, retracted, learnerVars, faults>>
(* deliverOne reads the campaign once and acts on that status to the end.   *)
deliverOne(w) ==
    /\ At(w, "next")
    /\ \E l \in wk[w].claims :
         /\ wk' = [wk EXCEPT ![w] = [@ EXCEPT !.cur = l, !.claims = wk[w].claims \ {l},
                                           !.pc = IF camp = "cancelled" THEN "drop" ELSE "inapp"]]
    /\ UNCHANGED <<outbox, learnerVars, faults>>
DropCancelled(w) ==
    /\ At(w, "drop") /\ Resume(w, "next")
    /\ rec' = [rec EXCEPT ![wk[w].cur] = [@ EXCEPT !.st = "failed", !.stale = FALSE]]
    /\ UNCHANGED <<camp, retracted, learnerVars, faults>>
GetInappNotificationByCampaignProfile(l) == l \in inbox
InsertInappNotification(l) == inbox' = inbox \cup {l} /\ seen' = seen
(* The unique index (campaign, profile) gives two inserts one winner.       *)
ensureInapp(w) ==
    /\ At(w, "inapp") /\ Goto(w, "push")
    /\ IF GetInappNotificationByCampaignProfile(wk[w].cur)
       THEN UNCHANGED <<inbox, seen>> ELSE InsertInappNotification(wk[w].cur)
    /\ UNCHANGED <<outbox, audience, subs, pushes, faults>>
(* A push shows, fails or has nowhere to go, or finds the subscription gone *)
(* and deletes it.                                                          *)
DeliverToProfile(w) ==
    /\ At(w, "push") /\ Goto(w, "record")
    /\ LET l == wk[w].cur
       IN \/ Subscribed(l) /\ pushes' = [pushes EXCEPT ![l] = @ + 1] /\ UNCHANGED subs
          \/ Subscribed(l) /\ subs' = subs \ {l} /\ UNCHANGED pushes
          \/ UNCHANGED <<subs, pushes>>
    /\ UNCHANGED <<outbox, audience, inbox, seen, faults>>
(* notification_id references the notification: a row retracted meanwhile   *)
(* makes the update fail.                                                   *)
RecordSent(w) ==
    /\ At(w, "record") /\ wk[w].cur \in inbox /\ Resume(w, "next")
    /\ rec' = [rec EXCEPT ![wk[w].cur] = [@ EXCEPT !.st = "sent", !.stale = FALSE]]
    /\ UNCHANGED <<camp, retracted, learnerVars, faults>>
(* failRecipient overwrites whatever the row has become, and backs off.     *)
failRecipient(w) ==
    /\ \/ At(w, "record") /\ wk[w].cur \notin inbox /\ UNCHANGED upsets
       \/ wk[w].pc \in {"drop", "inapp", "push", "record"}
          /\ upsets < MaxUpsets /\ upsets' = upsets + 1
    /\ rec' = [rec EXCEPT ![wk[w].cur] = [@ EXCEPT !.st = "failed", !.ready = FALSE, !.stale = FALSE]]
    /\ Resume(w, "next") /\ UNCHANGED <<camp, retracted, learnerVars, expiries, maxRecipients>>
Outstanding == {l \in Learners : \/ rec[l].st \in {"pending", "processing"}
                                 \/ rec[l].st = "failed" /\ ~MaxedOut(rec[l])}
(* Its own failure is ignored: the row stays in processing, the batch goes  *)
(* on.                                                                      *)
LeavesRow(w) ==
    /\ wk[w].pc \in {"drop", "inapp", "push", "record"}
    /\ upsets < MaxUpsets /\ upsets' = upsets + 1
    /\ Resume(w, "next")
    /\ UNCHANGED <<outbox, learnerVars, expiries, maxRecipients>>
refreshCampaignStats(w) ==
    /\ At(w, "next") /\ wk[w].claims = {} /\ wk' = [wk EXCEPT ![w] = Idle]
    /\ camp' = CASE camp # "sending" \/ Outstanding # {} -> camp
                 [] camp = "sending" /\ Outstanding = {} /\ Rows({"failed"}) # {} -> "completed_with_errors"
                 [] camp = "sending" /\ Outstanding = {} /\ Rows({"failed"}) = {} -> "completed"
    /\ UNCHANGED <<retracted, rec, learnerVars, faults>>

-----------------------------------------------------------------------------
(* The clock, and a worker that dies between two statements.                *)
BackoffPasses(l) ==
    /\ rec[l].st = "failed" /\ ~rec[l].ready /\ rec' = [rec EXCEPT ![l] = [@ EXCEPT !.ready = TRUE]]
    /\ UNCHANGED <<camp, retracted, learnerVars, wk, faults>>
Held(l) == \E w \in Workers : wk[w].pc # "idle" /\ l \in wk[w].claims \cup {wk[w].cur}
(* Two minutes without an update; unless the worker is gone this means it   *)
(* has outlived its lease.                                                  *)
LeaseExpires(l) ==
    /\ rec[l].st = "processing" /\ ~rec[l].stale
    /\ IF Held(l) THEN expiries < MaxExpiries /\ expiries' = expiries + 1 ELSE UNCHANGED expiries
    /\ rec' = [rec EXCEPT ![l] = [@ EXCEPT !.stale = TRUE]]
    /\ UNCHANGED <<camp, retracted, learnerVars, wk, upsets, maxRecipients>>
Dies(w) ==
    /\ ~At(w, "idle") /\ upsets < MaxUpsets /\ upsets' = upsets + 1
    /\ wk' = [wk EXCEPT ![w] = Idle]
    /\ UNCHANGED <<outbox, learnerVars, expiries, maxRecipients>>

ProcessOnce(w) ==
    \/ reclaimStaleProcessing(w) \/ expandQueued(w) \/ NextPage(w)
    \/ InsertRecipients(w) \/ FinishExpand(w) \/ ExpandFails(w) \/ processRecipients(w)
    \/ deliverOne(w) \/ DropCancelled(w) \/ ensureInapp(w) \/ DeliverToProfile(w)
    \/ RecordSent(w) \/ failRecipient(w) \/ LeavesRow(w) \/ refreshCampaignStats(w)
TimePasses(l) == BackoffPasses(l) \/ LeaseExpires(l)
BroadcastNext ==
    \/ createBroadcastCampaign \/ Cancel \/ Retract
    \/ \E l \in Learners : JoinAudience(l) \/ readOne(l) \/ readAll(l) \/ TimePasses(l)
    \/ \E w \in Workers : ProcessOnce(w) \/ Dies(w)

(* Every worker ticks for as long as its process lives, and time passes.    *)
BroadcastFairness ==
    /\ \A w \in Workers : WF_broadcastVars(ProcessOnce(w))
    /\ \A l \in Learners : WF_broadcastVars(TimePasses(l))
BroadcastSpec == BroadcastInit /\ [][BroadcastNext]_broadcastVars /\ BroadcastFairness
-----------------------------------------------------------------------------
(* Delivery is at least once and bounded: a recipient marked sent has the   *)
(* notification, unless the campaign was retracted; nobody is pushed more   *)
(* often than the row was claimed; and a claim is never beyond the limit.   *)
SentIsDelivered == \A l \in Rows({"sent"}) : l \in inbox \/ retracted
PushesBounded == \A l \in Learners : pushes[l] <= rec[l].att /\ rec[l].att <= MaxAttempts

(* A campaign is closed as completed only by a step that finds every        *)
(* recipient's notification in the inbox, and no step but a retraction      *)
(* takes a notification, or the mark that it was read, away.                *)
ClosedWhenDelivered ==
    [][/\ camp # camp' /\ camp' = "completed" => Rows({"none", "sent"}) = Learners
                                                 /\ Rows({"sent"}) \subseteq inbox
       /\ ~retracted' => inbox \subseteq inbox' /\ seen \subseteq seen']_broadcastVars

(* Delivery: at least once and bounded, and a campaign is closed as         *)
(* completed only when everybody has it (processRecipients, deliverOne,     *)
(* refreshCampaignStats).                                                   *)
BroadcastSafe ==
    /\ [](seen \subseteq inbox /\ SentIsDelivered /\ PushesBounded)
    /\ ClosedWhenDelivered

(* A queued campaign comes to an end, whatever dies or outlives its lease.  *)
CampaignEnds == camp = "queued" ~> camp \in Terminal
=============================================================================
