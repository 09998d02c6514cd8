----------------------------- MODULE AdminDesk -----------------------------
(***************************************************************************)
(* Edits from the admin console (admin/handlers.go, content.go, limits.go, *)
(* flags.go, inbox.go, billing/provider_status.go, support/store.go).  An  *)
(* edit reads the row, updates it and appends a revision and an attributed *)
(* audit entry, each a statement of its own; for settings and tickets a    *)
(* trigger appends an unattributed entry in the statement that updates     *)
(* (content has had none since migration 0053).  A bulk verify updates row *)
(* by row and ends with one entry that names no row.  Two requests edit    *)
(* one row at once and a request may die between any two statements.  One  *)
(* row is followed; its kind is chosen at the start.                       *)
(***************************************************************************)
EXTENDS Naturals, Sequences, FiniteSets

CONSTANTS Procs,     \* requests in flight, each of an admin of its own
          MaxEdits   \* edits begun (bound)

Kinds == {"question", "explanation", "limit", "flag", "provider", "ticket"}
Unset == 9     \* a field the request does not name

VARIABLES kind,     \* which table the row is in
          row,      \* its two editable fields, a and b
          trail,    \* the row's updates in commit order: the trigger's entries (for
              \* content, which has no trigger, a history variable)
          log,      \* attributed entries, in commit order
          revs,     \* content_revision snapshots
          asked,    \* per field, the value last asked for by a committed edit
          crossed,  \* two edits have overlapped
          lost,     \* an update may have no entry or snapshot of its own: a statement
              \* failed, a request died or a bulk verify summed up
          edits, job
deskVars == <<kind, row, trail, log, revs, asked, crossed, lost, edits, job>>

Free == [pc |-> "idle", ask |-> [a |-> 0, b |-> Unset], seen |-> [a |-> 0, b |-> 0],
         before |-> [a |-> 0, b |-> 0], after |-> [a |-> 0, b |-> 0]]
DeskInit ==
    /\ kind \in Kinds
    /\ row = [a |-> 0, b |-> 0] /\ asked = row /\ trail = <<>> /\ log = <<>> /\ revs = <<>>
    /\ crossed = FALSE /\ lost = FALSE /\ edits = 0
    /\ job = [p \in Procs |-> Free]

At(p, pc) == job[p].pc = pc
Goto(p, pc) == job' = [job EXCEPT ![p].pc = pc]
Done(p) == job' = [job EXCEPT ![p] = Free]
Begin(p, ask, pc) ==      \* the handler's first read of the row
    /\ At(p, "idle") /\ edits < MaxEdits /\ edits' = edits + 1
    /\ job' = [job EXCEPT ![p] = [Free EXCEPT !.pc = pc, !.ask = ask, !.seen = row, !.before = row]]
    /\ crossed' = (crossed \/ \E q \in Procs \ {p} : ~At(q, "idle"))
    /\ UNCHANGED <<kind, row, trail, log, revs, asked, lost>>

\* The trigger runs inside the UPDATE and sees the row it replaces.
AuditTrigger(new) == trail' = Append(trail, [before |-> row, after |-> new])
Named(x, old) == IF x = Unset THEN old ELSE x
Update(p, new) ==
    /\ row' = new /\ AuditTrigger(new)
    /\ asked' = [a |-> Named(job[p].ask.a, asked.a), b |-> Named(job[p].ask.b, asked.b)]

-----------------------------------------------------------------------------
(* Content: question.validation_status and the explanation's verification.  *)
patchQuestion(p) ==
    kind = "question" /\ \E status \in {0, 1} : Begin(p, [a |-> status, b |-> Unset], "reread")
SetQuestionValidationStatus(p) ==      \* reads `before` itself, then updates
    /\ At(p, "reread") /\ kind = "question"
    /\ job' = [job EXCEPT ![p] = [@ EXCEPT !.pc = "write", !.before = row]]
    /\ UNCHANGED <<kind, row, trail, log, revs, asked, crossed, lost, edits>>
InsertContentRevision(p) == revs' = Append(revs, job[p].seen)
Revise(p) ==      \* after the update for a question, before it for an explanation
    /\ At(p, "revise") /\ InsertContentRevision(p)
    /\ Goto(p, IF kind = "question" THEN "audit" ELSE "write")
    /\ UNCHANGED <<kind, row, trail, log, asked, crossed, lost, edits>>
RevisionFails(p) ==      \* its error is ignored
    /\ At(p, "revise") /\ lost' = TRUE
    /\ Goto(p, IF kind = "question" THEN "audit" ELSE "write")
    /\ UNCHANGED <<kind, row, trail, log, revs, asked, crossed, edits>>
verifyQuestionExplanation(p) ==
    kind = "explanation" /\ Begin(p, [a |-> 1, b |-> p], "revise")
bulkVerifyExplanations(p) ==      \* this row's turn in the list; no revision
    kind = "explanation" /\ Begin(p, [a |-> 1, b |-> p], "bulk")
VerifyQuestionExplanation(p) == [a |-> 1, b |-> p]

-----------------------------------------------------------------------------
(* Settings and tickets.                                                    *)
patchLimitConfig(p) ==
    /\ kind = "limit"
    /\ \E free, vip \in {0, 1, Unset} : ~(free = Unset /\ vip = Unset)
                                        /\ Begin(p, [a |-> free, b |-> vip], "write")
SetLimitConfigValues(p) ==      \* both columns, the unnamed one as read at the start
    [a |-> Named(job[p].ask.a, job[p].seen.a), b |-> Named(job[p].ask.b, job[p].seen.b)]
patchFeatureFlag(p) ==
    kind = "flag" /\ \E v \in {0, 1} : Begin(p, [a |-> v, b |-> Unset], "write")
patchPaymentProvider(p) ==
    kind = "provider" /\ \E on \in {0, 1} : Begin(p, [a |-> on, b |-> Unset], "write")
SetColumn(p) == [row EXCEPT !.a = job[p].ask.a]
SetFeatureFlagValue(p) == SetColumn(p)
SetProviderEnabled(p) == SetColumn(p)
patchSupportTicket(p) ==
    /\ kind = "ticket"
    /\ \E status \in {0, 1}, note \in {0, 1, Unset} : Begin(p, [a |-> status, b |-> note], "write")
\* Mutant: a patch without a note empties it.
EmptiesNote(p) == [a |-> job[p].ask.a, b |-> Named(job[p].ask.b, 0)]
UpdateStatus(p) == [a |-> job[p].ask.a, b |-> Named(job[p].ask.b, row.b)]

Written(p) == CASE kind = "question"    -> SetColumn(p)
                [] kind = "explanation" -> VerifyQuestionExplanation(p)
                [] kind = "limit"       -> SetLimitConfigValues(p)
                [] kind = "flag"        -> SetFeatureFlagValue(p)
                [] kind = "provider"    -> SetProviderEnabled(p)
                [] kind = "ticket"      -> UpdateStatus(p)
Afterwards(p) ==
    IF kind = "question" THEN "revise" ELSE IF At(p, "bulk") THEN "summary" ELSE "audit"
Write(p) ==
    /\ At(p, "write") \/ At(p, "bulk")
    /\ Update(p, Written(p))
    /\ job' = [job EXCEPT ![p] = [@ EXCEPT !.pc = Afterwards(p), !.after = Written(p)]]
    /\ UNCHANGED <<kind, log, revs, crossed, lost, edits>>
WriteAudit(p) ==
    /\ At(p, "audit") /\ Done(p)
    /\ log' = Append(log, [by |-> p, before |-> job[p].before, after |-> job[p].after])
    /\ UNCHANGED <<kind, row, trail, revs, asked, crossed, lost, edits>>
\* The summary of a bulk verify counts rows and names none.
WriteSummary(p) ==
    /\ At(p, "summary") /\ Done(p) /\ lost' = TRUE
    /\ UNCHANGED <<kind, row, trail, log, revs, asked, crossed, edits>>
\* The client hangs up or a statement fails, that of the audit too, whose
\* error is ignored: the rest of the request is missing.
Abandon(p) ==
    /\ ~At(p, "idle") /\ Done(p) /\ lost' = TRUE
    /\ UNCHANGED <<kind, row, trail, log, revs, asked, crossed, edits>>

DeskProc(p) ==
    \/ patchQuestion(p) \/ SetQuestionValidationStatus(p) \/ Revise(p) \/ RevisionFails(p)
    \/ verifyQuestionExplanation(p) \/ bulkVerifyExplanations(p)
    \/ patchLimitConfig(p) \/ patchFeatureFlag(p) \/ patchPaymentProvider(p) \/ patchSupportTicket(p)
    \/ Write(p) \/ WriteAudit(p) \/ WriteSummary(p) \/ Abandon(p)
DeskNext == \E p \in Procs : DeskProc(p)
DeskSpec == DeskInit /\ [][DeskNext]_deskVars

-----------------------------------------------------------------------------
DeskTypeOK ==
    /\ kind \in Kinds /\ Len(log) <= Len(trail) /\ Len(trail) <= edits /\ edits <= MaxEdits
\* The trail replays the row: each entry starts where the one before it
\* ended and the last one is what the row holds.
TrailReplays ==
    /\ \A i \in DOMAIN trail :
         trail[i].before = (IF i = 1 THEN [a |-> 0, b |-> 0] ELSE trail[i - 1].after)
    /\ trail # <<>> => row = trail[Len(trail)].after
\* The fields hold what was last asked for each, however edits overlap.  A
\* limit is the exception the code makes: a patch writes back the column it
\* read, so it undoes a patch it overlaps.
AskedIsHeld == row = asked \/ (kind = "limit" /\ crossed)
\* An attributed entry tells of an update that happened, from a value the
\* row had had, even when its `before` is stale.
LogIsTrue ==
    \A i \in DOMAIN log : \E j \in DOMAIN trail :
        /\ trail[j].after = log[i].after
        /\ \E k \in 1..j : trail[k].before = log[i].before
\* Alone, undisturbed and one row at a time, the attributed entries are the
\* trail, and every value of a question that was replaced has its snapshot.
AloneIsComplete ==
    ~crossed /\ ~lost /\ (\A p \in Procs : At(p, "idle")) =>
        /\ [i \in DOMAIN log |-> [before |-> log[i].before, after |-> log[i].after]] = trail
        /\ kind = "question" => revs = [i \in DOMAIN trail |-> trail[i].before]
\* The admin desk: the trail replays the row, no overlap loses an edit but of
\* a limit, attributed entries are true and, for edits of one row without
\* overlap or failure, complete.
DeskInv == DeskTypeOK /\ TrailReplays /\ AskedIsHeld /\ LogIsTrue /\ AloneIsComplete
=============================================================================
