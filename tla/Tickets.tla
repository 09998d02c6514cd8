------------------------------- MODULE Tickets -------------------------------
(***************************************************************************)
(* The bilets (numbered exam tickets) of one learner: which are open, which *)
(* are completed, and "Tozalash", the reset of the tickets screen           *)
(* (backend/internal/session: StartSession and finishInternal for mode      *)
(* variant, ResetVariantProgress, rules.go).                                *)
(*                                                                         *)
(* Bilet 1 is open to everyone; bilet N to a VIP whose bilet N-1 is         *)
(* completed, or whose profile overrides the sequence: the admin's bypass   *)
(* flag, or the ceiling that a reset leaves behind.                         *)
(***************************************************************************)
EXTENDS Integers, FiniteSets, FiniteSetsExt

CONSTANTS
    Bilets,     \* number of bilets; they are numbered 1..Bilets
    Size,       \* Size[v]: questions of the bilet
    Threshold,  \* limit_config unlock_threshold_correct
    Bypass,     \* whether the admin may set bypass_variant_progress
    Resets      \* ResetVariantProgress requests that may run at the same time

Numbers == 1..Bilets
ThreeBilets == <<2, 2, 1>>     \* Size for TLC: the last bilet is below the threshold

VARIABLES
    progress,  \* variant_progress: no row, a row, a row with completed_at
    ceiling,   \* profile.variant_unlock_ceiling
    bypass,    \* profile.bypass_variant_progress
    vip,       \* Billing.Status
    open,      \* bilets with a session in progress
    reset,     \* the reset request: where it is, the chain it read
    everDone   \* history: bilets completed at some time

vars == <<progress, ceiling, bypass, vip, open, reset, everDone>>

TypeOK ==
    /\ progress \in [Numbers -> {"none", "tried", "done"}]
    /\ ceiling \in 0..Bilets
    /\ bypass \in BOOLEAN /\ vip \in BOOLEAN
    /\ open \subseteq Numbers
    /\ reset \in [Resets -> [at : {"idle", "read"}, chain : 0..Bilets, done : SUBSET Numbers]]
    /\ everDone \subseteq Numbers

Done == {v \in Numbers : progress[v] = "done"}

Init ==
    /\ progress = [v \in Numbers |-> "none"]
    /\ ceiling = 0
    /\ bypass = FALSE /\ vip = FALSE
    /\ open = {}
    /\ reset = [r \in Resets |-> [at |-> "idle", chain |-> 0, done |-> {}]]
    /\ everDone = {}

-----------------------------------------------------------------------------
\* VariantPrevGateSatisfied.
VariantPrevGateSatisfied(v) == bypass \/ v <= ceiling

\* The sequential gate without the override of the admin's flag.
GateOpen(v) == v = 1 \/ v <= ceiling \/ (v - 1) \in Done

\* IsVariantUnlocked, as the grid and StartSession both decide it.
IsVariantUnlocked(v) ==
    v = 1 \/ (vip /\ (VariantPrevGateSatisfied(v) \/ (v - 1) \in Done))

\* StartSession, mode variant (one session in progress per bilet).
StartSession(v) ==
    /\ IsVariantUnlocked(v)
    /\ open' = open \cup {v}
    /\ UNCHANGED <<progress, ceiling, bypass, vip, reset, everDone>>

\* The correct answers that complete the bilet: the threshold, or all of a
\* bilet that is smaller than it.
Required(v) == IF 0 < Size[v] /\ Size[v] < Threshold THEN Size[v] ELSE Threshold

\* A completed_at once set is kept.
UpsertVariantProgress(v, completes) ==
    progress' = [progress EXCEPT ![v] = IF completes \/ @ = "done" THEN "done" ELSE "tried"]

\* finishInternal, mode variant.
FinishSession(v) ==
    /\ v \in open
    /\ open' = open \ {v}
    /\ \E correct \in 0..Size[v] :
          LET completes == correct >= Required(v)
          IN  /\ UpsertVariantProgress(v, completes)
              /\ everDone' = IF completes THEN everDone \cup {v} ELSE everDone
    /\ UNCHANGED <<ceiling, bypass, vip, reset>>

-----------------------------------------------------------------------------
(* ResetVariantProgress, a READ COMMITTED transaction: the chain is read by *)
(* one statement, the ceiling raised and the rows deleted by later ones.    *)

\* Mutant: the furthest completed bilet instead of the unbroken chain.
ChainFurthest == Min({Bilets, 1 + Max({0} \cup Done)})

\* The walk stops at the first bilet that is not completed.
Chain == IF Numbers \subseteq Done THEN Bilets ELSE Min(Numbers \ Done)

ResetRead(r) ==
    /\ reset[r].at = "idle"
    /\ reset' = [reset EXCEPT ![r] = [at |-> "read", chain |-> Chain, done |-> Done]]
    /\ UNCHANGED <<progress, ceiling, bypass, vip, open, everDone>>

RaiseVariantUnlockCeiling(to) == ceiling' = Max({ceiling, to})     \* GREATEST
DeleteVariantProgressForProfile == progress' = [v \in Numbers |-> "none"]

ResetCommit(r) ==
    /\ reset[r].at = "read"
    /\ RaiseVariantUnlockCeiling(reset[r].chain)
    /\ DeleteVariantProgressForProfile
    /\ reset' = [reset EXCEPT ![r] = [at |-> "idle", chain |-> 0, done |-> {}]]
    /\ UNCHANGED <<bypass, vip, open, everDone>>

\* The request dies, or a statement fails: rolled back.
ResetRollback(r) ==
    /\ reset[r].at = "read"
    /\ reset' = [reset EXCEPT ![r] = [at |-> "idle", chain |-> 0, done |-> {}]]
    /\ UNCHANGED <<progress, ceiling, bypass, vip, open, everDone>>

\* A grant or its end.
ToggleVIP ==
    /\ vip' = ~vip
    /\ UNCHANGED <<progress, ceiling, bypass, open, reset, everDone>>

\* SetLearnerBypassVariantProgress.
SetLearnerBypassVariantProgress ==
    /\ Bypass
    /\ bypass' = ~bypass
    /\ UNCHANGED <<progress, ceiling, vip, open, reset, everDone>>

Next ==
    \/ \E v \in Numbers : StartSession(v) \/ FinishSession(v)
    \/ \E r \in Resets : ResetRead(r) \/ ResetCommit(r) \/ ResetRollback(r)
    \/ ToggleVIP \/ SetLearnerBypassVariantProgress

Spec == Init /\ [][Next]_vars

-----------------------------------------------------------------------------
\* The ceiling is a bilet, and it hands out nothing: every bilet it opens is one whose
\* predecessor the learner completed at some time, whatever resets, finishes
\* and bypassed starts were interleaved (the walk of ResetVariantProgress).
CeilingEarned == TypeOK /\ \A v \in 2..ceiling : (v - 1) \in everDone

Committed(r) == reset[r].at = "read" /\ reset'[r].at = "idle" /\ progress' # progress

OpenBilets == {v \in Numbers : GateOpen(v)}

\* A learner's first "Tozalash" leaves the open and the locked bilets exactly
\* as they were, if no bilet was completed out of sequence and no session
\* finishes while it runs (ResetVariantProgress).
FirstResetKeepsOpen ==
    [][\A r \in Resets :
          Committed(r) /\ ceiling = 0 /\ reset[r].done = Done /\ Done = 1..Cardinality(Done)
             => OpenBilets' = OpenBilets]_vars

\* Violated.  Every "Tozalash" during which no session finishes leaves the
\* open bilets open: "the set of open and locked bilets stays exactly as the
\* learner left it" (ResetVariantProgress).
ResetKeepsOpen ==
    [][\A r \in Resets :
          Committed(r) /\ reset[r].done = Done => OpenBilets \subseteq OpenBilets']_vars
=============================================================================
