--------------------------- MODULE StationUpdate ---------------------------
(***************************************************************************)
(* The binary of one classroom PC: how the agent replaces itself with the  *)
(* build the server publishes (station/internal/updater), how an installer *)
(* run from a Downloads folder puts itself in place (selfinstall), and how *)
(* the running process is handed over (cmd/avtotest-station).              *)
(*                                                                         *)
(* A file is the version of the build it holds, 0 when there is none; the  *)
(* school's trailer goes with it.  Windows lets a running image be renamed *)
(* but neither deleted nor replaced, so the model remembers which file the *)
(* process runs from.  The power may go between any two file operations.   *)
(***************************************************************************)
EXTENDS Integers

CONSTANTS
    MaxVersion,   \* bound on the builds published
    MaxEvents     \* bound on installer runs, failed renames and power cuts

Versions == 1 .. MaxVersion
Missing == 0

VARIABLES
    release,   \* the build the server's manifest names
    target,    \* Target(stateDir): what autostart launches
    prev,      \* target.prev, left by the updater
    old,       \* target.old, left by selfinstall
    staged,    \* the version in update-staged.json, 0 when there is no marker
    run,       \* the process: its version and the file it runs from
    busy,      \* the kiosk has made an API call in the last half hour
    up,        \* where updater.checkOnce is, and the manifest it works on
    ins,       \* where selfinstall.Ensure is
    dl,        \* an installer has been run from a Downloads folder
    events

updateVars == <<release, target, prev, old, staged, run, busy, up, ins, dl, events>>

Off == [v |-> 0, file |-> "none"]
IdleUpdater == [pc |-> "idle", m |-> 0]

UpdateInit ==
    /\ release = 1
    /\ target = 1
    /\ prev = Missing /\ old = Missing
    /\ staged = 0
    /\ run = Off
    /\ busy = FALSE
    /\ up = IdleUpdater
    /\ ins = "idle"
    /\ dl = FALSE
    /\ events = 0

Running == run.v /= 0
Spend == events < MaxEvents /\ events' = events + 1

\* A rename takes the running image with it.
Follow(from, to) == IF run.file = from THEN [run EXCEPT !.file = to] ELSE run

----------------------------------------------------------------------------
(* The server                                                              *)

\* A deployment: describeAgent reads the new binary and version once, and
\* agentManifest and agentDownload answer from it.
describeAgent ==
    /\ release < MaxVersion
    /\ release' = release + 1
    /\ UNCHANGED <<target, prev, old, staged, run, busy, up, ins, events, dl>>

----------------------------------------------------------------------------
(* Power, and who runs                                                     *)

\* clearStaleMarker: a marker that names the version now running is removed.
clearStaleMarker(v) == IF staged = v THEN 0 ELSE staged

\* Logon: autostart launches the installed copy.
Boot ==
    /\ ~Running
    /\ target /= Missing
    /\ run' = [v |-> target, file |-> "target"]
    /\ staged' = clearStaleMarker(target)
    /\ busy' = TRUE
    /\ up' = IdleUpdater /\ ins' = "idle"
    /\ UNCHANGED <<release, target, prev, old, events, dl>>

\* The evening: the PC is switched off, whatever it was doing.
SwitchOff ==
    /\ Running
    /\ up.pc = "idle" /\ ins = "idle"
    /\ run' = Off /\ busy' = FALSE
    /\ UNCHANGED <<release, target, prev, old, staged, up, ins, events, dl>>

PowerCut ==
    /\ Running
    /\ up.pc /= "idle" \/ ins /= "idle"
    /\ Spend
    /\ run' = Off /\ busy' = FALSE
    /\ up' = IdleUpdater /\ ins' = "idle"
    /\ UNCHANGED <<release, target, prev, old, staged, dl>>

\* trackIdle counts from the start of the process, so the first half hour, in
\* which Ensure runs, is never idle.
trackIdle ==
    /\ Running
    /\ ins = "idle"
    /\ busy' = ~busy
    /\ UNCHANGED <<release, target, prev, old, staged, run, up, ins, events, dl>>

\* listen: an installer started while an agent answers on the port opens the
\* kiosk and leaves; otherwise it becomes the agent, and installs itself.
runInstaller(v) ==
    /\ ~Running
    /\ v <= release
    /\ Spend
    /\ run' = [v |-> v, file |-> "download"]
    /\ staged' = clearStaleMarker(v)
    /\ up' = IdleUpdater
    /\ ins' = "sweep"
    /\ busy' = TRUE
    /\ dl' = TRUE
    /\ UNCHANGED <<release, target, prev, old>>

----------------------------------------------------------------------------
(* selfinstall.Ensure, from a copy outside the state directory             *)

Removed(file, name) == IF run.file = name THEN file ELSE Missing

\* sameContent: the installed copy is byte for byte the one that runs.
sameContent == target = run.v

\* The .old of an earlier upgrade is swept, and the installed copy compared.
Ensure ==
    /\ ins = "sweep"
    /\ old' = Removed(old, "old")
    /\ ins' = CASE target = Missing -> "copy"
                [] sameContent -> "idle"
                [] OTHER -> "move"
    /\ UNCHANGED <<release, target, prev, staged, run, busy, up, events, dl>>

\* replaceExecutable: the installed copy is renamed first; a copy that has gone
\* meanwhile ends Ensure.
replaceExecutable ==
    /\ ins = "move"
    /\ IF target = Missing
       THEN ins' = "idle" /\ UNCHANGED <<old, target, run>>
       ELSE /\ old' = target /\ target' = Missing
            /\ run' = Follow("target", "old")
            /\ ins' = "fill"
    /\ UNCHANGED <<release, prev, staged, busy, up, events, dl>>

\* copyExecutable: a temporary file renamed into place.
copyExecutable ==
    /\ ins \in {"copy", "fill"}
    /\ target' = run.v
    /\ old' = IF ins = "fill" THEN Removed(old, "old") ELSE old
    /\ ins' = "idle"
    /\ UNCHANGED <<release, prev, staged, run, busy, up, events, dl>>

\* The copy fails: the working binary is put back.
copyFails ==
    /\ ins \in {"copy", "fill"}
    /\ Spend
    /\ IF ins = "fill" THEN target' = old /\ old' = Missing ELSE UNCHANGED <<target, old>>
    /\ ins' = "idle"
    /\ UNCHANGED <<release, prev, staged, run, busy, up, dl>>

----------------------------------------------------------------------------
(* updater.checkOnce                                                       *)

\* maybeRestart reads how long the kiosk has been idle; the hand-over is a step
\* of its own, and a call of the kiosk may come in between.
maybeRestart == up' = IF busy THEN IdleUpdater ELSE [up EXCEPT !.pc = "restart"]

\* restart: the port is released, the installed copy started, the process ends.
restart ==
    /\ up.pc = "restart"
    /\ run' = IF target = Missing THEN Off ELSE [v |-> target, file |-> "target"]
    /\ staged' = IF target = Missing THEN staged ELSE clearStaleMarker(target)
    /\ busy' = (target /= Missing)
    /\ up' = IdleUpdater
    /\ UNCHANGED <<release, target, prev, old, ins, events, dl>>

\* readStaged: the marker names the very version the manifest does.
readStaged == staged = release

\* fetchManifest and what checkOnce makes of it.
checkOnce ==
    /\ Running /\ up.pc = "idle"
    /\ CASE release = run.v -> UNCHANGED up
         [] release /= run.v /\ readStaged -> maybeRestart
         [] OTHER -> up' = [pc |-> "stage", m |-> release]
    /\ UNCHANGED <<release, target, prev, old, staged, run, busy, ins, events, dl>>

\* RawTrailer: the school's configuration is read from the installed copy.
RawTrailer == target /= Missing

\* agentDownload serves the build of the day, whatever version is asked for:
\* size and digest agree with the manifest only while it is still the same.
agentDownload(m) == release = m

\* stage: the trailer of the installed copy, the download, the digest.
stage ==
    /\ up.pc = "stage"
    /\ up' = IF RawTrailer /\ agentDownload(up.m) THEN [up EXCEPT !.pc = "replace"] ELSE IdleUpdater
    /\ UNCHANGED <<release, target, prev, old, staged, run, busy, ins, events, dl>>

\* replace: the copy before last is deleted ...
replace ==
    /\ up.pc = "replace"
    /\ prev' = Removed(prev, "prev")
    /\ up' = [up EXCEPT !.pc = "aside"]
    /\ UNCHANGED <<release, target, old, staged, run, busy, ins, events, dl>>

\* Mutant: the installed copy is deleted to make room.
NothingAside == Missing
\* What .prev holds after the rename.
setAside == target

\* ... the installed copy moved aside, unless the process still runs from the
\* file it would replace ...
moveAside ==
    /\ up.pc = "aside"
    /\ CASE target = Missing -> up' = [up EXCEPT !.pc = "place"] /\ UNCHANGED <<target, prev, run>>
         [] target /= Missing /\ run.file = "prev" -> up' = IdleUpdater /\ UNCHANGED <<target, prev, run>>
         [] OTHER -> /\ prev' = setAside /\ target' = Missing
                     /\ run' = Follow("target", "prev")
                     /\ up' = [up EXCEPT !.pc = "place"]
    /\ UNCHANGED <<release, old, staged, busy, ins, events, dl>>

\* ... and the new build moved into place, or the old one put back.
moveIntoPlace ==
    /\ up.pc = "place"
    /\ target' = up.m
    /\ up' = [up EXCEPT !.pc = "placed"]
    /\ UNCHANGED <<release, prev, old, staged, run, busy, ins, events, dl>>

moveFails ==
    /\ up.pc = "place"
    /\ Spend
    /\ IF target = Missing /\ prev /= Missing
       THEN target' = prev /\ prev' = Missing /\ run' = Follow("prev", "target")
       ELSE UNCHANGED <<target, prev, run>>
    /\ up' = IdleUpdater
    /\ UNCHANGED <<release, old, staged, busy, ins, dl>>

\* writeStaged, then the question whether the room is empty.
writeStaged ==
    /\ up.pc = "placed"
    /\ staged' = up.m
    /\ maybeRestart
    /\ UNCHANGED <<release, target, prev, old, run, busy, ins, events, dl>>

----------------------------------------------------------------------------

Updater == checkOnce \/ stage \/ replace \/ moveAside \/ moveIntoPlace \/ writeStaged
           \/ restart
Installer == Ensure \/ replaceExecutable \/ copyExecutable

UpdateNext ==
    \/ describeAgent \/ Boot \/ SwitchOff \/ PowerCut \/ trackIdle
    \/ \E v \in Versions : runInstaller(v)
    \/ Installer \/ copyFails
    \/ Updater \/ moveFails

UpdateSpec == UpdateInit /\ [][UpdateNext]_updateVars

\* A classroom PC is switched off every evening and on in the morning, and is on
\* for hours: longer than the ten minutes before the updater's first check.
UpdateFairness ==
    /\ SF_updateVars(Updater)
    /\ WF_updateVars(Installer)
    /\ WF_updateVars(Boot)
    /\ SF_updateVars(SwitchOff)

UpdateFairSpec == UpdateSpec /\ UpdateFairness

----------------------------------------------------------------------------

UpdateTypeOK ==
    /\ release \in Versions
    /\ {target, prev, old, staged, run.v, up.m} \subseteq Versions \cup {0}
    /\ run.file \in {"none", "target", "prev", "old", "download"}
    /\ up.pc \in {"idle", "stage", "replace", "aside", "place", "placed", "restart"}
    /\ ins \in {"idle", "sweep", "move", "fill", "copy"}

\* A build is on the disk, in place or set aside by one of the two.
OnDisk == target /= Missing \/ prev /= Missing \/ old /= Missing

\* Whatever renames, failed copies and power cuts happen, in the updater and in
\* selfinstall at once, some build the school was given stays on the disk: in
\* place, set aside by one of the two, or in the Downloads folder it came from.
\* And the process always runs from a file that still holds its version.
UpdateInv ==
    /\ UpdateTypeOK
    /\ OnDisk \/ dl
    /\ run.file = "prev" => prev = run.v
    /\ run.file = "old" => old = run.v

\* The last build on the disk is deleted by one step only: the sweep of an
\* installer that finds nothing installed, and is about to copy itself there.
\* Neither the updater nor a copy that fails ever leaves the PC without one.
LastCopyKept == [][OnDisk /\ ~OnDisk' => ins = "sweep" /\ target = Missing]_updateVars

\* A published build reaches the PC: it ends up installed or marked as staged,
\* unless a power cut or a failed rename left no installed copy to start from.
UpdateArrives == <>[](target = release \/ staged = release \/ target = Missing)
=============================================================================
