---------------------------- MODULE ClaudeRepair ----------------------------
(***************************************************************************)
(* Repairing an npm install of Claude Code on Windows that has lost its    *)
(* program (src/launcher/claude-repair.ts and real-claude.ts).             *)
(*                                                                         *)
(* npm moves the old package aside, unpacks the new one with a placeholder *)
(* for bin\claude.exe, streams the platform package's program, and its     *)
(* setup step links or copies that program over the placeholder.  It may   *)
(* be run by a person or by ccx, stop anywhere or put the old package back.*)
(* Several ccx may launch or repair at once; each may die at any step, and *)
(* the npm it ran goes on.  A process is one run of ccx: it repairs once.   *)
(*                                                                         *)
(* A file is "none", a "placeholder", "partial" (shorter than its headers  *)
(* say) or "whole".  Times are ages, counted up to the bound they are      *)
(* compared with; two partial files of different writers differ in size.   *)
(***************************************************************************)
EXTENDS Naturals, FiniteSets

CONSTANTS Procs,
          SettledFor, \* SETTLED_MS
          Quiet,      \* PROGRAM_QUIET_MS
          Stalled,    \* STALLED_MS
          Hold,       \* FAILED_REPAIR_HOLD_MS
          Fetch,      \* how long npm may wait between two writes to a file
          MaxUpdates, \* bound: npm runs of a person
          None

VARIABLES folder,      \* "there", or "moved" aside by npm
          program, platform,  \* bin\claude.exe, and the platform package's program
          old,         \* what npm moved aside
          aside,       \* [p -> what it renamed aside, beside the program]
          links,       \* whether the disk makes hard links
          npm, pause,  \* the npm at work [by, at], and since when it wrote nothing
          updates,     \* a person's runs so far
          changed,     \* since a change time of the install moved
          platformAge, \* since that of the platform program did
          seen,        \* [file -> since when its size is known to be the same]
          failed,      \* since when the repair written down failed, the install as it was
          lock,        \* the process that holds the repair lock
          pc, fix, quiet, npmSaid, told,  \* each process's
          crossed, lost  \* a repair of what is being written; a whole program removed

vars == <<folder, program, platform, old, aside, links, npm, pause, updates, changed,
          platformAge, seen, failed, lock, pc, fix, quiet, npmSaid, told, crossed, lost>>

install == <<folder, program, platform, old, aside>>
npms == <<npm, pause, updates>>
times == <<changed, platformAge>>
memories == <<seen, failed>>
runs == <<fix, quiet, npmSaid>>
ghosts == <<crossed, lost>>

FileStates == {"none", "placeholder", "partial", "whole"}
Nothing == [program |-> "none", platform |-> "none", aside |-> [p \in Procs |-> "none"]]

(***************************************************************************)
(* What the search finds.                                                  *)
(***************************************************************************)
\* npm's shims stay in the prefix, and point into the folder.
LostProgram == folder = "moved" \/ program # "whole"

\* Changed in the last few minutes: npm may still be at work.
Busy == changed < SettledFor

\* The platform package's program, to start Claude from or to put in place.
PlatformProgram(quietFor) ==
    folder = "there" /\ platform = "whole" /\ platformAge >= quietFor

\* Cut short, so their size is watched.
Watched ==
    {f \in {"program", "platform"} :
        /\ folder = "there"
        /\ IF f = "program" THEN program = "partial"
           ELSE platform = "partial" /\ ~PlatformProgram(Quiet)}

(***************************************************************************)
(* npm.                                                                    *)
(***************************************************************************)
\* A ccx copies into the program's place: Windows lets nobody move it meanwhile.
CopyOpen == \E p \in Procs : pc[p] = "copying"

\* What npm does to the package; `stamped` as it shows in a failed repair's stamp.
Writes(at, stamped) ==
    /\ npm' = [npm EXCEPT !.at = at] /\ pause' = 0
    /\ failed' = IF stamped THEN None ELSE failed
    /\ UNCHANGED <<links, updates, lock, pc, runs, ghosts>>

NpmStarts(by) ==
    /\ npm' = [by |-> by, at |-> "moved"] /\ pause' = 0
    /\ old' = [program |-> program, platform |-> platform, aside |-> aside]
    /\ folder' = "moved" /\ program' = "none" /\ platform' = "none"
    /\ aside' = Nothing.aside
    /\ changed' = 0 /\ failed' = None
    /\ seen' = [f \in DOMAIN seen |-> None]

\* npm changes the program under what others were told.
Changed(by) == [p \in Procs |-> IF p = by THEN told[p] ELSE "changed"]

PersonUpdates ==
    /\ npm = None /\ folder = "there" /\ updates < MaxUpdates /\ ~CopyOpen
    /\ updates' = updates + 1
    /\ NpmStarts("person")
    /\ told' = Changed(None)
    /\ UNCHANGED <<links, platformAge, lock, pc, runs, ghosts>>

At(stage) == npm # None /\ npm.at = stage

NpmUnpacks ==
    /\ At("moved") /\ Writes("unpacked", TRUE)
    /\ folder' = "there" /\ program' = "placeholder" /\ changed' = 0
    /\ UNCHANGED <<platform, old, aside, platformAge, seen, told>>

\* A change time may not move while the file is written.
NpmStreams ==
    /\ At("unpacked") \/ At("streaming")
    /\ Writes("streaming", FALSE)
    /\ platform' = "partial" /\ seen' = [seen EXCEPT !["platform"] = None]
    /\ changed' \in IF At("unpacked") THEN {0} ELSE {0, changed}
    /\ UNCHANGED <<folder, program, old, aside, platformAge, told>>

NpmStreamed ==
    /\ At("streaming") /\ Writes("streamed", FALSE)
    /\ platform' = "whole" /\ platformAge' = 0 /\ changed' = 0
    /\ seen' = [seen EXCEPT !["platform"] = None]
    /\ UNCHANGED <<folder, program, old, aside, told>>

\* The setup step copies over what is there, where it cannot link.
NpmCopies ==
    /\ ~links /\ ~CopyOpen /\ (At("streamed") \/ At("copying"))
    /\ Writes("copying", TRUE)
    /\ program' = "partial" /\ seen' = [seen EXCEPT !["program"] = None]
    /\ changed' \in IF At("streamed") THEN {0} ELSE {0, changed}
    /\ told' = Changed(npm.by)
    /\ UNCHANGED <<folder, platform, old, aside, platformAge>>

\* npm is over; the ccx that ran it learns how.
NpmOver(ok) ==
    /\ npm' = None /\ pause' = 0
    /\ npmSaid' = [p \in Procs |-> IF npm.by = p THEN ok ELSE npmSaid[p]]
    /\ UNCHANGED <<links, updates, lock, pc, fix, quiet, ghosts>>

\* The program is in place; or not, with install scripts turned off.
NpmEnds ==
    /\ At("copying") \/ (At("streamed") /\ links)
    /\ NpmOver("ok")
    /\ program' = "whole" /\ old' = Nothing /\ changed' = 0 /\ failed' = None
    /\ seen' = [seen EXCEPT !["program"] = None]
    /\ told' = Changed(npm.by)
    /\ UNCHANGED <<folder, platform, aside, platformAge>>

NpmEndsWithoutScripts ==
    /\ At("streamed") /\ NpmOver("ok")
    /\ old' = Nothing /\ changed' = 0
    /\ UNCHANGED <<folder, program, platform, aside, platformAge, seen, failed, told>>

\* Killed, timed out or out of disk: what it wrote is left.
NpmDies ==
    /\ npm # None /\ NpmOver("failed")
    /\ UNCHANGED <<install, times, memories, told>>

\* Failed: the old package is moved back.
NpmPutsBack ==
    /\ npm # None /\ ~CopyOpen /\ NpmOver("failed")
    /\ folder' = "there" /\ program' = old.program /\ platform' = old.platform
    /\ aside' = old.aside /\ old' = Nothing
    /\ changed' = 0 /\ failed' = None /\ seen' = [f \in DOMAIN seen |-> None]
    /\ told' = Changed(npm.by)
    /\ UNCHANGED platformAge

(***************************************************************************)
(* A launch, and doctor --fix.                                             *)
(***************************************************************************)
Goes(p, to) == pc' = [pc EXCEPT ![p] = to]

\* A whole program is started as it is.
Launches(p) ==
    /\ pc[p] = "idle" /\ LostProgram
    /\ Goes(p, "locking")
    /\ fix' = [fix EXCEPT ![p] = FALSE]
    /\ quiet' = [quiet EXCEPT ![p] = PlatformProgram(Quiet)]
    /\ UNCHANGED <<install, links, npms, times, memories, lock, npmSaid, told, ghosts>>

Fixes(p) ==
    /\ pc[p] = "idle" /\ LostProgram
    /\ Goes(p, "locking")
    /\ fix' = [fix EXCEPT ![p] = TRUE] /\ quiet' = [quiet EXCEPT ![p] = FALSE]
    /\ UNCHANGED <<install, links, npms, times, memories, lock, npmSaid, told, ghosts>>

Locks(p) ==
    /\ pc[p] \in {"locking", "waiting"} /\ lock = None
    /\ lock' = p /\ Goes(p, "judging") /\ told' = [told EXCEPT ![p] = "nothing"]
    /\ UNCHANGED <<install, links, npms, times, memories, runs, ghosts>>

\* Another ccx repairs: waited for, unless Claude starts without.
LockIsTaken(p) ==
    /\ pc[p] = "locking" /\ lock # None
    /\ Goes(p, IF quiet[p] THEN "over" ELSE "waiting")
    /\ UNCHANGED <<install, links, npms, times, memories, lock, runs, told, ghosts>>

GivesUp(p) ==
    /\ pc[p] = "waiting" /\ lock # None /\ Goes(p, "over")
    /\ UNCHANGED <<install, links, npms, times, memories, lock, runs, told, ghosts>>

(***************************************************************************)
(* repairOne, under the lock.                                              *)
(***************************************************************************)
Remembered(p) == ~fix[p] /\ failed # None /\ failed < Hold
TooBusy(p) == Busy /\ ~(fix[p] /\ PlatformProgram(Quiet))
Still(f) == seen[f] # None /\ seen[f] >= Stalled
\* Mutant: the size of the program that is copied is not watched.
MovingPlatform == \E f \in Watched \ {"program"} : ~Still(f)
Moving == \E f \in Watched : ~Still(f)

\* A whole platform program is not watched; a size not known is written down.
WatchesSizes ==
    seen' = [f \in DOMAIN seen |->
               IF f = "platform" /\ PlatformProgram(Quiet) THEN None
               ELSE IF f \in Watched /\ seen[f] = None THEN 0 ELSE seen[f]]

Released(p) == lock' = None /\ Goes(p, "over")

\* Repaired meanwhile, or left alone.
LeavesAlone(p) ==
    /\ pc[p] = "judging"
    /\ \/ (~LostProgram \/ Remembered(p) \/ TooBusy(p)) /\ UNCHANGED seen
       \/ /\ LostProgram /\ ~Remembered(p) /\ ~TooBusy(p) /\ Moving
          /\ WatchesSizes
    /\ Released(p)
    /\ UNCHANGED <<install, links, npms, times, failed, runs, told, ghosts>>

Repairs(p) ==
    /\ pc[p] = "judging" /\ LostProgram /\ ~Remembered(p) /\ ~TooBusy(p) /\ ~Moving

\* From the platform package.
Places(p) ==
    /\ Repairs(p) /\ PlatformProgram(Quiet)
    /\ WatchesSizes
    /\ crossed' = (crossed \/ (At("copying") /\ program = "partial"))
    /\ Goes(p, "placing")
    /\ UNCHANGED <<install, links, npms, times, failed, lock, runs, told, lost>>

\* With npm, which starts right away.
Reinstalls(p) ==
    /\ Repairs(p) /\ ~PlatformProgram(Quiet)
    /\ Goes(p, "npm")
    /\ npmSaid' = [npmSaid EXCEPT ![p] = "nothing"]
    /\ IF npm # None
       THEN crossed' = TRUE /\ UNCHANGED <<install, npms, changed, memories, told>>
       ELSE /\ NpmStarts(p) /\ told' = Changed(p)
            /\ UNCHANGED <<updates, crossed>>
    /\ UNCHANGED <<links, platformAge, lock, fix, quiet, lost>>

\* No npm for the prefix, or it cannot be started.
CannotRunNpm(p) ==
    /\ Repairs(p) /\ ~PlatformProgram(Quiet)
    /\ Goes(p, "failed")
    /\ UNCHANGED <<install, links, npms, times, memories, lock, runs, told, ghosts>>

\* What it wrote is finished, however recent.
NpmIsOver(p) ==
    /\ pc[p] = "npm" /\ npmSaid[p] # "nothing"
    /\ Goes(p, IF npmSaid[p] = "failed" THEN "failed"
               ELSE IF ~LostProgram THEN "repaired"
               ELSE IF PlatformProgram(0) THEN "placing" ELSE "failed")
    /\ UNCHANGED <<install, links, npms, times, memories, lock, runs, told, ghosts>>

\* The install is looked at again, and what came of it written down.
Ends(p) ==
    /\ pc[p] \in {"repaired", "failed"}
    /\ IF pc[p] = "repaired" \/ ~LostProgram
       THEN failed' = None /\ seen' = [f \in DOMAIN seen |-> IF f \in Watched THEN None ELSE seen[f]]
       ELSE failed' = 0 /\ UNCHANGED seen
    /\ told' = [told EXCEPT ![p] = IF @ = "changed" THEN @ ELSE pc[p]]
    /\ Released(p)
    /\ UNCHANGED <<install, links, npms, times, runs, ghosts>>

(***************************************************************************)
(* placeProgram: one action per change of a file.                          *)
(***************************************************************************)
placing == <<folder, platform, old, links, npms, times, memories, lock, runs, told>>

\* The platform program is whole, and what is in its place is none.
Checks(p) ==
    /\ pc[p] = "placing"
    /\ Goes(p, IF folder = "moved" \/ platform # "whole" \/ program = "whole" THEN "failed"
               ELSE IF program = "none" THEN "linking" ELSE "renaming")
    /\ UNCHANGED <<placing, program, aside, ghosts>>

\* Refused by Windows while another has it open.
Renames(p) ==
    /\ pc[p] = "renaming"
    /\ \/ /\ program # "none"
          /\ ~CopyOpen /\ ~At("copying")
          /\ aside' = [aside EXCEPT ![p] = program] /\ program' = "none"
          /\ Goes(p, IF program = "whole" THEN "puttingBack" ELSE "linkingOver")
       \/ Goes(p, "failed") /\ UNCHANGED <<program, aside>>
    /\ UNCHANGED <<placing, ghosts>>

Linking(p) == pc[p] \in {"linking", "linkingOver"}
Free == folder = "there" /\ program = "none"

\* Linked; or the copy begins, which goes on for a while.
Links(p) ==
    /\ Linking(p) /\ Free /\ platform # "none"
    /\ program' = IF links THEN platform ELSE "partial"
    /\ Goes(p, IF links THEN "removing" ELSE "copying")
    /\ UNCHANGED <<placing, aside, ghosts>>

\* The source is gone, or something took the place: neither replaces it.
CannotLink(p) ==
    /\ Linking(p)
    /\ Goes(p, IF pc[p] = "linkingOver" THEN "puttingBack" ELSE "failed")
    /\ UNCHANGED <<placing, program, aside, ghosts>>

Copied(p) ==
    /\ pc[p] = "copying"
    /\ program' = "whole"
    /\ Goes(p, "removing")
    /\ UNCHANGED <<placing, aside, ghosts>>

\* Or it stays beside the program, where it does no harm.
Removes(p) ==
    /\ pc[p] = "removing"
    /\ aside' = [aside EXCEPT ![p] = "none"]
    /\ lost' = (lost \/ (aside[p] = "whole" /\ program # "whole"))
    /\ Goes(p, "repaired")
    /\ UNCHANGED <<placing, program, crossed>>

\* Back by a link, which replaces nothing; what arrived meanwhile is kept.
PutsBack(p) ==
    /\ pc[p] = "puttingBack"
    /\ IF aside[p] = "none" \/ folder = "moved"
       THEN Goes(p, "failed") /\ UNCHANGED <<program, aside, ghosts>>
       ELSE IF program = "none" /\ ~links
       THEN Goes(p, "renamingBack") /\ UNCHANGED <<program, aside, ghosts>>
       ELSE /\ program' = IF program = "none" THEN aside[p] ELSE program
            /\ aside' = IF program = "placeholder" THEN aside
                        ELSE [aside EXCEPT ![p] = "none"]
            /\ lost' = (lost \/ (aside[p] = "whole" /\ aside'[p] = "none" /\ program' # "whole"))
            /\ Goes(p, "failed")
            /\ UNCHANGED crossed
    /\ UNCHANGED placing

\* No links: a rename, over what may have arrived since it was looked for.
RenamesBack(p) ==
    /\ pc[p] = "renamingBack"
    /\ IF aside[p] = "none" \/ folder = "moved"
       THEN UNCHANGED <<program, aside, lost>>
       ELSE /\ program' = aside[p] /\ aside' = [aside EXCEPT ![p] = "none"]
            /\ lost' = (lost \/ (program = "whole" /\ program' # "whole"))
    /\ Goes(p, "failed")
    /\ UNCHANGED <<placing, crossed>>

\* Its lock is abandoned with it; the npm it ran is not.
Dies(p) ==
    /\ pc[p] \notin {"idle", "over"} /\ Goes(p, "over")
    /\ lock' = IF lock = p THEN None ELSE lock
    /\ npm' = IF npm # None /\ npm.by = p THEN [npm EXCEPT !.by = "nobody"] ELSE npm
    /\ UNCHANGED <<install, links, pause, updates, times, memories, runs, told, ghosts>>

(***************************************************************************)
(* Time: npm writes again before Fetch is over, and leaves no more than    *)
(* SettledFor between two files; ccx's own steps take none, but for waiting.  *)
(***************************************************************************)
Older(age, upto) == IF age < upto THEN age + 1 ELSE age

Tick ==
    /\ npm # None => pause + 1 < (IF npm.at \in {"streaming", "copying"} THEN Fetch + 1 ELSE SettledFor)
    /\ \A p \in Procs : pc[p] \in {"idle", "over", "waiting", "npm", "copying"}
    /\ pause' = IF npm = None THEN 0 ELSE pause + 1
    /\ changed' = Older(changed, SettledFor) /\ platformAge' = Older(platformAge, Quiet)
    /\ seen' = [f \in DOMAIN seen |-> IF seen[f] = None THEN None ELSE Older(seen[f], Stalled)]
    /\ failed' = IF failed = None THEN None ELSE Older(failed, Hold)
    /\ UNCHANGED <<install, links, npm, updates, lock, pc, runs, told, ghosts>>

\* A whole install, or one left by an npm that stopped long ago.
Init ==
    /\ folder \in {"there", "moved"} /\ links \in BOOLEAN
    /\ program \in IF folder = "moved" THEN {"none"} ELSE FileStates
    /\ platform \in IF folder = "moved" THEN {"none"} ELSE {"none", "partial", "whole"}
    /\ program = "partial" => platform = "whole"
    /\ old = Nothing /\ aside = Nothing.aside
    /\ npm = None /\ pause = 0 /\ updates = 0
    /\ changed = SettledFor /\ platformAge = Quiet
    /\ seen = [f \in {"program", "platform"} |-> None] /\ failed = None
    /\ lock = None /\ pc = [p \in Procs |-> "idle"]
    /\ fix = [p \in Procs |-> FALSE] /\ quiet = [p \in Procs |-> FALSE]
    /\ npmSaid = [p \in Procs |-> "nothing"] /\ told = [p \in Procs |-> "nothing"]
    /\ crossed = FALSE /\ lost = FALSE

Next ==
    \/ PersonUpdates \/ NpmUnpacks \/ NpmStreams \/ NpmStreamed \/ NpmCopies
    \/ NpmEnds \/ NpmEndsWithoutScripts \/ NpmDies \/ NpmPutsBack \/ Tick
    \/ \E p \in Procs :
         \/ Launches(p) \/ Fixes(p) \/ Locks(p) \/ LockIsTaken(p) \/ GivesUp(p)
         \/ LeavesAlone(p) \/ Places(p) \/ Reinstalls(p) \/ CannotRunNpm(p)
         \/ NpmIsOver(p) \/ Ends(p)
         \/ Checks(p) \/ Renames(p) \/ Links(p) \/ CannotLink(p) \/ Copied(p)
         \/ Removes(p) \/ PutsBack(p) \/ RenamesBack(p) \/ Dies(p)

Spec == Init /\ [][Next]_vars

(***************************************************************************)
(* Properties.                                                             *)
(***************************************************************************)
\* ccx never runs npm beside another at work on the install, nor puts a program over
\* one npm is copying: also when the ccx that ran that npm died.
OneWriter == ~crossed

\* A whole program is never removed or written over without another in its place,
\* where the disk makes links.
NothingWholeLost == lost => ~links

\* An install told to be repaired has its program, until npm changes it.
RepairedIsWhole == \A p \in Procs : told[p] = "repaired" => program = "whole"

TypeOK ==
    /\ folder \in {"there", "moved"} /\ program \in FileStates /\ platform \in FileStates
    /\ \A p \in Procs : aside[p] \in FileStates
    /\ npm # None => npm.by \in Procs \union {"person", "nobody"}
    /\ changed \in 0..SettledFor /\ platformAge \in 0..Quiet
    /\ lock # None => lock \in Procs /\ pc[lock] \notin {"idle", "over", "locking", "waiting"}

Inv == TypeOK /\ OneWriter /\ NothingWholeLost /\ RepairedIsWhole
=============================================================================
