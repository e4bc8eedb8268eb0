----------------------------- MODULE UserFiles -----------------------------
(***************************************************************************)
(* How what a Claude changes in a folder of ccx's reaches the user's own   *)
(* files, and the other way round (session/write-back.ts, shared-root.ts,  *)
(* claude-folder.ts, session-dir.ts).  A session's folder is made from     *)
(* the user's files, hands its changes back between runs, at its end, or   *)
(* when a later start finds it left; the editor's folder never ends and is *)
(* brought into step both ways.  The user edits the files meanwhile.       *)
(*                                                                         *)
(* The model follows one file, of one of four kinds: "settings" and        *)
(* "state" are objects, merged setting by setting against what the folder  *)
(* started from; "whole" files (CLAUDE.md, keybindings.json) are taken     *)
(* whole, and "lines" (the prompt history) only grows; these two are hard  *)
(* links to the user's where they can be.  The files are handed back one   *)
(* after another, and meet only where a folder is removed: then removal    *)
(* waits for all of them, as it may here for no reason.                    *)
(*                                                                         *)
(* A pid is not used again while somebody is clearing the folder named by  *)
(* it: the code looks once, before it hands the folder's changes back.     *)
(***************************************************************************)
EXTENDS Naturals, FiniteSets

CONSTANTS Starting,   \* what the user's file may hold at first
          Sessions,   \* folders of sessions
          Editors,    \* folders that never end
          Sweepers,   \* starting processes that clear what others left
          Kinds,      \* the kinds of file followed
          Values,     \* what a setting, or a whole file, can say
          Items,      \* the members of lists: rules, folders, lines
          MaxTries,   \* merges tried in a row (3)
          MaxEdits,   \* bound: edits by the user and by Claudes
          MaxDeaths,  \* bound: processes that die
          Absent, Broken, None

Contents == [value : Values \cup {Absent}, list : (SUBSET Items) \cup {Absent}]

ASSUME UserFilesAssumption ==
    /\ Kinds \subseteq {"settings", "state", "whole", "lines"}
    /\ Starting \subseteq [value : Values, list : SUBSET Items]
    /\ MaxTries \in Nat \ {0} /\ MaxEdits \in Nat /\ MaxDeaths \in Nat
    /\ Absent \notin Values /\ \A list \in SUBSET Items : Absent # list
    /\ Broken \notin Contents \cup {None} /\ None \notin Contents
    /\ None \notin Sessions \cup Editors \cup Sweepers
    /\ Sessions \cap Editors = {} /\ (Sessions \cup Editors) \cap Sweepers = {}

Folders == Sessions \cup Editors
Hands == Folders \cup Sweepers

VARIABLES kind,    \* the kind of file followed
          user,    \* the user's own file
          own,     \* each folder's
          base,    \* what the two last agreed on, as the folder keeps it
          linked,  \* the folder's is the user's: one file
          phase,   \* what a folder is doing
          job,     \* what each process is doing to a folder
          lock,    \* who holds ccx's write-back lock
          edits, deaths,
          due      \* history: changes made in a folder that are nowhere else yet

vars == <<kind, user, own, base, linked, phase, job, lock, edits, deaths, due>>
counts == <<edits, deaths>>

Empty == [value |-> Absent, list |-> Absent]
AllChanges == {"value"} \X (Values \cup {Absent}) \cup ({"add", "drop"} \X Items)

Jobs ==
    [step : {"idle", "wait", "compare", "write", "after", "copy", "snap", "clear", "put", "base",
             "settle"},
     folder : Folders \cup {None}, task : {"none", "resync", "end", "sweep", "sync"},
     base : Contents \cup {None}, ours : Contents \cup {None}, seen : Contents \cup {None},
     tries : 0 .. MaxTries, ok : BOOLEAN, plan : {"none", "back", "aside"}, late : BOOLEAN]
NoJob == [step |-> "idle", folder |-> None, task |-> "none", base |-> None, ours |-> None,
          seen |-> None, tries |-> 0, ok |-> TRUE, plan |-> "none", late |-> FALSE]

\* An object is merged; the two other kinds of file are links.
Merged == kind \in {"settings", "state"}
Content(file) == IF file \in {None, Broken} THEN Empty ELSE file
Members(list) == IF list = Absent THEN {} ELSE list

-----------------------------------------------------------------------------
(* What goes back *)

\* One setting: changed in the folder, and not by the user meanwhile.
CarryValue(b, o, t) == IF o # b /\ t = b THEN o ELSE t

\* A list taken as a set: what was added and removed is carried.
CarrySet(b, o, t) ==
    (Members(t) \ (Members(b) \ Members(o))) \cup (Members(o) \ Members(b))

\* A list the user's file removed is left removed; one emptied by the folder
\* that removed it goes.
MergeList(b, o, t) ==
    IF b = o THEN t
    ELSE IF t = Absent /\ b # Absent THEN CarryValue(b, o, t)
    ELSE LET m == CarrySet(b, o, t) IN
         IF m = Members(t) THEN t ELSE IF o = Absent /\ m = {} THEN Absent ELSE m

Merge(b, o, t) ==
    [value |-> CarryValue(b.value, o.value, t.value),
     list |-> MergeList(b.list, o.list, t.list)]

Changes(b, o) ==
    (IF o.value = b.value THEN {} ELSE {<<"value", o.value>>})
    \cup ({"add"} \X (Members(o.list) \ Members(b.list)))
    \cup ({"drop"} \X (Members(b.list) \ Members(o.list)))

Shows(c, change) ==
    CASE change[1] = "value" -> c.value = change[2]
      [] change[1] = "add" -> change[2] \in Members(c.list)
      [] change[1] = "drop" -> change[2] \notin Members(c.list)

\* Changes the user's file stands against, having changed the same thing.
Clashes(b, o, t) ==
    {change \in Changes(b, o) :
        IF change[1] = "value" THEN t.value \notin {b.value, o.value}
        ELSE t.list = Absent /\ b.list # Absent}

\* A folder with no record of its start hands back its model only.
LegacyBase(b) == IF b = None THEN Empty ELSE b
LegacyOurs(b, o) == IF b # None THEN o
                    ELSE [value |-> IF kind = "state" THEN Absent ELSE o.value, list |-> Absent]

\* What goes back of a file edited whole, by what the folder started from: the
\* folder's, nothing, or nothing with the folder's kept aside.  With no record
\* of the start, the age of the two decides.
PlanWhole(b, o, t) ==
    IF t = None
    THEN IF b = None \/ b = Empty THEN {"back"} ELSE IF o = b THEN {"none"} ELSE {"aside"}
    ELSE IF o = t THEN {"none"}
    ELSE IF b = None THEN {"back", "aside"}
    ELSE IF o = b THEN {"none"} ELSE IF t = b THEN {"back"} ELSE {"aside"}

MissingLines(o, t) == Members(o.list) \ Members(Content(t).list)

Plans(b, o, t) ==
    IF kind = "whole" THEN PlanWhole(b, o, t)
    ELSE IF MissingLines(o, t) = {} THEN {"none"} ELSE {"back"}

\* What is still to be handed back, as the folder has it.
Due(b, o) ==
    IF o = None THEN {}
    ELSE IF kind = "lines" THEN Changes(Empty, o)
    ELSE IF kind = "whole" THEN Changes(LegacyBase(b), o)
    ELSE Changes(LegacyBase(b), LegacyOurs(b, o))

\* What would be with o in the folder; where its record is being written, by
\* that record too.
DueNext(f, o) ==
    Due(base[f], o)
    \cap (IF job[f].step = "base" THEN Due(Content(job[f].seen), o) ELSE Due(base[f], o))

\* The user's file as u: what it shows has arrived.
Arrives(u) ==
    [f \in Folders |-> IF u = Broken THEN due[f] ELSE {c \in due[f] : ~Shows(Content(u), c)}]

-----------------------------------------------------------------------------

TypeOK ==
    /\ kind \in Kinds
    /\ user \in Contents \cup {None, Broken}
    /\ own \in [Folders -> Contents \cup {None}]
    /\ base \in [Folders -> Contents \cup {None}]
    /\ linked \in [Folders -> BOOLEAN]
    /\ \A f \in Folders : linked[f] => own[f] = user /\ ~Merged
    /\ phase \in [Folders -> {"gone", "claude", "between", "left"}]
    /\ job \in [Hands -> Jobs]
    /\ lock \in Hands \cup {None}
    /\ edits \in 0 .. MaxEdits /\ deaths \in 0 .. MaxDeaths
    /\ due \in [Folders -> SUBSET AllChanges]

\* A file the user has, of the kind followed.
Writable ==
    IF Merged THEN Contents
    ELSE IF kind = "whole" THEN {[Empty EXCEPT !.value = v] : v \in Values}
    ELSE {[Empty EXCEPT !.list = i] : i \in SUBSET Items}

Init ==
    /\ kind \in Kinds
    /\ user \in (IF Merged THEN {} ELSE {None})
                \cup {[value |-> IF kind = "lines" THEN Absent ELSE c.value,
                               list |-> IF kind = "whole" THEN Absent ELSE c.list] : c \in Starting}
    /\ own = [f \in Folders |-> None] /\ base = [f \in Folders |-> None]
    /\ linked = [f \in Folders |-> FALSE]
    /\ phase = [f \in Folders |-> "gone"]
    /\ job = [h \in Hands |-> NoJob]
    /\ lock = None
    /\ edits = 0 /\ deaths = 0
    /\ due = [f \in Folders |-> {}]

-----------------------------------------------------------------------------
(* The user and the Claudes *)

\* Anything of the file changed by one edit.
Edited(c) ==
    {d \in Writable \ {c} : \/ Merged /\ (d.value = c.value \/ d.list = c.list)
                            \/ kind = "whole"
                            \/ kind = "lines" /\ Members(c.list) \subseteq Members(d.list)}

Edits == edits < MaxEdits /\ edits' = edits + 1

\* The user's file replaced: a folder's stays as it was, and is one of its own.
Unlinked == linked' = [f \in Folders |-> FALSE]

\* The user's file written in place: it is still the folders' that are links.
InPlace(u) ==
    /\ own' = [f \in Folders |-> IF linked[f] THEN u ELSE own[f]]
    /\ UNCHANGED linked

\* Any writes to come were decided before this edit.  So is the editor's folder
\* as it was read, with what its Claude changes in it after the hand-back.
Interrupts ==
    job' = [h \in Hands |-> [job[h] EXCEPT !.late = IF job[h].step = "write" THEN TRUE ELSE @]]

UserEdits ==
    /\ Edits
    /\ user' \in Edited(Content(user))
    /\ IF Merged THEN UNCHANGED <<own, linked>>
       ELSE InPlace(user') \/ (kind = "whole" /\ Unlinked /\ UNCHANGED own)
    /\ Interrupts
    /\ due' = Arrives(user')
    /\ UNCHANGED <<kind, base, phase, lock, deaths>>

\* The file is removed, or left for a while as something that does not parse.
UserBreaks ==
    /\ Edits /\ kind # "lines"
    /\ user' \in (IF Merged THEN {None, Broken} ELSE {None}) \ {user}
    /\ Unlinked /\ Interrupts
    /\ due' = Arrives(user')
    /\ UNCHANGED <<kind, own, base, phase, lock, deaths>>

\* A Claude changes a file of its folder: a link in place, so the user's too,
\* or by a new file in its place.
ClaudeWrites(f) ==
    /\ phase[f] = "claude" /\ Edits
    /\ \E o \in Edited(Content(own[f])) :
        \/ /\ linked[f]
           /\ user' = o /\ InPlace(o) /\ Interrupts
           /\ due' = Arrives(o)
        \/ /\ kind # "lines" \/ ~linked[f]
           /\ own' = [own EXCEPT ![f] = o]
           /\ linked' = [linked EXCEPT ![f] = FALSE]
           /\ due' = [due EXCEPT ![f] =
                {c \in (@ \cup Changes(Content(own[f]), o)) \cap DueNext(f, o) :
                    user = Broken \/ ~Shows(Content(user), c)}]
           /\ job' = [job EXCEPT ![f].late = IF job[f].step \in {"after", "put"} THEN TRUE ELSE @]
           /\ UNCHANGED user
    /\ UNCHANGED <<kind, base, phase, lock, deaths>>

-----------------------------------------------------------------------------
(* A folder's life *)

\* The user's file is the folder's again: linked, or a copy where the volume
\* refuses links.  Neither may be possible, nor the record of it.
TakesUsers(f) ==
    /\ \E taken \in {user, None} :
        /\ own' = [own EXCEPT ![f] = taken]
        /\ linked' \in {[linked EXCEPT ![f] = l] : l \in IF taken = None THEN {FALSE} ELSE BOOLEAN}
    /\ base' \in {base} \cup (IF kind = "lines" THEN {} ELSE {[base EXCEPT ![f] = Content(user)]})

\* A folder is made for a Claude to start in (buildClaudeFolder): its files
\* are the user's, remembered as they are now, if that can be written.
Starts(f) ==
    /\ phase[f] = "gone"
    /\ \A h \in Sweepers : job[h].folder # f
    /\ phase' = [phase EXCEPT ![f] = "claude"]
    /\ IF Merged
       THEN /\ own' = [own EXCEPT ![f] = IF user \in {None, Broken} THEN None ELSE user]
            /\ \E b \in {Content(own'[f]), None} : base' = [base EXCEPT ![f] = b]
            /\ UNCHANGED linked
       ELSE TakesUsers(f)
    /\ UNCHANGED <<kind, user, job, lock, counts, due>>

Exits(f) ==
    /\ f \in Sessions /\ phase[f] = "claude"
    /\ phase' = [phase EXCEPT ![f] = "between"]
    /\ UNCHANGED <<kind, user, own, base, linked, job, lock, counts, due>>

\* Linked files are not handed back before the folder goes.
Relaunches(f) ==
    /\ ~Merged /\ phase[f] = "between"
    /\ phase' \in {[phase EXCEPT ![f] = p] : p \in {"claude", "left"}}
    /\ UNCHANGED <<kind, user, own, base, linked, job, lock, counts, due>>

\* The process dies: a session's with its Claude, or one refreshing the
\* editor's folder or clearing another, whose Claude goes on.  What it had
\* moved aside to compare is left under a name nothing reads again.
Dies(h) ==
    /\ deaths < MaxDeaths
    /\ job[h].step # "idle" \/ (h \in Sessions /\ phase[h] \in {"claude", "between"})
    /\ deaths' = deaths + 1
    /\ job' = [job EXCEPT ![h] = NoJob]
    /\ phase' = IF h \in Sessions THEN [phase EXCEPT ![h] = "left"] ELSE phase
    /\ due' = IF ~Merged /\ job[h].task = "sync" /\ job[h].step # "idle"
              THEN [due EXCEPT ![h] = @ \cap Due(base[h], own[h])] ELSE due
    /\ UNCHANGED <<kind, user, own, base, linked, lock, edits>>

\* A lock its holder died with is taken over once it is old.
LockAges ==
    /\ lock # None /\ job[lock].step \notin {"compare", "write"}
    /\ lock' = None
    /\ UNCHANGED <<kind, user, own, base, linked, phase, job, counts, due>>

-----------------------------------------------------------------------------
(* Handing back an object (mergeInto) *)

Does(h, step) == job[h].step = step /\ UNCHANGED kind
Goes(h, step) == job' = [job EXCEPT ![h].step = step]
JobOver(h) == job' = [job EXCEPT ![h] = NoJob]
Folder(h) == job[h].folder
JobBase(h) == LegacyBase(job[h].base)
JobOurs(h) == LegacyOurs(job[h].base, job[h].ours)

\* Who hands back what: a session between two runs or at its end, somebody
\* starting for a session that is gone, and anybody for the editor's folder.
Tasks(h) ==
    IF h \in Sessions THEN IF phase[h] = "between" /\ Merged THEN {<<h, "resync">>, <<h, "end">>} ELSE {}
    ELSE IF h \in Editors THEN IF phase[h] = "claude" THEN {<<h, "sync">>} ELSE {}
    ELSE {<<f, "sweep">> : f \in {s \in Sessions : phase[s] = "left"}}

\* Both sides are read; with none of its own there is nothing to hand back,
\* and one that cannot be read is not passed over as empty.
BeginsMerge(h) ==
    /\ Merged /\ job[h].step = "idle"
    /\ \E t \in Tasks(h) :
        \E step \in {"wait", "after"} :
            /\ own[t[1]] = None => step = "after"
            /\ job' = [job EXCEPT ![h] = [NoJob EXCEPT
                   !.folder = t[1], !.task = t[2], !.step = step,
                   !.base = base[t[1]], !.ours = own[t[1]],
                   !.ok = step = "wait" \/ own[t[1]] = None]]
    /\ UNCHANGED <<kind, user, own, base, linked, phase, lock, counts, due>>

\* What was read is done with, but for a sync, which looks at it again.
Over(h, seen, ok) ==
    [NoJob EXCEPT !.folder = Folder(h), !.task = job[h].task, !.step = "after", !.ok = ok,
                  !.base = IF job[h].task = "sync" /\ ok THEN job[h].base ELSE None,
                  !.ours = IF job[h].task = "sync" /\ ok THEN job[h].ours ELSE None,
                  !.seen = IF job[h].task = "sync" /\ ok THEN seen ELSE None]
MergeOver(h, seen) == job' = [job EXCEPT ![h] = Over(h, seen, TRUE)]
Fails(h) == job' = [job EXCEPT ![h] = Over(h, None, FALSE)]

LockNotHad(h) ==
    /\ Does(h, "wait") /\ lock # None
    /\ IF Merged THEN Fails(h) ELSE job' = [job EXCEPT ![h] = [@ EXCEPT !.step = "settle", !.ok = FALSE]]
    /\ UNCHANGED <<user, own, base, linked, phase, lock, counts, due>>

\* The changes that clash are the user's to win; a folder's that is brought
\* into step keeps them aside first.
Given(h, u) == Clashes(JobBase(h), JobOurs(h), Content(u))
Settled(h, u, arrived) ==
    due' = IF job[h].task = "sync" THEN arrived
           ELSE [arrived EXCEPT ![Folder(h)] = @ \ Given(h, u)]
Result(h) == Merge(JobBase(h), JobOurs(h), Content(job[h].seen))

\* The user's file is read and the changes merged into it; there may be
\* nothing to write, and one that does not parse is let be.
Reads(h, tries) ==
    IF user = Broken THEN Fails(h) /\ lock' = None /\ UNCHANGED due
    ELSE IF Merge(JobBase(h), JobOurs(h), Content(user)) = Content(user)
    THEN /\ MergeOver(h, user)
         /\ lock' = None
         /\ Settled(h, user, due)
    ELSE /\ job' = [job EXCEPT ![h] =
                [@ EXCEPT !.step = "compare", !.seen = user, !.tries = tries]]
         /\ lock' = h
         /\ UNCHANGED due

LocksAndReads(h) ==
    /\ Does(h, "wait") /\ Merged /\ lock = None
    /\ Reads(h, 1)
    /\ UNCHANGED <<user, own, base, linked, phase, counts>>

\* Mutant: what was read is taken to be there still.
ComparesNothing(h) ==
    /\ Does(h, "compare")
    /\ Goes(h, "write")
    /\ UNCHANGED <<user, own, base, linked, phase, lock, counts, due>>

\* Written by somebody meanwhile, the merge is made again from what is there.
Compares(h) ==
    /\ Does(h, "compare")
    /\ IF user = job[h].seen THEN Goes(h, "write") /\ UNCHANGED <<lock, due>>
       ELSE IF job[h].tries < MaxTries THEN Reads(h, job[h].tries + 1)
       ELSE Fails(h) /\ lock' = None /\ UNCHANGED due
    /\ UNCHANGED <<user, own, base, linked, phase, counts>>

WritesMerged(h) ==
    /\ Does(h, "write") /\ Merged
    /\ user' = Result(h)
    /\ MergeOver(h, job[h].seen)
    /\ lock' = IF lock = h THEN None ELSE lock
    /\ Settled(h, job[h].seen, Arrives(user'))
    /\ UNCHANGED <<own, base, linked, phase, counts>>

WriteFails(h) ==
    /\ Does(h, "write") /\ Merged
    /\ Fails(h)
    /\ lock' = IF lock = h THEN None ELSE lock
    /\ UNCHANGED <<user, own, base, linked, phase, counts, due>>

-----------------------------------------------------------------------------
(* After an object was handed back, or could not be *)

Launches(h) == JobOver(h) /\ phase' = [phase EXCEPT ![h] = "claude"]

\* Handed back, the next hand-back starts from what the folder has now; a
\* state with no record of its start is let be.
AdvancesBase(f) ==
    base' = IF own[f] = None \/ (kind = "state" /\ base[f] = None) THEN base
            ELSE [base EXCEPT ![f] = own[f]]

\* Mutant: the base moves on whether or not the changes went back.
HandsBackAnyway(h) ==
    /\ Does(h, "after") /\ Merged /\ job[h].task # "sync"
    /\ AdvancesBase(Folder(h))
    /\ CASE job[h].task = "resync" -> Goes(h, "copy") /\ UNCHANGED phase
         [] job[h].task = "end" -> JobOver(h) /\ phase' = [phase EXCEPT ![h] = "left"]
         [] OTHER -> Goes(h, "clear") /\ UNCHANGED phase
    /\ UNCHANGED <<user, own, linked, lock, counts, due>>

\* The record of the start may not be writable.
HandsBack(h) ==
    /\ Does(h, "after") /\ Merged /\ job[h].task # "sync"
    /\ \E done \in {job[h].ok, FALSE} :
        /\ IF done THEN AdvancesBase(Folder(h)) ELSE UNCHANGED base
        /\ CASE job[h].task = "resync" ->
                  IF done /\ kind = "settings" THEN Goes(h, "copy") /\ UNCHANGED phase ELSE Launches(h)
             [] job[h].task = "end" -> JobOver(h) /\ phase' = [phase EXCEPT ![h] = "left"]
             [] OTHER -> /\ job' = [job EXCEPT ![h] = [@ EXCEPT !.step = "clear", !.ok = done]]
                         /\ UNCHANGED phase
    /\ UNCHANGED <<user, own, linked, lock, counts, due>>

\* The next Claude of the session starts from the user's settings as they are.
CopiesUsers(h) ==
    /\ Does(h, "copy")
    /\ \/ /\ user \notin {None, Broken}
          /\ own' = [own EXCEPT ![h] = user]
          /\ Goes(h, "snap") /\ UNCHANGED phase
       \/ Launches(h) /\ UNCHANGED own
    /\ UNCHANGED <<user, base, linked, lock, counts, due>>

Snaps(h) ==
    /\ Does(h, "snap")
    /\ base' \in {base, [base EXCEPT ![h] = own[h]]}
    /\ Launches(h)
    /\ UNCHANGED <<user, own, linked, lock, counts, due>>

\* Changes that could not go back are kept aside, and the folder is removed;
\* it stays when they could not, when another file keeps it, or is busy.
Clears(h) ==
    /\ Does(h, "clear")
    /\ LET f == Folder(h) IN
       \/ /\ phase[f] = "left"
          /\ due' = IF job[h].ok THEN due ELSE [due EXCEPT ![f] = {}]
          /\ phase' = [phase EXCEPT ![f] = "gone"]
          /\ own' = [own EXCEPT ![f] = None] /\ base' = [base EXCEPT ![f] = None]
          /\ linked' = [linked EXCEPT ![f] = FALSE]
       \/ UNCHANGED <<own, base, linked, phase, due>>
    /\ JobOver(h)
    /\ UNCHANGED <<user, lock, counts>>

-----------------------------------------------------------------------------
(* The editor's folder: settings and state (syncSettings, syncState) *)

\* What both changed is kept aside before the user's wins, and so is what only
\* the folder holds, with no record to judge it by.  Then the user's file,
\* holding both, is to become the folder's, over what was read of it only: a
\* change made there meanwhile goes out next time, unless its Claude has put
\* back what it had read: that is taken for what was handed back.
Settles(h) == LET ours == job[h].ours IN
    (IF ours = None THEN {} ELSE Given(h, job[h].seen))
    \cup (IF job[h].base = None /\ ours # None /\ ours # Content(user) THEN Due(None, ours) ELSE {})

Looks(h) ==
    /\ Does(h, "after") /\ Merged /\ job[h].task = "sync"
    /\ \/ /\ job[h].ok /\ user # Broken /\ own[h] = job[h].ours
          /\ ~(kind = "state" /\ job[h].ours = None)
          /\ job' = [job EXCEPT ![h] = [@ EXCEPT
                 !.step = "put", !.base = None, !.seen = user, !.late = FALSE]]
          /\ due' = [due EXCEPT ![h] = IF job[h].late THEN {} ELSE @ \ Settles(h)]
       \/ JobOver(h) /\ UNCHANGED due
    /\ UNCHANGED <<user, own, base, linked, phase, lock, counts>>

\* A change its Claude makes between that look and this write is lost; the
\* state is looked at and written under the lock Claude takes to write it.
Puts(h) ==
    /\ Does(h, "put")
    /\ \/ /\ kind = "settings" \/ own[h] = job[h].ours
          /\ own' = [own EXCEPT ![h] = Content(job[h].seen)]
          /\ job' = [job EXCEPT ![h] = [@ EXCEPT !.step = "base", !.ours = None, !.late = FALSE]]
          /\ due' = [due EXCEPT ![h] = IF job[h].late THEN {} ELSE @]
       \/ JobOver(h) /\ UNCHANGED <<own, due>>
    /\ UNCHANGED <<user, base, linked, phase, lock, counts>>

PutsBase(h) ==
    /\ Does(h, "base")
    /\ base' \in {base, [base EXCEPT ![h] = Content(job[h].seen)]}
    /\ JobOver(h)
    /\ UNCHANGED <<user, own, linked, phase, lock, counts, due>>

-----------------------------------------------------------------------------
(* Files taken whole, and the prompt history *)

\* The editor's copy that is no longer the user's file is moved aside, so that
\* what its Claude writes meanwhile is a new file.
MovesAside(h) ==
    /\ ~Merged /\ job[h].step = "idle" /\ <<h, "sync">> \in Tasks(h)
    /\ IF own[h] = None
       THEN TakesUsers(h) /\ UNCHANGED job
       ELSE /\ ~linked[h]
            /\ own' = [own EXCEPT ![h] = None]
            /\ job' = [job EXCEPT ![h] = [NoJob EXCEPT
                    !.folder = h, !.task = "sync", !.step = "wait", !.ours = own[h]]]
            /\ UNCHANGED <<base, linked>>
    /\ UNCHANGED <<kind, user, phase, lock, counts, due>>

\* What goes back is decided once, by what both files are now: under the lock
\* for the editor's, and with none for a session's that is gone.
PlansSync(h) ==
    /\ Does(h, "wait") /\ ~Merged /\ lock = None
    /\ \E plan \in Plans(base[h], job[h].ours, user) :
        /\ job' = [job EXCEPT ![h] = [@ EXCEPT
                !.step = IF plan = "back" THEN "write" ELSE "settle",
                !.plan = plan, !.base = base[h], !.seen = user]]
        /\ lock' = IF plan = "back" THEN h ELSE None
    /\ UNCHANGED <<user, own, base, linked, phase, counts, due>>

PlansReturn(h) ==
    /\ ~Merged /\ job[h].step = "idle"
    /\ \E f \in Folders :
        /\ <<f, "sweep">> \in Tasks(h)
        /\ \E plan \in IF own[f] = None \/ linked[f] THEN {"none"} ELSE Plans(base[f], own[f], user) :
            job' = [job EXCEPT ![h] = [NoJob EXCEPT
                !.folder = f, !.task = "sweep", !.base = base[f], !.ours = own[f], !.seen = user,
                !.plan = plan, !.step = IF plan = "back" THEN "write" ELSE "clear",
                !.ok = plan # "aside"]]
    /\ UNCHANGED <<kind, user, own, base, linked, phase, lock, counts, due>>

AfterFile(h) == IF job[h].task = "sync" THEN "settle" ELSE "clear"

\* A whole file is replaced, which breaks every link to it; lines are added to
\* the end of what is there by then.
WritesFile(h) ==
    /\ Does(h, "write") /\ ~Merged
    /\ IF kind = "whole"
       THEN user' = job[h].ours /\ Unlinked /\ UNCHANGED own
       ELSE /\ user' = [Empty EXCEPT !.list =
                  Members(Content(user).list) \cup MissingLines(job[h].ours, job[h].seen)]
            /\ InPlace(user')
    /\ job' = [job EXCEPT ![h] = [@ EXCEPT !.step = AfterFile(h), !.late = FALSE]]
    /\ lock' = IF lock = h THEN None ELSE lock
    /\ due' = Arrives(user')
    /\ UNCHANGED <<base, phase, counts>>

WriteFileFails(h) ==
    /\ Does(h, "write") /\ ~Merged
    /\ job' = [job EXCEPT ![h] = [@ EXCEPT !.step = AfterFile(h), !.ok = FALSE]]
    /\ lock' = IF lock = h THEN None ELSE lock
    /\ UNCHANGED <<user, own, base, linked, phase, counts, due>>

\* Dealt with, kept in rescued/ where both were edited, the folder's becomes
\* the user's file again, unless its Claude wrote a new one meanwhile.
Adopts(h) ==
    /\ Does(h, "settle") /\ job[h].ok
    /\ due' = IF job[h].plan = "aside" THEN [due EXCEPT ![h] = @ \ Due(job[h].base, job[h].ours)] ELSE due
    /\ IF own[h] = None THEN TakesUsers(h) ELSE UNCHANGED <<own, linked, base>>
    /\ JobOver(h)
    /\ UNCHANGED <<user, phase, lock, counts>>

\* Not handed back, or not kept: put back as it was, and one its Claude wrote
\* meanwhile, which is newer, stays, with this one kept aside if that can be.
PutsBack(h) ==
    /\ Does(h, "settle") /\ (job[h].ok => job[h].plan = "aside")
    /\ IF own[h] = None THEN own' = [own EXCEPT ![h] = job[h].ours] /\ UNCHANGED due
       ELSE due' = [due EXCEPT ![h] = @ \cap Due(base[h], own[h])] /\ UNCHANGED own
    /\ JobOver(h)
    /\ UNCHANGED <<user, base, linked, phase, lock, counts>>

-----------------------------------------------------------------------------

FolderStep(f) == Starts(f) \/ Exits(f) \/ Relaunches(f) \/ ClaudeWrites(f)

HandStep(h) ==
    \/ BeginsMerge(h) \/ LocksAndReads(h) \/ LockNotHad(h) \/ Compares(h)
    \/ WritesMerged(h) \/ WriteFails(h) \/ HandsBack(h) \/ CopiesUsers(h) \/ Snaps(h)
    \/ Clears(h) \/ Looks(h) \/ Puts(h) \/ PutsBase(h)
    \/ MovesAside(h) \/ PlansSync(h) \/ PlansReturn(h) \/ WritesFile(h) \/ WriteFileFails(h)
    \/ Adopts(h) \/ PutsBack(h) \/ Dies(h)

Next ==
    \/ UserEdits \/ UserBreaks \/ LockAges
    \/ \E f \in Folders : FolderStep(f)
    \/ \E h \in Hands : HandStep(h)

Spec == Init /\ [][Next]_vars

-----------------------------------------------------------------------------
(* Properties *)

\* A change made in a folder that is nowhere else is still in the folder, and
\* still told apart from what the folder started from, so the next hand-back
\* finds it: no base moves past it, nothing is copied over it, and no folder
\* is removed with it.
StillDue ==
    \A f \in Folders :
        due[f] \subseteq Due(base[f], own[f])
                 \cup (IF ~Merged /\ job[f].task = "sync" THEN Due(base[f], job[f].ours) ELSE {})

\* The types hold, and what is due is still there to be handed back.
Inv == TypeOK /\ StillDue

\* A hand-back of an object never replaces a setting, or drops a member of a
\* list, that the folder did not start from, whoever put it there, unless it
\* was put there between the last look at the file and the write; and nothing
\* is ever written over a file that does not parse (mergeInto).
UsersChoiceStands ==
    [][\A h \in Hands :
        LET was == Content(user)  now == Content(user')  b == JobBase(h) IN
        job[h].step = "write" /\ ~job[h].late /\ job'[h].step # "write" /\ user' # user /\ kind # "whole" =>
          /\ user # Broken
          /\ was.value # now.value => was.value = b.value
          /\ Members(was.list) \ Members(now.list) \subseteq Members(b.list)]_vars

\* Of a file taken whole, an edit never replaces another: what is written over
\* is what the folder started from (shared-root.ts:279, "the user's stays and
\* the session's is kept aside, so neither edit is lost").
NeitherEditIsLost ==
    [][\A h \in Hands :
        job[h].step = "write" /\ ~job[h].late /\ job'[h].step # "write" /\ user' # user
          /\ kind = "whole" /\ job[h].base # None
        => Content(user) = job[h].base]_vars

=============================================================================
