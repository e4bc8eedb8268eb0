--------------------------- MODULE UserFilesProofs ---------------------------
(***************************************************************************)
(* Proofs about the files handed back, for any number of folders, of       *)
(* processes clearing them and of edits: a change made in a folder that is *)
(* nowhere else stays in the folder, told apart from what the folder       *)
(* started from, until it is in the user's file or kept aside; and a       *)
(* hand-back writes over what it read, where the folder started from it.   *)
(*                                                                         *)
(* The invariant follows a change through a hand-back.  Before it, what is *)
(* due of a folder is what its file differs in from its base (StillDue).   *)
(* While a session's folder is handed back nobody writes in it, so what    *)
(* was read is all of it (ReturnInv), and at the end nothing is left due.  *)
(* The editor's Claude goes on writing: what was read and is due           *)
(* afterwards is what clashed (SyncInv), which is kept aside before the    *)
(* folder's file is replaced, and what came late is due against the new    *)
(* base.  A file taken whole is moved aside while it is compared, so what  *)
(* is due is in it or in the new one (AsideInv). What arrives is what the  *)
(* merge shows (MergeArrives) or what is written shows (FileArrives).      *)
(*                                                                         *)
(* Then about Claude's installation: no second npm beside one at work, and *)
(* nothing whole lost, whoever repairs it and dies, for any waits that     *)
(* RepairAssumption allows.                                                *)
(***************************************************************************)
EXTENDS MCFiles, TLAPS

-----------------------------------------------------------------------------
(* What goes back *)

LEMMA ContentType ==
    ASSUME NEW file \in Contents \cup {None, Broken}
    PROVE  Content(file) \in Contents
  BY UserFilesAssumption DEF Content, Contents, Empty

LEMMA LegacyTypes ==
    ASSUME NEW b \in Contents \cup {None}, NEW o \in Contents
    PROVE  LegacyBase(b) \in Contents /\ LegacyOurs(b, o) \in Contents
  BY UserFilesAssumption DEF LegacyBase, LegacyOurs, Contents, Empty

LEMMA MergeType ==
    ASSUME NEW b \in Contents, NEW o \in Contents, NEW t \in Contents
    PROVE  Merge(b, o, t) \in Contents
<1>1. CarryValue(b.value, o.value, t.value) \in Values \cup {Absent}
  BY DEF CarryValue, Contents
<1>2. CarrySet(b.list, o.list, t.list) \in SUBSET Items
  BY DEF CarrySet, Members, Contents
<1>3. MergeList(b.list, o.list, t.list) \in (SUBSET Items) \cup {Absent}
  BY <1>2 DEF MergeList, CarryValue, Contents
<1>4. QED
  BY <1>1, <1>3 DEF Merge, Contents

\* Every change arrives by a merge but those that clash.
LEMMA MergeCarries ==
    ASSUME NEW b \in Contents, NEW o \in Contents, NEW t \in Contents,
           NEW c \in Changes(b, o), c \notin Clashes(b, o, t)
    PROVE  Shows(Merge(b, o, t), c)
<1> DEFINE m == Merge(b, o, t)
<1>1. /\ m.value = CarryValue(b.value, o.value, t.value)
      /\ m.list = MergeList(b.list, o.list, t.list)
  BY DEF Merge
<1> HIDE DEF m
<1>2. CASE c = <<"value", o.value>> /\ o.value # b.value
  <2>1. t.value \in {b.value, o.value}
    BY <1>2 DEF Clashes
  <2>2. QED
    BY <1>1, <1>2, <2>1 DEF Shows, CarryValue, m
<1>3. ASSUME NEW x \in Members(o.list) \ Members(b.list), c = <<"add", x>>
      PROVE  Shows(m, c)
  <2>1. ~(t.list = Absent /\ b.list # Absent) /\ b.list # o.list /\ o.list # Absent
    BY <1>3 DEF Clashes, Members
  <2>2. x \in CarrySet(b.list, o.list, t.list)
    BY <1>3 DEF CarrySet
  <2>3. CarrySet(b.list, o.list, t.list) \in SUBSET Items
    BY DEF CarrySet, Members, Contents
  <2>4. x \in Members(m.list)
    BY <1>1, <2>1, <2>2, <2>3, UserFilesAssumption DEF MergeList, Members
  <2>5. QED
    BY <1>3, <2>4 DEF Shows
<1>4. ASSUME NEW x \in Members(b.list) \ Members(o.list), c = <<"drop", x>>
      PROVE  Shows(m, c)
  <2>1. ~(t.list = Absent /\ b.list # Absent) /\ b.list # o.list /\ b.list # Absent
    BY <1>4 DEF Clashes, Members
  <2>2. x \notin CarrySet(b.list, o.list, t.list)
    BY <1>4 DEF CarrySet
  <2>3. CarrySet(b.list, o.list, t.list) \in SUBSET Items
    BY DEF CarrySet, Members, Contents
  <2>4. x \notin Members(m.list)
    BY <1>1, <2>1, <2>2, <2>3, UserFilesAssumption DEF MergeList, Members
  <2>5. QED
    BY <1>4, <2>4 DEF Shows
<1>5. QED
  BY <1>2, <1>3, <1>4 DEF Changes, m

\* What a merge replaces or drops is what the folder started from.
LEMMA MergeSpares ==
    ASSUME NEW b \in Contents, NEW o \in Contents, NEW t \in Contents
    PROVE  LET m == Merge(b, o, t) IN
           /\ t.value # m.value => t.value = b.value
           /\ Members(t.list) \ Members(m.list) \subseteq Members(b.list)
<1> DEFINE m == Merge(b, o, t)
<1>1. /\ m.value = CarryValue(b.value, o.value, t.value)
      /\ m.list = MergeList(b.list, o.list, t.list)
  BY DEF Merge
<1> HIDE DEF m
<1>2. t.value # m.value => t.value = b.value
  BY <1>1 DEF CarryValue
<1>3. CarrySet(b.list, o.list, t.list) \in SUBSET Items
  BY DEF CarrySet, Members, Contents
<1>4. Members(t.list) \ CarrySet(b.list, o.list, t.list) \subseteq Members(b.list)
  BY DEF CarrySet
<1>5. Members(t.list) \ Members(m.list) \subseteq Members(b.list)
  BY <1>1, <1>3, <1>4, UserFilesAssumption DEF MergeList, CarryValue, Members
<1>6. QED
  BY <1>2, <1>5 DEF m

LEMMA ChangesType ==
    ASSUME NEW b \in Contents, NEW o \in Contents
    PROVE  Changes(b, o) \subseteq AllChanges
  BY DEF Changes, AllChanges, Members, Contents

\* A content shows the changes that led to it, and has none to itself.
LEMMA ShowsOwn ==
    ASSUME NEW b \in Contents, NEW o \in Contents
    PROVE  /\ \A c \in Changes(b, o) : Shows(o, c)
           /\ Changes(o, o) = {}
<1>1. ASSUME NEW c \in Changes(b, o) PROVE Shows(o, c)
  <2>1. CASE c = <<"value", o.value>>
    BY <2>1 DEF Shows
  <2>2. CASE c \in {"add"} \X (Members(o.list) \ Members(b.list))
    BY <2>2 DEF Shows
  <2>3. CASE c \in {"drop"} \X (Members(b.list) \ Members(o.list))
    BY <2>3 DEF Shows
  <2>4. QED
    BY <2>1, <2>2, <2>3 DEF Changes
<1>2. Changes(o, o) = {}
  BY DEF Changes
<1>3. QED
  BY <1>1, <1>2

-----------------------------------------------------------------------------
(* The inductive invariant *)

\* What each hand may be doing: a session hands its own objects back between
\* two runs, the editor's folder is brought into step while its Claude runs,
\* and a sweeper has a folder nobody else is in.
SessionAtWork(h) ==
    /\ Merged /\ job[h].folder = h /\ phase[h] = "between"
    /\ job[h].task \in {"resync", "end"}
    /\ job[h].step \in {"wait", "compare", "write", "after", "copy", "snap"}

EditorAtWork(h) ==
    /\ job[h].folder = h /\ phase[h] = "claude" /\ job[h].task = "sync"
    /\ Merged => job[h].step \in {"wait", "compare", "write", "after", "put", "base"}
    /\ ~Merged => job[h].step \in {"wait", "write", "settle"} /\ ~linked[h]

SweeperAtWork(h) ==
    /\ job[h].folder \in Sessions /\ phase[job[h].folder] \in {"left", "gone"}
    /\ job[h].task = "sweep"
    /\ Merged => job[h].step \in {"wait", "compare", "write", "after", "clear"}
    /\ ~Merged => job[h].step \in {"write", "clear"}

AtWork(h) ==
    /\ h \in Sessions => SessionAtWork(h)
    /\ h \in Editors => EditorAtWork(h)
    /\ h \in Sweepers => SweeperAtWork(h)

JobOK(h) ==
    IF job[h].step = "idle" THEN job[h].task = "none" /\ job[h].folder = None ELSE AtWork(h)
JobsInv == \A h \in Hands : JobOK(h)

\* Who has the user's object read, or is about to write it, has the lock; what
\* is written was read, and is still there unless somebody else wrote late.
LockOK(h) ==
    Merged =>
        /\ job[h].step \in {"compare", "write"} => lock = h
        /\ job[h].step = "write" /\ ~job[h].late => user = job[h].seen
LockInv == \A h \in Hands : LockOK(h)

\* What is handed back has been read, and is of the kind followed; lines only
\* gather, so those that were there are.
OursOK(h) ==
    /\ job[h].step \in {"wait", "compare", "write", "settle"} => job[h].ours \in Contents
    /\ ~Merged /\ job[h].step \in {"wait", "write", "settle"} => job[h].ours \in Writable
    /\ kind = "lines" /\ job[h].step = "write" =>
           Members(Content(job[h].seen).list) \subseteq Members(Content(user).list)
OursInv == \A h \in Hands : OursOK(h)

\* A linked file is the user's; files are of the kind followed, and only an
\* object may be broken.
LinksInv ==
    /\ \A f \in Folders : linked[f] => own[f] = user /\ ~Merged
    /\ ~Merged =>
        /\ user \in Writable \cup {None}
        /\ \A f \in Folders : own[f] \in Writable \cup {None}

\* Nothing the user's file shows is due, nor anything once a folder is gone.
DueOK(f) ==
    /\ user # Broken => \A c \in due[f] : ~Shows(Content(user), c)
    /\ phase[f] = "gone" => due[f] = {}
DueInv == \A f \in Folders : DueOK(f)

\* What is handed back of a session's folder is all there is, unless it has
\* been handed back by another since; afterwards nothing of it is due.
IsAll(h, f) == due[f] = {} \/ (job[h].base = base[f] /\ job[h].ours = own[f] /\ ~linked[f])
ReturnOK(h) ==
    job[h].step # "idle" =>
        LET f == job[h].folder IN
        /\ job[h].step \in {"wait", "compare", "write"} => IsAll(h, f)
        /\ job[h].step \in {"after", "clear"} /\ job[h].ok => due[f] = {}
        /\ job[h].step \in {"copy", "snap"} => due[f] = {}
ReturnInv == \A h \in Sessions \cup Sweepers : ReturnOK(h)

\* An object of the editor's folder: after the hand-back what is due of what
\* was read is what clashed; once that is settled only what came late is.
SyncOK(h) ==
    /\ job[h].step \in {"wait", "compare", "write"} => job[h].base = base[h]
    /\ job[h].step = "after" /\ job[h].ok =>
        /\ job[h].base = base[h]
        /\ ~job[h].late /\ job[h].ours # None =>
               due[h] \cap Due(job[h].base, job[h].ours) \subseteq Given(h, job[h].seen)
    /\ job[h].step = "put" /\ ~job[h].late => due[h] = {}
    /\ job[h].step = "base" => due[h] \subseteq Due(Content(job[h].seen), own[h])
SyncInv == Merged => \A h \in Editors : SyncOK(h)

\* A file of the editor's folder: dealt with, what is due is in what its Claude
\* wrote meanwhile, or in what is kept aside.
AsideOK(h) ==
    /\ job[h].step = "write" => job[h].plan = "back"
    /\ job[h].step = "settle" /\ job[h].ok =>
        IF job[h].plan = "aside" THEN job[h].base = base[h]
        ELSE due[h] \subseteq Due(base[h], own[h])
AsideInv == ~Merged => \A h \in Editors : AsideOK(h)

FileTypes ==
    /\ kind \in Kinds
    /\ user \in Contents \cup {None, Broken}
    /\ own \in [Folders -> Contents \cup {None}]
    /\ base \in [Folders -> Contents \cup {None}]
    /\ linked \in [Folders -> BOOLEAN]
    /\ phase \in [Folders -> {"gone", "claude", "between", "left"}]
    /\ lock \in Hands \cup {None}
    /\ edits \in 0 .. MaxEdits /\ deaths \in 0 .. MaxDeaths
    /\ due \in [Folders -> SUBSET AllChanges]
JobTypes == job \in [Hands -> Jobs]

IInv ==
    /\ FileTypes /\ JobTypes /\ LinksInv
    /\ JobsInv /\ LockInv /\ OursInv /\ DueInv /\ ReturnInv /\ SyncInv /\ AsideInv /\ StillDue


LEMMA Apart ==
    /\ Sessions \cap Editors = {} /\ (Sessions \cup Editors) \cap Sweepers = {}
    /\ None \notin Hands
  BY UserFilesAssumption DEF Hands, Folders

LEMMA Atoms ==
    /\ None \notin Contents /\ Broken \notin Contents /\ Broken # None
    /\ Empty \in Contents
<1>1. Empty \in Contents
  BY DEF Contents, Empty
<1>2. None \notin Contents /\ Broken \notin Contents /\ Broken # None
  BY UserFilesAssumption
<1>3. QED
  BY <1>1, <1>2

LEMMA WritableIsContent == Writable \subseteq Contents
  BY UserFilesAssumption DEF Writable, Contents, Empty

LEMMA EditedIsWritable == \A c \in Contents : Edited(c) \subseteq Writable
  BY DEF Edited

LEMMA JobFields ==
    ASSUME NEW j \in Jobs
    PROVE  /\ j.folder \in Folders \cup {None}
           /\ j.step \in {"idle", "wait", "compare", "write", "after", "copy", "snap", "clear",
                          "put", "base", "settle"}
           /\ j.task \in {"none", "resync", "end", "sweep", "sync"}
           /\ j.base \in Contents \cup {None} /\ j.ours \in Contents \cup {None}
           /\ j.seen \in Contents \cup {None} /\ j.tries \in 0 .. MaxTries
           /\ j.ok \in BOOLEAN /\ j.plan \in {"none", "back", "aside"} /\ j.late \in BOOLEAN
  BY DEF Jobs

LEMMA JobDomain ==
    ASSUME NEW j \in Jobs
    PROVE  DOMAIN j = {"step", "folder", "task", "base", "ours", "seen", "tries", "ok", "plan", "late"}
  BY DEF Jobs

LEMMA NoJobType == NoJob \in Jobs
  BY UserFilesAssumption DEF NoJob, Jobs

-----------------------------------------------------------------------------
(* What a step makes of a job *)

Same(h) ==
    job'[h].step = job[h].step /\ job'[h].task = job[h].task /\ job'[h].folder = job[h].folder
Carried(h) ==
    /\ job'[h].base = job[h].base /\ job'[h].ours = job[h].ours
    /\ job'[h].ok = job[h].ok /\ job'[h].plan = job[h].plan
Others(h) == \A g \in Hands \ {h} : job'[g] = job[g]
Ended(h) == job'[h].step = "idle" /\ job'[h].task = "none" /\ job'[h].folder = None
IsOver(h, seen, ok) ==
    /\ job'[h].step = "after" /\ job'[h].ok = ok /\ job'[h].late = FALSE
    /\ job'[h].task = job[h].task /\ job'[h].folder = job[h].folder
    /\ job[h].task = "sync" /\ ok =>
        job'[h].base = job[h].base /\ job'[h].ours = job[h].ours /\ job'[h].seen = seen
Steps(h, step) ==
    /\ job'[h].step = step
    /\ job'[h].task = job[h].task /\ job'[h].folder = job[h].folder /\ Carried(h)

LEMMA LateJob ==
    ASSUME JobTypes, Interrupts, NEW g \in Hands
    PROVE  /\ Same(g) /\ Carried(g) /\ job'[g].seen = job[g].seen
           /\ IF job[g].step = "write" THEN job'[g].late = TRUE ELSE job'[g].late = job[g].late
<1>1. job[g] \in Jobs /\ job'[g] = [job[g] EXCEPT !.late = IF job[g].step = "write" THEN TRUE ELSE @]
  BY DEF JobTypes, Interrupts
<1>2. Same(g)
  BY <1>1 DEF Jobs, Same
<1>3. Carried(g) /\ job'[g].seen = job[g].seen
  BY <1>1 DEF Jobs, Carried
<1>4. IF job[g].step = "write" THEN job'[g].late = TRUE ELSE job'[g].late = job[g].late
  BY <1>1 DEF Jobs
<1>5. QED
  BY <1>2, <1>3, <1>4

LEMMA ClaudeJob ==
    ASSUME JobTypes, NEW f \in Folders, ClaudeWrites(f), NEW g \in Hands
    PROVE  /\ Same(g) /\ Carried(g) /\ job'[g].seen = job[g].seen
           /\ \/ linked[f] /\ user' = own'[f] /\ Interrupts
              \/ /\ job'[g].late = IF g = f /\ job[g].step \in {"after", "put"} THEN TRUE
                                   ELSE job[g].late
                 /\ user' = user
<1>1. CASE linked[f] /\ Interrupts /\ user' = own'[f]
  BY <1>1, LateJob
<1>2. CASE /\ job' = [job EXCEPT ![f].late = IF job[f].step \in {"after", "put"} THEN TRUE ELSE @]
           /\ user' = user
  <2>1. f \in Hands /\ job[g] \in Jobs /\ job[f] \in Jobs
    BY DEF Hands, JobTypes
  <2>2. /\ g = f => job'[g] = [job[g] EXCEPT !.late =
                IF job[f].step \in {"after", "put"} THEN TRUE ELSE @]
        /\ g # f => job'[g] = job[g]
    BY <1>2, <2>1 DEF JobTypes
  <2>3. Same(g)
    BY <2>1, <2>2 DEF Jobs, Same
  <2>4. Carried(g) /\ job'[g].seen = job[g].seen
    BY <2>1, <2>2 DEF Jobs, Carried
  <2>5. job'[g].late = IF g = f /\ job[g].step \in {"after", "put"} THEN TRUE ELSE job[g].late
    BY <2>1, <2>2 DEF Jobs
  <2>6. QED
    BY <1>2, <2>3, <2>4, <2>5
<1>3. QED
  BY <1>1, <1>2 DEF ClaudeWrites, InPlace

LEMMA EndedJob ==
    ASSUME JobTypes, NEW h \in Hands, JobOver(h)
    PROVE  Ended(h) /\ Others(h)
  BY DEF JobOver, NoJob, Ended, Others, JobTypes

LEMMA OverJob ==
    ASSUME JobTypes, NEW h \in Hands, NEW seen, NEW ok,
           job' = [job EXCEPT ![h] = Over(h, seen, ok)]
    PROVE  IsOver(h, seen, ok) /\ Others(h)
<1>1. job'[h] = Over(h, seen, ok) /\ Others(h)
  BY DEF JobTypes, Others
<1> DEFINE r == Over(h, seen, ok)
<1>2. r.step = "after" /\ r.task = job[h].task /\ r.folder = job[h].folder
  BY DEF NoJob, Over, Folder
<1>3. r.ok = ok /\ r.late = FALSE
  BY DEF NoJob, Over, Folder
<1>4. job[h].task = "sync" /\ ok => r.base = job[h].base /\ r.ours = job[h].ours /\ r.seen = seen
  BY DEF NoJob, Over, Folder
<1>5. QED
  BY <1>1, <1>2, <1>3, <1>4 DEF IsOver

\* A job that goes on by one step.
LEMMA GoesJob ==
    ASSUME JobTypes, NEW h \in Hands, NEW step, Goes(h, step)
    PROVE  Steps(h, step) /\ Others(h) /\ job'[h].seen = job[h].seen /\ job'[h].late = job[h].late
<1>1. job[h] \in Jobs /\ job'[h] = [job[h] EXCEPT !.step = step] /\ Others(h)
  BY DEF JobTypes, Goes, Others
<1>2. QED
  BY <1>1 DEF Jobs, Steps, Carried

LEMMA ReadsJob ==
    ASSUME JobTypes, NEW h \in Hands, NEW tries,
           job' = [job EXCEPT ![h] = [@ EXCEPT !.step = "compare", !.seen = user, !.tries = tries]]
    PROVE  /\ Others(h)
           /\ job'[h].step = "compare" /\ job'[h].folder = job[h].folder /\ job'[h].task = job[h].task
           /\ job'[h].base = job[h].base /\ job'[h].ours = job[h].ours /\ job'[h].seen = user
           /\ job'[h].ok = job[h].ok /\ job'[h].plan = job[h].plan /\ job'[h].late = job[h].late
<1>1. job[h] \in Jobs /\ Others(h)
      /\ job'[h] = [job[h] EXCEPT !.step = "compare", !.seen = user, !.tries = tries]
  BY DEF JobTypes, Others
<1>2. DOMAIN job[h] = {"step", "folder", "task", "base", "ours", "seen", "tries", "ok", "plan",
                       "late"}
  BY <1>1, JobDomain
<1>3. ASSUME NEW r, r = [job[h] EXCEPT !.step = "compare", !.seen = user, !.tries = tries]
      PROVE  /\ r.step = "compare" /\ r.folder = job[h].folder /\ r.task = job[h].task
             /\ r.base = job[h].base /\ r.ours = job[h].ours /\ r.seen = user
             /\ r.ok = job[h].ok /\ r.plan = job[h].plan /\ r.late = job[h].late
  BY <1>2, <1>3, Zenon
<1>4. QED
  BY <1>1, <1>3, Zenon

LEMMA FailedJob ==
    ASSUME JobTypes, NEW h \in Hands, NEW step, NEW ok,
           job' = [job EXCEPT ![h] = [@ EXCEPT !.step = step, !.ok = ok]]
    PROVE  /\ Others(h)
           /\ job'[h].step = step /\ job'[h].folder = job[h].folder /\ job'[h].task = job[h].task
           /\ job'[h].base = job[h].base /\ job'[h].ours = job[h].ours /\ job'[h].seen = job[h].seen
           /\ job'[h].ok = ok /\ job'[h].plan = job[h].plan /\ job'[h].late = job[h].late
<1>1. job[h] \in Jobs /\ Others(h)
      /\ job'[h] = [job[h] EXCEPT !.step = step, !.ok = ok]
  BY DEF JobTypes, Others
<1>2. DOMAIN job[h] = {"step", "folder", "task", "base", "ours", "seen", "tries", "ok", "plan",
                       "late"}
  BY <1>1, JobDomain
<1>3. ASSUME NEW r, r = [job[h] EXCEPT !.step = step, !.ok = ok]
      PROVE  /\ r.step = step /\ r.folder = job[h].folder /\ r.task = job[h].task
             /\ r.base = job[h].base /\ r.ours = job[h].ours /\ r.seen = job[h].seen
             /\ r.ok = ok /\ r.plan = job[h].plan /\ r.late = job[h].late
  BY <1>2, <1>3, Zenon
<1>4. QED
  BY <1>1, <1>3, Zenon

LEMMA LooksJob ==
    ASSUME JobTypes, NEW h \in Hands,
           job' = [job EXCEPT ![h] = [@ EXCEPT !.step = "put", !.base = None, !.seen = user, !.late = FALSE]]
    PROVE  /\ Others(h)
           /\ job'[h].step = "put" /\ job'[h].folder = job[h].folder /\ job'[h].task = job[h].task
           /\ job'[h].base = None /\ job'[h].ours = job[h].ours /\ job'[h].seen = user
           /\ job'[h].ok = job[h].ok /\ job'[h].plan = job[h].plan /\ job'[h].late = FALSE
<1>1. job[h] \in Jobs /\ Others(h)
      /\ job'[h] = [job[h] EXCEPT !.step = "put", !.base = None, !.seen = user, !.late = FALSE]
  BY DEF JobTypes, Others
<1>2. DOMAIN job[h] = {"step", "folder", "task", "base", "ours", "seen", "tries", "ok", "plan",
                       "late"}
  BY <1>1, JobDomain
<1>3. ASSUME NEW r, r = [job[h] EXCEPT !.step = "put", !.base = None, !.seen = user, !.late = FALSE]
      PROVE  /\ r.step = "put" /\ r.folder = job[h].folder /\ r.task = job[h].task
             /\ r.base = None /\ r.ours = job[h].ours /\ r.seen = user
             /\ r.ok = job[h].ok /\ r.plan = job[h].plan /\ r.late = FALSE
  BY <1>2, <1>3, Zenon
<1>4. QED
  BY <1>1, <1>3, Zenon

LEMMA PutsJob ==
    ASSUME JobTypes, NEW h \in Hands,
           job' = [job EXCEPT ![h] = [@ EXCEPT !.step = "base", !.ours = None, !.late = FALSE]]
    PROVE  /\ Others(h)
           /\ job'[h].step = "base" /\ job'[h].folder = job[h].folder /\ job'[h].task = job[h].task
           /\ job'[h].base = job[h].base /\ job'[h].ours = None /\ job'[h].seen = job[h].seen
           /\ job'[h].ok = job[h].ok /\ job'[h].plan = job[h].plan /\ job'[h].late = FALSE
<1>1. job[h] \in Jobs /\ Others(h)
      /\ job'[h] = [job[h] EXCEPT !.step = "base", !.ours = None, !.late = FALSE]
  BY DEF JobTypes, Others
<1>2. DOMAIN job[h] = {"step", "folder", "task", "base", "ours", "seen", "tries", "ok", "plan",
                       "late"}
  BY <1>1, JobDomain
<1>3. ASSUME NEW r, r = [job[h] EXCEPT !.step = "base", !.ours = None, !.late = FALSE]
      PROVE  /\ r.step = "base" /\ r.folder = job[h].folder /\ r.task = job[h].task
             /\ r.base = job[h].base /\ r.ours = None /\ r.seen = job[h].seen
             /\ r.ok = job[h].ok /\ r.plan = job[h].plan /\ r.late = FALSE
  BY <1>2, <1>3, Zenon
<1>4. QED
  BY <1>1, <1>3, Zenon

LEMMA PlansJob ==
    ASSUME JobTypes, NEW h \in Hands, NEW step, NEW plan, NEW b,
           job' = [job EXCEPT ![h] = [@ EXCEPT !.step = step, !.plan = plan, !.base = b, !.seen = user]]
    PROVE  /\ Others(h)
           /\ job'[h].step = step /\ job'[h].folder = job[h].folder /\ job'[h].task = job[h].task
           /\ job'[h].base = b /\ job'[h].ours = job[h].ours /\ job'[h].seen = user
           /\ job'[h].ok = job[h].ok /\ job'[h].plan = plan /\ job'[h].late = job[h].late
<1>1. job[h] \in Jobs /\ Others(h)
      /\ job'[h] = [job[h] EXCEPT !.step = step, !.plan = plan, !.base = b, !.seen = user]
  BY DEF JobTypes, Others
<1>2. DOMAIN job[h] = {"step", "folder", "task", "base", "ours", "seen", "tries", "ok", "plan",
                       "late"}
  BY <1>1, JobDomain
<1>3. ASSUME NEW r, r = [job[h] EXCEPT !.step = step, !.plan = plan, !.base = b, !.seen = user]
      PROVE  /\ r.step = step /\ r.folder = job[h].folder /\ r.task = job[h].task
             /\ r.base = b /\ r.ours = job[h].ours /\ r.seen = user
             /\ r.ok = job[h].ok /\ r.plan = plan /\ r.late = job[h].late
  BY <1>2, <1>3, Zenon
<1>4. QED
  BY <1>1, <1>3, Zenon

LEMMA WritesJob ==
    ASSUME JobTypes, NEW h \in Hands, NEW step,
           job' = [job EXCEPT ![h] = [@ EXCEPT !.step = step, !.late = FALSE]]
    PROVE  /\ Others(h)
           /\ job'[h].step = step /\ job'[h].folder = job[h].folder /\ job'[h].task = job[h].task
           /\ job'[h].base = job[h].base /\ job'[h].ours = job[h].ours /\ job'[h].seen = job[h].seen
           /\ job'[h].ok = job[h].ok /\ job'[h].plan = job[h].plan /\ job'[h].late = FALSE
<1>1. job[h] \in Jobs /\ Others(h)
      /\ job'[h] = [job[h] EXCEPT !.step = step, !.late = FALSE]
  BY DEF JobTypes, Others
<1>2. DOMAIN job[h] = {"step", "folder", "task", "base", "ours", "seen", "tries", "ok", "plan",
                       "late"}
  BY <1>1, JobDomain
<1>3. ASSUME NEW r, r = [job[h] EXCEPT !.step = step, !.late = FALSE]
      PROVE  /\ r.step = step /\ r.folder = job[h].folder /\ r.task = job[h].task
             /\ r.base = job[h].base /\ r.ours = job[h].ours /\ r.seen = job[h].seen
             /\ r.ok = job[h].ok /\ r.plan = job[h].plan /\ r.late = FALSE
  BY <1>2, <1>3, Zenon
<1>4. QED
  BY <1>1, <1>3, Zenon

LEMMA BeginsJob ==
    ASSUME JobTypes, NEW h \in Hands, NEW f, NEW task, NEW step, NEW ok,
           job' = [job EXCEPT ![h] =
               [NoJob EXCEPT !.folder = f, !.task = task, !.step = step, !.base =
                  base[f], !.ours = own[f], !.ok = ok]]
    PROVE  /\ Others(h)
           /\ job'[h].step = step /\ job'[h].folder = f /\ job'[h].task = task
           /\ job'[h].base = base[f] /\ job'[h].ours = own[f] /\ job'[h].seen = None
           /\ job'[h].ok = ok /\ job'[h].plan = "none" /\ job'[h].late = FALSE
<1>1. Others(h) /\ job'[h] =
               [NoJob EXCEPT !.folder = f, !.task = task, !.step = step, !.base =
                  base[f], !.ours = own[f], !.ok = ok]
  BY DEF JobTypes, Others
<1>2. ASSUME NEW r, r =
               [NoJob EXCEPT !.folder = f, !.task = task, !.step = step, !.base =
                  base[f], !.ours = own[f], !.ok = ok]
      PROVE  /\ r.step = step /\ r.folder = f /\ r.task = task
             /\ r.base = base[f] /\ r.ours = own[f] /\ r.seen = None
             /\ r.ok = ok /\ r.plan = "none" /\ r.late = FALSE
  BY <1>2, Zenon DEF NoJob
<1>3. QED
  BY <1>1, <1>2, Zenon

LEMMA AsideJob ==
    ASSUME JobTypes, NEW h \in Hands,
           job' = [job EXCEPT ![h] =
               [NoJob EXCEPT !.folder = h, !.task = "sync", !.step = "wait", !.ours =
                  own[h]]]
    PROVE  /\ Others(h)
           /\ job'[h].step = "wait" /\ job'[h].folder = h /\ job'[h].task = "sync"
           /\ job'[h].base = None /\ job'[h].ours = own[h] /\ job'[h].seen = None
           /\ job'[h].ok = TRUE /\ job'[h].plan = "none" /\ job'[h].late = FALSE
<1>1. Others(h) /\ job'[h] =
               [NoJob EXCEPT !.folder = h, !.task = "sync", !.step = "wait", !.ours =
                  own[h]]
  BY DEF JobTypes, Others
<1>2. ASSUME NEW r, r =
               [NoJob EXCEPT !.folder = h, !.task = "sync", !.step = "wait", !.ours =
                  own[h]]
      PROVE  /\ r.step = "wait" /\ r.folder = h /\ r.task = "sync"
             /\ r.base = None /\ r.ours = own[h] /\ r.seen = None
             /\ r.ok = TRUE /\ r.plan = "none" /\ r.late = FALSE
  BY <1>2, Zenon DEF NoJob
<1>3. QED
  BY <1>1, <1>2, Zenon

LEMMA ReturnsJob ==
    ASSUME JobTypes, NEW h \in Hands, NEW f, NEW plan, NEW step, NEW ok,
           job' = [job EXCEPT ![h] =
               [NoJob EXCEPT !.folder = f, !.task = "sweep", !.base = base[f], !.ours
                  = own[f], !.seen = user, !.plan = plan, !.step =
                  step, !.ok = ok]]
    PROVE  /\ Others(h)
           /\ job'[h].step = step /\ job'[h].folder = f /\ job'[h].task = "sweep"
           /\ job'[h].base = base[f] /\ job'[h].ours = own[f] /\ job'[h].seen = user
           /\ job'[h].ok = ok /\ job'[h].plan = plan /\ job'[h].late = FALSE
<1>1. Others(h) /\ job'[h] =
               [NoJob EXCEPT !.folder = f, !.task = "sweep", !.base = base[f], !.ours
                  = own[f], !.seen = user, !.plan = plan, !.step =
                  step, !.ok = ok]
  BY DEF JobTypes, Others
<1>2. ASSUME NEW r, r =
               [NoJob EXCEPT !.folder = f, !.task = "sweep", !.base = base[f], !.ours
                  = own[f], !.seen = user, !.plan = plan, !.step =
                  step, !.ok = ok]
      PROVE  /\ r.step = step /\ r.folder = f /\ r.task = "sweep"
             /\ r.base = base[f] /\ r.ours = own[f] /\ r.seen = user
             /\ r.ok = ok /\ r.plan = plan /\ r.late = FALSE
  BY <1>2, Zenon DEF NoJob
<1>3. QED
  BY <1>1, <1>2, Zenon

-----------------------------------------------------------------------------
(* What a step does *)

Steady == UNCHANGED <<kind, user, own, base, linked, phase, edits, deaths>>

LEMMA BeginsEffect ==
    ASSUME JobTypes, NEW h \in Hands, BeginsMerge(h)
    PROVE  /\ Steady /\ UNCHANGED <<lock, due>> /\ Others(h) /\ Merged /\ job[h].step = "idle"
           /\ h \in Sessions => /\ job'[h].folder = h /\ job'[h].task \in {"resync", "end"}
                                /\ phase[h] = "between"
           /\ h \in Editors => /\ job'[h].folder = h /\ job'[h].task = "sync"
                               /\ phase[h] = "claude"
           /\ h \in Sweepers => /\ job'[h].folder \in Sessions /\ job'[h].task = "sweep"
                                /\ phase[job'[h].folder] = "left"
           /\ LET f == job'[h].folder IN
              /\ job'[h].base = base[f] /\ job'[h].ours = own[f] /\ job'[h].late = FALSE
              /\ job'[h].seen = None
              /\ job'[h].step \in {"wait", "after"} /\ (own[f] = None => job'[h].step = "after")
              /\ job'[h].step = "after" => (job'[h].ok <=> own[f] = None)
<1>1. PICK t \in Tasks(h), step \in {"wait", "after"} :
        /\ own[t[1]] = None => step = "after"
        /\ job' = [job EXCEPT ![h] = [NoJob EXCEPT
               !.folder = t[1], !.task = t[2], !.step = step,
               !.base = base[t[1]], !.ours = own[t[1]],
               !.ok = step = "wait" \/ own[t[1]] = None]]
  BY DEF BeginsMerge
<1> DEFINE f == t[1]
           task == t[2]
           ok == (step = "wait" \/ own[t[1]] = None)
<1>2. job' = [job EXCEPT ![h] =
               [NoJob EXCEPT !.folder = f, !.task = task, !.step = step, !.base =
                  base[f], !.ours = own[f], !.ok = ok]]
  BY <1>1
<1>3. ok = (step = "wait" \/ own[f] = None)
  OBVIOUS
<1>4. /\ h \in Sessions => f = h /\ task \in {"resync", "end"} /\ phase[h] = "between"
      /\ h \in Editors => f = h /\ task = "sync" /\ phase[h] = "claude"
      /\ h \in Sweepers => f \in Sessions /\ task = "sweep" /\ phase[f] = "left"
  BY Apart DEF Tasks
<1>5. own[f] = None => step = "after"
  BY <1>1
<1> HIDE DEF f, task, ok
<1>6. /\ Others(h)
      /\ job'[h].step = step /\ job'[h].folder = f /\ job'[h].task = task
      /\ job'[h].base = base[f] /\ job'[h].ours = own[f] /\ job'[h].seen = None
      /\ job'[h].ok = ok /\ job'[h].plan = "none" /\ job'[h].late = FALSE
  BY <1>2, BeginsJob
<1>7. Steady /\ UNCHANGED <<lock, due>> /\ Merged /\ job[h].step = "idle"
  BY DEF BeginsMerge, Steady, counts
<1>8. QED
  BY <1>3, <1>4, <1>5, <1>6, <1>7

LEMMA FailsJob ==
    ASSUME JobTypes, NEW h \in Hands, Fails(h)
    PROVE  IsOver(h, None, FALSE) /\ Others(h)
  BY OverJob DEF Fails

LEMMA MergeOverJob ==
    ASSUME JobTypes, NEW h \in Hands, NEW seen, MergeOver(h, seen)
    PROVE  IsOver(h, seen, TRUE) /\ Others(h)
  BY OverJob DEF MergeOver

LEMMA ReadsEffect ==
    ASSUME JobTypes, NEW h \in Hands, LocksAndReads(h) \/ Compares(h)
    PROVE  /\ Steady /\ Others(h)
           /\ LocksAndReads(h) => job[h].step = "wait" /\ lock = None /\ Merged
           /\ Compares(h) => job[h].step = "compare"
           /\ \/ /\ IsOver(h, user, TRUE) /\ user # Broken /\ lock' = None
                 /\ Merge(JobBase(h), JobOurs(h), Content(user)) = Content(user)
                 /\ Settled(h, user, due)
              \/ IsOver(h, None, FALSE) /\ lock' = None /\ UNCHANGED due
              \/ /\ Steps(h, "compare") /\ job'[h].seen = user /\ job'[h].late = job[h].late
                 /\ user # Broken /\ lock' = h /\ UNCHANGED due
              \/ /\ Steps(h, "write") /\ job'[h].seen = user /\ job'[h].late = job[h].late
                 /\ Compares(h) /\ job[h].seen = user /\ UNCHANGED <<lock, due>>
<1>1. Steady
  BY DEF LocksAndReads, Compares, Steady, counts, Does
<1>2. /\ LocksAndReads(h) => job[h].step = "wait" /\ lock = None /\ Merged
      /\ Compares(h) => job[h].step = "compare"
  BY DEF LocksAndReads, Compares, Does
<1>3. \/ \E tries : Reads(h, tries)
      \/ Compares(h) /\ user = job[h].seen /\ Goes(h, "write") /\ UNCHANGED <<lock, due>>
      \/ Fails(h) /\ lock' = None /\ UNCHANGED due
  BY DEF LocksAndReads, Compares
<1>4. ASSUME NEW tries, Reads(h, tries)
      PROVE  /\ Others(h)
             /\ \/ /\ IsOver(h, user, TRUE) /\ user # Broken /\ lock' = None
                   /\ Merge(JobBase(h), JobOurs(h), Content(user)) = Content(user)
                   /\ Settled(h, user, due)
                \/ IsOver(h, None, FALSE) /\ lock' = None /\ UNCHANGED due
                \/ /\ Steps(h, "compare") /\ job'[h].seen = user /\ job'[h].late = job[h].late
                   /\ user # Broken /\ lock' = h /\ UNCHANGED due
  <2>1. CASE Fails(h) /\ lock' = None /\ UNCHANGED due
    BY <2>1, FailsJob
  <2>2. CASE /\ MergeOver(h, user) /\ lock' = None /\ Settled(h, user, due) /\ user # Broken
             /\ Merge(JobBase(h), JobOurs(h), Content(user)) = Content(user)
    BY <2>2, MergeOverJob
  <2>3. CASE /\ job' = [job EXCEPT ![h] =
                   [@ EXCEPT !.step = "compare", !.seen = user, !.tries = tries]]
             /\ lock' = h /\ UNCHANGED due /\ user # Broken
    <3>1. /\ Others(h)
          /\ job'[h].step = "compare" /\ job'[h].folder = job[h].folder /\ job'[h].task = job[h].task
          /\ job'[h].base = job[h].base /\ job'[h].ours = job[h].ours /\ job'[h].seen = user
          /\ job'[h].ok = job[h].ok /\ job'[h].plan = job[h].plan /\ job'[h].late = job[h].late
      BY <2>3, ReadsJob
    <3>2. QED
      BY <2>3, <3>1 DEF Steps, Carried
  <2>4. QED
    BY <1>4, <2>1, <2>2, <2>3 DEF Reads
<1>5. CASE Compares(h) /\ user = job[h].seen /\ Goes(h, "write") /\ UNCHANGED <<lock, due>>
  BY <1>1, <1>2, <1>5, GoesJob
<1>6. CASE Fails(h) /\ lock' = None /\ UNCHANGED due
  BY <1>1, <1>2, <1>6, FailsJob
<1>7. QED
  BY <1>1, <1>2, <1>3, <1>4, <1>5, <1>6

LEMMA UnhadEffect ==
    ASSUME JobTypes, NEW h \in Hands, LockNotHad(h)
    PROVE  /\ Steady /\ UNCHANGED <<lock, due>> /\ Others(h) /\ job[h].step = "wait"
           /\ Merged => IsOver(h, None, FALSE)
           /\ ~Merged => /\ job'[h].step = "settle" /\ job'[h].ok = FALSE
                         /\ job'[h].task = job[h].task /\ job'[h].folder = job[h].folder
                         /\ job'[h].ours = job[h].ours
<1>1. Steady /\ UNCHANGED <<lock, due>> /\ job[h].step = "wait"
  BY DEF LockNotHad, Steady, counts, Does
<1>2. CASE Merged
  BY <1>1, <1>2, FailsJob DEF LockNotHad
<1>3. CASE ~Merged
  <2>1. job' = [job EXCEPT ![h] = [@ EXCEPT !.step = "settle", !.ok = FALSE]]
    BY <1>3 DEF LockNotHad
  <2>2. /\ Others(h)
        /\ job'[h].step = "settle" /\ job'[h].folder = job[h].folder /\ job'[h].task = job[h].task
        /\ job'[h].base = job[h].base /\ job'[h].ours = job[h].ours /\ job'[h].seen = job[h].seen
        /\ job'[h].ok = FALSE /\ job'[h].plan = job[h].plan /\ job'[h].late = job[h].late
    BY <2>1, FailedJob
  <2>3. QED
    BY <1>1, <1>3, <2>2
<1>4. QED
  BY <1>2, <1>3

LEMMA MergedEffect ==
    ASSUME JobTypes, NEW h \in Hands, WritesMerged(h) \/ WriteFails(h)
    PROVE  /\ UNCHANGED <<kind, own, base, linked, phase, edits, deaths>> /\ Others(h)
           /\ Merged /\ job[h].step = "write" /\ lock' = (IF lock = h THEN None ELSE lock)
           /\ \/ /\ IsOver(h, job[h].seen, TRUE) /\ user' = Result(h)
                 /\ Settled(h, job[h].seen, Arrives(user'))
              \/ IsOver(h, None, FALSE) /\ UNCHANGED <<user, due>>
<1>1. /\ UNCHANGED <<kind, own, base, linked, phase, edits, deaths>>
      /\ Merged /\ job[h].step = "write" /\ lock' = (IF lock = h THEN None ELSE lock)
  BY DEF WritesMerged, WriteFails, counts, Does
<1>2. CASE WritesMerged(h)
  BY <1>1, <1>2, MergeOverJob DEF WritesMerged
<1>3. CASE WriteFails(h)
  BY <1>1, <1>3, FailsJob DEF WriteFails
<1>4. QED
  BY <1>1, <1>2, <1>3 DEF WritesMerged, WriteFails

LEMMA HandsBackEffect ==
    ASSUME JobTypes, NEW h \in Hands, HandsBack(h)
    PROVE  /\ UNCHANGED <<kind, user, own, linked, lock, edits, deaths, due>> /\ Others(h)
           /\ Merged /\ job[h].step = "after" /\ job[h].task # "sync"
           /\ UNCHANGED base \/ (job[h].ok /\ AdvancesBase(job[h].folder))
           /\ \/ /\ job[h].task = "resync" /\ Ended(h) /\ phase' = [phase EXCEPT ![h] = "claude"]
              \/ /\ job[h].task = "end" /\ Ended(h) /\ phase' = [phase EXCEPT ![h] = "left"]
              \/ /\ job[h].task = "resync" /\ Steps(h, "copy") /\ job[h].ok /\ kind = "settings"
                 /\ AdvancesBase(job[h].folder) /\ UNCHANGED phase
              \/ /\ job[h].task \notin {"resync", "end"} /\ job'[h].step = "clear"
                 /\ job'[h].folder = job[h].folder /\ job'[h].task = job[h].task
                 /\ (job'[h].ok => job[h].ok) /\ UNCHANGED phase
<1>1. /\ UNCHANGED <<kind, user, own, linked, lock, edits, deaths, due>>
      /\ Merged /\ job[h].step = "after" /\ job[h].task # "sync"
  BY DEF HandsBack, counts, Does
<1>2. PICK done \in {job[h].ok, FALSE} :
        /\ IF done THEN AdvancesBase(Folder(h)) ELSE UNCHANGED base
        /\ CASE job[h].task = "resync" ->
                  IF done /\ kind = "settings" THEN Goes(h, "copy") /\ UNCHANGED phase ELSE Launches(h)
             [] job[h].task = "end" -> JobOver(h) /\ phase' = [phase EXCEPT ![h] = "left"]
             [] OTHER -> /\ job' = [job EXCEPT ![h] = [@ EXCEPT !.step = "clear", !.ok = done]]
                         /\ UNCHANGED phase
  BY DEF HandsBack
<1>3. (UNCHANGED base \/ (job[h].ok /\ AdvancesBase(job[h].folder))) /\ (done => job[h].ok)
  BY <1>2 DEF Folder
<1>4. CASE job[h].task = "resync" /\ ~(done /\ kind = "settings")
  BY <1>1, <1>2, <1>3, <1>4, EndedJob DEF Launches
<1>5. CASE job[h].task = "resync" /\ done /\ kind = "settings"
  BY <1>1, <1>2, <1>3, <1>5, GoesJob DEF Folder
<1>6. CASE job[h].task = "end"
  BY <1>1, <1>2, <1>3, <1>6, EndedJob
<1>7. CASE job[h].task \notin {"resync", "end"}
  <2>1. job' = [job EXCEPT ![h] = [@ EXCEPT !.step = "clear", !.ok = done]] /\ UNCHANGED phase
    BY <1>2, <1>7
  <2>2. /\ Others(h)
        /\ job'[h].step = "clear" /\ job'[h].folder = job[h].folder /\ job'[h].task = job[h].task
        /\ job'[h].base = job[h].base /\ job'[h].ours = job[h].ours /\ job'[h].seen = job[h].seen
        /\ job'[h].ok = done /\ job'[h].plan = job[h].plan /\ job'[h].late = job[h].late
    BY <2>1, FailedJob
  <2>3. QED
    BY <1>1, <1>3, <1>7, <2>1, <2>2
<1>8. QED
  BY <1>4, <1>5, <1>6, <1>7

LEMMA CopiesEffect ==
    ASSUME JobTypes, NEW h \in Hands, CopiesUsers(h)
    PROVE  /\ UNCHANGED <<kind, user, base, linked, lock, edits, deaths, due>> /\ Others(h)
           /\ job[h].step = "copy"
           /\ \/ /\ user \notin {None, Broken} /\ own' = [own EXCEPT ![h] = user]
                 /\ Steps(h, "snap") /\ UNCHANGED phase
              \/ Ended(h) /\ phase' = [phase EXCEPT ![h] = "claude"] /\ UNCHANGED own
  BY GoesJob, EndedJob DEF CopiesUsers, Launches, counts, Does

LEMMA SnapsEffect ==
    ASSUME JobTypes, NEW h \in Hands, Snaps(h)
    PROVE  /\ UNCHANGED <<kind, user, own, linked, lock, edits, deaths, due>> /\ Others(h)
           /\ job[h].step = "snap" /\ base' \in {base, [base EXCEPT ![h] = own[h]]}
           /\ Ended(h) /\ phase' = [phase EXCEPT ![h] = "claude"]
  BY EndedJob DEF Snaps, Launches, counts, Does

LEMMA ClearsEffect ==
    ASSUME JobTypes, NEW h \in Hands, Clears(h)
    PROVE  /\ UNCHANGED <<kind, user, lock, edits, deaths>> /\ Ended(h) /\ Others(h)
           /\ job[h].step = "clear"
           /\ LET f == job[h].folder IN
              \/ /\ phase[f] = "left"
                 /\ due' = IF job[h].ok THEN due ELSE [due EXCEPT ![f] = {}]
                 /\ phase' = [phase EXCEPT ![f] = "gone"]
                 /\ own' = [own EXCEPT ![f] = None] /\ base' = [base EXCEPT ![f] = None]
                 /\ linked' = [linked EXCEPT ![f] = FALSE]
              \/ UNCHANGED <<own, base, linked, phase, due>>
  BY EndedJob DEF Clears, counts, Does, Folder

LEMMA LooksEffect ==
    ASSUME JobTypes, NEW h \in Hands, Looks(h)
    PROVE  /\ Steady /\ UNCHANGED lock /\ Others(h)
           /\ Merged /\ job[h].step = "after" /\ job[h].task = "sync"
           /\ \/ /\ job[h].ok /\ user # Broken /\ own[h] = job[h].ours
                 /\ job'[h].step = "put" /\ job'[h].folder = job[h].folder
                 /\ job'[h].task = job[h].task /\ job'[h].ours = job[h].ours
                 /\ job'[h].seen = user /\ job'[h].late = FALSE
                 /\ due' = [due EXCEPT ![h] = IF job[h].late THEN {} ELSE @ \ Settles(h)]
              \/ Ended(h) /\ UNCHANGED due
<1>1. Steady /\ UNCHANGED lock /\ Merged /\ job[h].step = "after" /\ job[h].task = "sync"
  BY DEF Looks, Steady, counts, Does
<1>2. CASE JobOver(h) /\ UNCHANGED due
  BY <1>1, <1>2, EndedJob
<1>3. CASE /\ job[h].ok /\ user # Broken /\ own[h] = job[h].ours
           /\ job' = [job EXCEPT ![h] = [@ EXCEPT
                 !.step = "put", !.base = None, !.seen = user, !.late = FALSE]]
           /\ due' = [due EXCEPT ![h] = IF job[h].late THEN {} ELSE @ \ Settles(h)]
  <2>1. /\ Others(h)
        /\ job'[h].step = "put" /\ job'[h].folder = job[h].folder /\ job'[h].task = job[h].task
        /\ job'[h].base = None /\ job'[h].ours = job[h].ours /\ job'[h].seen = user
        /\ job'[h].ok = job[h].ok /\ job'[h].plan = job[h].plan /\ job'[h].late = FALSE
    BY <1>3, LooksJob
  <2>2. QED
    BY <1>1, <1>3, <2>1
<1>4. QED
  BY <1>2, <1>3 DEF Looks

LEMMA PutsEffect ==
    ASSUME JobTypes, NEW h \in Hands, Puts(h)
    PROVE  /\ UNCHANGED <<kind, user, base, linked, phase, lock, edits, deaths>> /\ Others(h)
           /\ job[h].step = "put"
           /\ \/ /\ own' = [own EXCEPT ![h] = Content(job[h].seen)]
                 /\ job'[h].step = "base" /\ job'[h].folder = job[h].folder
                 /\ job'[h].task = job[h].task /\ job'[h].seen = job[h].seen
                 /\ due' = [due EXCEPT ![h] = IF job[h].late THEN {} ELSE @]
              \/ Ended(h) /\ UNCHANGED <<own, due>>
<1>1. /\ UNCHANGED <<kind, user, base, linked, phase, lock, edits, deaths>>
      /\ job[h].step = "put"
  BY DEF Puts, counts, Does
<1>2. CASE JobOver(h) /\ UNCHANGED <<own, due>>
  BY <1>1, <1>2, EndedJob
<1>3. CASE /\ own' = [own EXCEPT ![h] = Content(job[h].seen)]
           /\ job' = [job EXCEPT ![h] = [@ EXCEPT !.step = "base", !.ours = None, !.late = FALSE]]
           /\ due' = [due EXCEPT ![h] = IF job[h].late THEN {} ELSE @]
  <2>1. /\ Others(h)
        /\ job'[h].step = "base" /\ job'[h].folder = job[h].folder /\ job'[h].task = job[h].task
        /\ job'[h].base = job[h].base /\ job'[h].ours = None /\ job'[h].seen = job[h].seen
        /\ job'[h].ok = job[h].ok /\ job'[h].plan = job[h].plan /\ job'[h].late = FALSE
    BY <1>3, PutsJob
  <2>2. QED
    BY <1>1, <1>3, <2>1
<1>4. QED
  BY <1>2, <1>3 DEF Puts

LEMMA PutsBaseEffect ==
    ASSUME JobTypes, NEW h \in Hands, PutsBase(h)
    PROVE  /\ UNCHANGED <<kind, user, own, linked, phase, lock, edits, deaths, due>>
           /\ job[h].step = "base" /\ Ended(h) /\ Others(h)
           /\ base' \in {base, [base EXCEPT ![h] = Content(job[h].seen)]}
  BY EndedJob DEF PutsBase, counts, Does

\* A file that is linked anew is the user's.
Retaken(f) ==
    /\ own' \in {[own EXCEPT ![f] = user], [own EXCEPT ![f] = None]}
    /\ \E l \in BOOLEAN : linked' = [linked EXCEPT ![f] = l] /\ (l => own' = [own EXCEPT ![f] = user])
    /\ \E b \in Contents \cup {None} : base' = [base EXCEPT ![f] = b]

LEMMA TakesEffect ==
    ASSUME FileTypes, NEW f \in Folders, TakesUsers(f)
    PROVE  Retaken(f)
<1>1. PICK taken \in {user, None} :
        /\ own' = [own EXCEPT ![f] = taken]
        /\ linked' \in {[linked EXCEPT ![f] = l] : l \in IF taken = None THEN {FALSE} ELSE BOOLEAN}
  BY DEF TakesUsers
<1>2. PICK l \in BOOLEAN : linked' = [linked EXCEPT ![f] = l] /\ (taken = None => l = FALSE)
  BY <1>1
<1>3. l => own' = [own EXCEPT ![f] = user]
  BY <1>1, <1>2
<1>4. Content(user) \in Contents /\ base = [base EXCEPT ![f] = base[f]]
      /\ base[f] \in Contents \cup {None}
  BY ContentType DEF FileTypes
<1>5. \E b \in Contents \cup {None} : base' = [base EXCEPT ![f] = b]
  BY <1>4 DEF TakesUsers
<1>6. QED
  BY <1>1, <1>2, <1>3, <1>5 DEF Retaken

LEMMA AsideEffect ==
    ASSUME JobTypes, FileTypes, NEW h \in Hands, MovesAside(h)
    PROVE  /\ UNCHANGED <<kind, user, phase, lock, edits, deaths, due>> /\ Others(h)
           /\ ~Merged /\ job[h].step = "idle" /\ h \in Editors /\ phase[h] = "claude"
           /\ \/ own[h] = None /\ Retaken(h) /\ job' = job
              \/ /\ own[h] # None /\ ~linked[h] /\ own' = [own EXCEPT ![h] = None]
                 /\ UNCHANGED <<base, linked>>
                 /\ job'[h].step = "wait" /\ job'[h].folder = h /\ job'[h].task = "sync"
                 /\ job'[h].ours = own[h] /\ job'[h].ok = TRUE
<1>1. h \in Editors /\ phase[h] = "claude"
  BY Apart DEF MovesAside, Tasks
<1>2. /\ UNCHANGED <<kind, user, phase, lock, edits, deaths, due>>
      /\ ~Merged /\ job[h].step = "idle"
  BY DEF MovesAside, counts
<1>3. CASE own[h] = None
  <2>1. TakesUsers(h) /\ job' = job
    BY <1>3 DEF MovesAside
  <2>2. h \in Folders
    BY <1>1 DEF Folders
  <2>3. Retaken(h) /\ Others(h)
    BY <2>1, <2>2, TakesEffect DEF Others
  <2>4. QED
    BY <1>1, <1>2, <1>3, <2>1, <2>3
<1>4. CASE own[h] # None
  <2>1. /\ ~linked[h] /\ own' = [own EXCEPT ![h] = None] /\ UNCHANGED <<base, linked>>
        /\ job' = [job EXCEPT ![h] =
               [NoJob EXCEPT !.folder = h, !.task = "sync", !.step = "wait", !.ours = own[h]]]
    BY <1>4 DEF MovesAside
  <2>2. /\ Others(h)
        /\ job'[h].step = "wait" /\ job'[h].folder = h /\ job'[h].task = "sync"
        /\ job'[h].base = None /\ job'[h].ours = own[h] /\ job'[h].seen = None
        /\ job'[h].ok = TRUE /\ job'[h].plan = "none" /\ job'[h].late = FALSE
    BY <2>1, AsideJob
  <2>3. QED
    BY <1>1, <1>2, <1>4, <2>1, <2>2
<1>5. QED
  BY <1>3, <1>4

LEMMA PlansEffect ==
    ASSUME JobTypes, NEW h \in Hands, PlansSync(h)
    PROVE  /\ Steady /\ UNCHANGED due /\ Others(h)
           /\ ~Merged /\ job[h].step = "wait" /\ lock = None
           /\ job'[h].folder = job[h].folder /\ job'[h].task = job[h].task
           /\ job'[h].base = base[h] /\ job'[h].ours = job[h].ours /\ job'[h].seen = user
           /\ job'[h].ok = job[h].ok /\ job'[h].late = job[h].late
           /\ job'[h].plan \in Plans(base[h], job[h].ours, user)
           /\ job'[h].step = (IF job'[h].plan = "back" THEN "write" ELSE "settle")
           /\ lock' = (IF job'[h].plan = "back" THEN h ELSE None)
<1>1. Steady /\ UNCHANGED due /\ ~Merged /\ job[h].step = "wait" /\ lock = None
  BY DEF PlansSync, Steady, counts, Does
<1>2. PICK plan \in Plans(base[h], job[h].ours, user) :
        /\ job' = [job EXCEPT ![h] = [@ EXCEPT
                !.step = IF plan = "back" THEN "write" ELSE "settle",
                !.plan = plan, !.base = base[h], !.seen = user]]
        /\ lock' = IF plan = "back" THEN h ELSE None
  BY DEF PlansSync
<1> DEFINE step == IF plan = "back" THEN "write" ELSE "settle"
<1>3. job' = [job EXCEPT ![h] =
            [@ EXCEPT !.step = step, !.plan = plan, !.base = base[h], !.seen = user]]
  BY <1>2
<1>4. step = (IF plan = "back" THEN "write" ELSE "settle")
  OBVIOUS
<1> HIDE DEF step
<1>5. /\ Others(h)
      /\ job'[h].step = step /\ job'[h].folder = job[h].folder /\ job'[h].task = job[h].task
      /\ job'[h].base = base[h] /\ job'[h].ours = job[h].ours /\ job'[h].seen = user
      /\ job'[h].ok = job[h].ok /\ job'[h].plan = plan /\ job'[h].late = job[h].late
  BY <1>3, PlansJob
<1>6. QED
  BY <1>1, <1>2, <1>4, <1>5

LEMMA ReturnsEffect ==
    ASSUME JobTypes, NEW h \in Hands, PlansReturn(h)
    PROVE  /\ Steady /\ UNCHANGED <<lock, due>> /\ Others(h)
           /\ ~Merged /\ job[h].step = "idle" /\ h \in Sweepers
           /\ \E f \in Sessions, plan \in {"none", "back", "aside"} :
              /\ phase[f] = "left"
              /\ plan \in (IF own[f] = None \/ linked[f] THEN {"none"}
                           ELSE Plans(base[f], own[f], user))
              /\ job'[h].step = (IF plan = "back" THEN "write" ELSE "clear")
              /\ job'[h].folder = f /\ job'[h].task = "sweep"
              /\ job'[h].base = base[f] /\ job'[h].ours = own[f] /\ job'[h].seen = user
              /\ job'[h].ok = (plan # "aside") /\ job'[h].plan = plan /\ job'[h].late = FALSE
<1>1. Steady /\ UNCHANGED <<lock, due>> /\ ~Merged /\ job[h].step = "idle"
  BY DEF PlansReturn, Steady, counts
<1>2. PICK f \in Folders : /\ <<f, "sweep">> \in Tasks(h)
        /\ \E plan \in IF own[f] = None \/ linked[f] THEN {"none"} ELSE Plans(base[f], own[f], user) :
            job' = [job EXCEPT ![h] = [NoJob EXCEPT
                !.folder = f, !.task = "sweep", !.base = base[f], !.ours = own[f], !.seen = user,
                !.plan = plan, !.step = IF plan = "back" THEN "write" ELSE "clear",
                !.ok = plan # "aside"]]
  BY DEF PlansReturn
<1>3. PICK plan \in IF own[f] = None \/ linked[f] THEN {"none"} ELSE Plans(base[f], own[f], user) :
            job' = [job EXCEPT ![h] = [NoJob EXCEPT
                !.folder = f, !.task = "sweep", !.base = base[f], !.ours = own[f], !.seen = user,
                !.plan = plan, !.step = IF plan = "back" THEN "write" ELSE "clear",
                !.ok = plan # "aside"]]
  BY <1>2
<1>4. h \in Sweepers /\ f \in Sessions /\ phase[f] = "left"
  BY <1>2, Apart DEF Tasks, Hands, Folders
<1>5. plan \in {"none", "back", "aside"}
  BY DEF Plans, PlanWhole
<1> DEFINE step == IF plan = "back" THEN "write" ELSE "clear"
           ok == plan # "aside"
<1>6. job' = [job EXCEPT ![h] =
               [NoJob EXCEPT !.folder = f, !.task = "sweep", !.base = base[f], !.ours
                  = own[f], !.seen = user, !.plan = plan, !.step =
                  step, !.ok = ok]]
  BY <1>3
<1>7. step = (IF plan = "back" THEN "write" ELSE "clear") /\ ok = (plan # "aside")
  OBVIOUS
<1> HIDE DEF step, ok
<1>8. /\ Others(h)
      /\ job'[h].step = step /\ job'[h].folder = f /\ job'[h].task = "sweep"
      /\ job'[h].base = base[f] /\ job'[h].ours = own[f] /\ job'[h].seen = user
      /\ job'[h].ok = ok /\ job'[h].plan = plan /\ job'[h].late = FALSE
  BY <1>6, ReturnsJob
<1>9. QED
  BY <1>1, <1>4, <1>5, <1>7, <1>8

LEMMA FileEffect ==
    ASSUME JobTypes, NEW h \in Hands, WritesFile(h)
    PROVE  /\ UNCHANGED <<kind, base, phase, edits, deaths>> /\ Others(h)
           /\ ~Merged /\ job[h].step = "write" /\ lock' = (IF lock = h THEN None ELSE lock)
           /\ job'[h].step = AfterFile(h) /\ job'[h].folder = job[h].folder
           /\ job'[h].task = job[h].task /\ Carried(h) /\ job'[h].late = FALSE
           /\ due' = Arrives(user')
           /\ IF kind = "whole" THEN user' = job[h].ours /\ Unlinked /\ UNCHANGED own
              ELSE /\ user' = [Empty EXCEPT !.list = Members(Content(user).list)
                                 \cup MissingLines(job[h].ours, job[h].seen)]
                   /\ InPlace(user')
<1> DEFINE step == AfterFile(h)
<1>1. job' = [job EXCEPT ![h] = [@ EXCEPT !.step = step, !.late = FALSE]]
  BY DEF WritesFile
<1>2. step = AfterFile(h)
  OBVIOUS
<1> HIDE DEF step
<1>3. /\ Others(h)
      /\ job'[h].step = step /\ job'[h].folder = job[h].folder /\ job'[h].task = job[h].task
      /\ job'[h].base = job[h].base /\ job'[h].ours = job[h].ours /\ job'[h].seen = job[h].seen
      /\ job'[h].ok = job[h].ok /\ job'[h].plan = job[h].plan /\ job'[h].late = FALSE
  BY <1>1, WritesJob
<1>4. Carried(h)
  BY <1>3 DEF Carried
<1>5. QED
  BY <1>2, <1>3, <1>4 DEF WritesFile, counts, Does

LEMMA FileFailsEffect ==
    ASSUME JobTypes, NEW h \in Hands, WriteFileFails(h)
    PROVE  /\ Steady /\ UNCHANGED due /\ Others(h)
           /\ ~Merged /\ job[h].step = "write" /\ lock' = (IF lock = h THEN None ELSE lock)
           /\ job'[h].step = AfterFile(h) /\ job'[h].folder = job[h].folder
           /\ job'[h].task = job[h].task /\ job'[h].ok = FALSE
           /\ job'[h].ours = job[h].ours
<1> DEFINE step == AfterFile(h)
<1>1. job' = [job EXCEPT ![h] = [@ EXCEPT !.step = step, !.ok = FALSE]]
  BY DEF WriteFileFails
<1>2. step = AfterFile(h)
  OBVIOUS
<1> HIDE DEF step
<1>3. /\ Others(h)
      /\ job'[h].step = step /\ job'[h].folder = job[h].folder /\ job'[h].task = job[h].task
      /\ job'[h].base = job[h].base /\ job'[h].ours = job[h].ours /\ job'[h].seen = job[h].seen
      /\ job'[h].ok = FALSE /\ job'[h].plan = job[h].plan /\ job'[h].late = job[h].late
  BY <1>1, FailedJob
<1>4. QED
  BY <1>2, <1>3 DEF WriteFileFails, Steady, counts, Does

LEMMA AdoptsEffect ==
    ASSUME JobTypes, FileTypes, NEW h \in Hands, h \in Folders, Adopts(h)
    PROVE  /\ UNCHANGED <<kind, user, phase, lock, edits, deaths>> /\ Ended(h) /\ Others(h)
           /\ job[h].step = "settle" /\ job[h].ok
           /\ due' = (IF job[h].plan = "aside"
                      THEN [due EXCEPT ![h] = @ \ Due(job[h].base, job[h].ours)] ELSE due)
           /\ IF own[h] = None THEN Retaken(h) ELSE UNCHANGED <<own, linked, base>>
<1>1. IF own[h] = None THEN Retaken(h) ELSE UNCHANGED <<own, linked, base>>
  BY TakesEffect DEF Adopts
<1>2. Ended(h) /\ Others(h)
  BY EndedJob DEF Adopts
<1>3. QED
  BY <1>1, <1>2 DEF Adopts, counts, Does

LEMMA PutsBackEffect ==
    ASSUME JobTypes, NEW h \in Hands, PutsBack(h)
    PROVE  /\ UNCHANGED <<kind, user, base, linked, phase, lock, edits, deaths>>
           /\ Ended(h) /\ Others(h)
           /\ job[h].step = "settle" /\ (job[h].ok => job[h].plan = "aside")
           /\ IF own[h] = None
              THEN own' = [own EXCEPT ![h] = job[h].ours] /\ UNCHANGED due
              ELSE due' = [due EXCEPT ![h] = @ \cap Due(base[h], own[h])] /\ UNCHANGED own
<1>1. Ended(h) /\ Others(h)
  BY EndedJob DEF PutsBack
<1>2. QED
  BY <1>1 DEF PutsBack, counts, Does

LEMMA DiesEffect ==
    ASSUME JobTypes, NEW h \in Hands, Dies(h)
    PROVE  /\ UNCHANGED <<kind, user, own, base, linked, lock, edits>> /\ Ended(h) /\ Others(h)
           /\ deaths < MaxDeaths /\ deaths' = deaths + 1
           /\ job[h].step # "idle" \/ (h \in Sessions /\ phase[h] \in {"claude", "between"})
           /\ phase' = (IF h \in Sessions THEN [phase EXCEPT ![h] = "left"] ELSE phase)
           /\ due' = (IF ~Merged /\ job[h].task = "sync" /\ job[h].step # "idle"
                      THEN [due EXCEPT ![h] = @ \cap Due(base[h], own[h])] ELSE due)
<1>1. Ended(h) /\ Others(h)
  BY EndedJob DEF Dies, JobOver
<1>2. QED
  BY <1>1 DEF Dies

LEMMA StartsEffect ==
    ASSUME FileTypes, NEW f \in Folders, Starts(f)
    PROVE  /\ UNCHANGED <<kind, user, job, lock, edits, deaths, due>>
           /\ phase[f] = "gone" /\ phase' = [phase EXCEPT ![f] = "claude"]
           /\ \A h \in Sweepers : job[h].folder # f
           /\ IF Merged
              THEN /\ own' = [own EXCEPT ![f] = IF user \in {None, Broken} THEN None ELSE user]
                   /\ \E b \in Contents \cup {None} : base' = [base EXCEPT ![f] = b]
                   /\ UNCHANGED linked
              ELSE Retaken(f)
<1>1. CASE Merged
  <2>1. own' = [own EXCEPT ![f] = IF user \in {None, Broken} THEN None ELSE user]
        /\ UNCHANGED linked
    BY <1>1 DEF Starts
  <2>2. own'[f] \in Contents \cup {None}
    BY <2>1 DEF FileTypes
  <2>3. Content(own'[f]) \in Contents
    BY <2>2, ContentType
  <2>4. PICK b \in {Content(own'[f]), None} : base' = [base EXCEPT ![f] = b]
    BY <1>1 DEF Starts
  <2>5. QED
    BY <1>1, <2>1, <2>3, <2>4 DEF Starts, counts
<1>2. CASE ~Merged
  BY <1>2, TakesEffect DEF Starts, counts
<1>3. QED
  BY <1>1, <1>2

-----------------------------------------------------------------------------
(* What is done where *)

LEMMA Places ==
    ASSUME IInv, NEW h \in Hands
    PROVE  /\ JobTypes /\ FileTypes /\ job[h] \in Jobs
           /\ job[h].step # "idle" =>
                /\ job[h].folder \in Folders
                /\ h \in Folders => job[h].folder = h
                /\ h \in Sessions => /\ Merged /\ phase[h] = "between"
                                     /\ job[h].task \in {"resync", "end"}
                /\ h \in Editors => phase[h] = "claude" /\ job[h].task = "sync"
                /\ h \in Sweepers => /\ job[h].folder \in Sessions /\ job[h].task = "sweep"
                                     /\ phase[job[h].folder] \in {"left", "gone"}
           /\ job[h].step \in {"copy", "snap"} => h \in Sessions
           /\ job[h].step \in {"put", "base"} => h \in Editors /\ Merged
           /\ job[h].step = "settle" => h \in Editors /\ ~Merged /\ ~linked[h]
           /\ job[h].step = "clear" => h \in Sweepers
           /\ job[h].step \in {"compare", "after"} => Merged
           /\ job[h].step = "wait" /\ ~Merged => h \in Editors /\ ~linked[h]
           /\ job[h].step = "write" /\ ~Merged => h \in Editors \cup Sweepers
<1>1. JobTypes /\ FileTypes /\ job[h] \in Jobs
  BY DEF IInv, JobTypes
<1>2. JobOK(h) /\ h \in Sessions \cup Editors \cup Sweepers
  BY DEF IInv, JobsInv, Hands, Folders
<1>3. CASE job[h].step = "idle"
  BY <1>1, <1>3
<1>4. CASE job[h].step # "idle" /\ h \in Sessions
  BY <1>1, <1>2, <1>4, Apart DEF JobOK, AtWork, SessionAtWork, Folders
<1>5. CASE job[h].step # "idle" /\ h \in Editors
  BY <1>1, <1>2, <1>5, Apart DEF JobOK, AtWork, EditorAtWork, Folders
<1>6. CASE job[h].step # "idle" /\ h \in Sweepers
  BY <1>1, <1>2, <1>6, Apart DEF JobOK, AtWork, SweeperAtWork, Folders
<1>7. QED
  BY <1>2, <1>3, <1>4, <1>5, <1>6

LEMMA AtWrite ==
    ASSUME IInv, NEW h \in Hands, Merged, job[h].step \in {"wait", "compare", "write"}
    PROVE  JobBase(h) \in Contents /\ JobOurs(h) \in Contents /\ Result(h) \in Contents
<1>1. job[h] \in Jobs /\ job[h].ours \in Contents /\ OursOK(h)
  BY Places DEF IInv, OursInv, OursOK
<1>2. job[h].base \in Contents \cup {None} /\ job[h].seen \in Contents \cup {None}
  BY <1>1, JobFields
<1>3. JobBase(h) \in Contents /\ JobOurs(h) \in Contents
  BY <1>1, <1>2, LegacyTypes DEF JobBase, JobOurs
<1>4. Content(job[h].seen) \in Contents
  BY <1>2, ContentType
<1>5. QED
  BY <1>3, <1>4, MergeType DEF Result

\* Jobs with some of their fields changed are jobs.
LEMMA PlacedJob ==
    ASSUME NEW j \in Jobs, NEW f \in Folders \cup {None},
           NEW task \in {"none", "resync", "end", "sweep", "sync"}
    PROVE  [j EXCEPT !.folder = f, !.task = task] \in Jobs
  BY DEF Jobs

LEMMA SteppedJob ==
    ASSUME NEW j \in Jobs, NEW step \in {"wait", "compare", "write", "after", "copy", "snap",
                                         "clear", "put", "base", "settle"}
    PROVE  [j EXCEPT !.step = step] \in Jobs
  BY DEF Jobs

LEMMA FilledJob ==
    ASSUME NEW j \in Jobs, NEW b \in Contents \cup {None}, NEW o \in Contents \cup {None},
           NEW was \in Contents \cup {None}
    PROVE  /\ [j EXCEPT !.base = b, !.ours = o, !.seen = was] \in Jobs
           /\ [j EXCEPT !.base = b, !.ours = o] \in Jobs
           /\ [j EXCEPT !.base = b, !.seen = was] \in Jobs
           /\ [j EXCEPT !.ours = o] \in Jobs
  BY ZenonT(40) DEF Jobs

LEMMA FlaggedJob ==
    ASSUME NEW j \in Jobs, NEW flag \in BOOLEAN, NEW plan \in {"none", "back", "aside"}
    PROVE  /\ [j EXCEPT !.plan = plan] \in Jobs /\ [j EXCEPT !.ok = flag] \in Jobs
           /\ [j EXCEPT !.late = flag] \in Jobs
  BY DEF Jobs

LEMMA AsideType ==
    ASSUME NEW f \in Folders, NEW o \in Contents \cup {None}
    PROVE  [NoJob EXCEPT !.folder = f, !.task = "sync", !.step = "wait", !.ours = o] \in Jobs
<1> DEFINE e1 == [NoJob EXCEPT !.folder = f, !.task = "sync"]
           e2 == [e1 EXCEPT !.step = "wait"]
           e3 == [e2 EXCEPT !.ours = o]
<1>1. e1 \in Jobs
  BY PlacedJob, NoJobType
<1> HIDE DEF e1
<1>2. e2 \in Jobs
  BY <1>1, SteppedJob
<1> HIDE DEF e2
<1>3. e3 \in Jobs
  BY <1>2, FilledJob
<1>4. e3 = [NoJob EXCEPT !.folder = f, !.task = "sync", !.step = "wait", !.ours = o]
  BY DEF e1, e2, e3
<1>5. QED
  BY <1>3, <1>4, Zenon

LEMMA LookedType ==
    ASSUME NEW j \in Jobs, NEW text \in Contents \cup {None}
    PROVE  [j EXCEPT !.step = "put", !.base = None, !.seen = text, !.late = FALSE] \in Jobs
<1> DEFINE e1 == [j EXCEPT !.step = "put"]
           e2 == [e1 EXCEPT !.base = None, !.seen = text]
           e3 == [e2 EXCEPT !.late = FALSE]
<1>1. e1 \in Jobs
  BY SteppedJob
<1> HIDE DEF e1
<1>2. e2 \in Jobs
  BY <1>1, FilledJob
<1> HIDE DEF e2
<1>3. e3 \in Jobs
  BY <1>2, FlaggedJob
<1>4. e3 = [j EXCEPT !.step = "put", !.base = None, !.seen = text, !.late = FALSE]
  BY DEF e1, e2, e3
<1>5. QED
  BY <1>3, <1>4, Zenon

LEMMA NewJobType ==
    ASSUME JobTypes, NEW h \in Hands, NEW j \in Jobs, job' = [job EXCEPT ![h] = j]
    PROVE  JobTypes'
  BY DEF JobTypes

LEMMA EndedType ==
    ASSUME JobTypes, NEW h \in Hands, JobOver(h)
    PROVE  JobTypes'
  BY NoJobType, NewJobType DEF JobOver

LEMMA OverType ==
    ASSUME JobTypes, NEW h \in Hands, NEW seen \in Contents \cup {None}, NEW ok \in BOOLEAN,
           job' = [job EXCEPT ![h] = Over(h, seen, ok)]
    PROVE  JobTypes'
<1>1. job[h] \in Jobs
  BY DEF JobTypes
<1> DEFINE kept == job[h].task = "sync" /\ ok
           b == IF kept THEN job[h].base ELSE None
           o == IF kept THEN job[h].ours ELSE None
           was == IF kept THEN seen ELSE None
           e1 == [NoJob EXCEPT !.folder = Folder(h), !.task = job[h].task]
           e2 == [e1 EXCEPT !.step = "after"]
           e3 == [e2 EXCEPT !.ok = ok]
           e4 == [e3 EXCEPT !.base = b, !.ours = o, !.seen = was]
<1>2. /\ b \in Contents \cup {None} /\ o \in Contents \cup {None} /\ was \in Contents \cup {None}
      /\ Folder(h) \in Folders \cup {None}
      /\ job[h].task \in {"none", "resync", "end", "sweep", "sync"}
  BY <1>1, JobFields, SMTT(30) DEF Folder
<1>3. e1 \in Jobs
  BY <1>2, PlacedJob, NoJobType
<1>4. Over(h, seen, ok) = e4
  BY DEF Over
<1> HIDE DEF e1, b, o, was
<1>5. e2 \in Jobs
  BY <1>3, SteppedJob
<1> HIDE DEF e2
<1>6. e3 \in Jobs
  BY <1>5, FlaggedJob
<1> HIDE DEF e3
<1>7. e4 \in Jobs
  BY <1>2, <1>6, FilledJob
<1>8. QED
  BY <1>4, <1>7, NewJobType, Zenon

LEMMA GoesType ==
    ASSUME JobTypes, NEW h \in Hands, NEW step \in {"wait", "compare", "write", "copy", "snap"},
           Goes(h, step)
    PROVE  JobTypes'
<1>1. job[h] \in Jobs
  BY DEF JobTypes
<1>2. [job[h] EXCEPT !.step = step] \in Jobs
  BY <1>1 DEF Jobs
<1>3. job' = [job EXCEPT ![h] = [job[h] EXCEPT !.step = step]]
  BY DEF Goes
<1>4. QED
  BY <1>2, <1>3, NewJobType

LEMMA LateType ==
    ASSUME JobTypes, Interrupts
    PROVE  JobTypes'
<1>1. ASSUME NEW h \in Hands PROVE job'[h] \in Jobs
  <2>1. job[h] \in Jobs
    BY DEF JobTypes
  <2>2. job'[h] = [job[h] EXCEPT !.late = IF job[h].step = "write" THEN TRUE ELSE @]
    BY DEF Interrupts
  <2>3. (IF job[h].step = "write" THEN TRUE ELSE job[h].late) \in BOOLEAN
    BY <2>1, JobFields
  <2>4. QED
    BY <2>1, <2>2, <2>3, FlaggedJob
<1>2. QED
  BY <1>1 DEF Interrupts, JobTypes

LEMMA ReadType ==
    ASSUME NEW j \in Jobs, NEW n \in 0 .. MaxTries, NEW text \in Contents \cup {None}
    PROVE  [j EXCEPT !.step = "compare", !.seen = text, !.tries = n] \in Jobs
  BY DEF Jobs

LEMMA ReadsType ==
    ASSUME JobTypes, FileTypes, NEW h \in Hands, NEW n \in 1 .. MaxTries, Reads(h, n)
    PROVE  JobTypes'
<1>1. n \in 0 .. MaxTries /\ job[h] \in Jobs
  BY UserFilesAssumption DEF JobTypes
<1>2. user # Broken => user \in Contents \cup {None}
  BY DEF FileTypes
<1>3. CASE Fails(h)
  BY <1>3, OverType DEF Fails
<1>4. CASE user # Broken /\ MergeOver(h, user)
  BY <1>2, <1>4, OverType DEF MergeOver
<1>5. CASE user # Broken /\ job' = [job EXCEPT ![h] =
                [@ EXCEPT !.step = "compare", !.seen = user, !.tries = n]]
  <2>1. [job[h] EXCEPT !.step = "compare", !.seen = user, !.tries = n] \in Jobs
    BY <1>1, <1>2, <1>5, ReadType
  <2>2. QED
    BY <1>5, <2>1, NewJobType
<1>6. QED
  BY <1>3, <1>4, <1>5 DEF Reads

LEMMA BegunType ==
    ASSUME JobTypes, FileTypes, NEW h \in Hands, BeginsMerge(h)
    PROVE  JobTypes'
<1>1. PICK t \in Tasks(h), step \in {"wait", "after"} :
        job' = [job EXCEPT ![h] = [NoJob EXCEPT
               !.folder = t[1], !.task = t[2], !.step = step,
               !.base = base[t[1]], !.ours = own[t[1]],
               !.ok = step = "wait" \/ own[t[1]] = None]]
  BY ZenonT(40) DEF BeginsMerge
<1>2. t[1] \in Folders /\ t[2] \in {"resync", "end", "sweep", "sync"}
  BY DEF Tasks, Folders
<1>3. base[t[1]] \in Contents \cup {None} /\ own[t[1]] \in Contents \cup {None}
  BY <1>2 DEF FileTypes
<1> DEFINE ok == step = "wait" \/ own[t[1]] = None
           e1 == [NoJob EXCEPT !.folder = t[1], !.task = t[2]]
           e2 == [e1 EXCEPT !.step = step]
           e3 == [e2 EXCEPT !.base = base[t[1]], !.ours = own[t[1]]]
           e4 == [e3 EXCEPT !.ok = ok]
<1>4. job' = [job EXCEPT ![h] = e4]
  BY <1>1
<1>5. ok \in BOOLEAN
  OBVIOUS
<1>6. e1 \in Jobs
  BY <1>2, PlacedJob, NoJobType
<1> HIDE DEF e1, ok
<1>7. e2 \in Jobs
  BY <1>6, SteppedJob
<1> HIDE DEF e2
<1>8. e3 \in Jobs
  BY <1>3, <1>7, FilledJob
<1> HIDE DEF e3
<1>9. e4 \in Jobs
  BY <1>5, <1>8, FlaggedJob
<1> HIDE DEF e4
<1>10. QED
  BY <1>4, <1>9, NewJobType

LEMMA ReturnedType ==
    ASSUME JobTypes, FileTypes, user # Broken, NEW h \in Hands, PlansReturn(h)
    PROVE  JobTypes'
<1>1. PICK f \in Folders, plan \in {"none", "back", "aside"} :
        job' = [job EXCEPT ![h] = [NoJob EXCEPT
                !.folder = f, !.task = "sweep", !.base = base[f], !.ours = own[f], !.seen = user,
                !.plan = plan, !.step = IF plan = "back" THEN "write" ELSE "clear",
                !.ok = plan # "aside"]]
  BY ZenonT(40) DEF PlansReturn, Plans, PlanWhole
<1>2. /\ base[f] \in Contents \cup {None} /\ own[f] \in Contents \cup {None}
      /\ user \in Contents \cup {None}
  BY DEF FileTypes
<1> DEFINE ok == plan # "aside"
           step == IF plan = "back" THEN "write" ELSE "clear"
           e1 == [NoJob EXCEPT !.folder = f, !.task = "sweep"]
           e2 == [e1 EXCEPT !.base = base[f], !.ours = own[f], !.seen = user]
           e3 == [e2 EXCEPT !.plan = plan]
           e4 == [e3 EXCEPT !.step = step]
           e5 == [e4 EXCEPT !.ok = ok]
<1>3. job' = [job EXCEPT ![h] = e5]
  BY <1>1
<1>4. ok \in BOOLEAN /\ step \in {"write", "clear"}
  OBVIOUS
<1>5. e1 \in Jobs
  BY PlacedJob, NoJobType
<1> HIDE DEF e1, ok, step
<1>6. e2 \in Jobs
  BY <1>2, <1>5, FilledJob
<1> HIDE DEF e2
<1>7. e3 \in Jobs
  BY <1>6, FlaggedJob
<1> HIDE DEF e3
<1>8. e4 \in Jobs
  BY <1>4, <1>7, SteppedJob
<1> HIDE DEF e4
<1>9. e5 \in Jobs
  BY <1>4, <1>8, FlaggedJob
<1> HIDE DEF e5
<1>10. QED
  BY <1>3, <1>9, NewJobType

LEMMA SettledType ==
    ASSUME NEW h \in Hands, NEW text, NEW arrived \in [Folders -> SUBSET AllChanges],
           Settled(h, text, arrived)
    PROVE  due' \in [Folders -> SUBSET AllChanges]
<1>1. \/ due' = arrived
      \/ due' = [arrived EXCEPT ![Folder(h)] = @ \ Given(h, text)]
  BY DEF Settled
<1>2. QED
  BY <1>1

LEMMA ArrivesType ==
    ASSUME FileTypes, NEW text
    PROVE  Arrives(text) \in [Folders -> SUBSET AllChanges]
  BY DEF Arrives, FileTypes

LEMMA RetakenType ==
    ASSUME FileTypes, user # Broken, NEW f \in Folders, Retaken(f)
    PROVE  /\ own' \in [Folders -> Contents \cup {None}]
           /\ base' \in [Folders -> Contents \cup {None}]
           /\ linked' \in [Folders -> BOOLEAN]
  BY DEF Retaken, FileTypes

\* A file that is a link, or is taken whole, is one that can be read.
LEMMA ReadableFile ==
    ASSUME IInv, ~Merged
    PROVE  /\ user # Broken /\ user \in Contents \cup {None}
           /\ \A f \in Folders : own[f] \in Writable \cup {None}
  BY WritableIsContent, Atoms DEF IInv, LinksInv

LEMMA ArrivesSpares ==
    ASSUME NEW text, NEW f \in Folders
    PROVE  /\ Arrives(text)[f] \subseteq due[f]
           /\ text # Broken => \A c \in Arrives(text)[f] : ~Shows(Content(text), c)
<1>1. Arrives(text)[f] = (IF text = Broken THEN due[f] ELSE {c \in due[f] : ~Shows(Content(text), c)})
  BY DEF Arrives
<1>2. QED
  BY <1>1

LEMMA SettledSpares ==
    ASSUME NEW h \in Hands, NEW text, NEW arrived \in [Folders -> SUBSET AllChanges],
           Settled(h, text, arrived), NEW f \in Folders
    PROVE  due'[f] \subseteq arrived[f]
<1>1. \/ due' = arrived
      \/ due' = [arrived EXCEPT ![Folder(h)] = @ \ Given(h, text)]
  BY DEF Settled
<1>2. QED
  BY <1>1

\* Nothing more is due of a folder, and what is in it stays, unless nothing of
\* it is due any more.
Still(d) ==
    /\ due'[d] \subseteq due[d]
    /\ \/ due'[d] = {}
       \/ base'[d] = base[d] /\ (linked[d] \/ (own'[d] = own[d] /\ ~linked'[d]))

EditorStill(g) ==
    base'[g] = base[g] /\ ((own'[g] = own[g] /\ due'[g] \subseteq due[g]) \/ ClaudeWrites(g))

LEMMA KindKept ==
    ASSUME [Next]_vars
    PROVE  kind' = kind /\ Merged' = Merged /\ Writable' = Writable
<1>1. UserEdits \/ UserBreaks \/ LockAges => kind' = kind
  BY DEF UserEdits, UserBreaks, LockAges
<1>2. ASSUME NEW f \in Folders, FolderStep(f) PROVE kind' = kind
  BY <1>2 DEF FolderStep, Starts, Exits, Relaunches, ClaudeWrites
<1>3. ASSUME NEW h \in Hands, HandStep(h) PROVE kind' = kind
  <2>1. CASE BeginsMerge(h) \/ MovesAside(h) \/ PlansReturn(h) \/ Dies(h)
    BY <2>1 DEF BeginsMerge, MovesAside, PlansReturn, Dies
  <2>2. CASE \/ LocksAndReads(h) \/ LockNotHad(h) \/ Compares(h) \/ WritesMerged(h)
             \/ WriteFails(h) \/ HandsBack(h) \/ CopiesUsers(h) \/ Snaps(h) \/ Clears(h)
    BY <2>2 DEF LocksAndReads, LockNotHad, Compares, WritesMerged, WriteFails, HandsBack,
                CopiesUsers, Snaps, Clears, Does
  <2>3. CASE \/ Looks(h) \/ Puts(h) \/ PutsBase(h) \/ PlansSync(h) \/ WritesFile(h)
             \/ WriteFileFails(h) \/ Adopts(h) \/ PutsBack(h)
    BY <2>3 DEF Looks, Puts, PutsBase, PlansSync, WritesFile, WriteFileFails, Adopts,
       PutsBack,
                Does
  <2>4. QED
    BY <1>3, <2>1, <2>2, <2>3 DEF HandStep
<1>4. kind' = kind
  BY <1>1, <1>2, <1>3 DEF Next, vars
<1>5. QED
  BY <1>4 DEF Merged, Writable

-----------------------------------------------------------------------------
(* What is handed back arrives *)

LEMMA MergeArrives ==
    ASSUME IInv, NEW h \in Hands, Merged, job[h].step \in {"wait", "compare", "write"},
           NEW text \in Contents \cup {None, Broken},
           NEW c \in Due(job[h].base, job[h].ours), c \notin Given(h, text)
    PROVE  Shows(Merge(JobBase(h), JobOurs(h), Content(text)), c)
<1>1. JobBase(h) \in Contents /\ JobOurs(h) \in Contents
  BY AtWrite
<1>2. Content(text) \in Contents
  BY ContentType
<1>3. c \in Changes(JobBase(h), JobOurs(h))
  BY DEF Due, Merged, JobBase, JobOurs
<1>4. QED
  BY <1>1, <1>2, <1>3, MergeCarries DEF Given

\* Lines are all that is due of lines.
LEMMA DueLines ==
    ASSUME kind = "lines", NEW b, NEW o \in Writable, NEW c \in Due(b, o), NEW t,
           Members(o.list) \subseteq Members(t.list)
    PROVE  Shows(t, c)
<1>1. PICK it \in SUBSET Items : o = [Empty EXCEPT !.list = it]
  BY DEF Writable, Merged
<1>2. o.value = Empty.value /\ Members(Empty.list) = {} /\ o # None
  BY <1>1, UserFilesAssumption, WritableIsContent DEF Empty, Members
<1>3. c \in {"add"} \X Members(o.list)
  BY <1>2 DEF Due, Changes
<1>4. QED
  BY <1>3 DEF Shows

\* What a plan to hand nothing back leaves, the user's file shows.
LEMMA NothingToHandBack ==
    ASSUME IInv, ~Merged, NEW b \in Contents \cup {None}, NEW o \in Writable,
           "none" \in Plans(b, o, user), NEW c \in Due(b, o)
    PROVE  Shows(Content(user), c)
<1>1. /\ kind \in {"whole", "lines"} /\ o \in Contents /\ o # None
      /\ user # Broken /\ user \in Contents \cup {None}
  BY UserFilesAssumption, WritableIsContent, Atoms, ReadableFile DEF IInv, FileTypes, Merged
<1>2. CASE kind = "lines"
  <2>1. Members(o.list) \subseteq Members(Content(user).list)
    BY <1>2 DEF Plans, MissingLines
  <2>2. QED
    BY <1>2, <2>1, DueLines
<1>3. CASE kind = "whole"
  <2>1. o = user \/ o = b
    BY <1>1, <1>3 DEF Plans, PlanWhole
  <2>2. c \in Changes(LegacyBase(b), o) /\ LegacyBase(b) \in Contents
    BY <1>1, <1>3, LegacyTypes DEF Due
  <2>3. o # b
    BY <1>1, <2>2, ShowsOwn, Atoms DEF LegacyBase
  <2>4. QED
    BY <1>1, <2>1, <2>2, <2>3, ShowsOwn, Atoms DEF Content
<1>4. QED
  BY <1>1, <1>2, <1>3

\* What is written of a file shows all of it that was due.
LEMMA FileArrives ==
    ASSUME IInv, NEW h \in Hands, WritesFile(h), NEW b \in Contents \cup {None},
           NEW c \in Due(b, job[h].ours)
    PROVE  Shows(Content(user'), c)
<1>1. /\ ~Merged /\ job[h].step = "write"
      /\ IF kind = "whole" THEN user' = job[h].ours
         ELSE user' = [Empty EXCEPT !.list = Members(Content(user).list)
                          \cup MissingLines(job[h].ours, job[h].seen)]
  BY FileEffect DEF IInv
<1>2. /\ job[h].ours \in Contents /\ job[h].ours \in Writable
      /\ kind = "lines" =>
           Members(Content(job[h].seen).list) \subseteq Members(Content(user).list)
  BY <1>1 DEF IInv, OursInv, OursOK
<1>3. kind \in {"whole", "lines"}
  BY <1>1, UserFilesAssumption DEF IInv, FileTypes, Merged
<1>4. CASE kind = "whole"
  <2>1. c \in Changes(LegacyBase(b), job[h].ours) /\ LegacyBase(b) \in Contents
    BY <1>2, <1>4, LegacyTypes, Atoms DEF Due
  <2>2. QED
    BY <1>1, <1>2, <1>4, <2>1, ShowsOwn, Atoms DEF Content
<1>5. CASE kind = "lines"
  <2>1. Content(user) \in Contents
    BY ContentType DEF IInv, FileTypes
  <2>2. Members(Content(user).list) \cup MissingLines(job[h].ours, job[h].seen) \subseteq Items
    BY <1>2, <2>1 DEF Members, MissingLines, Contents
  <2>3. /\ user' \in Contents
        /\ user'.list = Members(Content(user).list) \cup MissingLines(job[h].ours, job[h].seen)
        /\ user'.list # Absent
    BY <1>1, <1>5, <2>2, UserFilesAssumption DEF Empty, Contents
  <2>4. Content(user') = user' /\ Members(user'.list) = user'.list
    BY <2>3, Atoms DEF Content, Members
  <2>5. Members(job[h].ours.list) \subseteq Members(user'.list)
    BY <1>2, <1>5, <2>3, <2>4 DEF MissingLines
  <2>6. QED
    BY <1>2, <1>5, <2>4, <2>5, DueLines
<1>6. QED
  BY <1>3, <1>4, <1>5

\* What is due of a session's folder is what it has changed.
LEMMA SessionDue ==
    ASSUME IInv, NEW d \in Sessions
    PROVE  due[d] \subseteq Due(base[d], own[d])
<1>1. d \in Hands /\ d \in Folders /\ job[d].task # "sync"
  BY Apart DEF IInv, JobsInv, JobOK, AtWork, SessionAtWork, Hands, Folders
<1>2. QED
  BY <1>1 DEF IInv, StillDue

\* A file shows what it was changed to.
LEMMA DueShown ==
    ASSUME IInv, ~Merged, NEW b \in Contents \cup {None}, NEW o \in Contents, NEW c \in Due(b, o)
    PROVE  Shows(Content(o), c)
<1>1. LegacyBase(b) \in Contents /\ Empty \in Contents /\ Content(o) = o
  BY LegacyTypes, Atoms DEF Content
<1>2. c \in Changes(LegacyBase(b), o) \/ c \in Changes(Empty, o)
  BY UserFilesAssumption DEF Due, IInv, FileTypes, Merged
<1>3. QED
  BY <1>1, <1>2, ShowsOwn

\* What is written of a file is a file.
LEMMA FileWritten ==
    ASSUME IInv, NEW h \in Hands, WritesFile(h)
    PROVE  user' \in Contents
<1>1. /\ ~Merged /\ job[h].step = "write"
      /\ IF kind = "whole" THEN user' = job[h].ours
         ELSE user' = [Empty EXCEPT !.list = Members(Content(user).list)
                          \cup MissingLines(job[h].ours, job[h].seen)]
  BY FileEffect DEF IInv
<1>2. job[h].ours \in Contents /\ Content(user) \in Contents
  BY <1>1, ContentType DEF IInv, OursInv, OursOK, FileTypes
<1>3. Members(Content(user).list) \cup MissingLines(job[h].ours, job[h].seen) \subseteq Items
  BY <1>2 DEF Members, MissingLines, Contents
<1>4. QED
  BY <1>1, <1>2, <1>3 DEF Empty, Contents

\* What each hand is doing, by where it has got to.
LEMMA JobsKept == IInv /\ [Next]_vars => JobsInv'
<1> SUFFICES ASSUME IInv, [Next]_vars, NEW g \in Hands PROVE JobOK(g)'
  BY DEF JobsInv
<1> USE DEF Folders, Hands, Merged, FileTypes, Retaken, Same, Carried, Others,
        Ended, IsOver, Steps, Steady
<1>0. JobTypes /\ FileTypes /\ JobOK(g) /\ job[g] \in Jobs
  BY Places DEF IInv, JobsInv
<1>1. CASE UserEdits
  BY <1>1, LateJob, <1>0, Apart DEF UserEdits, Edits, InPlace, Unlinked, JobOK, AtWork,
     SessionAtWork, EditorAtWork, SweeperAtWork
<1>2. CASE UserBreaks
  BY <1>2, LateJob, <1>0, Apart DEF UserBreaks, Edits, Unlinked, JobOK, AtWork,
     SessionAtWork, EditorAtWork, SweeperAtWork
<1>3. CASE LockAges
  BY <1>3, <1>0, Apart DEF LockAges, counts, JobOK, AtWork, SessionAtWork, EditorAtWork,
     SweeperAtWork
<1>4. ASSUME NEW f \in Folders, Starts(f) PROVE JobOK(g)'
  BY <1>4, StartsEffect, <1>0, Apart DEF JobOK, AtWork, SessionAtWork, EditorAtWork,
     SweeperAtWork
<1>5. ASSUME NEW f \in Folders, Exits(f) PROVE JobOK(g)'
  BY <1>5, <1>0, Apart DEF Exits, counts, JobOK, AtWork, SessionAtWork, EditorAtWork,
     SweeperAtWork
<1>6. ASSUME NEW f \in Folders, Relaunches(f) PROVE JobOK(g)'
  BY <1>6, <1>0, Apart DEF Relaunches, counts, JobOK, AtWork, SessionAtWork,
     EditorAtWork, SweeperAtWork
<1>7. ASSUME NEW f \in Folders, ClaudeWrites(f) PROVE JobOK(g)'
  BY <1>7, ClaudeJob, <1>0, Apart DEF ClaudeWrites, Edits, InPlace, JobOK, AtWork,
     SessionAtWork, EditorAtWork, SweeperAtWork
<1>8. ASSUME NEW h \in Hands, BeginsMerge(h) PROVE JobOK(g)'
  <2>1. UNCHANGED <<kind, phase, linked>> /\ Others(h) /\ Merged
    BY <1>8, <1>0, BeginsEffect
  <2>2. /\ h \in Sessions => /\ job'[h].folder = h /\ job'[h].task \in {"resync", "end"}
                           /\ phase[h] = "between"
        /\ h \in Editors => /\ job'[h].folder = h /\ job'[h].task = "sync"
                           /\ phase[h] = "claude"
        /\ h \in Sweepers => /\ job'[h].folder \in Sessions /\ job'[h].task = "sweep"
                           /\ phase[job'[h].folder] = "left"
        /\ job'[h].step \in {"wait", "after"}
    BY <1>8, <1>0, BeginsEffect
  <2>3. CASE g # h
    BY <2>1, <2>2, <2>3, <1>0, Apart DEF JobOK, AtWork, SessionAtWork, EditorAtWork,
       SweeperAtWork
  <2>4. CASE g = h
    BY <2>1, <2>2, <2>4, <1>0, Apart DEF JobOK, AtWork, SessionAtWork, EditorAtWork,
       SweeperAtWork
  <2>5. QED
    BY <2>3, <2>4
<1>9. ASSUME NEW h \in Hands, LocksAndReads(h) PROVE JobOK(g)'
  <2>1. UNCHANGED <<kind, phase, linked>> /\ Others(h) /\ job[h].step = "wait"
    BY <1>9, <1>0, ReadsEffect
  <2>2. job'[h].folder = job[h].folder /\ job'[h].task = job[h].task
        /\ job'[h].step \in {"after", "compare", "write"}
    BY <1>9, <1>0, ReadsEffect
  <2>3. Merged
    BY <1>9, <1>0, ReadsEffect, Places
  <2>4. CASE g # h
    BY <2>1, <2>2, <2>3, <2>4, <1>0, Apart DEF JobOK, AtWork, SessionAtWork, EditorAtWork,
       SweeperAtWork
  <2>5. CASE g = h
    BY <2>1, <2>2, <2>3, <2>5, <1>0, Apart DEF JobOK, AtWork, SessionAtWork, EditorAtWork,
       SweeperAtWork
  <2>6. QED
    BY <2>4, <2>5
<1>10. ASSUME NEW h \in Hands, Compares(h) PROVE JobOK(g)'
  <2>1. UNCHANGED <<kind, phase, linked>> /\ Others(h) /\ job[h].step = "compare"
    BY <1>10, <1>0, ReadsEffect
  <2>2. job'[h].folder = job[h].folder /\ job'[h].task = job[h].task
        /\ job'[h].step \in {"after", "compare", "write"}
    BY <1>10, <1>0, ReadsEffect
  <2>3. Merged
    BY <1>10, <1>0, ReadsEffect, Places
  <2>4. CASE g # h
    BY <2>1, <2>2, <2>3, <2>4, <1>0, Apart DEF JobOK, AtWork, SessionAtWork, EditorAtWork,
       SweeperAtWork
  <2>5. CASE g = h
    BY <2>1, <2>2, <2>3, <2>5, <1>0, Apart DEF JobOK, AtWork, SessionAtWork, EditorAtWork,
       SweeperAtWork
  <2>6. QED
    BY <2>4, <2>5
<1>11. ASSUME NEW h \in Hands, LockNotHad(h) PROVE JobOK(g)'
  <2>1. UNCHANGED <<kind, phase, linked>> /\ Others(h) /\ job[h].step = "wait"
    BY <1>11, <1>0, UnhadEffect
  <2>2. job'[h].folder = job[h].folder /\ job'[h].task = job[h].task
        /\ job'[h].step = (IF Merged THEN "after" ELSE "settle")
    BY <1>11, <1>0, UnhadEffect
  <2>3. CASE g # h
    BY <2>1, <2>2, <2>3, <1>0, Apart DEF JobOK, AtWork, SessionAtWork, EditorAtWork,
       SweeperAtWork
  <2>4. CASE g = h
    BY <2>1, <2>2, <2>4, <1>0, Apart DEF JobOK, AtWork, SessionAtWork, EditorAtWork,
       SweeperAtWork
  <2>5. QED
    BY <2>3, <2>4
<1>12. ASSUME NEW h \in Hands, WritesMerged(h) \/ WriteFails(h) PROVE JobOK(g)'
  <2>1. UNCHANGED <<kind, phase, linked>> /\ Others(h) /\ job[h].step = "write" /\ Merged
    BY <1>12, <1>0, MergedEffect
  <2>2. job'[h].folder = job[h].folder /\ job'[h].task = job[h].task /\ job'[h].step = "after"
    BY <1>12, <1>0, MergedEffect
  <2>3. CASE g # h
    BY <2>1, <2>2, <2>3, <1>0, Apart DEF JobOK, AtWork, SessionAtWork, EditorAtWork,
       SweeperAtWork
  <2>4. CASE g = h
    BY <2>1, <2>2, <2>4, <1>0, Apart DEF JobOK, AtWork, SessionAtWork, EditorAtWork,
       SweeperAtWork
  <2>5. QED
    BY <2>3, <2>4
<1>13. ASSUME NEW h \in Hands, HandsBack(h) PROVE JobOK(g)'
  <2>1. job[h].task \in {"resync", "end"} => h \in Sessions /\ phase[h] = "between"
    BY <1>13, <1>0, Places, HandsBackEffect
  <2>2. UNCHANGED <<kind, linked>> /\ Others(h) /\ Merged /\ job[h].step = "after"
    BY <1>13, <1>0, HandsBackEffect
  <2>3. \/ job[h].task = "resync" /\ Ended(h) /\ phase' = [phase EXCEPT ![h] = "claude"]
        \/ job[h].task = "end" /\ Ended(h) /\ phase' = [phase EXCEPT ![h] = "left"]
        \/ job[h].task = "resync" /\ Steps(h, "copy") /\ UNCHANGED phase
        \/ /\ job[h].task \notin {"resync", "end", "sync"} /\ job'[h].step = "clear" /\ UNCHANGED phase
           /\ job'[h].folder = job[h].folder /\ job'[h].task = job[h].task
    BY <1>13, <1>0, HandsBackEffect
  <2>4. CASE g # h
    BY <2>1, <2>2, <2>3, <2>4, <1>0, Apart DEF JobOK, AtWork, SessionAtWork, EditorAtWork,
       SweeperAtWork
  <2>5. CASE g = h
    BY <2>1, <2>2, <2>3, <2>5, <1>0, Apart DEF JobOK, AtWork, SessionAtWork, EditorAtWork,
       SweeperAtWork
  <2>6. QED
    BY <2>4, <2>5
<1>14. ASSUME NEW h \in Hands, CopiesUsers(h) PROVE JobOK(g)'
  <2>1. h \in Sessions /\ phase[h] = "between"
    BY <1>14, <1>0, Places, CopiesEffect
  <2>2. UNCHANGED <<kind, linked>> /\ Others(h) /\ job[h].step = "copy"
    BY <1>14, <1>0, CopiesEffect
  <2>3. \/ Ended(h) /\ phase' = [phase EXCEPT ![h] = "claude"]
        \/ Steps(h, "snap") /\ UNCHANGED phase
    BY <1>14, <1>0, CopiesEffect
  <2>4. CASE g # h
    BY <2>1, <2>2, <2>3, <2>4, <1>0, Apart DEF JobOK, AtWork, SessionAtWork, EditorAtWork,
       SweeperAtWork
  <2>5. CASE g = h
    BY <2>1, <2>2, <2>3, <2>5, <1>0, Apart DEF JobOK, AtWork, SessionAtWork, EditorAtWork,
       SweeperAtWork
  <2>6. QED
    BY <2>4, <2>5
<1>15. ASSUME NEW h \in Hands, Snaps(h) PROVE JobOK(g)'
  <2>1. h \in Sessions /\ phase[h] = "between"
    BY <1>15, <1>0, Places, SnapsEffect
  <2>2. UNCHANGED <<kind, linked>> /\ Others(h) /\ job[h].step = "snap"
    BY <1>15, <1>0, SnapsEffect
  <2>3. Ended(h) /\ phase' = [phase EXCEPT ![h] = "claude"]
    BY <1>15, <1>0, SnapsEffect
  <2>4. CASE g # h
    BY <2>1, <2>2, <2>3, <2>4, <1>0, Apart DEF JobOK, AtWork, SessionAtWork, EditorAtWork,
       SweeperAtWork
  <2>5. CASE g = h
    BY <2>1, <2>2, <2>3, <2>5, <1>0, Apart DEF JobOK, AtWork, SessionAtWork, EditorAtWork,
       SweeperAtWork
  <2>6. QED
    BY <2>4, <2>5
<1>16. ASSUME NEW h \in Hands, Clears(h) PROVE JobOK(g)'
  BY <1>16, ClearsEffect, <1>0, Apart DEF JobOK, AtWork, SessionAtWork, EditorAtWork,
     SweeperAtWork
<1>17. ASSUME NEW h \in Hands, Looks(h) PROVE JobOK(g)'
  <2>1. UNCHANGED <<kind, phase, linked>> /\ Others(h) /\ job[h].step = "after"
        /\ job[h].task = "sync" /\ Merged
    BY <1>17, <1>0, LooksEffect
  <2>2. Ended(h) \/ (job'[h].step = "put" /\ job'[h].folder = job[h].folder /\ job'[h].task = job[h].task)
    BY <1>17, <1>0, LooksEffect
  <2>3. CASE g # h
    BY <2>1, <2>2, <2>3, <1>0, Apart DEF JobOK, AtWork, SessionAtWork, EditorAtWork,
       SweeperAtWork
  <2>4. CASE g = h
    BY <2>1, <2>2, <2>4, <1>0, Apart DEF JobOK, AtWork, SessionAtWork, EditorAtWork,
       SweeperAtWork
  <2>5. QED
    BY <2>3, <2>4
<1>18. ASSUME NEW h \in Hands, Puts(h) PROVE JobOK(g)'
  BY <1>18, PutsEffect, <1>0, Apart DEF JobOK, AtWork, SessionAtWork, EditorAtWork,
     SweeperAtWork
<1>19. ASSUME NEW h \in Hands, PutsBase(h) PROVE JobOK(g)'
  BY <1>19, PutsBaseEffect, <1>0, Apart DEF JobOK, AtWork, SessionAtWork, EditorAtWork,
     SweeperAtWork
<1>20. ASSUME NEW h \in Hands, MovesAside(h) PROVE JobOK(g)'
  <2>1. UNCHANGED <<kind, phase>> /\ Others(h) /\ ~Merged /\ job[h].step = "idle"
        /\ h \in Editors /\ phase[h] = "claude"
    BY <1>20, <1>0, AsideEffect
  <2>2. \/ Retaken(h) /\ job' = job
        \/ /\ ~linked[h] /\ UNCHANGED linked
           /\ job'[h].step = "wait" /\ job'[h].folder = h /\ job'[h].task = "sync"
    BY <1>20, <1>0, AsideEffect
  <2>3. CASE g # h
    BY <2>1, <2>2, <2>3, <1>0, Apart DEF JobOK, AtWork, SessionAtWork, EditorAtWork,
       SweeperAtWork
  <2>4. CASE g = h
    BY <2>1, <2>2, <2>4, <1>0, Apart DEF JobOK, AtWork, SessionAtWork, EditorAtWork,
       SweeperAtWork
  <2>5. QED
    BY <2>3, <2>4
<1>21. ASSUME NEW h \in Hands, PlansSync(h) PROVE JobOK(g)'
  BY <1>21, PlansEffect, <1>0, Apart DEF JobOK, AtWork, SessionAtWork, EditorAtWork,
     SweeperAtWork
<1>22. ASSUME NEW h \in Hands, PlansReturn(h) PROVE JobOK(g)'
  <2>1. UNCHANGED <<kind, phase, linked>> /\ Others(h) /\ ~Merged /\ h \in Sweepers
    BY <1>22, <1>0, ReturnsEffect
  <2>2. job'[h].folder \in Sessions /\ phase[job'[h].folder] = "left" /\ job'[h].task = "sweep"
        /\ job'[h].step \in {"write", "clear"}
    BY <1>22, <1>0, ReturnsEffect
  <2>3. CASE g # h
    BY <2>1, <2>2, <2>3, <1>0, Apart DEF JobOK, AtWork, SessionAtWork, EditorAtWork,
       SweeperAtWork
  <2>4. CASE g = h
    BY <2>1, <2>2, <2>4, <1>0, Apart DEF JobOK, AtWork, SessionAtWork, EditorAtWork,
       SweeperAtWork
  <2>5. QED
    BY <2>3, <2>4
<1>23. ASSUME NEW h \in Hands, WritesFile(h) PROVE JobOK(g)'
  <2>1. UNCHANGED <<kind, phase>> /\ Others(h) /\ ~Merged /\ job[h].step = "write"
    BY <1>23, <1>0, FileEffect
  <2>2. job'[h].folder = job[h].folder /\ job'[h].task = job[h].task
        /\ job'[h].step = AfterFile(h)
    BY <1>23, <1>0, FileEffect
  <2>3. \A f \in Folders : linked'[f] => linked[f]
    BY <1>23, <1>0, FileEffect DEF Unlinked, InPlace
  <2>4. AfterFile(h) = (IF h \in Editors THEN "settle" ELSE "clear")
    BY <2>1, <1>0, Places, Apart DEF AfterFile
  <2>5. CASE g # h
    BY <2>1, <2>2, <2>3, <2>4, <2>5, <1>0, Apart DEF JobOK, AtWork, SessionAtWork,
       EditorAtWork, SweeperAtWork
  <2>6. CASE g = h
    BY <2>1, <2>2, <2>3, <2>4, <2>6, <1>0, Apart DEF JobOK, AtWork, SessionAtWork,
       EditorAtWork, SweeperAtWork
  <2>7. QED
    BY <2>5, <2>6
<1>24. ASSUME NEW h \in Hands, WriteFileFails(h) PROVE JobOK(g)'
  <2>1. UNCHANGED <<kind, phase, linked>> /\ Others(h) /\ ~Merged /\ job[h].step = "write"
    BY <1>24, <1>0, FileFailsEffect
  <2>2. job'[h].folder = job[h].folder /\ job'[h].task = job[h].task
        /\ job'[h].step = AfterFile(h)
    BY <1>24, <1>0, FileFailsEffect
  <2>3. AfterFile(h) = (IF h \in Editors THEN "settle" ELSE "clear")
    BY <2>1, <1>0, Places, Apart DEF AfterFile
  <2>4. CASE g # h
    BY <2>1, <2>2, <2>3, <2>4, <1>0, Apart DEF JobOK, AtWork, SessionAtWork, EditorAtWork,
       SweeperAtWork
  <2>5. CASE g = h
    BY <2>1, <2>2, <2>3, <2>5, <1>0, Apart DEF JobOK, AtWork, SessionAtWork, EditorAtWork,
       SweeperAtWork
  <2>6. QED
    BY <2>4, <2>5
<1>25. ASSUME NEW h \in Hands, Adopts(h) PROVE JobOK(g)'
  <2>1. h \in Editors /\ h \in Folders
    BY <1>25, Places DEF Adopts, Does
  <2>2. UNCHANGED <<kind, phase>> /\ Ended(h) /\ Others(h)
    BY <1>25, <1>0, <2>1, AdoptsEffect
  <2>3. Retaken(h) \/ UNCHANGED linked
    BY <1>25, <1>0, <2>1, AdoptsEffect
  <2>4. CASE g # h
    BY <2>1, <2>2, <2>3, <2>4, <1>0, Apart DEF JobOK, AtWork, SessionAtWork, EditorAtWork,
       SweeperAtWork
  <2>5. CASE g = h
    BY <2>1, <2>2, <2>3, <2>5, <1>0, Apart DEF JobOK, AtWork, SessionAtWork, EditorAtWork,
       SweeperAtWork
  <2>6. QED
    BY <2>4, <2>5
<1>26. ASSUME NEW h \in Hands, PutsBack(h) PROVE JobOK(g)'
  BY <1>26, PutsBackEffect, <1>0, Apart DEF JobOK, AtWork, SessionAtWork, EditorAtWork,
     SweeperAtWork
<1>27. ASSUME NEW h \in Hands, Dies(h) PROVE JobOK(g)'
  BY <1>27, DiesEffect, <1>0, Apart DEF JobOK, AtWork, SessionAtWork, EditorAtWork,
     SweeperAtWork
<1>28. CASE UNCHANGED vars
  BY <1>28, <1>0, Apart DEF vars, JobOK, AtWork, SessionAtWork, EditorAtWork,
     SweeperAtWork
<1>29. QED
  BY <1>1, <1>2, <1>3, <1>4, <1>5, <1>6, <1>7, <1>8, <1>9, <1>10, <1>11, <1>12, <1>13,
     <1>14, <1>15, <1>16, <1>17, <1>18, <1>19, <1>20, <1>21, <1>22, <1>23, <1>24, <1>25,
     <1>26, <1>27, <1>28 DEF Next, FolderStep, HandStep, Folders, Hands

\* Jobs keep their types.
LEMMA JobTypesKept == IInv /\ [Next]_vars => JobTypes'
<1> SUFFICES ASSUME IInv, [Next]_vars PROVE JobTypes'
  OBVIOUS
<1>0. JobTypes /\ FileTypes /\ \A g \in Hands : job[g] \in Jobs
  BY DEF IInv, JobTypes
<1>1. CASE UserEdits
  BY <1>1, <1>0, LateType DEF UserEdits
<1>2. CASE UserBreaks
  BY <1>2, <1>0, LateType DEF UserBreaks
<1>3. CASE LockAges
  BY <1>3, <1>0 DEF LockAges, JobTypes
<1>4. ASSUME NEW f \in Folders, Starts(f) PROVE JobTypes'
  BY <1>4, <1>0 DEF Starts, JobTypes
<1>5. ASSUME NEW f \in Folders, Exits(f) PROVE JobTypes'
  BY <1>5, <1>0 DEF Exits, JobTypes
<1>6. ASSUME NEW f \in Folders, Relaunches(f) PROVE JobTypes'
  BY <1>6, <1>0 DEF Relaunches, JobTypes
<1>7. ASSUME NEW f \in Folders, ClaudeWrites(f) PROVE JobTypes'
  <2>1. f \in Hands /\ job[f] \in Jobs
    BY <1>0 DEF Hands
  <2>2. Interrupts \/ job' = [job EXCEPT ![f].late =
                            IF job[f].step \in {"after", "put"} THEN TRUE ELSE @]
    BY <1>7 DEF ClaudeWrites
  <2>3. CASE Interrupts
    BY <1>0, <2>3, LateType
  <2>4. (IF job[f].step \in {"after", "put"} THEN TRUE ELSE job[f].late) \in BOOLEAN
    BY <2>1, JobFields
  <2>5. CASE job' = [job EXCEPT ![f].late = IF job[f].step \in {"after", "put"} THEN TRUE ELSE @]
    BY <1>0, <2>1, <2>4, <2>5, FlaggedJob, NewJobType
  <2>6. QED
    BY <2>2, <2>3, <2>5
<1>8. ASSUME NEW h \in Hands, BeginsMerge(h) PROVE JobTypes'
  BY <1>8, <1>0, BegunType
<1>9. ASSUME NEW h \in Hands, LocksAndReads(h) PROVE JobTypes'
  BY <1>9, <1>0, UserFilesAssumption, ReadsType DEF LocksAndReads
<1>10. ASSUME NEW h \in Hands, Compares(h) PROVE JobTypes'
  <2>1. \/ Goes(h, "write") \/ Fails(h)
        \/ job[h].tries < MaxTries /\ Reads(h, job[h].tries + 1)
    BY <1>10 DEF Compares
  <2>2. job[h].tries \in 0 .. MaxTries
    BY <1>0, JobFields
  <2>3. CASE job[h].tries < MaxTries /\ Reads(h, job[h].tries + 1)
    BY <1>0, <2>2, <2>3, UserFilesAssumption, ReadsType
  <2>4. CASE Fails(h)
    BY <1>0, <2>4, OverType DEF Fails
  <2>5. CASE Goes(h, "write")
    BY <1>0, <2>5, GoesType
  <2>6. QED
    BY <2>1, <2>3, <2>4, <2>5
<1>11. ASSUME NEW h \in Hands, LockNotHad(h) PROVE JobTypes'
  <2>1. Fails(h) \/ job' = [job EXCEPT ![h] = [@ EXCEPT !.step = "settle", !.ok = FALSE]]
    BY <1>11 DEF LockNotHad
  <2>2. CASE Fails(h)
    BY <1>0, <2>2, OverType DEF Fails
  <2>3. CASE job' = [job EXCEPT ![h] = [@ EXCEPT !.step = "settle", !.ok = FALSE]]
    BY <1>0, <2>3, NewJobType DEF Jobs
  <2>4. QED
    BY <2>1, <2>2, <2>3
<1>12. ASSUME NEW h \in Hands, WritesMerged(h) PROVE JobTypes'
  <2>1. job[h].seen \in Contents \cup {None}
    BY <1>0, JobFields
  <2>2. QED
    BY <1>12, <1>0, <2>1, OverType DEF WritesMerged, MergeOver
<1>13. ASSUME NEW h \in Hands, WriteFails(h) PROVE JobTypes'
  BY <1>13, <1>0, OverType DEF WriteFails, Fails
<1>14. ASSUME NEW h \in Hands, HandsBack(h) PROVE JobTypes'
  <2>1. job[h].ok \in BOOLEAN
    BY <1>0, JobFields
  <2>2. \/ Goes(h, "copy") \/ JobOver(h)
        \/ \E done \in BOOLEAN : job' = [job EXCEPT ![h] = [@ EXCEPT !.step = "clear", !.ok = done]]
    BY <1>14, <2>1 DEF HandsBack, Launches
  <2>3. ASSUME NEW done \in BOOLEAN,
               job' = [job EXCEPT ![h] = [@ EXCEPT !.step = "clear", !.ok = done]]
        PROVE  JobTypes'
    BY <1>0, <2>3, NewJobType DEF Jobs
  <2>4. QED
    BY <1>0, <2>2, <2>3, GoesType, EndedType
<1>15. ASSUME NEW h \in Hands, CopiesUsers(h) PROVE JobTypes'
  BY <1>15, <1>0, GoesType, EndedType DEF CopiesUsers, Launches
<1>16. ASSUME NEW h \in Hands, Snaps(h) PROVE JobTypes'
  BY <1>16, <1>0, EndedType DEF Snaps, Launches
<1>17. ASSUME NEW h \in Hands, Clears(h) PROVE JobTypes'
  BY <1>17, <1>0, EndedType DEF Clears, Launches
<1>18. ASSUME NEW h \in Hands, Looks(h) PROVE JobTypes'
  <2>1. user # Broken => user \in Contents \cup {None}
    BY <1>0 DEF FileTypes
  <2>2. \/ JobOver(h)
        \/ user # Broken /\ job' = [job EXCEPT ![h] = [@ EXCEPT
                 !.step = "put", !.base = None, !.seen = user, !.late = FALSE]]
    BY <1>18 DEF Looks
  <2>3. CASE user # Broken /\ job' = [job EXCEPT ![h] = [@ EXCEPT
                 !.step = "put", !.base = None, !.seen = user, !.late = FALSE]]
    BY <1>0, <2>1, <2>3, LookedType, NewJobType
  <2>4. QED
    BY <1>0, <2>2, <2>3, EndedType
<1>19. ASSUME NEW h \in Hands, Puts(h) PROVE JobTypes'
  <2>1. \/ JobOver(h)
        \/ job' = [job EXCEPT ![h] = [@ EXCEPT !.step = "base", !.ours = None, !.late = FALSE]]
    BY <1>19 DEF Puts
  <2>2. CASE job' = [job EXCEPT ![h] = [@ EXCEPT !.step = "base", !.ours = None, !.late = FALSE]]
    BY <1>0, <2>2, NewJobType, ZenonT(40) DEF Jobs
  <2>3. QED
    BY <1>0, <2>1, <2>2, EndedType
<1>20. ASSUME NEW h \in Hands, PutsBase(h) PROVE JobTypes'
  BY <1>20, <1>0, EndedType DEF PutsBase, Launches
<1>21. ASSUME NEW h \in Hands, MovesAside(h) PROVE JobTypes'
  <2>1. h \in Folders
    BY <1>21 DEF MovesAside, Tasks, Folders
  <2>2. own[h] \in Contents \cup {None}
    BY <1>0, <2>1 DEF FileTypes
  <2>3. job' = job \/ job' = [job EXCEPT ![h] = [NoJob EXCEPT
                    !.folder = h, !.task = "sync", !.step = "wait", !.ours = own[h]]]
    BY <1>21 DEF MovesAside
  <2>4. [NoJob EXCEPT !.folder = h, !.task = "sync", !.step = "wait", !.ours = own[h]] \in Jobs
    BY <2>1, <2>2, AsideType
  <2>5. QED
    BY <1>0, <2>3, <2>4, NewJobType DEF JobTypes
<1>22. ASSUME NEW h \in Hands, PlansSync(h) PROVE JobTypes'
  <2>1. PICK plan \in Plans(base[h], job[h].ours, user) :
            job' = [job EXCEPT ![h] = [@ EXCEPT
                !.step = IF plan = "back" THEN "write" ELSE "settle",
                !.plan = plan, !.base = base[h], !.seen = user]]
    BY <1>22 DEF PlansSync
  <2>2. plan \in {"none", "back", "aside"}
    BY DEF Plans, PlanWhole
  <2>3. h \in Folders /\ ~Merged
    BY <1>22, Places DEF PlansSync, Does, Folders
  <2>4. user \in Contents \cup {None} /\ base[h] \in Contents \cup {None}
    BY <1>0, <2>3, WritableIsContent DEF IInv, LinksInv, FileTypes
  <2>5. [job[h] EXCEPT !.step = IF plan = "back" THEN "write" ELSE "settle",
                !.plan = plan, !.base = base[h], !.seen = user] \in Jobs
    BY <1>0, <2>2, <2>4, ZenonT(40) DEF Jobs
  <2>6. QED
    BY <1>0, <2>1, <2>5, NewJobType
<1>23. ASSUME NEW h \in Hands, PlansReturn(h) PROVE JobTypes'
  <2>1. user # Broken
    BY <1>23, WritableIsContent, Atoms DEF PlansReturn, IInv, LinksInv
  <2>2. QED
    BY <1>23, <1>0, <2>1, ReturnedType
<1>24. ASSUME NEW h \in Hands, WritesFile(h) PROVE JobTypes'
  <2>1. job' = [job EXCEPT ![h] = [@ EXCEPT !.step = AfterFile(h), !.late = FALSE]]
    BY <1>24 DEF WritesFile
  <2>2. [job[h] EXCEPT !.step = AfterFile(h), !.late = FALSE] \in Jobs
    BY <1>0 DEF Jobs, AfterFile
  <2>3. QED
    BY <1>0, <2>1, <2>2, NewJobType
<1>25. ASSUME NEW h \in Hands, WriteFileFails(h) PROVE JobTypes'
  <2>1. job' = [job EXCEPT ![h] = [@ EXCEPT !.step = AfterFile(h), !.ok = FALSE]]
    BY <1>25 DEF WriteFileFails
  <2>2. [job[h] EXCEPT !.step = AfterFile(h), !.ok = FALSE] \in Jobs
    BY <1>0 DEF Jobs, AfterFile
  <2>3. QED
    BY <1>0, <2>1, <2>2, NewJobType
<1>26. ASSUME NEW h \in Hands, Adopts(h) PROVE JobTypes'
  BY <1>26, <1>0, EndedType DEF Adopts, Launches
<1>27. ASSUME NEW h \in Hands, PutsBack(h) PROVE JobTypes'
  BY <1>27, <1>0, EndedType DEF PutsBack, Launches
<1>28. ASSUME NEW h \in Hands, Dies(h) PROVE JobTypes'
  BY <1>28, <1>0, EndedType DEF Dies, JobOver
<1>29. CASE UNCHANGED vars
  BY <1>29, <1>0 DEF vars, JobTypes
<1>30. QED
  BY <1>1, <1>2, <1>3, <1>4, <1>5, <1>6, <1>7, <1>8, <1>9, <1>10, <1>11, <1>12, <1>13,
     <1>14, <1>15, <1>16, <1>17, <1>18, <1>19, <1>20, <1>21, <1>22, <1>23, <1>24, <1>25,
     <1>26, <1>27, <1>28, <1>29 DEF Next, FolderStep, HandStep, Folders, Hands

\* The files, and what is due, keep their types.
LEMMA FileTypesKept == IInv /\ [Next]_vars => FileTypes'
<1> SUFFICES ASSUME IInv, [Next]_vars PROVE FileTypes'
  OBVIOUS
<1>0. JobTypes /\ FileTypes /\ \A g \in Hands : job[g] \in Jobs
  BY DEF IInv, JobTypes
<1>1. CASE UserEdits
  <2>1. user' \in Contents
    BY <1>1, <1>0, ContentType, EditedIsWritable, WritableIsContent DEF UserEdits,
       FileTypes
  <2>2. own' \in [Folders -> Contents \cup {None}] /\ linked' \in [Folders -> BOOLEAN]
    BY <1>1, <1>0, <2>1 DEF UserEdits, InPlace, Unlinked, FileTypes
  <2>3. due' \in [Folders -> SUBSET AllChanges]
    BY <1>1, <1>0 DEF UserEdits, Arrives, FileTypes
  <2>4. kind' = kind /\ base' = base /\ phase' = phase /\ deaths' = deaths /\ lock' = lock
        /\ edits' \in 0 .. MaxEdits
    BY <1>1, <1>0, UserFilesAssumption DEF UserEdits, Edits, FileTypes
  <2>5. QED
    BY <2>1, <2>2, <2>3, <2>4, <1>0 DEF FileTypes
<1>2. CASE UserBreaks
  <2>1. user' \in {None, Broken}
    BY <1>2 DEF UserBreaks
  <2>2. own' \in [Folders -> Contents \cup {None}] /\ linked' \in [Folders -> BOOLEAN]
    BY <1>2, <1>0 DEF UserBreaks, Unlinked, FileTypes
  <2>3. due' \in [Folders -> SUBSET AllChanges]
    BY <1>2, <1>0 DEF UserBreaks, Arrives, FileTypes
  <2>4. kind' = kind /\ base' = base /\ phase' = phase /\ deaths' = deaths /\ lock' = lock
        /\ edits' \in 0 .. MaxEdits
    BY <1>2, <1>0, UserFilesAssumption DEF UserBreaks, Edits, FileTypes
  <2>5. QED
    BY <2>1, <2>2, <2>3, <2>4, <1>0 DEF FileTypes
<1>3. CASE LockAges
  BY <1>3, <1>0 DEF LockAges, counts, FileTypes
<1>4. ASSUME NEW f \in Folders, Starts(f) PROVE FileTypes'
  <2>1. UNCHANGED <<kind, user, job, lock, edits, deaths, due>>
        /\ phase' = [phase EXCEPT ![f] = "claude"]
    BY <1>4, <1>0, StartsEffect
  <2>2. ASSUME Merged PROVE  own' \in [Folders -> Contents \cup {None}]
        /\ base' \in [Folders -> Contents \cup {None}] /\ linked' \in [Folders -> BOOLEAN]
    BY <1>4, <1>0, <2>2, StartsEffect DEF FileTypes
  <2>3. ASSUME ~Merged PROVE  own' \in [Folders -> Contents \cup {None}]
        /\ base' \in [Folders -> Contents \cup {None}] /\ linked' \in [Folders -> BOOLEAN]
    BY <1>4, <1>0, <2>3, StartsEffect, ReadableFile, RetakenType
  <2>4. own' \in [Folders -> Contents \cup {None}]
        /\ base' \in [Folders -> Contents \cup {None}] /\ linked' \in [Folders -> BOOLEAN]
    BY <1>0, <2>2, <2>3 DEF FileTypes
  <2>5. QED
    BY <2>1, <2>4, <1>0 DEF FileTypes
<1>5. ASSUME NEW f \in Folders, Exits(f) PROVE FileTypes'
  BY <1>5, <1>0 DEF Exits, counts, FileTypes
<1>6. ASSUME NEW f \in Folders, Relaunches(f) PROVE FileTypes'
  BY <1>6, <1>0 DEF Relaunches, counts, FileTypes
<1>7. ASSUME NEW f \in Folders, ClaudeWrites(f) PROVE FileTypes'
  <2>1. own[f] \in Contents \cup {None} /\ Content(own[f]) \in Contents
    BY <1>0, ContentType DEF FileTypes
  <2>2. PICK o \in Edited(Content(own[f])) :
        \/ user' = o /\ InPlace(o) /\ due' = Arrives(o)
        \/ /\ own' = [own EXCEPT ![f] = o] /\ linked' = [linked EXCEPT ![f] = FALSE]
           /\ due' = [due EXCEPT ![f] =
                {c \in (@ \cup Changes(Content(own[f]), o)) \cap DueNext(f, o) :
                    user = Broken \/ ~Shows(Content(user), c)}]
           /\ UNCHANGED user
    BY <1>7 DEF ClaudeWrites
  <2>3. o \in Contents
    BY <2>1, EditedIsWritable, WritableIsContent
  <2>4. Changes(Content(own[f]), o) \subseteq AllChanges
    BY <2>1, <2>3, ChangesType
  <2>5. own' \in [Folders -> Contents \cup {None}] /\ linked' \in [Folders -> BOOLEAN]
        /\ user' \in Contents \cup {None, Broken}
    BY <1>0, <2>2, <2>3 DEF InPlace, FileTypes
  <2>6. due' \in [Folders -> SUBSET AllChanges]
    BY <1>0, <2>2, <2>4, ArrivesType DEF FileTypes
  <2>7. kind' = kind /\ base' = base /\ phase' = phase /\ deaths' = deaths /\ lock' = lock
        /\ edits' \in 0 .. MaxEdits
    BY <1>7, <1>0, UserFilesAssumption DEF ClaudeWrites, Edits, FileTypes
  <2>8. QED
    BY <2>1, <2>2, <2>3, <2>4, <2>5, <2>6, <2>7, <1>0 DEF FileTypes
<1>8. ASSUME NEW h \in Hands, BeginsMerge(h) PROVE FileTypes'
  <2>1. Steady /\ UNCHANGED <<lock, due>>
    BY <1>8, <1>0, BeginsEffect
  <2>2. QED
    BY <2>1, <1>0 DEF Steady, FileTypes
<1>9. ASSUME NEW h \in Hands, LocksAndReads(h) \/ Compares(h) PROVE FileTypes'
  <2>1. Steady /\ lock' \in {None, lock, h}
    BY <1>9, <1>0, ReadsEffect
  <2>2. Settled(h, user, due) \/ UNCHANGED due
    BY <1>9, <1>0, ReadsEffect
  <2>3. due' \in [Folders -> SUBSET AllChanges]
    BY <1>0, <2>2, SettledType DEF FileTypes
  <2>4. QED
    BY <2>1, <2>3, <1>0 DEF Steady, FileTypes
<1>10. ASSUME NEW h \in Hands, LockNotHad(h) PROVE FileTypes'
  <2>1. Steady /\ UNCHANGED <<lock, due>>
    BY <1>10, <1>0, UnhadEffect
  <2>2. QED
    BY <2>1, <1>0 DEF Steady, FileTypes
<1>11. ASSUME NEW h \in Hands, WritesMerged(h) \/ WriteFails(h) PROVE FileTypes'
  <2>1. UNCHANGED <<kind, own, base, linked, phase, edits, deaths>> /\ lock' \in {None, lock}
        /\ Merged /\ job[h].step = "write"
    BY <1>11, <1>0, MergedEffect
  <2>2. \/ user' = Result(h) /\ Settled(h, job[h].seen, Arrives(user'))
        \/ UNCHANGED <<user, due>>
    BY <1>11, <1>0, MergedEffect
  <2>3. Result(h) \in Contents
    BY <2>1, AtWrite
  <2>4. due' \in [Folders -> SUBSET AllChanges]
    BY <1>0, <2>2, ArrivesType, SettledType DEF FileTypes
  <2>5. QED
    BY <2>1, <2>2, <2>3, <2>4, <1>0 DEF FileTypes
<1>12. ASSUME NEW h \in Hands, HandsBack(h) PROVE FileTypes'
  <2>1. UNCHANGED <<kind, user, own, linked, lock, edits, deaths, due>>
        /\ job[h].step = "after" /\ Merged
    BY <1>12, <1>0, HandsBackEffect
  <2>2. UNCHANGED base \/ AdvancesBase(job[h].folder)
    BY <1>12, <1>0, HandsBackEffect
  <2>3. job[h].folder \in Folders
    BY <1>12, <2>1, Places
  <2>4. base' \in [Folders -> Contents \cup {None}]
    BY <1>0, <2>2, <2>3 DEF AdvancesBase, FileTypes
  <2>5. h \in Folders \/ UNCHANGED phase
    BY <1>12, <1>0, <2>1, HandsBackEffect, Places DEF Hands, Folders
  <2>6. phase' = [phase EXCEPT ![h] = "claude"] \/ phase' = [phase EXCEPT ![h] = "left"] \/ UNCHANGED phase
    BY <1>12, <1>0, HandsBackEffect
  <2>7. phase' \in [Folders -> {"gone", "claude", "between", "left"}]
    BY <1>0, <2>5, <2>6 DEF FileTypes
  <2>8. QED
    BY <2>1, <2>4, <2>7, <1>0 DEF FileTypes
<1>13. ASSUME NEW h \in Hands, CopiesUsers(h) PROVE FileTypes'
  BY <1>13, CopiesEffect, <1>0 DEF FileTypes
<1>14. ASSUME NEW h \in Hands, Snaps(h) PROVE FileTypes'
  BY <1>14, SnapsEffect, <1>0 DEF FileTypes
<1>15. ASSUME NEW h \in Hands, Clears(h) PROVE FileTypes'
  BY <1>15, ClearsEffect, <1>0 DEF FileTypes
<1>16. ASSUME NEW h \in Hands, Looks(h) PROVE FileTypes'
  <2>1. Steady /\ UNCHANGED lock
    BY <1>16, <1>0, LooksEffect
  <2>2. due' = [due EXCEPT ![h] = IF job[h].late THEN {} ELSE @ \ Settles(h)] \/ UNCHANGED due
    BY <1>16, <1>0, LooksEffect
  <2>3. due' \in [Folders -> SUBSET AllChanges]
    BY <1>0, <2>2 DEF FileTypes
  <2>4. QED
    BY <2>1, <2>3, <1>0 DEF Steady, FileTypes
<1>17. ASSUME NEW h \in Hands, Puts(h) PROVE FileTypes'
  <2>1. UNCHANGED <<kind, user, base, linked, phase, lock, edits, deaths>>
        /\ job[h].step = "put"
    BY <1>17, <1>0, PutsEffect
  <2>2. \/ /\ own' = [own EXCEPT ![h] = Content(job[h].seen)]
           /\ due' = [due EXCEPT ![h] = IF job[h].late THEN {} ELSE @]
        \/ UNCHANGED <<own, due>>
    BY <1>17, <1>0, PutsEffect
  <2>3. Content(job[h].seen) \in Contents
    BY <1>0, JobFields, ContentType
  <2>4. own' \in [Folders -> Contents \cup {None}] /\ due' \in [Folders -> SUBSET AllChanges]
    BY <1>0, <2>2, <2>3 DEF FileTypes
  <2>5. QED
    BY <2>1, <2>4, <1>0 DEF FileTypes
<1>18. ASSUME NEW h \in Hands, PutsBase(h) PROVE FileTypes'
  <2>1. UNCHANGED <<kind, user, own, linked, phase, lock, edits, deaths, due>>
    BY <1>18, <1>0, PutsBaseEffect
  <2>2. base' \in {base, [base EXCEPT ![h] = Content(job[h].seen)]}
    BY <1>18, <1>0, PutsBaseEffect
  <2>3. Content(job[h].seen) \in Contents
    BY <1>0, JobFields, ContentType
  <2>4. base' \in [Folders -> Contents \cup {None}]
    BY <1>0, <2>2, <2>3 DEF FileTypes
  <2>5. QED
    BY <2>1, <2>4, <1>0 DEF FileTypes
<1>19. ASSUME NEW h \in Hands, MovesAside(h) PROVE FileTypes'
  <2>1. UNCHANGED <<kind, user, phase, lock, edits, deaths, due>> /\ ~Merged /\ h \in Editors
    BY <1>19, <1>0, AsideEffect
  <2>2. Retaken(h) \/ (own' = [own EXCEPT ![h] = None] /\ UNCHANGED <<base, linked>>)
    BY <1>19, <1>0, AsideEffect
  <2>3. user # Broken /\ h \in Folders
    BY <2>1, ReadableFile DEF Folders
  <2>4. own' \in [Folders -> Contents \cup {None}]
        /\ base' \in [Folders -> Contents \cup {None}] /\ linked' \in [Folders -> BOOLEAN]
    BY <1>0, <2>2, <2>3, RetakenType DEF FileTypes
  <2>5. QED
    BY <2>1, <2>4, <1>0 DEF FileTypes
<1>20. ASSUME NEW h \in Hands, PlansSync(h) PROVE FileTypes'
  <2>1. Steady /\ UNCHANGED due /\ lock' \in {None, h}
    BY <1>20, <1>0, PlansEffect
  <2>2. QED
    BY <2>1, <1>0 DEF Steady, FileTypes
<1>21. ASSUME NEW h \in Hands, PlansReturn(h) PROVE FileTypes'
  <2>1. Steady /\ UNCHANGED <<lock, due>>
    BY <1>21, <1>0, ReturnsEffect
  <2>2. QED
    BY <2>1, <1>0 DEF Steady, FileTypes
<1>22. ASSUME NEW h \in Hands, WritesFile(h) PROVE FileTypes'
  <2>1. UNCHANGED <<kind, base, phase, edits, deaths>> /\ lock' \in {None, lock}
        /\ ~Merged /\ job[h].step = "write" /\ due' = Arrives(user')
    BY <1>22, <1>0, FileEffect
  <2>2. IF kind = "whole" THEN user' = job[h].ours /\ Unlinked /\ UNCHANGED own
        ELSE /\ user' = [Empty EXCEPT !.list = Members(Content(user).list)
                            \cup MissingLines(job[h].ours, job[h].seen)]
             /\ InPlace(user')
    BY <1>22, <1>0, FileEffect
  <2>3. job[h].ours \in Contents
    BY <2>1 DEF IInv, OursInv, OursOK
  <2>4. Content(user) \in Contents
    BY <1>0, ContentType DEF FileTypes
  <2>5. Members(Content(user).list) \cup MissingLines(job[h].ours, job[h].seen) \subseteq Items
    BY <2>3, <2>4 DEF Members, MissingLines, Contents
  <2>6. user' \in Contents
    BY <2>2, <2>3, <2>5 DEF Empty, Contents
  <2>7. own' \in [Folders -> Contents \cup {None}] /\ linked' \in [Folders -> BOOLEAN]
    BY <1>0, <2>2, <2>6 DEF InPlace, Unlinked, FileTypes
  <2>8. due' \in [Folders -> SUBSET AllChanges]
    BY <1>0, <2>1, ArrivesType
  <2>9. QED
    BY <2>1, <2>6, <2>7, <2>8, <1>0 DEF FileTypes
<1>23. ASSUME NEW h \in Hands, WriteFileFails(h) PROVE FileTypes'
  <2>1. Steady /\ UNCHANGED due /\ lock' \in {None, lock}
    BY <1>23, <1>0, FileFailsEffect
  <2>2. QED
    BY <2>1, <1>0 DEF Steady, FileTypes
<1>24. ASSUME NEW h \in Hands, Adopts(h) PROVE FileTypes'
  <2>1. h \in Editors /\ h \in Folders /\ ~Merged
    BY <1>24, Places DEF Adopts, Does, Folders
  <2>2. UNCHANGED <<kind, user, phase, lock, edits, deaths>>
    BY <1>24, <1>0, <2>1, AdoptsEffect
  <2>3. due' = (IF job[h].plan = "aside"
                 THEN [due EXCEPT ![h] = @ \ Due(job[h].base, job[h].ours)] ELSE due)
    BY <1>24, <1>0, <2>1, AdoptsEffect
  <2>4. Retaken(h) \/ UNCHANGED <<own, linked, base>>
    BY <1>24, <1>0, <2>1, AdoptsEffect
  <2>5. own' \in [Folders -> Contents \cup {None}]
        /\ base' \in [Folders -> Contents \cup {None}] /\ linked' \in [Folders -> BOOLEAN]
    BY <1>0, <2>1, <2>4, ReadableFile, RetakenType DEF FileTypes
  <2>6. due' \in [Folders -> SUBSET AllChanges]
    BY <1>0, <2>3 DEF FileTypes
  <2>7. QED
    BY <2>2, <2>5, <2>6, <1>0 DEF FileTypes
<1>25. ASSUME NEW h \in Hands, PutsBack(h) PROVE FileTypes'
  <2>1. UNCHANGED <<kind, user, base, linked, phase, lock, edits, deaths>>
    BY <1>25, <1>0, PutsBackEffect
  <2>2. \/ own' = [own EXCEPT ![h] = job[h].ours] /\ UNCHANGED due
        \/ due' = [due EXCEPT ![h] = @ \cap Due(base[h], own[h])] /\ UNCHANGED own
    BY <1>25, <1>0, PutsBackEffect
  <2>3. job[h].ours \in Contents \cup {None}
    BY <1>0, JobFields
  <2>4. own' \in [Folders -> Contents \cup {None}] /\ due' \in [Folders -> SUBSET AllChanges]
    BY <1>0, <2>2, <2>3 DEF FileTypes
  <2>5. QED
    BY <2>1, <2>4, <1>0 DEF FileTypes
<1>26. ASSUME NEW h \in Hands, Dies(h) PROVE FileTypes'
  <2>1. UNCHANGED <<kind, user, own, base, linked, lock, edits>> /\ deaths' \in 0 .. MaxDeaths
    BY <1>26, <1>0, UserFilesAssumption, DiesEffect DEF FileTypes
  <2>2. phase' = (IF h \in Sessions THEN [phase EXCEPT ![h] = "left"] ELSE phase)
    BY <1>26, <1>0, DiesEffect
  <2>3. due' = [due EXCEPT ![h] = @ \cap Due(base[h], own[h])] \/ due' = due
    BY <1>26, <1>0, DiesEffect
  <2>4. phase' \in [Folders -> {"gone", "claude", "between", "left"}]
        /\ due' \in [Folders -> SUBSET AllChanges]
    BY <1>0, <2>2, <2>3 DEF FileTypes
  <2>5. QED
    BY <2>1, <2>4, <1>0 DEF FileTypes
<1>27. CASE UNCHANGED vars
  BY <1>27, <1>0 DEF vars, FileTypes
<1>28. QED
  BY <1>1, <1>2, <1>3, <1>4, <1>5, <1>6, <1>7, <1>8, <1>9, <1>10, <1>11, <1>12, <1>13,
     <1>14, <1>15, <1>16, <1>17, <1>18, <1>19, <1>20, <1>21, <1>22, <1>23, <1>24, <1>25,
     <1>26, <1>27 DEF Next, FolderStep, HandStep, Folders, Hands

\* Links stay the user's, and files of the kind followed.
LEMMA LinksKept == IInv /\ [Next]_vars => LinksInv'
<1> SUFFICES ASSUME IInv, [Next]_vars PROVE LinksInv'
  OBVIOUS
<1>0. /\ JobTypes /\ FileTypes /\ LinksInv /\ (\A g \in Hands : job[g] \in Jobs)
      /\ Merged' = Merged /\ Writable' = Writable
  BY KindKept DEF IInv, JobTypes
<1>1. CASE UserEdits
  <2>1. user' \in Writable
    BY <1>1, <1>0, ContentType, EditedIsWritable DEF UserEdits, FileTypes
  <2>2. CASE Merged
    BY <1>1, <1>0, <2>2 DEF UserEdits, LinksInv
  <2>3. CASE ~Merged
    BY <1>1, <1>0, <2>1, <2>3 DEF UserEdits, InPlace, Unlinked, LinksInv, FileTypes
  <2>4. QED
    BY <2>2, <2>3, <1>0 DEF LinksInv
<1>2. CASE UserBreaks
  <2>1. UNCHANGED own /\ (\A f \in Folders : ~linked'[f]) /\ (~Merged => user' = None)
    BY <1>2 DEF UserBreaks, Unlinked
  <2>2. QED
    BY <2>1, <1>0 DEF LinksInv
<1>3. CASE LockAges
  BY <1>3, <1>0 DEF LockAges, counts, LinksInv
<1>4. ASSUME NEW f \in Folders, Starts(f) PROVE LinksInv'
  <2>1. UNCHANGED user
    BY <1>4, <1>0, StartsEffect
  <2>2. CASE Merged
    BY <1>4, <1>0, <2>1, <2>2, StartsEffect DEF LinksInv, FileTypes
  <2>3. CASE ~Merged
    BY <1>4, <1>0, <2>1, <2>3, StartsEffect DEF Retaken, LinksInv, FileTypes
  <2>4. QED
    BY <2>2, <2>3, <1>0 DEF LinksInv
<1>5. ASSUME NEW f \in Folders, Exits(f) PROVE LinksInv'
  BY <1>5, <1>0 DEF Exits, counts, LinksInv
<1>6. ASSUME NEW f \in Folders, Relaunches(f) PROVE LinksInv'
  BY <1>6, <1>0 DEF Relaunches, counts, LinksInv
<1>7. ASSUME NEW f \in Folders, ClaudeWrites(f) PROVE LinksInv'
  <2>1. own[f] \in Contents \cup {None} /\ Content(own[f]) \in Contents
    BY <1>0, ContentType DEF FileTypes
  <2>2. PICK o \in Edited(Content(own[f])) :
        \/ linked[f] /\ user' = o /\ InPlace(o)
        \/ /\ own' = [own EXCEPT ![f] = o] /\ linked' = [linked EXCEPT ![f] = FALSE]
           /\ UNCHANGED user
    BY <1>7 DEF ClaudeWrites
  <2>3. o \in Writable
    BY <2>1, EditedIsWritable
  <2>4. CASE linked[f] /\ user' = o /\ InPlace(o)
    BY <1>0, <2>3, <2>4 DEF InPlace, LinksInv, FileTypes
  <2>5. CASE own' = [own EXCEPT ![f] = o] /\ linked' = [linked EXCEPT ![f] = FALSE] /\ UNCHANGED user
    BY <1>0, <2>3, <2>5 DEF LinksInv, FileTypes
  <2>6. QED
    BY <2>2, <2>4, <2>5, <1>0 DEF LinksInv
<1>8. ASSUME NEW h \in Hands, BeginsMerge(h) PROVE LinksInv'
  <2>1. UNCHANGED <<user, own, linked>>
    BY <1>8, <1>0, BeginsEffect DEF Steady
  <2>2. QED
    BY <2>1, <1>0 DEF LinksInv
<1>9. ASSUME NEW h \in Hands, LocksAndReads(h) \/ Compares(h) PROVE LinksInv'
  <2>1. UNCHANGED <<user, own, linked>>
    BY <1>9, <1>0, ReadsEffect DEF Steady
  <2>2. QED
    BY <2>1, <1>0 DEF LinksInv
<1>10. ASSUME NEW h \in Hands, LockNotHad(h) PROVE LinksInv'
  <2>1. UNCHANGED <<user, own, linked>>
    BY <1>10, <1>0, UnhadEffect DEF Steady
  <2>2. QED
    BY <2>1, <1>0 DEF LinksInv
<1>11. ASSUME NEW h \in Hands, WritesMerged(h) \/ WriteFails(h) PROVE LinksInv'
  <2>1. UNCHANGED <<own, linked>> /\ Merged
    BY <1>11, <1>0, MergedEffect
  <2>2. QED
    BY <2>1, <1>0 DEF LinksInv
<1>12. ASSUME NEW h \in Hands, HandsBack(h) PROVE LinksInv'
  <2>1. UNCHANGED <<user, own, linked>>
    BY <1>12, <1>0, HandsBackEffect DEF Steady
  <2>2. QED
    BY <2>1, <1>0 DEF LinksInv
<1>13. ASSUME NEW h \in Hands, CopiesUsers(h) PROVE LinksInv'
  <2>1. h \in Sessions /\ Merged
    BY <1>13, <1>0, CopiesEffect, Places
  <2>2. UNCHANGED <<user, linked>>
    BY <1>13, <1>0, CopiesEffect
  <2>3. QED
    BY <2>1, <2>2, <1>0 DEF LinksInv
<1>14. ASSUME NEW h \in Hands, Snaps(h) PROVE LinksInv'
  <2>1. UNCHANGED <<user, own, linked>>
    BY <1>14, <1>0, SnapsEffect DEF Steady
  <2>2. QED
    BY <2>1, <1>0 DEF LinksInv
<1>15. ASSUME NEW h \in Hands, Clears(h) PROVE LinksInv'
  <2>1. UNCHANGED user /\ job[h].step = "clear"
    BY <1>15, <1>0, ClearsEffect
  <2>2. \/ \E f \in Folders : own' = [own EXCEPT ![f] = None] /\ linked' = [linked EXCEPT ![f] = FALSE]
        \/ UNCHANGED <<own, linked>>
    BY <1>15, <1>0, <2>1, ClearsEffect, Places
  <2>3. QED
    BY <2>1, <2>2, <1>0 DEF LinksInv, FileTypes
<1>16. ASSUME NEW h \in Hands, Looks(h) PROVE LinksInv'
  <2>1. UNCHANGED <<user, own, linked>>
    BY <1>16, <1>0, LooksEffect DEF Steady
  <2>2. QED
    BY <2>1, <1>0 DEF LinksInv
<1>17. ASSUME NEW h \in Hands, Puts(h) PROVE LinksInv'
  <2>1. h \in Editors /\ Merged
    BY <1>17, <1>0, PutsEffect, Places
  <2>2. UNCHANGED <<user, linked>>
    BY <1>17, <1>0, PutsEffect
  <2>3. QED
    BY <2>1, <2>2, <1>0 DEF LinksInv
<1>18. ASSUME NEW h \in Hands, PutsBase(h) PROVE LinksInv'
  <2>1. UNCHANGED <<user, own, linked>>
    BY <1>18, <1>0, PutsBaseEffect DEF Steady
  <2>2. QED
    BY <2>1, <1>0 DEF LinksInv
<1>19. ASSUME NEW h \in Hands, MovesAside(h) PROVE LinksInv'
  <2>1. UNCHANGED user /\ ~Merged /\ h \in Editors /\ h \in Folders
    BY <1>19, <1>0, AsideEffect DEF Folders
  <2>2. Retaken(h) \/ (~linked[h] /\ own' = [own EXCEPT ![h] = None] /\ UNCHANGED linked)
    BY <1>19, <1>0, AsideEffect
  <2>3. QED
    BY <2>1, <2>2, <1>0 DEF Retaken, LinksInv, FileTypes
<1>20. ASSUME NEW h \in Hands, PlansSync(h) PROVE LinksInv'
  <2>1. UNCHANGED <<user, own, linked>>
    BY <1>20, <1>0, PlansEffect DEF Steady
  <2>2. QED
    BY <2>1, <1>0 DEF LinksInv
<1>21. ASSUME NEW h \in Hands, PlansReturn(h) PROVE LinksInv'
  <2>1. UNCHANGED <<user, own, linked>>
    BY <1>21, <1>0, ReturnsEffect DEF Steady
  <2>2. QED
    BY <2>1, <1>0 DEF LinksInv
<1>22. ASSUME NEW h \in Hands, WritesFile(h) PROVE LinksInv'
  <2>1. ~Merged /\ job[h].step = "write"
    BY <1>22, <1>0, FileEffect
  <2>2. IF kind = "whole" THEN user' = job[h].ours /\ Unlinked /\ UNCHANGED own
        ELSE /\ user' = [Empty EXCEPT !.list = Members(Content(user).list)
                            \cup MissingLines(job[h].ours, job[h].seen)]
             /\ InPlace(user')
    BY <1>22, <1>0, FileEffect
  <2>3. job[h].ours \in Contents /\ job[h].ours \in Writable
    BY <2>1 DEF IInv, OursInv, OursOK
  <2>4. Content(user) \in Contents
    BY <1>0, ContentType DEF FileTypes
  <2>5. Members(Content(user).list) \cup MissingLines(job[h].ours, job[h].seen) \subseteq Items
    BY <2>3, <2>4 DEF Members, MissingLines, Contents
  <2>6. user' \in Writable
    BY <2>1, <2>2, <2>3, <2>5 DEF Writable
  <2>7. CASE kind = "whole"
    BY <1>0, <2>1, <2>2, <2>6, <2>7 DEF LinksInv, Unlinked
  <2>8. CASE kind # "whole"
    BY <1>0, <2>1, <2>2, <2>6, <2>8 DEF LinksInv, InPlace, FileTypes
  <2>9. QED
    BY <2>7, <2>8, <1>0 DEF LinksInv
<1>23. ASSUME NEW h \in Hands, WriteFileFails(h) PROVE LinksInv'
  <2>1. UNCHANGED <<user, own, linked>>
    BY <1>23, <1>0, FileFailsEffect DEF Steady
  <2>2. QED
    BY <2>1, <1>0 DEF LinksInv
<1>24. ASSUME NEW h \in Hands, Adopts(h) PROVE LinksInv'
  <2>1. h \in Editors /\ h \in Folders /\ ~Merged
    BY <1>24, Places DEF Adopts, Does, Folders
  <2>2. UNCHANGED user /\ (Retaken(h) \/ UNCHANGED <<own, linked>>)
    BY <1>24, <1>0, <2>1, AdoptsEffect
  <2>3. QED
    BY <2>1, <2>2, <1>0 DEF Retaken, LinksInv, FileTypes
<1>25. ASSUME NEW h \in Hands, PutsBack(h) PROVE LinksInv'
  <2>1. UNCHANGED <<user, linked>> /\ job[h].step = "settle"
    BY <1>25, <1>0, PutsBackEffect
  <2>2. ~linked[h] /\ ~Merged
    BY <2>1, Places
  <2>3. job[h].ours \in Writable
    BY <2>1, <2>2 DEF IInv, OursInv, OursOK
  <2>4. own' = [own EXCEPT ![h] = job[h].ours] \/ UNCHANGED own
    BY <1>25, <1>0, PutsBackEffect
  <2>5. QED
    BY <2>1, <2>2, <2>3, <2>4, <1>0 DEF LinksInv, FileTypes
<1>26. ASSUME NEW h \in Hands, Dies(h) PROVE LinksInv'
  <2>1. UNCHANGED <<user, own, linked>>
    BY <1>26, <1>0, DiesEffect DEF Steady
  <2>2. QED
    BY <2>1, <1>0 DEF LinksInv
<1>27. CASE UNCHANGED vars
  BY <1>27, <1>0 DEF vars, LinksInv
<1>28. QED
  BY <1>1, <1>2, <1>3, <1>4, <1>5, <1>6, <1>7, <1>8, <1>9, <1>10, <1>11, <1>12, <1>13,
     <1>14, <1>15, <1>16, <1>17, <1>18, <1>19, <1>20, <1>21, <1>22, <1>23, <1>24, <1>25,
     <1>26, <1>27 DEF Next, FolderStep, HandStep, Folders, Hands

\* Who writes an object holds the lock, and writes over what it read.
LEMMA LockKept == IInv /\ [Next]_vars => LockInv'
<1> SUFFICES ASSUME IInv, [Next]_vars, NEW g \in Hands PROVE LockOK(g)'
  BY DEF LockInv
<1> USE DEF Same, Carried, Others, Ended, IsOver, Steps, Steady
<1>0. JobTypes /\ FileTypes /\ LockOK(g) /\ job[g] \in Jobs /\ Merged' = Merged
  BY KindKept DEF IInv, JobTypes, LockInv
<1>1. CASE UserEdits
  <2>1. Interrupts /\ UNCHANGED lock
    BY <1>1 DEF UserEdits
  <2>2. Same(g) /\ (job[g].step = "write" => job'[g].late = TRUE)
    BY <1>0, <2>1, LateJob
  <2>3. QED
    BY <2>1, <2>2, <1>0 DEF LockOK
<1>2. CASE UserBreaks
  <2>1. Interrupts /\ UNCHANGED lock
    BY <1>2 DEF UserBreaks
  <2>2. Same(g) /\ (job[g].step = "write" => job'[g].late = TRUE)
    BY <1>0, <2>1, LateJob
  <2>3. QED
    BY <2>1, <2>2, <1>0 DEF LockOK
<1>3. CASE LockAges
  BY <1>3, <1>0 DEF LockAges, counts, LockOK
<1>4. ASSUME NEW f \in Folders, Starts(f) PROVE LockOK(g)'
  BY <1>4, StartsEffect, <1>0 DEF LockOK
<1>5. ASSUME NEW f \in Folders, Exits(f) PROVE LockOK(g)'
  BY <1>5, <1>0 DEF Exits, counts, LockOK
<1>6. ASSUME NEW f \in Folders, Relaunches(f) PROVE LockOK(g)'
  BY <1>6, <1>0 DEF Relaunches, counts, LockOK
<1>7. ASSUME NEW f \in Folders, ClaudeWrites(f) PROVE LockOK(g)'
  <2>1. UNCHANGED lock /\ (Merged => ~linked[f])
    BY <1>7 DEF ClaudeWrites, IInv, LinksInv
  <2>2. Same(g) /\ job'[g].seen = job[g].seen
    BY <1>7, <1>0, ClaudeJob
  <2>3. Merged => user' = user /\ (job[g].step = "write" => job'[g].late = job[g].late)
    BY <1>7, <1>0, <2>1, ClaudeJob
  <2>4. QED
    BY <2>1, <2>2, <2>3, <1>0 DEF LockOK
<1>8. ASSUME NEW h \in Hands, BeginsMerge(h) PROVE LockOK(g)'
  <2>1. UNCHANGED <<user, lock>> /\ Others(h)
    BY <1>8, <1>0, BeginsEffect
  <2>2. job'[h].step \in {"wait", "after"}
    BY <1>8, <1>0, BeginsEffect
  <2>3. CASE g # h
    BY <2>1, <2>2, <2>3, <1>0 DEF LockOK
  <2>4. CASE g = h
    BY <2>1, <2>2, <2>4, <1>0 DEF LockOK
  <2>5. QED
    BY <2>3, <2>4
<1>9. ASSUME NEW h \in Hands, LocksAndReads(h) \/ Compares(h) PROVE LockOK(g)'
  <2>1. UNCHANGED user /\ Others(h)
    BY <1>9, <1>0, ReadsEffect
  <2>2. lock = None \/ (job[h].step = "compare" /\ Merged)
    BY <1>9, <1>0, ReadsEffect, Places
  <2>3. (lock = None \/ lock = h \/ ~Merged) /\ g # None
    BY <2>2, Apart DEF IInv, LockInv, LockOK
  <2>4. \/ job'[h].step = "after" /\ lock' = None
        \/ job'[h].step = "compare" /\ lock' = h
        \/ job'[h].step = "write" /\ job'[h].seen = user /\ lock' = lock /\ job[h].step = "compare"
    BY <1>9, <1>0, ReadsEffect
  <2>5. CASE g # h
    BY <2>1, <2>2, <2>3, <2>4, <2>5, <1>0 DEF LockOK
  <2>6. CASE g = h
    BY <2>1, <2>2, <2>3, <2>4, <2>6, <1>0 DEF LockOK
  <2>7. QED
    BY <2>5, <2>6
<1>10. ASSUME NEW h \in Hands, LockNotHad(h) PROVE LockOK(g)'
  <2>1. UNCHANGED <<user, lock>> /\ Others(h)
    BY <1>10, <1>0, UnhadEffect
  <2>2. job'[h].step \in {"after", "settle"}
    BY <1>10, <1>0, UnhadEffect
  <2>3. CASE g # h
    BY <2>1, <2>2, <2>3, <1>0 DEF LockOK
  <2>4. CASE g = h
    BY <2>1, <2>2, <2>4, <1>0 DEF LockOK
  <2>5. QED
    BY <2>3, <2>4
<1>11. ASSUME NEW h \in Hands, WritesMerged(h) \/ WriteFails(h) PROVE LockOK(g)'
  <2>1. Others(h) /\ job'[h].step = "after" /\ lock' = (IF lock = h THEN None ELSE lock)
        /\ Merged /\ job[h].step = "write"
    BY <1>11, <1>0, MergedEffect
  <2>2. lock = h
    BY <2>1 DEF IInv, LockInv, LockOK
  <2>3. CASE g # h
    BY <2>1, <2>2, <2>3, <1>0 DEF LockOK
  <2>4. CASE g = h
    BY <2>1, <2>2, <2>4, <1>0 DEF LockOK
  <2>5. QED
    BY <2>3, <2>4
<1>12. ASSUME NEW h \in Hands, HandsBack(h) PROVE LockOK(g)'
  <2>1. UNCHANGED <<user, lock>> /\ Others(h)
    BY <1>12, <1>0, HandsBackEffect
  <2>2. job'[h].step \in {"idle", "copy", "clear"}
    BY <1>12, <1>0, HandsBackEffect
  <2>3. CASE g # h
    BY <2>1, <2>2, <2>3, <1>0 DEF LockOK
  <2>4. CASE g = h
    BY <2>1, <2>2, <2>4, <1>0 DEF LockOK
  <2>5. QED
    BY <2>3, <2>4
<1>13. ASSUME NEW h \in Hands, CopiesUsers(h) PROVE LockOK(g)'
  <2>1. UNCHANGED <<user, lock>> /\ Others(h)
    BY <1>13, <1>0, CopiesEffect
  <2>2. job'[h].step \in {"idle", "snap"}
    BY <1>13, <1>0, CopiesEffect
  <2>3. CASE g # h
    BY <2>1, <2>2, <2>3, <1>0 DEF LockOK
  <2>4. CASE g = h
    BY <2>1, <2>2, <2>4, <1>0 DEF LockOK
  <2>5. QED
    BY <2>3, <2>4
<1>14. ASSUME NEW h \in Hands, Snaps(h) PROVE LockOK(g)'
  <2>1. UNCHANGED <<user, lock>> /\ Others(h)
    BY <1>14, <1>0, SnapsEffect
  <2>2. job'[h].step = "idle"
    BY <1>14, <1>0, SnapsEffect
  <2>3. CASE g # h
    BY <2>1, <2>2, <2>3, <1>0 DEF LockOK
  <2>4. CASE g = h
    BY <2>1, <2>2, <2>4, <1>0 DEF LockOK
  <2>5. QED
    BY <2>3, <2>4
<1>15. ASSUME NEW h \in Hands, Clears(h) PROVE LockOK(g)'
  <2>1. UNCHANGED <<user, lock>> /\ Others(h)
    BY <1>15, <1>0, ClearsEffect
  <2>2. job'[h].step = "idle"
    BY <1>15, <1>0, ClearsEffect
  <2>3. CASE g # h
    BY <2>1, <2>2, <2>3, <1>0 DEF LockOK
  <2>4. CASE g = h
    BY <2>1, <2>2, <2>4, <1>0 DEF LockOK
  <2>5. QED
    BY <2>3, <2>4
<1>16. ASSUME NEW h \in Hands, Looks(h) PROVE LockOK(g)'
  <2>1. UNCHANGED <<user, lock>> /\ Others(h)
    BY <1>16, <1>0, LooksEffect
  <2>2. job'[h].step \in {"idle", "put"}
    BY <1>16, <1>0, LooksEffect
  <2>3. CASE g # h
    BY <2>1, <2>2, <2>3, <1>0 DEF LockOK
  <2>4. CASE g = h
    BY <2>1, <2>2, <2>4, <1>0 DEF LockOK
  <2>5. QED
    BY <2>3, <2>4
<1>17. ASSUME NEW h \in Hands, Puts(h) PROVE LockOK(g)'
  <2>1. UNCHANGED <<user, lock>> /\ Others(h)
    BY <1>17, <1>0, PutsEffect
  <2>2. job'[h].step \in {"idle", "base"}
    BY <1>17, <1>0, PutsEffect
  <2>3. CASE g # h
    BY <2>1, <2>2, <2>3, <1>0 DEF LockOK
  <2>4. CASE g = h
    BY <2>1, <2>2, <2>4, <1>0 DEF LockOK
  <2>5. QED
    BY <2>3, <2>4
<1>18. ASSUME NEW h \in Hands, PutsBase(h) PROVE LockOK(g)'
  <2>1. UNCHANGED <<user, lock>> /\ Others(h)
    BY <1>18, <1>0, PutsBaseEffect
  <2>2. job'[h].step = "idle"
    BY <1>18, <1>0, PutsBaseEffect
  <2>3. CASE g # h
    BY <2>1, <2>2, <2>3, <1>0 DEF LockOK
  <2>4. CASE g = h
    BY <2>1, <2>2, <2>4, <1>0 DEF LockOK
  <2>5. QED
    BY <2>3, <2>4
<1>19. ASSUME NEW h \in Hands, MovesAside(h) PROVE LockOK(g)'
  <2>1. ~Merged
    BY <1>19, <1>0, AsideEffect
  <2>2. QED
    BY <1>0, <2>1 DEF LockOK
<1>20. ASSUME NEW h \in Hands, PlansSync(h) PROVE LockOK(g)'
  <2>1. ~Merged
    BY <1>20, <1>0, PlansEffect
  <2>2. QED
    BY <1>0, <2>1 DEF LockOK
<1>21. ASSUME NEW h \in Hands, PlansReturn(h) PROVE LockOK(g)'
  <2>1. ~Merged
    BY <1>21, <1>0, ReturnsEffect
  <2>2. QED
    BY <1>0, <2>1 DEF LockOK
<1>22. ASSUME NEW h \in Hands, WritesFile(h) PROVE LockOK(g)'
  <2>1. ~Merged
    BY <1>22, <1>0, FileEffect
  <2>2. QED
    BY <1>0, <2>1 DEF LockOK
<1>23. ASSUME NEW h \in Hands, WriteFileFails(h) PROVE LockOK(g)'
  <2>1. ~Merged
    BY <1>23, <1>0, FileFailsEffect
  <2>2. QED
    BY <1>0, <2>1 DEF LockOK
<1>24. ASSUME NEW h \in Hands, Adopts(h) PROVE LockOK(g)'
  <2>1. h \in Folders
    BY <1>24, Places DEF Adopts, Does, Folders
  <2>2. UNCHANGED <<user, lock>> /\ Others(h) /\ job'[h].step = "idle"
    BY <1>24, <1>0, <2>1, AdoptsEffect
  <2>3. CASE g # h
    BY <2>1, <2>2, <2>3, <1>0 DEF LockOK
  <2>4. CASE g = h
    BY <2>1, <2>2, <2>4, <1>0 DEF LockOK
  <2>5. QED
    BY <2>3, <2>4
<1>25. ASSUME NEW h \in Hands, PutsBack(h) PROVE LockOK(g)'
  <2>1. UNCHANGED <<user, lock>> /\ Others(h)
    BY <1>25, <1>0, PutsBackEffect
  <2>2. job'[h].step = "idle"
    BY <1>25, <1>0, PutsBackEffect
  <2>3. CASE g # h
    BY <2>1, <2>2, <2>3, <1>0 DEF LockOK
  <2>4. CASE g = h
    BY <2>1, <2>2, <2>4, <1>0 DEF LockOK
  <2>5. QED
    BY <2>3, <2>4
<1>26. ASSUME NEW h \in Hands, Dies(h) PROVE LockOK(g)'
  <2>1. UNCHANGED <<user, lock>> /\ Others(h)
    BY <1>26, <1>0, DiesEffect
  <2>2. job'[h].step = "idle"
    BY <1>26, <1>0, DiesEffect
  <2>3. CASE g # h
    BY <2>1, <2>2, <2>3, <1>0 DEF LockOK
  <2>4. CASE g = h
    BY <2>1, <2>2, <2>4, <1>0 DEF LockOK
  <2>5. QED
    BY <2>3, <2>4
<1>27. CASE UNCHANGED vars
  BY <1>27, <1>0 DEF vars, LockOK
<1>28. QED
  BY <1>1, <1>2, <1>3, <1>4, <1>5, <1>6, <1>7, <1>8, <1>9, <1>10, <1>11, <1>12, <1>13,
     <1>14, <1>15, <1>16, <1>17, <1>18, <1>19, <1>20, <1>21, <1>22, <1>23, <1>24, <1>25,
     <1>26, <1>27 DEF Next, FolderStep, HandStep, Folders, Hands

\* What is handed back is a file of the kind followed; lines only gather.
LEMMA OursKept == IInv /\ [Next]_vars => OursInv'
<1> SUFFICES ASSUME IInv, [Next]_vars, NEW g \in Hands PROVE OursOK(g)'
  BY DEF OursInv
<1> USE DEF Same, Carried, Others, Ended, IsOver, Steps, Steady
<1>0. /\ JobTypes /\ FileTypes /\ OursOK(g) /\ job[g] \in Jobs
      /\ Merged' = Merged /\ Writable' = Writable /\ kind' = kind
  BY KindKept DEF IInv, JobTypes, OursInv
<1>1. CASE UserEdits
  <2>1. Interrupts /\ user' \in Edited(Content(user))
    BY <1>1 DEF UserEdits
  <2>2. Same(g) /\ Carried(g) /\ job'[g].seen = job[g].seen
    BY <1>0, <2>1, LateJob
  <2>3. Content(user) \in Contents
    BY <1>0, ContentType DEF FileTypes
  <2>4. user' \in Contents
    BY <2>1, <2>3, EditedIsWritable, WritableIsContent
  <2>5. Content(user') = user'
    BY <2>4, Atoms DEF Content
  <2>6. (kind = "lines" => Members(Content(user).list) \subseteq Members(Content(user').list))
    BY <2>1, <2>5 DEF Edited, Merged
  <2>7. QED
    BY <2>1, <2>2, <2>3, <2>4, <2>5, <2>6, <1>0 DEF OursOK
<1>2. CASE UserBreaks
  <2>1. Interrupts /\ kind # "lines"
    BY <1>2 DEF UserBreaks
  <2>2. Same(g) /\ Carried(g) /\ job'[g].seen = job[g].seen
    BY <1>0, <2>1, LateJob
  <2>3. QED
    BY <2>1, <2>2, <1>0 DEF OursOK
<1>3. CASE LockAges
  BY <1>3, <1>0 DEF LockAges, counts, OursOK
<1>4. ASSUME NEW f \in Folders, Starts(f) PROVE OursOK(g)'
  BY <1>4, StartsEffect, <1>0 DEF OursOK
<1>5. ASSUME NEW f \in Folders, Exits(f) PROVE OursOK(g)'
  BY <1>5, <1>0 DEF Exits, counts, OursOK
<1>6. ASSUME NEW f \in Folders, Relaunches(f) PROVE OursOK(g)'
  BY <1>6, <1>0 DEF Relaunches, counts, OursOK
<1>7. ASSUME NEW f \in Folders, ClaudeWrites(f) PROVE OursOK(g)'
  <2>1. Same(g) /\ Carried(g) /\ job'[g].seen = job[g].seen
    BY <1>7, <1>0, ClaudeJob
  <2>2. own[f] \in Contents \cup {None} /\ Content(own[f]) \in Contents
    BY <1>0, ContentType DEF FileTypes
  <2>3. PICK o \in Edited(Content(own[f])) : (linked[f] /\ user' = o) \/ user' = user
    BY <1>7 DEF ClaudeWrites
  <2>4. o \in Contents
    BY <2>2, EditedIsWritable, WritableIsContent
  <2>5. Content(o) = o
    BY <2>4, Atoms DEF Content
  <2>6. linked[f] => own[f] = user
    BY DEF IInv, LinksInv
  <2>7. (kind = "lines" => Members(Content(user).list) \subseteq Members(Content(user').list))
    BY <2>3, <2>5, <2>6 DEF Edited, Merged
  <2>8. QED
    BY <2>1, <2>2, <2>3, <2>4, <2>5, <2>6, <2>7, <1>0 DEF OursOK
<1>8. ASSUME NEW h \in Hands, BeginsMerge(h) PROVE OursOK(g)'
  <2>1. user' = user /\ Others(h) /\ Merged
    BY <1>8, <1>0, BeginsEffect
  <2>2. /\ job'[h].step \in {"wait", "after"} /\ job'[h].ours = own[job'[h].folder]
        /\ own[job'[h].folder] = None => job'[h].step = "after"
    BY <1>8, <1>0, BeginsEffect
  <2>3. job'[h] \in Jobs
    BY <1>0, <1>8, BegunType DEF JobTypes
  <2>4. job'[h].ours \in Contents \cup {None}
    BY <2>3, JobFields
  <2>5. CASE g # h
    BY <2>1, <2>2, <2>3, <2>4, <2>5, <1>0 DEF OursOK
  <2>6. CASE g = h
    BY <2>1, <2>2, <2>3, <2>4, <2>6, <1>0 DEF OursOK
  <2>7. QED
    BY <2>5, <2>6
<1>9. ASSUME NEW h \in Hands, LocksAndReads(h) \/ Compares(h) PROVE OursOK(g)'
  <2>1. user' = user /\ Others(h)
    BY <1>9, <1>0, ReadsEffect
  <2>2. \/ job'[h].step = "after"
        \/ job'[h].step \in {"compare", "write"} /\ job'[h].ours = job[h].ours /\ job[h].step \in {"wait", "compare"}
    BY <1>9, <1>0, ReadsEffect
  <2>3. Merged
    BY <1>9, <1>0, Places, ReadsEffect
  <2>4. kind # "lines"
    BY <2>3 DEF Merged
  <2>5. CASE g # h
    BY <2>1, <2>2, <2>3, <2>4, <2>5, <1>0 DEF OursOK
  <2>6. CASE g = h
    BY <2>1, <2>2, <2>3, <2>4, <2>6, <1>0 DEF OursOK
  <2>7. QED
    BY <2>5, <2>6
<1>10. ASSUME NEW h \in Hands, LockNotHad(h) PROVE OursOK(g)'
  <2>1. user' = user /\ Others(h) /\ job[h].step = "wait"
    BY <1>10, <1>0, UnhadEffect
  <2>2. \/ job'[h].step = "after"
        \/ job'[h].step = "settle" /\ job'[h].ours = job[h].ours
    BY <1>10, <1>0, UnhadEffect
  <2>3. job'[h].step = "after" \/ ~Merged
    BY <1>10, <1>0, UnhadEffect
  <2>4. CASE g # h
    BY <2>1, <2>2, <2>3, <2>4, <1>0 DEF OursOK
  <2>5. CASE g = h
    BY <2>1, <2>2, <2>3, <2>5, <1>0 DEF OursOK
  <2>6. QED
    BY <2>4, <2>5
<1>11. ASSUME NEW h \in Hands, WritesMerged(h) \/ WriteFails(h) PROVE OursOK(g)'
  <2>1. Others(h) /\ job'[h].step = "after" /\ Merged /\ job[h].step = "write"
    BY <1>11, <1>0, MergedEffect
  <2>2. kind # "lines"
    BY <2>1 DEF Merged
  <2>3. CASE g # h
    BY <2>1, <2>2, <2>3, <1>0 DEF OursOK
  <2>4. CASE g = h
    BY <2>1, <2>2, <2>4, <1>0 DEF OursOK
  <2>5. QED
    BY <2>3, <2>4
<1>12. ASSUME NEW h \in Hands, HandsBack(h) PROVE OursOK(g)'
  <2>1. user' = user /\ Others(h)
    BY <1>12, <1>0, HandsBackEffect
  <2>2. job'[h].step \in {"idle", "copy", "clear"}
    BY <1>12, <1>0, HandsBackEffect
  <2>3. CASE g # h
    BY <2>1, <2>2, <2>3, <1>0 DEF OursOK
  <2>4. CASE g = h
    BY <2>1, <2>2, <2>4, <1>0 DEF OursOK
  <2>5. QED
    BY <2>3, <2>4
<1>13. ASSUME NEW h \in Hands, CopiesUsers(h) PROVE OursOK(g)'
  <2>1. user' = user /\ Others(h)
    BY <1>13, <1>0, CopiesEffect
  <2>2. job'[h].step \in {"idle", "snap"}
    BY <1>13, <1>0, CopiesEffect
  <2>3. CASE g # h
    BY <2>1, <2>2, <2>3, <1>0 DEF OursOK
  <2>4. CASE g = h
    BY <2>1, <2>2, <2>4, <1>0 DEF OursOK
  <2>5. QED
    BY <2>3, <2>4
<1>14. ASSUME NEW h \in Hands, Snaps(h) PROVE OursOK(g)'
  <2>1. user' = user /\ Others(h)
    BY <1>14, <1>0, SnapsEffect
  <2>2. job'[h].step = "idle"
    BY <1>14, <1>0, SnapsEffect
  <2>3. CASE g # h
    BY <2>1, <2>2, <2>3, <1>0 DEF OursOK
  <2>4. CASE g = h
    BY <2>1, <2>2, <2>4, <1>0 DEF OursOK
  <2>5. QED
    BY <2>3, <2>4
<1>15. ASSUME NEW h \in Hands, Clears(h) PROVE OursOK(g)'
  <2>1. user' = user /\ Others(h)
    BY <1>15, <1>0, ClearsEffect
  <2>2. job'[h].step = "idle"
    BY <1>15, <1>0, ClearsEffect
  <2>3. CASE g # h
    BY <2>1, <2>2, <2>3, <1>0 DEF OursOK
  <2>4. CASE g = h
    BY <2>1, <2>2, <2>4, <1>0 DEF OursOK
  <2>5. QED
    BY <2>3, <2>4
<1>16. ASSUME NEW h \in Hands, Looks(h) PROVE OursOK(g)'
  <2>1. user' = user /\ Others(h)
    BY <1>16, <1>0, LooksEffect
  <2>2. job'[h].step \in {"idle", "put"}
    BY <1>16, <1>0, LooksEffect
  <2>3. CASE g # h
    BY <2>1, <2>2, <2>3, <1>0 DEF OursOK
  <2>4. CASE g = h
    BY <2>1, <2>2, <2>4, <1>0 DEF OursOK
  <2>5. QED
    BY <2>3, <2>4
<1>17. ASSUME NEW h \in Hands, Puts(h) PROVE OursOK(g)'
  <2>1. user' = user /\ Others(h)
    BY <1>17, <1>0, PutsEffect
  <2>2. job'[h].step \in {"idle", "base"}
    BY <1>17, <1>0, PutsEffect
  <2>3. CASE g # h
    BY <2>1, <2>2, <2>3, <1>0 DEF OursOK
  <2>4. CASE g = h
    BY <2>1, <2>2, <2>4, <1>0 DEF OursOK
  <2>5. QED
    BY <2>3, <2>4
<1>18. ASSUME NEW h \in Hands, PutsBase(h) PROVE OursOK(g)'
  <2>1. user' = user /\ Others(h)
    BY <1>18, <1>0, PutsBaseEffect
  <2>2. job'[h].step = "idle"
    BY <1>18, <1>0, PutsBaseEffect
  <2>3. CASE g # h
    BY <2>1, <2>2, <2>3, <1>0 DEF OursOK
  <2>4. CASE g = h
    BY <2>1, <2>2, <2>4, <1>0 DEF OursOK
  <2>5. QED
    BY <2>3, <2>4
<1>19. ASSUME NEW h \in Hands, MovesAside(h) PROVE OursOK(g)'
  <2>1. user' = user /\ Others(h) /\ ~Merged /\ h \in Editors /\ h \in Hands
    BY <1>19, <1>0, AsideEffect
  <2>2. \/ job' = job
        \/ job'[h].step = "wait" /\ job'[h].ours = own[h] /\ own[h] # None
    BY <1>19, <1>0, AsideEffect
  <2>3. own[h] \in Writable \cup {None}
    BY <2>1, ReadableFile DEF Folders
  <2>4. Writable \subseteq Contents
    BY WritableIsContent
  <2>5. CASE g # h
    BY <2>1, <2>2, <2>3, <2>4, <2>5, <1>0 DEF OursOK
  <2>6. CASE g = h
    BY <2>1, <2>2, <2>3, <2>4, <2>6, <1>0 DEF OursOK
  <2>7. QED
    BY <2>5, <2>6
<1>20. ASSUME NEW h \in Hands, PlansSync(h) PROVE OursOK(g)'
  <2>1. user' = user /\ Others(h) /\ ~Merged /\ job[h].step = "wait"
    BY <1>20, <1>0, PlansEffect
  <2>2. job'[h].ours = job[h].ours /\ job'[h].seen = user
        /\ job'[h].step \in {"write", "settle"}
    BY <1>20, <1>0, PlansEffect
  <2>3. CASE g # h
    BY <2>1, <2>2, <2>3, <1>0 DEF OursOK
  <2>4. CASE g = h
    BY <2>1, <2>2, <2>4, <1>0 DEF OursOK
  <2>5. QED
    BY <2>3, <2>4
<1>21. ASSUME NEW h \in Hands, PlansReturn(h) PROVE OursOK(g)'
  <2>1. user' = user /\ Others(h) /\ ~Merged
    BY <1>21, <1>0, ReturnsEffect
  <2>2. PICK f \in Sessions, plan \in {"none", "back", "aside"} :
            /\ plan \in (IF own[f] = None \/ linked[f] THEN {"none"}
                         ELSE Plans(base[f], own[f], user))
            /\ job'[h].step = (IF plan = "back" THEN "write" ELSE "clear")
            /\ job'[h].ours = own[f] /\ job'[h].seen = user
    BY <1>21, <1>0, ReturnsEffect
  <2>3. own[f] \in Writable \cup {None} /\ Writable \subseteq Contents
    BY <2>1, ReadableFile, WritableIsContent DEF Folders
  <2>4. job'[h].step = "write" => own[f] # None
    BY <2>2
  <2>5. CASE g # h
    BY <2>1, <2>5, <1>0 DEF OursOK
  <2>6. CASE g = h
    BY <2>1, <2>2, <2>3, <2>4, <2>6, <1>0 DEF OursOK
  <2>7. QED
    BY <2>5, <2>6
<1>22. ASSUME NEW h \in Hands, WritesFile(h) PROVE OursOK(g)'
  <2>1. /\ Others(h) /\ ~Merged /\ job[h].step = "write"
        /\ job'[h].step = AfterFile(h) /\ job'[h].ours = job[h].ours
    BY <1>22, <1>0, FileEffect
  <2>2. AfterFile(h) \in {"settle", "clear"}
    BY DEF AfterFile
  <2>3. Content(user) \in Contents
    BY <1>0, ContentType DEF FileTypes
  <2>4. job[h].ours \in Contents
    BY <2>1 DEF IInv, OursInv, OursOK
  <2>5. kind = "lines" => user' = [Empty EXCEPT !.list = Members(Content(user).list)
                              \cup MissingLines(job[h].ours, job[h].seen)]
    BY <1>22, <1>0, FileEffect
  <2>6. Members(Content(user).list) \cup MissingLines(job[h].ours, job[h].seen) \subseteq Items
    BY <2>3, <2>4 DEF Members, MissingLines, Contents
  <2>7. kind = "lines" => /\ user' \in Contents
                          /\ user'.list = Members(Content(user).list)
                               \cup MissingLines(job[h].ours, job[h].seen)
                          /\ user'.list # Absent
    BY <2>5, <2>6, UserFilesAssumption DEF Empty, Contents
  <2>8. (kind = "lines" => Members(Content(user).list) \subseteq Members(Content(user').list))
    BY <2>7, Atoms DEF Content, Members
  <2>9. CASE g # h
    BY <2>1, <2>2, <2>3, <2>4, <2>5, <2>6, <2>7, <2>8, <2>9, <1>0 DEF OursOK
  <2>10. CASE g = h
    BY <2>1, <2>2, <2>3, <2>4, <2>5, <2>6, <2>7, <2>8, <2>10, <1>0 DEF OursOK
  <2>11. QED
    BY <2>9, <2>10
<1>23. ASSUME NEW h \in Hands, WriteFileFails(h) PROVE OursOK(g)'
  <2>1. user' = user /\ Others(h) /\ ~Merged /\ job[h].step = "write"
        /\ job'[h].step = AfterFile(h) /\ job'[h].ours = job[h].ours
    BY <1>23, <1>0, FileFailsEffect
  <2>2. AfterFile(h) \in {"settle", "clear"}
    BY DEF AfterFile
  <2>3. CASE g # h
    BY <2>1, <2>2, <2>3, <1>0 DEF OursOK
  <2>4. CASE g = h
    BY <2>1, <2>2, <2>4, <1>0 DEF OursOK
  <2>5. QED
    BY <2>3, <2>4
<1>24. ASSUME NEW h \in Hands, Adopts(h) PROVE OursOK(g)'
  <2>1. h \in Folders
    BY <1>24, Places DEF Adopts, Does, Folders
  <2>2. user' = user /\ Others(h) /\ job'[h].step = "idle"
    BY <1>24, <1>0, <2>1, AdoptsEffect
  <2>3. CASE g # h
    BY <2>1, <2>2, <2>3, <1>0 DEF OursOK
  <2>4. CASE g = h
    BY <2>1, <2>2, <2>4, <1>0 DEF OursOK
  <2>5. QED
    BY <2>3, <2>4
<1>25. ASSUME NEW h \in Hands, PutsBack(h) PROVE OursOK(g)'
  <2>1. user' = user /\ Others(h)
    BY <1>25, <1>0, PutsBackEffect
  <2>2. job'[h].step = "idle"
    BY <1>25, <1>0, PutsBackEffect
  <2>3. CASE g # h
    BY <2>1, <2>2, <2>3, <1>0 DEF OursOK
  <2>4. CASE g = h
    BY <2>1, <2>2, <2>4, <1>0 DEF OursOK
  <2>5. QED
    BY <2>3, <2>4
<1>26. ASSUME NEW h \in Hands, Dies(h) PROVE OursOK(g)'
  <2>1. user' = user /\ Others(h)
    BY <1>26, <1>0, DiesEffect
  <2>2. job'[h].step = "idle"
    BY <1>26, <1>0, DiesEffect
  <2>3. CASE g # h
    BY <2>1, <2>2, <2>3, <1>0 DEF OursOK
  <2>4. CASE g = h
    BY <2>1, <2>2, <2>4, <1>0 DEF OursOK
  <2>5. QED
    BY <2>3, <2>4
<1>27. CASE UNCHANGED vars
  BY <1>27, <1>0 DEF vars, OursOK
<1>28. QED
  BY <1>1, <1>2, <1>3, <1>4, <1>5, <1>6, <1>7, <1>8, <1>9, <1>10, <1>11, <1>12, <1>13,
     <1>14, <1>15, <1>16, <1>17, <1>18, <1>19, <1>20, <1>21, <1>22, <1>23, <1>24, <1>25,
     <1>26, <1>27 DEF Next, FolderStep, HandStep, Folders, Hands

\* What the user's file shows is not due.
LEMMA DueKept == IInv /\ [Next]_vars => DueInv'
<1> SUFFICES ASSUME IInv, [Next]_vars, NEW g \in Folders PROVE DueOK(g)'
  BY DEF DueInv
<1>0. /\ JobTypes /\ FileTypes /\ DueOK(g) /\ g \in Hands
  BY DEF IInv, JobTypes, DueInv, Hands
<1>1. CASE UserEdits
  <2>1. UNCHANGED phase /\ due' = Arrives(user')
    BY <1>1 DEF UserEdits
  <2>2. due'[g] \subseteq due[g] /\ (user' # Broken => \A c \in due'[g] : ~Shows(Content(user'), c))
    BY <2>1, ArrivesSpares
  <2>3. QED
    BY <2>1, <2>2, <1>0 DEF DueOK
<1>2. CASE UserBreaks
  <2>1. UNCHANGED phase /\ due' = Arrives(user')
    BY <1>2 DEF UserBreaks
  <2>2. due'[g] \subseteq due[g] /\ (user' # Broken => \A c \in due'[g] : ~Shows(Content(user'), c))
    BY <2>1, ArrivesSpares
  <2>3. QED
    BY <2>1, <2>2, <1>0 DEF DueOK
<1>3. CASE LockAges
  BY <1>3, <1>0 DEF LockAges, counts, DueOK
<1>4. ASSUME NEW f \in Folders, Starts(f) PROVE DueOK(g)'
  <2>1. UNCHANGED <<user, due>>
    BY <1>4, <1>0, StartsEffect
  <2>2. phase'[g] = "gone" => phase[g] = "gone"
    BY <1>4, <1>0, StartsEffect DEF FileTypes
  <2>3. QED
    BY <2>1, <2>2, <1>0 DEF DueOK
<1>5. ASSUME NEW f \in Folders, Exits(f) PROVE DueOK(g)'
  <2>1. UNCHANGED <<user, due>>
    BY <1>5 DEF Exits, counts
  <2>2. phase'[g] = "gone" => phase[g] = "gone"
    BY <1>5, <1>0 DEF Exits, FileTypes
  <2>3. QED
    BY <2>1, <2>2, <1>0 DEF DueOK
<1>6. ASSUME NEW f \in Folders, Relaunches(f) PROVE DueOK(g)'
  <2>1. UNCHANGED <<user, due>>
    BY <1>6 DEF Relaunches, counts
  <2>2. phase'[g] = "gone" => phase[g] = "gone"
    BY <1>6, <1>0 DEF Relaunches, FileTypes
  <2>3. QED
    BY <2>1, <2>2, <1>0 DEF DueOK
<1>7. ASSUME NEW f \in Folders, ClaudeWrites(f) PROVE DueOK(g)'
  <2>1. UNCHANGED phase /\ phase[f] = "claude"
    BY <1>7 DEF ClaudeWrites
  <2>2. PICK o \in Edited(Content(own[f])) :
        \/ user' = o /\ due' = Arrives(o)
        \/ /\ due' = [due EXCEPT ![f] =
                {c \in (@ \cup Changes(Content(own[f]), o)) \cap DueNext(f, o) :
                    user = Broken \/ ~Shows(Content(user), c)}]
           /\ UNCHANGED user
    BY <1>7 DEF ClaudeWrites
  <2>3. CASE user' = o /\ due' = Arrives(o)
    BY <1>0, <2>1, <2>3, ArrivesSpares DEF DueOK
  <2>4. CASE /\ due' = [due EXCEPT ![f] =
                {c \in (@ \cup Changes(Content(own[f]), o)) \cap DueNext(f, o) :
                    user = Broken \/ ~Shows(Content(user), c)}]
             /\ UNCHANGED user
    BY <1>0, <2>1, <2>4 DEF DueOK, FileTypes
  <2>5. QED
    BY <2>2, <2>3, <2>4, <1>0 DEF DueOK
<1>8. ASSUME NEW h \in Hands, BeginsMerge(h) PROVE DueOK(g)'
  <2>1. UNCHANGED <<user, phase, due>>
    BY <1>8, <1>0, BeginsEffect DEF Steady
  <2>2. QED
    BY <2>1, <1>0 DEF DueOK
<1>9. ASSUME NEW h \in Hands, LocksAndReads(h) \/ Compares(h) PROVE DueOK(g)'
  <2>1. UNCHANGED <<user, phase>>
    BY <1>9, <1>0, ReadsEffect DEF Steady
  <2>2. Settled(h, user, due) \/ UNCHANGED due
    BY <1>9, <1>0, ReadsEffect
  <2>3. due'[g] \subseteq due[g]
    BY <1>0, <2>2, SettledSpares DEF FileTypes
  <2>4. QED
    BY <2>1, <2>3, <1>0 DEF DueOK
<1>10. ASSUME NEW h \in Hands, LockNotHad(h) PROVE DueOK(g)'
  <2>1. UNCHANGED <<user, phase, due>>
    BY <1>10, <1>0, UnhadEffect DEF Steady
  <2>2. QED
    BY <2>1, <1>0 DEF DueOK
<1>11. ASSUME NEW h \in Hands, WritesMerged(h) PROVE DueOK(g)'
  <2>1. UNCHANGED phase /\ Settled(h, job[h].seen, Arrives(user'))
    BY <1>11 DEF WritesMerged
  <2>2. Arrives(user') \in [Folders -> SUBSET AllChanges]
    BY <1>0, ArrivesType
  <2>3. due'[g] \subseteq Arrives(user')[g]
    BY <2>1, <2>2, SettledSpares
  <2>4. due'[g] \subseteq due[g] /\ (user' # Broken => \A c \in due'[g] : ~Shows(Content(user'), c))
    BY <2>3, ArrivesSpares
  <2>5. QED
    BY <2>1, <2>4, <1>0 DEF DueOK
<1>12. ASSUME NEW h \in Hands, WriteFails(h) PROVE DueOK(g)'
  <2>1. UNCHANGED <<user, phase, due>>
    BY <1>12 DEF WriteFails, counts
  <2>2. QED
    BY <2>1, <1>0 DEF DueOK
<1>13. ASSUME NEW h \in Hands, HandsBack(h) PROVE DueOK(g)'
  <2>1. UNCHANGED <<user, due>>
    BY <1>13, <1>0, HandsBackEffect
  <2>2. phase'[g] = "gone" => phase[g] = "gone"
    BY <1>13, <1>0, HandsBackEffect DEF FileTypes
  <2>3. QED
    BY <2>1, <2>2, <1>0 DEF DueOK
<1>14. ASSUME NEW h \in Hands, CopiesUsers(h) PROVE DueOK(g)'
  <2>1. UNCHANGED <<user, due>>
    BY <1>14, <1>0, CopiesEffect
  <2>2. phase'[g] = "gone" => phase[g] = "gone"
    BY <1>14, <1>0, CopiesEffect DEF FileTypes
  <2>3. QED
    BY <2>1, <2>2, <1>0 DEF DueOK
<1>15. ASSUME NEW h \in Hands, Snaps(h) PROVE DueOK(g)'
  <2>1. UNCHANGED <<user, due>>
    BY <1>15, <1>0, SnapsEffect
  <2>2. phase'[g] = "gone" => phase[g] = "gone"
    BY <1>15, <1>0, SnapsEffect DEF FileTypes
  <2>3. QED
    BY <2>1, <2>2, <1>0 DEF DueOK
<1>16. ASSUME NEW h \in Hands, Clears(h) PROVE DueOK(g)'
  <2>1. UNCHANGED user /\ job[h].step = "clear"
    BY <1>16, <1>0, ClearsEffect
  <2>2. h \in Sweepers /\ job[h].folder \in Folders
    BY <2>1, Places
  <2>3. job[h].ok => due[job[h].folder] = {}
    BY <2>1, <2>2 DEF IInv, ReturnInv, ReturnOK
  <2>4. \/ /\ due' = IF job[h].ok THEN due ELSE [due EXCEPT ![job[h].folder] = {}]
           /\ phase' = [phase EXCEPT ![job[h].folder] = "gone"]
        \/ UNCHANGED <<phase, due>>
    BY <1>16, <1>0, ClearsEffect
  <2>5. due'[g] \subseteq due[g]
    BY <1>0, <2>2, <2>4 DEF FileTypes
  <2>6. phase'[g] = "gone" => phase[g] = "gone" \/ due'[g] = {}
    BY <1>0, <2>2, <2>3, <2>4 DEF FileTypes
  <2>7. QED
    BY <2>1, <2>5, <2>6, <1>0 DEF DueOK
<1>17. ASSUME NEW h \in Hands, Looks(h) PROVE DueOK(g)'
  <2>1. UNCHANGED <<user, phase>>
    BY <1>17, <1>0, LooksEffect DEF Steady
  <2>2. due' = [due EXCEPT ![h] = IF job[h].late THEN {} ELSE @ \ Settles(h)] \/ UNCHANGED due
    BY <1>17, <1>0, LooksEffect
  <2>3. due'[g] \subseteq due[g]
    BY <1>0, <2>2 DEF FileTypes
  <2>4. QED
    BY <2>1, <2>3, <1>0 DEF DueOK
<1>18. ASSUME NEW h \in Hands, Puts(h) PROVE DueOK(g)'
  <2>1. UNCHANGED <<user, phase>>
    BY <1>18, <1>0, PutsEffect
  <2>2. due' = [due EXCEPT ![h] = IF job[h].late THEN {} ELSE @] \/ UNCHANGED due
    BY <1>18, <1>0, PutsEffect
  <2>3. due'[g] \subseteq due[g]
    BY <1>0, <2>2 DEF FileTypes
  <2>4. QED
    BY <2>1, <2>3, <1>0 DEF DueOK
<1>19. ASSUME NEW h \in Hands, PutsBase(h) PROVE DueOK(g)'
  <2>1. UNCHANGED <<user, phase, due>>
    BY <1>19, <1>0, PutsBaseEffect DEF Steady
  <2>2. QED
    BY <2>1, <1>0 DEF DueOK
<1>20. ASSUME NEW h \in Hands, MovesAside(h) PROVE DueOK(g)'
  <2>1. UNCHANGED <<user, phase, due>>
    BY <1>20, <1>0, AsideEffect DEF Steady
  <2>2. QED
    BY <2>1, <1>0 DEF DueOK
<1>21. ASSUME NEW h \in Hands, PlansSync(h) PROVE DueOK(g)'
  <2>1. UNCHANGED <<user, phase, due>>
    BY <1>21, <1>0, PlansEffect DEF Steady
  <2>2. QED
    BY <2>1, <1>0 DEF DueOK
<1>22. ASSUME NEW h \in Hands, PlansReturn(h) PROVE DueOK(g)'
  <2>1. UNCHANGED <<user, phase, due>>
    BY <1>22, <1>0, ReturnsEffect DEF Steady
  <2>2. QED
    BY <2>1, <1>0 DEF DueOK
<1>23. ASSUME NEW h \in Hands, WritesFile(h) PROVE DueOK(g)'
  <2>1. UNCHANGED phase /\ due' = Arrives(user')
    BY <1>23 DEF WritesFile
  <2>2. due'[g] \subseteq due[g] /\ (user' # Broken => \A c \in due'[g] : ~Shows(Content(user'), c))
    BY <2>1, ArrivesSpares
  <2>3. QED
    BY <2>1, <2>2, <1>0 DEF DueOK
<1>24. ASSUME NEW h \in Hands, WriteFileFails(h) PROVE DueOK(g)'
  <2>1. UNCHANGED <<user, phase, due>>
    BY <1>24, <1>0, FileFailsEffect DEF Steady
  <2>2. QED
    BY <2>1, <1>0 DEF DueOK
<1>25. ASSUME NEW h \in Hands, Adopts(h) PROVE DueOK(g)'
  <2>1. h \in Folders
    BY <1>25, Places DEF Adopts, Does, Folders
  <2>2. UNCHANGED <<user, phase>>
    BY <1>25, <1>0, <2>1, AdoptsEffect
  <2>3. due' = [due EXCEPT ![h] = @ \ Due(job[h].base, job[h].ours)] \/ UNCHANGED due
    BY <1>25, <1>0, <2>1, AdoptsEffect
  <2>4. due'[g] \subseteq due[g]
    BY <1>0, <2>3 DEF FileTypes
  <2>5. QED
    BY <2>2, <2>4, <1>0 DEF DueOK
<1>26. ASSUME NEW h \in Hands, PutsBack(h) PROVE DueOK(g)'
  <2>1. UNCHANGED <<user, phase>>
    BY <1>26, <1>0, PutsBackEffect
  <2>2. due' = [due EXCEPT ![h] = @ \cap Due(base[h], own[h])] \/ UNCHANGED due
    BY <1>26, <1>0, PutsBackEffect
  <2>3. due'[g] \subseteq due[g]
    BY <1>0, <2>2 DEF FileTypes
  <2>4. QED
    BY <2>1, <2>3, <1>0 DEF DueOK
<1>27. ASSUME NEW h \in Hands, Dies(h) PROVE DueOK(g)'
  <2>1. UNCHANGED user
    BY <1>27, <1>0, DiesEffect
  <2>2. due' = [due EXCEPT ![h] = @ \cap Due(base[h], own[h])] \/ UNCHANGED due
    BY <1>27, <1>0, DiesEffect
  <2>3. due'[g] \subseteq due[g]
    BY <1>0, <2>2 DEF FileTypes
  <2>4. phase'[g] = "gone" => phase[g] = "gone"
    BY <1>27, <1>0, DiesEffect DEF FileTypes
  <2>5. QED
    BY <2>1, <2>3, <2>4, <1>0 DEF DueOK
<1>28. CASE UNCHANGED vars
  BY <1>28, <1>0 DEF vars, DueOK
<1>29. QED
  BY <1>1, <1>2, <1>3, <1>4, <1>5, <1>6, <1>7, <1>8, <1>9, <1>10, <1>11, <1>12, <1>13,
     <1>14, <1>15, <1>16, <1>17, <1>18, <1>19, <1>20, <1>21, <1>22, <1>23, <1>24, <1>25,
     <1>26, <1>27, <1>28 DEF Next, FolderStep, HandStep, Folders, Hands

\* While a session's folder is handed back nothing of it changes.
LEMMA RestKept ==
    ASSUME IInv, [Next]_vars, NEW g \in Sessions \cup Sweepers, job[g].step # "idle",
           NEW d \in Sessions, d = job[g].folder
    PROVE  Still(d)
<1> USE DEF Steady
<1>0. /\ JobTypes /\ FileTypes /\ d \in Folders /\ g \in Hands
      /\ phase[d] \in {"between", "left", "gone"} /\ (g \in Sessions => g = d /\ phase[d] = "between")
      /\ (g \in Sweepers => phase[d] # "between")
  BY Places, Apart DEF IInv, Folders, Hands
<1>1. CASE UserEdits
  <2>1. UNCHANGED base /\ due' = Arrives(user')
    BY <1>1 DEF UserEdits
  <2>2. due'[d] \subseteq due[d]
    BY <1>0, <2>1, ArrivesSpares
  <2>3. linked[d] \/ (own'[d] = own[d] /\ ~linked'[d])
    BY <1>1, <1>0 DEF UserEdits, InPlace, Unlinked, FileTypes
  <2>4. QED
    BY <2>1, <2>2, <2>3, <1>0 DEF Still
<1>2. CASE UserBreaks
  <2>1. UNCHANGED base /\ due' = Arrives(user')
    BY <1>2 DEF UserBreaks
  <2>2. due'[d] \subseteq due[d]
    BY <1>0, <2>1, ArrivesSpares
  <2>3. linked[d] \/ (own'[d] = own[d] /\ ~linked'[d])
    BY <1>2, <1>0 DEF UserBreaks, InPlace, Unlinked, FileTypes
  <2>4. QED
    BY <2>1, <2>2, <2>3, <1>0 DEF Still
<1>3. CASE LockAges
  BY <1>3, <1>0 DEF LockAges, counts, Still
<1>4. ASSUME NEW f \in Folders, Starts(f) PROVE Still(d)
  <2>1. phase[f] = "gone" /\ (\A h \in Sweepers : job[h].folder # f)
    BY <1>4 DEF Starts
  <2>2. f # d
    BY <1>0, <2>1
  <2>3. UNCHANGED due
    BY <1>4, <1>0, StartsEffect
  <2>4. base'[d] = base[d] /\ own'[d] = own[d] /\ linked'[d] = linked[d]
    BY <1>4, <1>0, <2>2, StartsEffect DEF Retaken, FileTypes
  <2>5. QED
    BY <2>3, <2>4, <1>0 DEF Still
<1>5. ASSUME NEW f \in Folders, Exits(f) PROVE Still(d)
  <2>1. UNCHANGED <<own, base, linked, due>>
    BY <1>5 DEF Exits
  <2>2. QED
    BY <2>1, <1>0 DEF Still
<1>6. ASSUME NEW f \in Folders, Relaunches(f) PROVE Still(d)
  <2>1. UNCHANGED <<own, base, linked, due>>
    BY <1>6 DEF Relaunches
  <2>2. QED
    BY <2>1, <1>0 DEF Still
<1>7. ASSUME NEW f \in Folders, ClaudeWrites(f) PROVE Still(d)
  <2>1. UNCHANGED base /\ phase[f] = "claude" /\ f # d
    BY <1>7, <1>0 DEF ClaudeWrites
  <2>2. \/ \E o : InPlace(o) /\ due' = Arrives(o)
        \/ \E o, new : /\ own' = [own EXCEPT ![f] = o] /\ linked' = [linked EXCEPT ![f] = FALSE]
                         /\ due' = [due EXCEPT ![f] = new]
    BY <1>7 DEF ClaudeWrites
  <2>3. ASSUME NEW o, InPlace(o), due' = Arrives(o) PROVE Still(d)
    BY <1>0, <2>1, <2>3, ArrivesSpares DEF InPlace, Still, FileTypes
  <2>4. ASSUME NEW o, NEW new,
               own' = [own EXCEPT ![f] = o] /\ linked' = [linked EXCEPT ![f] = FALSE],
               due' = [due EXCEPT ![f] = new]
        PROVE  Still(d)
    BY <1>0, <2>1, <2>4 DEF Still, FileTypes
  <2>5. QED
    BY <2>2, <2>3, <2>4, <1>0 DEF Still
<1>8. ASSUME NEW h \in Hands, BeginsMerge(h) PROVE Still(d)
  <2>1. UNCHANGED <<own, base, linked, due>>
    BY <1>8, <1>0, BeginsEffect
  <2>2. QED
    BY <2>1, <1>0 DEF Still
<1>9. ASSUME NEW h \in Hands, LocksAndReads(h) \/ Compares(h) PROVE Still(d)
  <2>1. UNCHANGED <<own, base, linked>>
    BY <1>9, <1>0, ReadsEffect
  <2>2. Settled(h, user, due) \/ UNCHANGED due
    BY <1>9, <1>0, ReadsEffect
  <2>3. due'[d] \subseteq due[d]
    BY <1>0, <2>2, SettledSpares DEF FileTypes
  <2>4. QED
    BY <2>1, <2>3, <1>0 DEF Still
<1>10. ASSUME NEW h \in Hands, LockNotHad(h) PROVE Still(d)
  <2>1. UNCHANGED <<own, base, linked, due>>
    BY <1>10, <1>0, UnhadEffect
  <2>2. QED
    BY <2>1, <1>0 DEF Still
<1>11. ASSUME NEW h \in Hands, WritesMerged(h) PROVE Still(d)
  <2>1. UNCHANGED <<own, base, linked>> /\ Settled(h, job[h].seen, Arrives(user'))
    BY <1>11 DEF WritesMerged
  <2>2. Arrives(user') \in [Folders -> SUBSET AllChanges]
    BY <1>0, ArrivesType
  <2>3. due'[d] \subseteq Arrives(user')[d]
    BY <1>0, <2>1, <2>2, SettledSpares
  <2>4. due'[d] \subseteq due[d]
    BY <1>0, <2>3, ArrivesSpares
  <2>5. QED
    BY <2>1, <2>4, <1>0 DEF Still
<1>12. ASSUME NEW h \in Hands, WriteFails(h) PROVE Still(d)
  <2>1. UNCHANGED <<own, base, linked, due>>
    BY <1>12 DEF WriteFails
  <2>2. QED
    BY <2>1, <1>0 DEF Still
<1>13. ASSUME NEW h \in Hands, HandsBack(h) PROVE Still(d)
  <2>1. UNCHANGED <<own, linked, due>> /\ job[h].step = "after" /\ Merged
        /\ job[h].task # "sync"
    BY <1>13, <1>0, HandsBackEffect
  <2>2. UNCHANGED base \/ (job[h].ok /\ AdvancesBase(job[h].folder))
    BY <1>13, <1>0, HandsBackEffect
  <2>3. h \in Sessions \cup Sweepers /\ job[h].folder \in Folders
    BY <2>1, Places DEF Hands, Folders
  <2>4. job[h].ok => due[job[h].folder] = {}
    BY <2>1, <2>3 DEF IInv, ReturnInv, ReturnOK
  <2>5. base'[d] = base[d] \/ due[d] = {}
    BY <1>0, <2>2, <2>3, <2>4 DEF AdvancesBase, FileTypes
  <2>6. \A fo \in Folders : ~linked[fo]
    BY <2>1 DEF IInv, LinksInv
  <2>7. QED
    BY <2>1, <2>5, <2>6, <1>0 DEF Still
<1>14. ASSUME NEW h \in Hands, CopiesUsers(h) PROVE Still(d)
  <2>1. UNCHANGED <<base, linked, due>> /\ job[h].step = "copy"
    BY <1>14, <1>0, CopiesEffect
  <2>2. h \in Sessions /\ Merged /\ phase[h] = "between" /\ job[h].folder = h
    BY <2>1, Places DEF Folders
  <2>3. due[h] = {}
    BY <2>1, <2>2 DEF IInv, ReturnInv, ReturnOK
  <2>4. own'[d] = own[d] \/ d = h
    BY <1>14, <1>0, CopiesEffect DEF FileTypes
  <2>5. \A fo \in Folders : ~linked[fo]
    BY <2>2 DEF IInv, LinksInv
  <2>6. QED
    BY <2>1, <2>2, <2>3, <2>4, <2>5, <1>0 DEF Still
<1>15. ASSUME NEW h \in Hands, Snaps(h) PROVE Still(d)
  <2>1. UNCHANGED <<own, linked, due>> /\ job[h].step = "snap"
    BY <1>15, <1>0, SnapsEffect
  <2>2. h \in Sessions /\ Merged /\ phase[h] = "between" /\ job[h].folder = h
    BY <2>1, Places DEF Folders
  <2>3. due[h] = {}
    BY <2>1, <2>2 DEF IInv, ReturnInv, ReturnOK
  <2>4. base'[d] = base[d] \/ d = h
    BY <1>15, <1>0, SnapsEffect DEF FileTypes
  <2>5. \A fo \in Folders : ~linked[fo]
    BY <2>2 DEF IInv, LinksInv
  <2>6. QED
    BY <2>1, <2>2, <2>3, <2>4, <2>5, <1>0 DEF Still
<1>16. ASSUME NEW h \in Hands, Clears(h) PROVE Still(d)
  <2>1. job[h].step = "clear"
    BY <1>16, <1>0, ClearsEffect
  <2>2. h \in Sweepers /\ job[h].folder \in Folders
    BY <2>1, Places
  <2>3. job[h].ok => due[job[h].folder] = {}
    BY <2>1, <2>2 DEF IInv, ReturnInv, ReturnOK
  <2>4. \/ /\ due' = IF job[h].ok THEN due ELSE [due EXCEPT ![job[h].folder] = {}]
           /\ own' = [own EXCEPT ![job[h].folder] = None] /\ base' = [base EXCEPT ![job[h].folder] = None]
           /\ linked' = [linked EXCEPT ![job[h].folder] = FALSE]
        \/ UNCHANGED <<own, base, linked, due>>
    BY <1>16, <1>0, ClearsEffect
  <2>5. CASE d = job[h].folder
    BY <1>0, <2>2, <2>3, <2>4, <2>5 DEF Still, FileTypes
  <2>6. CASE d # job[h].folder
    BY <1>0, <2>2, <2>4, <2>6 DEF Still, FileTypes
  <2>7. QED
    BY <2>5, <2>6, <1>0 DEF Still
<1>17. ASSUME NEW h \in Hands, Looks(h) PROVE Still(d)
  <2>1. h \in Editors /\ h \in Folders /\ d # h
    BY <1>17, <1>0, Places, Apart DEF Looks, Does, Tasks, Hands, Folders
  <2>2. UNCHANGED <<own, base, linked>>
    BY <1>17, <1>0, LooksEffect
  <2>3. due' = [due EXCEPT ![h] = IF job[h].late THEN {} ELSE @ \ Settles(h)] \/ UNCHANGED due
    BY <1>17, <1>0, LooksEffect
  <2>4. due'[d] \subseteq due[d]
    BY <1>0, <2>1, <2>3 DEF FileTypes
  <2>5. QED
    BY <2>2, <2>4, <1>0 DEF Still
<1>18. ASSUME NEW h \in Hands, Puts(h) PROVE Still(d)
  <2>1. h \in Editors /\ h \in Folders /\ d # h
    BY <1>18, <1>0, Places, Apart DEF Puts, Does, Tasks, Hands, Folders
  <2>2. UNCHANGED <<base, linked>>
    BY <1>18, <1>0, PutsEffect
  <2>3. \/ own' = [own EXCEPT ![h] = Content(job[h].seen)] /\ due' = [due EXCEPT ![h] = IF job[h].late THEN {} ELSE @]
        \/ UNCHANGED <<own, due>>
    BY <1>18, <1>0, PutsEffect
  <2>4. due'[d] \subseteq due[d] /\ own'[d] = own[d]
    BY <1>0, <2>1, <2>3 DEF FileTypes
  <2>5. QED
    BY <2>2, <2>4, <1>0 DEF Still
<1>19. ASSUME NEW h \in Hands, PutsBase(h) PROVE Still(d)
  <2>1. h \in Editors /\ h \in Folders /\ d # h
    BY <1>19, <1>0, Places, Apart DEF PutsBase, Does, Tasks, Hands, Folders
  <2>2. UNCHANGED <<own, linked, due>>
    BY <1>19, <1>0, PutsBaseEffect
  <2>3. base'[d] = base[d]
    BY <1>19, <1>0, <2>1, PutsBaseEffect DEF FileTypes
  <2>4. QED
    BY <2>2, <2>3, <1>0 DEF Still
<1>20. ASSUME NEW h \in Hands, MovesAside(h) PROVE Still(d)
  <2>1. h \in Editors /\ h \in Folders /\ d # h
    BY <1>20, <1>0, Places, Apart DEF MovesAside, Does, Tasks, Hands, Folders
  <2>2. UNCHANGED due
    BY <1>20, <1>0, AsideEffect
  <2>3. Retaken(h) \/ (own' = [own EXCEPT ![h] = None] /\ UNCHANGED <<base, linked>>)
    BY <1>20, <1>0, AsideEffect
  <2>4. base'[d] = base[d] /\ own'[d] = own[d] /\ linked'[d] = linked[d]
    BY <1>0, <2>1, <2>3 DEF Retaken, FileTypes
  <2>5. QED
    BY <2>2, <2>4, <1>0 DEF Still
<1>21. ASSUME NEW h \in Hands, PlansSync(h) PROVE Still(d)
  <2>1. UNCHANGED <<own, base, linked, due>>
    BY <1>21, <1>0, PlansEffect
  <2>2. QED
    BY <2>1, <1>0 DEF Still
<1>22. ASSUME NEW h \in Hands, PlansReturn(h) PROVE Still(d)
  <2>1. UNCHANGED <<own, base, linked, due>>
    BY <1>22, <1>0, ReturnsEffect
  <2>2. QED
    BY <2>1, <1>0 DEF Still
<1>23. ASSUME NEW h \in Hands, WritesFile(h) PROVE Still(d)
  <2>1. UNCHANGED base /\ due' = Arrives(user')
    BY <1>23 DEF WritesFile
  <2>2. due'[d] \subseteq due[d]
    BY <1>0, <2>1, ArrivesSpares
  <2>3. linked[d] \/ (own'[d] = own[d] /\ ~linked'[d])
    BY <1>23, <1>0 DEF WritesFile, InPlace, Unlinked, FileTypes
  <2>4. QED
    BY <2>1, <2>2, <2>3, <1>0 DEF Still
<1>24. ASSUME NEW h \in Hands, WriteFileFails(h) PROVE Still(d)
  <2>1. UNCHANGED <<own, base, linked, due>>
    BY <1>24, <1>0, FileFailsEffect
  <2>2. QED
    BY <2>1, <1>0 DEF Still
<1>25. ASSUME NEW h \in Hands, Adopts(h) PROVE Still(d)
  <2>1. h \in Editors /\ h \in Folders /\ d # h
    BY <1>25, <1>0, Places, Apart DEF Adopts, Does, Tasks, Hands, Folders
  <2>2. due' = [due EXCEPT ![h] = @ \ Due(job[h].base, job[h].ours)] \/ UNCHANGED due
    BY <1>25, <1>0, <2>1, AdoptsEffect
  <2>3. Retaken(h) \/ UNCHANGED <<own, linked, base>>
    BY <1>25, <1>0, <2>1, AdoptsEffect
  <2>4. due'[d] \subseteq due[d] /\ base'[d] = base[d] /\ own'[d] = own[d]
        /\ linked'[d] = linked[d]
    BY <1>0, <2>1, <2>2, <2>3 DEF Retaken, FileTypes
  <2>5. QED
    BY <2>4, <1>0 DEF Still
<1>26. ASSUME NEW h \in Hands, PutsBack(h) PROVE Still(d)
  <2>1. h \in Editors /\ h \in Folders /\ d # h
    BY <1>26, <1>0, Places, Apart DEF PutsBack, Does, Tasks, Hands, Folders
  <2>2. UNCHANGED <<base, linked>>
    BY <1>26, <1>0, PutsBackEffect
  <2>3. \/ own' = [own EXCEPT ![h] = job[h].ours] /\ UNCHANGED due
        \/ due' = [due EXCEPT ![h] = @ \cap Due(base[h], own[h])] /\ UNCHANGED own
    BY <1>26, <1>0, PutsBackEffect
  <2>4. due'[d] \subseteq due[d] /\ own'[d] = own[d]
    BY <1>0, <2>1, <2>3 DEF FileTypes
  <2>5. QED
    BY <2>2, <2>4, <1>0 DEF Still
<1>27. ASSUME NEW h \in Hands, Dies(h) PROVE Still(d)
  <2>1. UNCHANGED <<own, base, linked>>
    BY <1>27, <1>0, DiesEffect
  <2>2. due' = [due EXCEPT ![h] = @ \cap Due(base[h], own[h])] \/ UNCHANGED due
    BY <1>27, <1>0, DiesEffect
  <2>3. due'[d] \subseteq due[d]
    BY <1>0, <2>2 DEF FileTypes
  <2>4. QED
    BY <2>1, <2>3, <1>0 DEF Still
<1>28. CASE UNCHANGED vars
  BY <1>28, <1>0 DEF vars, Still
<1>29. QED
  BY <1>1, <1>2, <1>3, <1>4, <1>5, <1>6, <1>7, <1>8, <1>9, <1>10, <1>11, <1>12, <1>13,
     <1>14, <1>15, <1>16, <1>17, <1>18, <1>19, <1>20, <1>21, <1>22, <1>23, <1>24, <1>25,
     <1>26, <1>27, <1>28 DEF Next, FolderStep, HandStep, Folders, Hands

\* Who does not move is as far as it was.
LEMMA ReturnStays ==
    ASSUME IInv, [Next]_vars, NEW g \in Sessions \cup Sweepers, Same(g), Carried(g)
    PROVE  ReturnOK(g)'
<1>1. ReturnOK(g) /\ g \in Hands
  BY DEF IInv, ReturnInv, Hands, Folders
<1>2. CASE job[g].step = "idle"
  BY <1>2 DEF ReturnOK, Same
<1>3. CASE job[g].step # "idle"
  <2>1. PICK d \in Sessions : d = job[g].folder
    BY <1>1, <1>3, Places, Apart DEF Hands, Folders
  <2>2. Still(d)
    BY <1>3, <2>1, RestKept
  <2>3. /\ job[g].step \in {"wait", "compare", "write"} => IsAll(g, d)
        /\ job[g].step \in {"after", "clear"} /\ job[g].ok => due[d] = {}
        /\ job[g].step \in {"copy", "snap"} => due[d] = {}
    BY <1>1, <1>3, <2>1 DEF ReturnOK
  <2>4. job'[g].folder = d
    BY <2>1 DEF Same
  <2>5. job'[g].step \in {"wait", "compare", "write"} => IsAll(g, d)'
    BY <2>2, <2>3 DEF IsAll, Still, Same, Carried
  <2>6. /\ job'[g].step \in {"after", "clear"} /\ job'[g].ok => due'[d] = {}
        /\ job'[g].step \in {"copy", "snap"} => due'[d] = {}
    BY <2>2, <2>3 DEF Still, Same, Carried
  <2>7. QED
    BY <2>4, <2>5, <2>6 DEF ReturnOK
<1>4. QED
  BY <1>2, <1>3

\* A hand-back that ends leaves nothing due: what clashed is kept aside, and
\* the rest is in the user's file.
LEMMA ReturnArrives ==
    ASSUME IInv, NEW g \in Sessions \cup Sweepers, Merged,
           job[g].step \in {"wait", "compare", "write"},
           NEW text \in Contents \cup {None, Broken},
           NEW arrived \in [Folders -> SUBSET AllChanges], Settled(g, text, arrived),
           NEW d \in Sessions, d = job[g].folder, arrived[d] \subseteq due[d],
           \A c \in arrived[d] : ~Shows(Merge(JobBase(g), JobOurs(g), Content(text)), c)
    PROVE  due'[d] = {}
<1>1. ReturnOK(g) /\ g \in Hands /\ d \in Folders
  BY DEF IInv, ReturnInv, Hands, Folders
<1>2. job[g].task # "sync"
  BY <1>1, Places, Apart DEF Hands, Folders
<1>3. due' = [arrived EXCEPT ![d] = @ \ Given(g, text)]
  BY <1>2 DEF Settled, Folder
<1>4. due'[d] = arrived[d] \ Given(g, text)
  BY <1>1, <1>3
<1>5. CASE due[d] = {}
  BY <1>4, <1>5
<1>6. CASE job[g].base = base[d] /\ job[g].ours = own[d]
  <2>1. due[d] \subseteq Due(job[g].base, job[g].ours)
    BY <1>6, SessionDue
  <2>2. ASSUME NEW c \in due'[d] PROVE FALSE
    BY <1>1, <1>4, <2>1, <2>2, MergeArrives
  <2>3. QED
    BY <2>2
<1>7. QED
  BY <1>1, <1>5, <1>6 DEF ReturnOK, IsAll

\* What is handed back of a session's folder is all of it, and arrives.
LEMMA ReturnKept == IInv /\ [Next]_vars => ReturnInv'
<1> SUFFICES ASSUME IInv, [Next]_vars, NEW g \in Sessions \cup Sweepers PROVE ReturnOK(g)'
  BY DEF ReturnInv
<1>0. /\ JobTypes /\ FileTypes /\ ReturnOK(g) /\ g \in Hands /\ job[g] \in Jobs
  BY DEF IInv, JobTypes, ReturnInv, Hands, Folders
<1>1. CASE UserEdits
  BY <1>1, <1>0, LateJob, ReturnStays DEF UserEdits
<1>2. CASE UserBreaks
  BY <1>2, <1>0, LateJob, ReturnStays DEF UserBreaks
<1>3. CASE LockAges
  BY <1>3, <1>0, ReturnStays DEF LockAges, Same, Carried
<1>4. ASSUME NEW f \in Folders, Starts(f) PROVE ReturnOK(g)'
  BY <1>4, <1>0, ReturnStays DEF Starts, Same, Carried
<1>5. ASSUME NEW f \in Folders, Exits(f) PROVE ReturnOK(g)'
  BY <1>5, <1>0, ReturnStays DEF Exits, Same, Carried
<1>6. ASSUME NEW f \in Folders, Relaunches(f) PROVE ReturnOK(g)'
  BY <1>6, <1>0, ReturnStays DEF Relaunches, Same, Carried
<1>7. ASSUME NEW f \in Folders, ClaudeWrites(f) PROVE ReturnOK(g)'
  BY <1>7, <1>0, ClaudeJob, ReturnStays
<1>8. ASSUME NEW h \in Hands, BeginsMerge(h) PROVE ReturnOK(g)'
  <2>1. Others(h)
    BY <1>8, <1>0, BeginsEffect
  <2>2. CASE g # h
    BY <1>0, <2>1, <2>2, ReturnStays DEF Others, Same, Carried
  <2>3. CASE g = h
    <3>1. Merged /\ job[g].step = "idle"
      BY <1>8, <1>0, <2>3, BeginsEffect
    <3>2. job'[g].folder \in Sessions
      BY <1>8, <1>0, <2>3, BeginsEffect, Apart DEF Hands, Folders
    <3>3. PICK d \in Sessions : d = job'[g].folder
      BY <3>2
    <3>4. /\ job'[g].base = base[d] /\ job'[g].ours = own[d] /\ UNCHANGED <<base, own, linked, due>>
          /\ job'[g].step \in {"wait", "after"}
          /\ job'[g].step = "after" => (job'[g].ok <=> own[d] = None)
      BY <1>8, <1>0, <2>3, <3>3, BeginsEffect DEF Steady
    <3>5. ~linked[d]
      BY <3>1 DEF IInv, LinksInv, Folders
    <3>6. own[d] = None => due[d] = {}
      BY SessionDue DEF Due
    <3>7. QED
      BY <2>3, <3>3, <3>4, <3>5, <3>6, <1>0 DEF ReturnOK, IsAll
  <2>4. QED
    BY <2>2, <2>3
<1>9. ASSUME NEW h \in Hands, LocksAndReads(h) \/ Compares(h) PROVE ReturnOK(g)'
  <2>1. Others(h)
    BY <1>9, <1>0, ReadsEffect
  <2>2. CASE g # h
    BY <1>0, <2>1, <2>2, ReturnStays DEF Others, Same, Carried
  <2>3. CASE g = h
    <3>1. /\ UNCHANGED <<own, base, linked, user>> /\ job[g].step \in {"wait", "compare"}
          /\ job[g].step = "wait" => Merged
      BY <1>9, <1>0, <2>3, ReadsEffect DEF Steady
    <3>2. Merged /\ job[g].folder \in Sessions
      BY <1>0, <3>1, Places, Apart DEF Hands, Folders
    <3>3. PICK d \in Sessions : d = job[g].folder
      BY <3>2
    <3>4. Still(d)
      BY <1>0, <3>1, <3>3, RestKept
    <3>5. IsAll(g, d)
      BY <1>0, <3>1, <3>3 DEF ReturnOK
    <3>6. \/ /\ IsOver(g, user, TRUE) /\ user # Broken /\ Settled(g, user, due)
             /\ Merge(JobBase(g), JobOurs(g), Content(user)) = Content(user)
          \/ IsOver(g, None, FALSE)
          \/ Steps(g, "compare") /\ due' = due
          \/ Steps(g, "write") /\ due' = due
      BY <1>9, <1>0, <2>3, ReadsEffect
    <3>7. CASE /\ IsOver(g, user, TRUE) /\ user # Broken /\ Settled(g, user, due)
               /\ Merge(JobBase(g), JobOurs(g), Content(user)) = Content(user)
      <4>1. \A c \in due[d] : ~Shows(Content(user), c)
        BY <3>7 DEF IInv, DueInv, DueOK, Folders
      <4>2. due \in [Folders -> SUBSET AllChanges] /\ user \in Contents \cup {None, Broken}
        BY <1>0 DEF FileTypes
      <4>3. due'[d] = {}
        BY <1>0, <3>1, <3>2, <3>3, <3>7, <4>1, <4>2, ReturnArrives
      <4>4. QED
        BY <3>3, <3>7, <4>3 DEF IsOver, ReturnOK
    <3>8. CASE IsOver(g, None, FALSE)
      BY <3>8 DEF IsOver, ReturnOK
    <3>9. CASE (Steps(g, "compare") \/ Steps(g, "write")) /\ due' = due
      BY <3>1, <3>3, <3>5, <3>9 DEF Steps, Carried, ReturnOK, IsAll
    <3>10. QED
      BY <2>3, <3>6, <3>7, <3>8, <3>9, <1>0 DEF ReturnOK
  <2>4. QED
    BY <2>2, <2>3
<1>10. ASSUME NEW h \in Hands, LockNotHad(h) PROVE ReturnOK(g)'
  <2>1. Others(h)
    BY <1>10, <1>0, UnhadEffect
  <2>2. CASE g # h
    BY <1>0, <2>1, <2>2, ReturnStays DEF Others, Same, Carried
  <2>3. CASE g = h
    <3>1. job[g].step = "wait"
      BY <1>10, <1>0, <2>3, UnhadEffect
    <3>2. Merged
      BY <1>0, <3>1, Places, Apart DEF Hands, Folders
    <3>3. IsOver(g, None, FALSE)
      BY <1>10, <1>0, <2>3, <3>2, UnhadEffect
    <3>4. QED
      BY <2>3, <3>1, <3>2, <3>3, <1>0 DEF IsOver, ReturnOK
  <2>4. QED
    BY <2>2, <2>3
<1>11. ASSUME NEW h \in Hands, WritesMerged(h) \/ WriteFails(h) PROVE ReturnOK(g)'
  <2>1. Others(h)
    BY <1>11, <1>0, MergedEffect
  <2>2. CASE g # h
    BY <1>0, <2>1, <2>2, ReturnStays DEF Others, Same, Carried
  <2>3. CASE g = h
    <3>1. /\ UNCHANGED <<own, base, linked>> /\ job[g].step = "write" /\ Merged
      BY <1>11, <1>0, <2>3, MergedEffect
    <3>2. job[g].folder \in Sessions
      BY <1>0, <3>1, Places, Apart DEF Hands, Folders
    <3>3. PICK d \in Sessions : d = job[g].folder
      BY <3>2
    <3>4. \/ /\ IsOver(g, job[g].seen, TRUE) /\ user' = Result(g)
             /\ Settled(g, job[g].seen, Arrives(user'))
          \/ IsOver(g, None, FALSE)
      BY <1>11, <1>0, <2>3, MergedEffect
    <3>5. CASE /\ IsOver(g, job[g].seen, TRUE) /\ user' = Result(g)
               /\ Settled(g, job[g].seen, Arrives(user'))
      <4>1. Result(g) \in Contents /\ job[g].seen \in Contents \cup {None, Broken}
        BY <1>0, <3>1, AtWrite, JobFields
      <4>2. user' # Broken /\ Content(user') = Result(g)
        BY <3>5, <4>1, Atoms DEF Content
      <4>3. /\ Arrives(user')[d] \subseteq due[d]
            /\ \A c \in Arrives(user')[d] : ~Shows(Result(g), c)
        BY <4>2, ArrivesSpares DEF Folders
      <4>4. Arrives(user') \in [Folders -> SUBSET AllChanges]
        BY <1>0, ArrivesType
      <4>5. due'[d] = {}
        BY <1>0, <3>1, <3>3, <3>5, <4>1, <4>3, <4>4, ReturnArrives DEF Result
      <4>6. QED
        BY <3>3, <3>5, <4>5 DEF IsOver, ReturnOK
    <3>6. CASE IsOver(g, None, FALSE)
      BY <3>6 DEF IsOver, ReturnOK
    <3>7. QED
      BY <2>3, <3>4, <3>5, <3>6, <1>0 DEF ReturnOK
  <2>4. QED
    BY <2>2, <2>3
<1>12. ASSUME NEW h \in Hands, HandsBack(h) PROVE ReturnOK(g)'
  <2>1. Others(h)
    BY <1>12, <1>0, HandsBackEffect
  <2>2. CASE g # h
    BY <1>0, <2>1, <2>2, ReturnStays DEF Others, Same, Carried
  <2>3. CASE g = h
    <3>1. UNCHANGED due /\ job[g].step = "after"
      BY <1>12, <1>0, <2>3, HandsBackEffect
    <3>2. job[g].ok => due[job[g].folder] = {}
      BY <1>0, <3>1 DEF ReturnOK
    <3>3. \/ job'[g].step = "idle"
          \/ job'[g].step = "copy" /\ job[g].ok /\ job'[g].folder = job[g].folder
          \/ job'[g].step = "clear" /\ (job'[g].ok => job[g].ok) /\ job'[g].folder = job[g].folder
      BY <1>12, <1>0, <2>3, HandsBackEffect DEF Ended, Steps
    <3>4. QED
      BY <2>3, <3>1, <3>2, <3>3, <1>0 DEF ReturnOK
  <2>4. QED
    BY <2>2, <2>3
<1>13. ASSUME NEW h \in Hands, CopiesUsers(h) PROVE ReturnOK(g)'
  <2>1. Others(h)
    BY <1>13, <1>0, CopiesEffect
  <2>2. CASE g # h
    BY <1>0, <2>1, <2>2, ReturnStays DEF Others, Same, Carried
  <2>3. CASE g = h
    <3>1. UNCHANGED due /\ job[g].step = "copy"
      BY <1>13, <1>0, <2>3, CopiesEffect
    <3>2. due[job[g].folder] = {}
      BY <1>0, <3>1 DEF ReturnOK
    <3>3. \/ job'[g].step = "idle"
          \/ job'[g].step = "snap" /\ job'[g].folder = job[g].folder
      BY <1>13, <1>0, <2>3, CopiesEffect DEF Ended, Steps
    <3>4. QED
      BY <2>3, <3>1, <3>2, <3>3, <1>0 DEF ReturnOK
  <2>4. QED
    BY <2>2, <2>3
<1>14. ASSUME NEW h \in Hands, Snaps(h) PROVE ReturnOK(g)'
  <2>1. Others(h)
    BY <1>14, <1>0, SnapsEffect
  <2>2. CASE g # h
    BY <1>0, <2>1, <2>2, ReturnStays DEF Others, Same, Carried
  <2>3. CASE g = h
    <3>1. job'[g].step = "idle"
      BY <1>14, <1>0, <2>3, SnapsEffect DEF Ended
    <3>2. QED
      BY <2>3, <3>1, <1>0 DEF ReturnOK
  <2>4. QED
    BY <2>2, <2>3
<1>15. ASSUME NEW h \in Hands, Clears(h) PROVE ReturnOK(g)'
  <2>1. Others(h)
    BY <1>15, <1>0, ClearsEffect
  <2>2. CASE g # h
    BY <1>0, <2>1, <2>2, ReturnStays DEF Others, Same, Carried
  <2>3. CASE g = h
    <3>1. job'[g].step = "idle"
      BY <1>15, <1>0, <2>3, ClearsEffect DEF Ended
    <3>2. QED
      BY <2>3, <3>1, <1>0 DEF ReturnOK
  <2>4. QED
    BY <2>2, <2>3
<1>16. ASSUME NEW h \in Hands, Looks(h) PROVE ReturnOK(g)'
  <2>1. Others(h)
    BY <1>16, <1>0, LooksEffect
  <2>2. CASE g # h
    BY <1>0, <2>1, <2>2, ReturnStays DEF Others, Same, Carried
  <2>3. CASE g = h
    <3>1. h \in Editors
      BY <1>16, Places DEF Looks, Does, Tasks, Hands, Folders
    <3>2. FALSE
      BY <2>3, <3>1, Apart DEF Folders
    <3>3. QED
      BY <2>3, <3>2, <1>0 DEF ReturnOK
  <2>4. QED
    BY <2>2, <2>3
<1>17. ASSUME NEW h \in Hands, Puts(h) PROVE ReturnOK(g)'
  <2>1. Others(h)
    BY <1>17, <1>0, PutsEffect
  <2>2. CASE g # h
    BY <1>0, <2>1, <2>2, ReturnStays DEF Others, Same, Carried
  <2>3. CASE g = h
    <3>1. h \in Editors
      BY <1>17, Places DEF Puts, Does, Tasks, Hands, Folders
    <3>2. FALSE
      BY <2>3, <3>1, Apart DEF Folders
    <3>3. QED
      BY <2>3, <3>2, <1>0 DEF ReturnOK
  <2>4. QED
    BY <2>2, <2>3
<1>18. ASSUME NEW h \in Hands, PutsBase(h) PROVE ReturnOK(g)'
  <2>1. Others(h)
    BY <1>18, <1>0, PutsBaseEffect
  <2>2. CASE g # h
    BY <1>0, <2>1, <2>2, ReturnStays DEF Others, Same, Carried
  <2>3. CASE g = h
    <3>1. h \in Editors
      BY <1>18, Places DEF PutsBase, Does, Tasks, Hands, Folders
    <3>2. FALSE
      BY <2>3, <3>1, Apart DEF Folders
    <3>3. QED
      BY <2>3, <3>2, <1>0 DEF ReturnOK
  <2>4. QED
    BY <2>2, <2>3
<1>19. ASSUME NEW h \in Hands, MovesAside(h) PROVE ReturnOK(g)'
  <2>1. Others(h)
    BY <1>19, <1>0, AsideEffect
  <2>2. CASE g # h
    BY <1>0, <2>1, <2>2, ReturnStays DEF Others, Same, Carried
  <2>3. CASE g = h
    <3>1. h \in Editors
      BY <1>19, Places DEF MovesAside, Does, Tasks, Hands, Folders
    <3>2. FALSE
      BY <2>3, <3>1, Apart DEF Folders
    <3>3. QED
      BY <2>3, <3>2, <1>0 DEF ReturnOK
  <2>4. QED
    BY <2>2, <2>3
<1>20. ASSUME NEW h \in Hands, PlansSync(h) PROVE ReturnOK(g)'
  <2>1. Others(h)
    BY <1>20, <1>0, PlansEffect
  <2>2. CASE g # h
    BY <1>0, <2>1, <2>2, ReturnStays DEF Others, Same, Carried
  <2>3. CASE g = h
    <3>1. h \in Editors
      BY <1>20, Places DEF PlansSync, Does, Tasks, Hands, Folders
    <3>2. FALSE
      BY <2>3, <3>1, Apart DEF Folders
    <3>3. QED
      BY <2>3, <3>2, <1>0 DEF ReturnOK
  <2>4. QED
    BY <2>2, <2>3
<1>21. ASSUME NEW h \in Hands, PlansReturn(h) PROVE ReturnOK(g)'
  <2>1. Others(h) /\ UNCHANGED <<own, base, linked, due>> /\ ~Merged
    BY <1>21, <1>0, ReturnsEffect DEF Steady
  <2>2. CASE g # h
    BY <1>0, <2>1, <2>2, ReturnStays DEF Others, Same, Carried
  <2>3. CASE g = h
    <3>1. PICK d \in Sessions, plan \in {"none", "back", "aside"} :
              /\ plan \in (IF own[d] = None \/ linked[d] THEN {"none"}
                           ELSE Plans(base[d], own[d], user))
              /\ job'[g].step = (IF plan = "back" THEN "write" ELSE "clear")
              /\ job'[g].folder = d /\ job'[g].base = base[d] /\ job'[g].ours = own[d]
              /\ job'[g].ok = (plan # "aside")
      BY <1>21, <1>0, <2>3, ReturnsEffect
    <3>2. plan = "back" => ~linked[d]
      BY <3>1
    <3>3. plan = "none" => due[d] = {}
      <4> SUFFICES ASSUME plan = "none", NEW c \in due[d] PROVE FALSE
        OBVIOUS
      <4>1. /\ user # Broken /\ user \in Contents \cup {None} /\ d \in Folders
            /\ own[d] \in Writable \cup {None} /\ base[d] \in Contents \cup {None}
        BY <1>0, <2>1, ReadableFile DEF Folders, FileTypes
      <4>2. c \in Due(base[d], own[d]) /\ ~Shows(Content(user), c)
        BY <4>1, SessionDue DEF IInv, DueInv, DueOK
      <4>3. own[d] # None /\ own[d] \in Writable
        BY <4>1, <4>2 DEF Due
      <4>4. CASE linked[d]
        <5>1. own[d] = user /\ own[d] \in Contents
          BY <4>1, <4>3, <4>4, WritableIsContent DEF IInv, LinksInv
        <5>2. QED
          BY <2>1, <4>1, <4>2, <5>1, DueShown
      <4>5. CASE ~linked[d]
        BY <2>1, <3>1, <4>1, <4>2, <4>3, <4>5, NothingToHandBack
      <4>6. QED
        BY <4>4, <4>5
    <3>4. QED
      BY <2>1, <3>1, <3>2, <3>3 DEF ReturnOK, IsAll
  <2>4. QED
    BY <2>2, <2>3
<1>22. ASSUME NEW h \in Hands, WritesFile(h) PROVE ReturnOK(g)'
  <2>1. Others(h)
    BY <1>22, <1>0, FileEffect
  <2>2. CASE g # h
    BY <1>0, <2>1, <2>2, ReturnStays DEF Others, Same, Carried
  <2>3. CASE g = h
    <3>1. /\ ~Merged /\ job[g].step = "write" /\ job'[g].folder = job[g].folder
          /\ job'[g].step = AfterFile(g) /\ due' = Arrives(user')
      BY <1>22, <1>0, <2>3, FileEffect
    <3>2. job[g].folder \in Sessions /\ job[g].task = "sweep"
      BY <1>0, <3>1, Places, Apart DEF Hands, Folders
    <3>3. job'[g].step = "clear"
      BY <3>1, <3>2 DEF AfterFile
    <3>4. PICK d \in Sessions : d = job[g].folder
      BY <3>2
    <3>5. /\ due'[d] \subseteq due[d] /\ user' # Broken
          /\ \A c \in due'[d] : ~Shows(Content(user'), c)
      <4>1. user' \in Contents
        BY <1>22, <1>0, FileWritten
      <4>2. QED
        BY <3>1, <4>1, ArrivesSpares, Atoms DEF Folders
    <3>6. CASE due[d] = {}
      BY <3>1, <3>3, <3>4, <3>5, <3>6 DEF ReturnOK
    <3>7. CASE job[g].base = base[d] /\ job[g].ours = own[d]
      <4>1. due[d] \subseteq Due(job[g].base, job[g].ours)
            /\ job[g].base \in Contents \cup {None}
        BY <1>0, <3>7, SessionDue, JobFields
      <4>2. \A c \in due[d] : Shows(Content(user'), c)
        BY <1>22, <2>3, <4>1, FileArrives
      <4>3. due'[d] = {}
        BY <3>5, <4>2
      <4>4. QED
        BY <3>1, <3>3, <3>4, <4>3 DEF ReturnOK
    <3>8. QED
      BY <3>1, <3>4, <3>6, <3>7, <1>0 DEF ReturnOK, IsAll
  <2>4. QED
    BY <2>2, <2>3
<1>23. ASSUME NEW h \in Hands, WriteFileFails(h) PROVE ReturnOK(g)'
  <2>1. Others(h)
    BY <1>23, <1>0, FileFailsEffect
  <2>2. CASE g # h
    BY <1>0, <2>1, <2>2, ReturnStays DEF Others, Same, Carried
  <2>3. CASE g = h
    <3>1. /\ ~Merged /\ job[g].step = "write" /\ base' = base /\ job'[g].folder = job[g].folder
          /\ job'[g].step = AfterFile(g)
      BY <1>23, <1>0, <2>3, FileFailsEffect DEF Steady
    <3>2. job[g].folder \in Sessions /\ job[g].task = "sweep"
      BY <1>0, <3>1, Places, Apart DEF Hands, Folders
    <3>3. job'[g].step = "clear"
      BY <3>1, <3>2 DEF AfterFile
    <3>4. job'[g].ok = FALSE
      BY <1>23, <1>0, <2>3, FileFailsEffect DEF Carried
    <3>5. QED
      BY <2>3, <3>1, <3>2, <3>3, <3>4, <1>0 DEF ReturnOK
  <2>4. QED
    BY <2>2, <2>3
<1>24. ASSUME NEW h \in Hands, Adopts(h) PROVE ReturnOK(g)'
  <2>1. Others(h)
    BY <1>24, <1>0, EndedJob DEF Adopts
  <2>2. CASE g # h
    BY <1>0, <2>1, <2>2, ReturnStays DEF Others, Same, Carried
  <2>3. CASE g = h
    <3>1. h \in Editors
      BY <1>24, Places DEF Adopts, Does
    <3>2. FALSE
      BY <2>3, <3>1, Apart DEF Folders
    <3>3. QED
      BY <2>3, <3>2, <1>0 DEF ReturnOK
  <2>4. QED
    BY <2>2, <2>3
<1>25. ASSUME NEW h \in Hands, PutsBack(h) PROVE ReturnOK(g)'
  <2>1. Others(h)
    BY <1>25, <1>0, PutsBackEffect
  <2>2. CASE g # h
    BY <1>0, <2>1, <2>2, ReturnStays DEF Others, Same, Carried
  <2>3. CASE g = h
    <3>1. h \in Editors
      BY <1>25, Places DEF PutsBack, Does, Tasks, Hands, Folders
    <3>2. FALSE
      BY <2>3, <3>1, Apart DEF Folders
    <3>3. QED
      BY <2>3, <3>2, <1>0 DEF ReturnOK
  <2>4. QED
    BY <2>2, <2>3
<1>26. ASSUME NEW h \in Hands, Dies(h) PROVE ReturnOK(g)'
  <2>1. Others(h)
    BY <1>26, <1>0, DiesEffect
  <2>2. CASE g # h
    BY <1>0, <2>1, <2>2, ReturnStays DEF Others, Same, Carried
  <2>3. CASE g = h
    <3>1. job'[g].step = "idle"
      BY <1>26, <1>0, <2>3, DiesEffect DEF Ended
    <3>2. QED
      BY <2>3, <3>1, <1>0 DEF ReturnOK
  <2>4. QED
    BY <2>2, <2>3
<1>27. CASE UNCHANGED vars
  BY <1>27, <1>0, ReturnStays DEF vars, Same, Carried
<1>28. QED
  BY <1>1, <1>2, <1>3, <1>4, <1>5, <1>6, <1>7, <1>8, <1>9, <1>10, <1>11, <1>12, <1>13,
     <1>14, <1>15, <1>16, <1>17, <1>18, <1>19, <1>20, <1>21, <1>22, <1>23, <1>24, <1>25,
     <1>26, <1>27 DEF Next, FolderStep, HandStep, Folders, Hands

\* While the editor's folder is brought into step only its Claude changes it.
LEMMA EditorKept ==
    ASSUME IInv, [Next]_vars, NEW g \in Editors, job[g].step # "idle",
           job'[g].step = job[g].step
    PROVE  EditorStill(g)
<1> USE DEF Steady
<1>0. /\ JobTypes /\ FileTypes /\ g \in Folders /\ g \in Hands /\ g \notin Sessions
      /\ phase[g] = "claude" /\ ~linked[g]
  <2>1. JobTypes /\ FileTypes /\ g \in Folders /\ g \in Hands /\ g \notin Sessions
    BY Places, Apart DEF IInv, Folders, Hands
  <2>2. phase[g] = "claude"
    BY <2>1, Places
  <2>3. CASE Merged
    BY <2>1, <2>2, <2>3 DEF IInv, LinksInv
  <2>4. CASE ~Merged
    BY <2>1, <2>2, <2>4, Apart DEF IInv, JobsInv, JobOK, AtWork, EditorAtWork
  <2>5. QED
    BY <2>1, <2>2, <2>3, <2>4
<1>1. CASE UserEdits
  <2>1. UNCHANGED base /\ due' = Arrives(user')
    BY <1>1 DEF UserEdits
  <2>2. due'[g] \subseteq due[g]
    BY <1>0, <2>1, ArrivesSpares
  <2>3. own'[g] = own[g]
    BY <1>1, <1>0 DEF UserEdits, InPlace, Unlinked, FileTypes
  <2>4. QED
    BY <2>1, <2>2, <2>3, <1>0 DEF EditorStill
<1>2. CASE UserBreaks
  <2>1. UNCHANGED base /\ due' = Arrives(user')
    BY <1>2 DEF UserBreaks
  <2>2. due'[g] \subseteq due[g]
    BY <1>0, <2>1, ArrivesSpares
  <2>3. own'[g] = own[g]
    BY <1>2, <1>0 DEF UserBreaks, InPlace, Unlinked, FileTypes
  <2>4. QED
    BY <2>1, <2>2, <2>3, <1>0 DEF EditorStill
<1>3. CASE LockAges
  BY <1>3, <1>0 DEF LockAges, counts, EditorStill
<1>4. ASSUME NEW f \in Folders, Starts(f) PROVE EditorStill(g)
  <2>1. f # g
    BY <1>4, <1>0 DEF Starts
  <2>2. UNCHANGED due
    BY <1>4, <1>0, StartsEffect
  <2>3. base'[g] = base[g] /\ own'[g] = own[g]
    BY <1>4, <1>0, <2>1, StartsEffect DEF Retaken, FileTypes
  <2>4. QED
    BY <2>2, <2>3, <1>0 DEF EditorStill
<1>5. ASSUME NEW f \in Folders, Exits(f) PROVE EditorStill(g)
  <2>1. UNCHANGED <<own, base, due>>
    BY <1>5 DEF Exits
  <2>2. QED
    BY <2>1, <1>0 DEF EditorStill
<1>6. ASSUME NEW f \in Folders, Relaunches(f) PROVE EditorStill(g)
  <2>1. UNCHANGED <<own, base, due>>
    BY <1>6 DEF Relaunches
  <2>2. QED
    BY <2>1, <1>0 DEF EditorStill
<1>7. ASSUME NEW f \in Folders, ClaudeWrites(f) PROVE EditorStill(g)
  <2>1. UNCHANGED base
    BY <1>7 DEF ClaudeWrites
  <2>2. CASE f = g
    BY <1>7, <2>1, <2>2 DEF EditorStill
  <2>3. CASE f # g
    <3>1. \/ \E o : InPlace(o) /\ due' = Arrives(o)
          \/ \E o, new : own' = [own EXCEPT ![f] = o] /\ due' = [due EXCEPT ![f] = new]
      BY <1>7 DEF ClaudeWrites
    <3>2. ASSUME NEW o, InPlace(o), due' = Arrives(o) PROVE EditorStill(g)
      BY <1>0, <2>1, <3>2, ArrivesSpares DEF InPlace, EditorStill, FileTypes
    <3>3. ASSUME NEW o, NEW new, own' = [own EXCEPT ![f] = o], due' = [due EXCEPT ![f] = new]
          PROVE  EditorStill(g)
      BY <1>0, <2>1, <2>3, <3>3 DEF EditorStill, FileTypes
    <3>4. QED
      BY <3>1, <3>2, <3>3
  <2>4. QED
    BY <2>2, <2>3
<1>8. ASSUME NEW h \in Hands, BeginsMerge(h) PROVE EditorStill(g)
  <2>1. UNCHANGED <<own, base, due>>
    BY <1>8, <1>0, BeginsEffect
  <2>2. QED
    BY <2>1, <1>0 DEF EditorStill
<1>9. ASSUME NEW h \in Hands, LocksAndReads(h) \/ Compares(h) PROVE EditorStill(g)
  <2>1. UNCHANGED <<own, base>>
    BY <1>9, <1>0, ReadsEffect
  <2>2. Settled(h, user, due) \/ UNCHANGED due
    BY <1>9, <1>0, ReadsEffect
  <2>3. due'[g] \subseteq due[g]
    BY <1>0, <2>2, SettledSpares DEF FileTypes
  <2>4. QED
    BY <2>1, <2>3, <1>0 DEF EditorStill
<1>10. ASSUME NEW h \in Hands, LockNotHad(h) PROVE EditorStill(g)
  <2>1. UNCHANGED <<own, base, due>>
    BY <1>10, <1>0, UnhadEffect
  <2>2. QED
    BY <2>1, <1>0 DEF EditorStill
<1>11. ASSUME NEW h \in Hands, WritesMerged(h) PROVE EditorStill(g)
  <2>1. UNCHANGED <<own, base>> /\ Settled(h, job[h].seen, Arrives(user'))
    BY <1>11 DEF WritesMerged
  <2>2. Arrives(user') \in [Folders -> SUBSET AllChanges]
    BY <1>0, ArrivesType
  <2>3. due'[g] \subseteq Arrives(user')[g]
    BY <1>0, <2>1, <2>2, SettledSpares
  <2>4. due'[g] \subseteq due[g]
    BY <1>0, <2>3, ArrivesSpares
  <2>5. QED
    BY <2>1, <2>4, <1>0 DEF EditorStill
<1>12. ASSUME NEW h \in Hands, WriteFails(h) PROVE EditorStill(g)
  <2>1. UNCHANGED <<own, base, due>>
    BY <1>12 DEF WriteFails
  <2>2. QED
    BY <2>1, <1>0 DEF EditorStill
<1>13. ASSUME NEW h \in Hands, HandsBack(h) PROVE EditorStill(g)
  <2>1. UNCHANGED <<own, due>> /\ job[h].step = "after" /\ job[h].task # "sync"
    BY <1>13, <1>0, HandsBackEffect
  <2>2. UNCHANGED base \/ AdvancesBase(job[h].folder)
    BY <1>13, <1>0, HandsBackEffect
  <2>3. job[h].folder \in Sessions
    BY <2>1, Places DEF Hands, Folders
  <2>4. base'[g] = base[g]
    BY <1>0, <2>2, <2>3 DEF AdvancesBase, FileTypes
  <2>5. QED
    BY <2>1, <2>4, <1>0 DEF EditorStill
<1>14. ASSUME NEW h \in Hands, CopiesUsers(h) PROVE EditorStill(g)
  <2>1. UNCHANGED <<base, due>> /\ job[h].step = "copy"
    BY <1>14, <1>0, CopiesEffect
  <2>2. h \in Sessions
    BY <2>1, Places
  <2>3. own'[g] = own[g]
    BY <1>14, <1>0, <2>2, CopiesEffect DEF FileTypes
  <2>4. QED
    BY <2>1, <2>3, <1>0 DEF EditorStill
<1>15. ASSUME NEW h \in Hands, Snaps(h) PROVE EditorStill(g)
  <2>1. UNCHANGED <<own, due>> /\ job[h].step = "snap"
    BY <1>15, <1>0, SnapsEffect
  <2>2. h \in Sessions
    BY <2>1, Places
  <2>3. base'[g] = base[g]
    BY <1>15, <1>0, <2>2, SnapsEffect DEF FileTypes
  <2>4. QED
    BY <2>1, <2>3, <1>0 DEF EditorStill
<1>16. ASSUME NEW h \in Hands, Clears(h) PROVE EditorStill(g)
  <2>1. job[h].step = "clear"
    BY <1>16, <1>0, ClearsEffect
  <2>2. h \in Sweepers /\ job[h].folder \in Sessions
    BY <2>1, Places
  <2>3. \/ /\ due' = IF job[h].ok THEN due ELSE [due EXCEPT ![job[h].folder] = {}]
           /\ own' = [own EXCEPT ![job[h].folder] = None] /\ base' = [base EXCEPT ![job[h].folder] = None]
        \/ UNCHANGED <<own, base, due>>
    BY <1>16, <1>0, ClearsEffect
  <2>4. /\ due'[g] \subseteq due[g] /\ base'[g] = base[g] /\ own'[g] = own[g]
    BY <1>0, <2>2, <2>3 DEF FileTypes
  <2>5. QED
    BY <2>4, <1>0 DEF EditorStill
<1>17. ASSUME NEW h \in Hands, Looks(h) PROVE EditorStill(g)
  <2>1. UNCHANGED <<own, base>>
    BY <1>17, <1>0, LooksEffect
  <2>2. due' = [due EXCEPT ![h] = IF job[h].late THEN {} ELSE @ \ Settles(h)] \/ UNCHANGED due
    BY <1>17, <1>0, LooksEffect
  <2>3. due'[g] \subseteq due[g]
    BY <1>0, <2>2 DEF FileTypes
  <2>4. QED
    BY <2>1, <2>3, <1>0 DEF EditorStill
<1>18. ASSUME NEW h \in Hands, Puts(h) PROVE EditorStill(g)
  <2>1. UNCHANGED base
    BY <1>18, <1>0, PutsEffect
  <2>2. g # h
    BY <1>18, <1>0, PutsEffect DEF Ended
  <2>3. \/ own' = [own EXCEPT ![h] = Content(job[h].seen)] /\ due' = [due EXCEPT ![h] = IF job[h].late THEN {} ELSE @]
        \/ UNCHANGED <<own, due>>
    BY <1>18, <1>0, PutsEffect
  <2>4. due'[g] \subseteq due[g] /\ own'[g] = own[g]
    BY <1>0, <2>2, <2>3 DEF FileTypes
  <2>5. QED
    BY <2>1, <2>4, <1>0 DEF EditorStill
<1>19. ASSUME NEW h \in Hands, PutsBase(h) PROVE EditorStill(g)
  <2>1. g # h
    BY <1>19, <1>0, PutsBaseEffect DEF Ended
  <2>2. UNCHANGED <<own, due>>
    BY <1>19, <1>0, PutsBaseEffect
  <2>3. base'[g] = base[g]
    BY <1>19, <1>0, <2>1, PutsBaseEffect DEF FileTypes
  <2>4. QED
    BY <2>2, <2>3, <1>0 DEF EditorStill
<1>20. ASSUME NEW h \in Hands, MovesAside(h) PROVE EditorStill(g)
  <2>1. g # h /\ h \in Folders
    BY <1>20, <1>0, AsideEffect DEF Folders
  <2>2. UNCHANGED due
    BY <1>20, <1>0, AsideEffect
  <2>3. Retaken(h) \/ (own' = [own EXCEPT ![h] = None] /\ UNCHANGED <<base, linked>>)
    BY <1>20, <1>0, AsideEffect
  <2>4. base'[g] = base[g] /\ own'[g] = own[g]
    BY <1>0, <2>1, <2>3 DEF Retaken, FileTypes
  <2>5. QED
    BY <2>2, <2>4, <1>0 DEF EditorStill
<1>21. ASSUME NEW h \in Hands, PlansSync(h) PROVE EditorStill(g)
  <2>1. UNCHANGED <<own, base, due>>
    BY <1>21, <1>0, PlansEffect
  <2>2. QED
    BY <2>1, <1>0 DEF EditorStill
<1>22. ASSUME NEW h \in Hands, PlansReturn(h) PROVE EditorStill(g)
  <2>1. UNCHANGED <<own, base, due>>
    BY <1>22, <1>0, ReturnsEffect
  <2>2. QED
    BY <2>1, <1>0 DEF EditorStill
<1>23. ASSUME NEW h \in Hands, WritesFile(h) PROVE EditorStill(g)
  <2>1. UNCHANGED base /\ due' = Arrives(user')
    BY <1>23 DEF WritesFile
  <2>2. due'[g] \subseteq due[g]
    BY <1>0, <2>1, ArrivesSpares
  <2>3. own'[g] = own[g]
    BY <1>23, <1>0 DEF WritesFile, InPlace, Unlinked, FileTypes
  <2>4. QED
    BY <2>1, <2>2, <2>3, <1>0 DEF EditorStill
<1>24. ASSUME NEW h \in Hands, WriteFileFails(h) PROVE EditorStill(g)
  <2>1. UNCHANGED <<own, base, due>>
    BY <1>24, <1>0, FileFailsEffect
  <2>2. QED
    BY <2>1, <1>0 DEF EditorStill
<1>25. ASSUME NEW h \in Hands, Adopts(h) PROVE EditorStill(g)
  <2>1. h \in Folders
    BY <1>25, Places DEF Adopts, Does, Folders
  <2>2. g # h
    BY <1>25, <1>0, <2>1, AdoptsEffect DEF Ended
  <2>3. due' = [due EXCEPT ![h] = @ \ Due(job[h].base, job[h].ours)] \/ UNCHANGED due
    BY <1>25, <1>0, <2>1, AdoptsEffect
  <2>4. Retaken(h) \/ UNCHANGED <<own, linked, base>>
    BY <1>25, <1>0, <2>1, AdoptsEffect
  <2>5. due'[g] \subseteq due[g] /\ base'[g] = base[g] /\ own'[g] = own[g]
    BY <1>0, <2>1, <2>2, <2>3, <2>4 DEF Retaken, FileTypes
  <2>6. QED
    BY <2>5, <1>0 DEF EditorStill
<1>26. ASSUME NEW h \in Hands, PutsBack(h) PROVE EditorStill(g)
  <2>1. g # h
    BY <1>26, <1>0, PutsBackEffect DEF Ended
  <2>2. UNCHANGED base
    BY <1>26, <1>0, PutsBackEffect
  <2>3. \/ own' = [own EXCEPT ![h] = job[h].ours] /\ UNCHANGED due
        \/ due' = [due EXCEPT ![h] = @ \cap Due(base[h], own[h])] /\ UNCHANGED own
    BY <1>26, <1>0, PutsBackEffect
  <2>4. due'[g] \subseteq due[g] /\ own'[g] = own[g]
    BY <1>0, <2>1, <2>3 DEF FileTypes
  <2>5. QED
    BY <2>2, <2>4, <1>0 DEF EditorStill
<1>27. ASSUME NEW h \in Hands, Dies(h) PROVE EditorStill(g)
  <2>1. UNCHANGED <<own, base>>
    BY <1>27, <1>0, DiesEffect
  <2>2. due' = [due EXCEPT ![h] = @ \cap Due(base[h], own[h])] \/ UNCHANGED due
    BY <1>27, <1>0, DiesEffect
  <2>3. due'[g] \subseteq due[g]
    BY <1>0, <2>2 DEF FileTypes
  <2>4. QED
    BY <2>1, <2>3, <1>0 DEF EditorStill
<1>28. CASE UNCHANGED vars
  BY <1>28, <1>0 DEF vars, EditorStill
<1>29. QED
  BY <1>1, <1>2, <1>3, <1>4, <1>5, <1>6, <1>7, <1>8, <1>9, <1>10, <1>11, <1>12, <1>13,
     <1>14, <1>15, <1>16, <1>17, <1>18, <1>19, <1>20, <1>21, <1>22, <1>23, <1>24, <1>25,
     <1>26, <1>27, <1>28 DEF Next, FolderStep, HandStep, Folders, Hands

\* The editor's folder is as far as it was, but for what its Claude changed.
LEMMA SyncStays ==
    ASSUME IInv, [Next]_vars, Merged, NEW g \in Editors, Same(g), Carried(g),
           job'[g].seen = job[g].seen,
           job[g].step \in {"after", "put"} /\ ~job'[g].late => ~job[g].late
    PROVE  SyncOK(g)'
<1>1. /\ SyncOK(g) /\ g \in Hands /\ g \in Folders /\ JobTypes /\ FileTypes /\ ~linked[g]
      /\ kind' = kind
  BY KindKept DEF IInv, SyncInv, LinksInv, Hands, Folders
<1>2. CASE job[g].step = "idle"
  BY <1>2 DEF SyncOK, Same
<1>3. CASE job[g].step # "idle" /\ base'[g] = base[g] /\ own'[g] = own[g] /\ due'[g] \subseteq due[g]
  <2>1. job[g].step \in {"wait", "compare", "write"} => job'[g].base = base'[g]
    BY <1>1, <1>3 DEF SyncOK, Carried
  <2>2. job[g].step = "after" /\ job[g].ok => job'[g].base = base'[g]
    BY <1>1, <1>3 DEF SyncOK, Carried
  <2>3. ASSUME job[g].step = "after", job[g].ok, ~job'[g].late, job[g].ours # None
        PROVE  (due[g] \cap Due(job[g].base, job[g].ours) \subseteq Given(g, job[g].seen))'
    <3>1. due[g] \cap Due(job[g].base, job[g].ours) \subseteq Given(g, job[g].seen)
      BY <1>1, <2>3 DEF SyncOK
    <3>2. (Due(job[g].base, job[g].ours))' = Due(job[g].base, job[g].ours)
      BY <1>1 DEF Due, Carried, LegacyOurs
    <3>3. Given(g, job[g].seen)' = Given(g, job[g].seen)
      BY <1>1 DEF Given, JobBase, JobOurs, LegacyOurs, Carried
    <3>4. QED
      BY <1>3, <3>1, <3>2, <3>3
  <2>4. job[g].step = "put" /\ ~job'[g].late => due'[g] = {}
    BY <1>1, <1>3 DEF SyncOK
  <2>5. job[g].step = "base" => (due[g] \subseteq Due(Content(job[g].seen), own[g]))'
    <3>1. (Due(Content(job[g].seen), own[g]))' = Due(Content(job[g].seen), own[g])
      BY <1>1, <1>3 DEF Due, LegacyOurs
    <3>2. QED
      BY <1>1, <1>3, <3>1 DEF SyncOK
  <2>6. QED
    BY <2>1, <2>2, <2>3, <2>4, <2>5 DEF SyncOK, Same, Carried
<1>4. CASE job[g].step # "idle" /\ base'[g] = base[g] /\ ClaudeWrites(g)
  <2>1. job[g].step \in {"after", "put"} => job'[g].late
    BY <1>1, <1>4, ClaudeJob
  <2>2. job[g].step \in {"wait", "compare", "write"} => job'[g].base = base'[g]
    BY <1>1, <1>4 DEF SyncOK, Carried
  <2>3. job[g].step = "after" /\ job[g].ok => job'[g].base = base'[g]
    BY <1>1, <1>4 DEF SyncOK, Carried
  <2>4. job[g].step = "base" => (due[g] \subseteq Due(Content(job[g].seen), own[g]))'
    <3>1. PICK o : /\ own' = [own EXCEPT ![g] = o]
                   /\ due' = [due EXCEPT ![g] =
                        {c \in (@ \cup Changes(Content(own[g]), o)) \cap DueNext(g, o) :
                            user = Broken \/ ~Shows(Content(user), c)}]
      BY <1>1, <1>4 DEF ClaudeWrites
    <3>2. own'[g] = o /\ due'[g] \subseteq DueNext(g, o)
      BY <1>1, <3>1 DEF FileTypes
    <3>3. job[g].step = "base" => due'[g] \subseteq Due(Content(job[g].seen), o)
      BY <3>2 DEF DueNext
    <3>4. (Due(Content(job[g].seen), own[g]))' = Due(Content(job[g].seen), o)
      BY <1>1, <3>2 DEF Due, LegacyOurs
    <3>5. QED
      BY <3>3, <3>4
  <2>5. QED
    BY <2>1, <2>2, <2>3, <2>4 DEF SyncOK, Same, Carried
<1>5. QED
  BY <1>2, <1>3, <1>4, EditorKept DEF EditorStill, Same

\* What a hand-back of the editor's objects leaves due, of what was read, is
\* what clashed.
LEMMA SyncArrives ==
    ASSUME IInv, Merged, kind' = kind, NEW g \in Editors,
           job[g].step \in {"wait", "compare", "write"},
           NEW text \in Contents \cup {None, Broken}, IsOver(g, text, TRUE), base'[g] = base[g],
           \A c \in due'[g] : ~Shows(Merge(JobBase(g), JobOurs(g), Content(text)), c)
    PROVE  SyncOK(g)'
<1>1. SyncOK(g) /\ g \in Hands
  BY DEF IInv, SyncInv, Hands, Folders
<1>2. job[g].task = "sync"
  BY <1>1, Places
<1>3. /\ job'[g].step = "after" /\ job'[g].base = job[g].base /\ job'[g].ours = job[g].ours
      /\ job'[g].seen = text
  BY <1>2 DEF IsOver
<1>4. job'[g].base = base'[g]
  BY <1>1, <1>3 DEF SyncOK
<1>5. due'[g] \cap Due(job[g].base, job[g].ours) \subseteq Given(g, text)
  BY <1>1, MergeArrives
<1>6. (Due(job[g].base, job[g].ours))' = Due(job[g].base, job[g].ours)
  BY <1>3 DEF Due, LegacyOurs
<1>7. Given(g, job[g].seen)' = Given(g, text)
  BY <1>3 DEF Given, JobBase, JobOurs, LegacyOurs
<1>8. QED
  BY <1>3, <1>4, <1>5, <1>6, <1>7 DEF SyncOK

\* An object of the editor's folder is brought into step with nothing left
\* behind but what clashed.
LEMMA SyncKept == IInv /\ [Next]_vars => SyncInv'
<1> SUFFICES ASSUME IInv, [Next]_vars, Merged, NEW g \in Editors PROVE SyncOK(g)'
  BY KindKept DEF SyncInv
<1>0. /\ JobTypes /\ FileTypes /\ SyncOK(g) /\ g \in Hands /\ g \in Folders /\ job[g] \in Jobs
      /\ g \notin Sessions /\ g \notin Sweepers /\ kind' = kind
  BY Apart, KindKept DEF IInv, JobTypes, SyncInv, Hands, Folders
<1>1. CASE UserEdits
  BY <1>1, <1>0, LateJob, SyncStays DEF UserEdits
<1>2. CASE UserBreaks
  BY <1>2, <1>0, LateJob, SyncStays DEF UserBreaks
<1>3. CASE LockAges
  BY <1>3, <1>0, SyncStays DEF LockAges, Same, Carried
<1>4. ASSUME NEW f \in Folders, Starts(f) PROVE SyncOK(g)'
  BY <1>4, <1>0, SyncStays DEF Starts, Same, Carried
<1>5. ASSUME NEW f \in Folders, Exits(f) PROVE SyncOK(g)'
  BY <1>5, <1>0, SyncStays DEF Exits, Same, Carried
<1>6. ASSUME NEW f \in Folders, Relaunches(f) PROVE SyncOK(g)'
  BY <1>6, <1>0, SyncStays DEF Relaunches, Same, Carried
<1>7. ASSUME NEW f \in Folders, ClaudeWrites(f) PROVE SyncOK(g)'
  <2>1. /\ Same(g) /\ Carried(g) /\ job'[g].seen = job[g].seen
    BY <1>7, <1>0, ClaudeJob
  <2>2. job[g].step \in {"after", "put"} /\ ~job'[g].late => ~job[g].late
    BY <1>7, <1>0, ClaudeJob, LateJob
  <2>3. QED
    BY <1>0, <2>1, <2>2, SyncStays
<1>8. ASSUME NEW h \in Hands, BeginsMerge(h) PROVE SyncOK(g)'
  <2>1. Others(h)
    BY <1>8, <1>0, BeginsEffect
  <2>2. CASE g # h
    BY <1>0, <2>1, <2>2, SyncStays DEF Others, Same, Carried
  <2>3. CASE g = h
    <3>1. PICK d \in Editors : d = job'[g].folder /\ d = g
      BY <1>8, <1>0, <2>3, BeginsEffect
    <3>2. UNCHANGED base /\ job'[g].folder = d
      BY <1>8, <1>0, <2>3, <3>1, BeginsEffect DEF Steady
    <3>3. /\ job'[g].base = base[d] /\ job'[g].ours = own[d]
          /\ job'[g].step \in {"wait", "after"}
          /\ job'[g].step = "after" => (job'[g].ok <=> own[d] = None)
      BY <1>8, <1>0, <2>3, <3>2, BeginsEffect
    <3>4. QED
      BY <2>3, <3>1, <3>2, <3>3, <1>0 DEF SyncOK
  <2>4. QED
    BY <2>2, <2>3
<1>9. ASSUME NEW h \in Hands, LocksAndReads(h) \/ Compares(h) PROVE SyncOK(g)'
  <2>1. Others(h)
    BY <1>9, <1>0, ReadsEffect
  <2>2. CASE g # h
    BY <1>0, <2>1, <2>2, SyncStays DEF Others, Same, Carried
  <2>3. CASE g = h
    <3>1. /\ UNCHANGED <<own, base, user>> /\ job[g].step \in {"wait", "compare"}
      BY <1>9, <1>0, <2>3, ReadsEffect DEF Steady
    <3>2. \/ /\ IsOver(g, user, TRUE) /\ user # Broken /\ Settled(g, user, due)
             /\ Merge(JobBase(g), JobOurs(g), Content(user)) = Content(user)
          \/ IsOver(g, None, FALSE)
          \/ Steps(g, "compare")
          \/ Steps(g, "write")
      BY <1>9, <1>0, <2>3, ReadsEffect
    <3>3. CASE /\ IsOver(g, user, TRUE) /\ user # Broken /\ Settled(g, user, due)
               /\ Merge(JobBase(g), JobOurs(g), Content(user)) = Content(user)
      <4>1. \A c \in due[g] : ~Shows(Content(user), c)
        BY <1>0, <3>3 DEF IInv, DueInv, DueOK
      <4>2. job[g].task = "sync"
        BY <1>0, <3>1, Places
      <4>3. due' = due
        BY <3>3, <4>2 DEF Settled
      <4>4. user \in Contents \cup {None, Broken}
        BY <1>0 DEF FileTypes
      <4>5. QED
        BY <1>0, <3>1, <3>3, <4>1, <4>3, <4>4, SyncArrives
    <3>4. CASE IsOver(g, None, FALSE)
      BY <3>4 DEF IsOver, SyncOK
    <3>5. CASE Steps(g, "compare") \/ Steps(g, "write")
      BY <1>0, <3>1, <3>5 DEF Steps, Carried, SyncOK
    <3>6. QED
      BY <2>3, <3>2, <3>3, <3>4, <3>5, <1>0 DEF SyncOK
  <2>4. QED
    BY <2>2, <2>3
<1>10. ASSUME NEW h \in Hands, LockNotHad(h) PROVE SyncOK(g)'
  <2>1. Others(h)
    BY <1>10, <1>0, UnhadEffect
  <2>2. CASE g # h
    BY <1>0, <2>1, <2>2, SyncStays DEF Others, Same, Carried
  <2>3. CASE g = h
    <3>1. Merged /\ job[g].step = "wait"
      BY <1>10, <1>0, <2>3, UnhadEffect
    <3>2. IsOver(g, None, FALSE)
      BY <1>10, <1>0, <2>3, <3>1, UnhadEffect
    <3>3. QED
      BY <2>3, <3>1, <3>2, <1>0 DEF IsOver, SyncOK
  <2>4. QED
    BY <2>2, <2>3
<1>11. ASSUME NEW h \in Hands, WritesMerged(h) \/ WriteFails(h) PROVE SyncOK(g)'
  <2>1. Others(h)
    BY <1>11, <1>0, MergedEffect
  <2>2. CASE g # h
    BY <1>0, <2>1, <2>2, SyncStays DEF Others, Same, Carried
  <2>3. CASE g = h
    <3>1. /\ UNCHANGED <<own, base>> /\ job[g].step = "write"
      BY <1>11, <1>0, <2>3, MergedEffect
    <3>2. \/ /\ IsOver(g, job[g].seen, TRUE) /\ user' = Result(g)
             /\ Settled(g, job[g].seen, Arrives(user'))
          \/ IsOver(g, None, FALSE)
      BY <1>11, <1>0, <2>3, MergedEffect
    <3>3. CASE /\ IsOver(g, job[g].seen, TRUE) /\ user' = Result(g)
               /\ Settled(g, job[g].seen, Arrives(user'))
      <4>1. Result(g) \in Contents /\ job[g].seen \in Contents \cup {None, Broken}
        BY <1>0, <3>1, AtWrite, JobFields
      <4>2. user' # Broken /\ Content(user') = Result(g)
        BY <3>3, <4>1, Atoms DEF Content
      <4>3. job[g].task = "sync"
        BY <1>0, <3>1, Places
      <4>4. due' = Arrives(user')
        BY <3>3, <4>3 DEF Settled
      <4>5. \A c \in due'[g] : ~Shows(Result(g), c)
        BY <1>0, <4>2, <4>4, ArrivesSpares
      <4>6. QED
        BY <1>0, <3>1, <3>3, <4>1, <4>5, SyncArrives DEF Result
    <3>4. CASE IsOver(g, None, FALSE)
      BY <3>4 DEF IsOver, SyncOK
    <3>5. QED
      BY <2>3, <3>2, <3>3, <3>4, <1>0 DEF SyncOK
  <2>4. QED
    BY <2>2, <2>3
<1>12. ASSUME NEW h \in Hands, HandsBack(h) PROVE SyncOK(g)'
  <2>1. Others(h)
    BY <1>12, <1>0, HandsBackEffect
  <2>2. CASE g # h
    BY <1>0, <2>1, <2>2, SyncStays DEF Others, Same, Carried
  <2>3. CASE g = h
    <3>1. job[g].step = "after" /\ job[g].task # "sync"
      BY <1>12, <1>0, <2>3, HandsBackEffect
    <3>2. FALSE
      BY <1>0, <3>1, Places
    <3>3. QED
      BY <2>3, <3>2, <1>0 DEF SyncOK
  <2>4. QED
    BY <2>2, <2>3
<1>13. ASSUME NEW h \in Hands, CopiesUsers(h) PROVE SyncOK(g)'
  <2>1. Others(h)
    BY <1>13, <1>0, CopiesEffect
  <2>2. CASE g # h
    BY <1>0, <2>1, <2>2, SyncStays DEF Others, Same, Carried
  <2>3. CASE g = h
    <3>1. job[g].step = "copy"
      BY <1>13, <1>0, <2>3, CopiesEffect
    <3>2. FALSE
      BY <1>0, <3>1, Places
    <3>3. QED
      BY <2>3, <3>2, <1>0 DEF SyncOK
  <2>4. QED
    BY <2>2, <2>3
<1>14. ASSUME NEW h \in Hands, Snaps(h) PROVE SyncOK(g)'
  <2>1. Others(h)
    BY <1>14, <1>0, SnapsEffect
  <2>2. CASE g # h
    BY <1>0, <2>1, <2>2, SyncStays DEF Others, Same, Carried
  <2>3. CASE g = h
    <3>1. job[g].step = "snap"
      BY <1>14, <1>0, <2>3, SnapsEffect
    <3>2. FALSE
      BY <1>0, <3>1, Places
    <3>3. QED
      BY <2>3, <3>2, <1>0 DEF SyncOK
  <2>4. QED
    BY <2>2, <2>3
<1>15. ASSUME NEW h \in Hands, Clears(h) PROVE SyncOK(g)'
  <2>1. Others(h)
    BY <1>15, <1>0, ClearsEffect
  <2>2. CASE g # h
    BY <1>0, <2>1, <2>2, SyncStays DEF Others, Same, Carried
  <2>3. CASE g = h
    <3>1. job[g].step = "clear"
      BY <1>15, <1>0, <2>3, ClearsEffect
    <3>2. FALSE
      BY <1>0, <3>1, Places
    <3>3. QED
      BY <2>3, <3>2, <1>0 DEF SyncOK
  <2>4. QED
    BY <2>2, <2>3
<1>16. ASSUME NEW h \in Hands, Looks(h) PROVE SyncOK(g)'
  <2>1. Others(h)
    BY <1>16, <1>0, LooksEffect
  <2>2. CASE g # h
    BY <1>0, <2>1, <2>2, SyncStays DEF Others, Same, Carried
  <2>3. CASE g = h
    <3>1. /\ job[g].step = "after"
      BY <1>16, <1>0, <2>3, LooksEffect
    <3>2. \/ /\ job[g].ok /\ user # Broken /\ own[g] = job[g].ours
             /\ job'[g].step = "put" /\ job'[g].late = FALSE
             /\ due' = [due EXCEPT ![g] = IF job[g].late THEN {} ELSE @ \ Settles(g)]
          \/ Ended(g)
      BY <1>16, <1>0, <2>3, LooksEffect
    <3>3. CASE Ended(g)
      BY <3>3 DEF Ended, SyncOK
    <3>4. CASE /\ job[g].ok /\ own[g] = job[g].ours /\ job'[g].step = "put"
               /\ due' = [due EXCEPT ![g] = IF job[g].late THEN {} ELSE @ \ Settles(g)]
      <4>1. due'[g] = IF job[g].late THEN {} ELSE due[g] \ Settles(g)
        BY <1>0, <3>4 DEF FileTypes
      <4>2. due[g] \subseteq Due(base[g], own[g])
        BY <1>0 DEF IInv, StillDue
      <4>3. job[g].base = base[g]
        BY <1>0, <3>1, <3>4 DEF SyncOK
      <4>4. CASE job[g].ours = None
        BY <3>4, <4>1, <4>2, <4>4 DEF Due, SyncOK
      <4>5. CASE job[g].ours # None /\ ~job[g].late
        <5>1. due[g] \subseteq Given(g, job[g].seen)
          BY <1>0, <3>1, <3>4, <4>2, <4>3, <4>5 DEF SyncOK
        <5>2. due'[g] = {}
          BY <4>1, <4>5, <5>1 DEF Settles
        <5>3. QED
          BY <3>4, <5>2 DEF SyncOK
      <4>6. QED
        BY <3>4, <4>1, <4>4, <4>5 DEF SyncOK
    <3>5. QED
      BY <2>3, <3>2, <3>3, <3>4, <1>0 DEF SyncOK
  <2>4. QED
    BY <2>2, <2>3
<1>17. ASSUME NEW h \in Hands, Puts(h) PROVE SyncOK(g)'
  <2>1. Others(h)
    BY <1>17, <1>0, PutsEffect
  <2>2. CASE g # h
    BY <1>0, <2>1, <2>2, SyncStays DEF Others, Same, Carried
  <2>3. CASE g = h
    <3>1. /\ job[g].step = "put"
      BY <1>17, <1>0, <2>3, PutsEffect
    <3>2. \/ /\ job'[g].step = "base"
             /\ due' = [due EXCEPT ![g] = IF job[g].late THEN {} ELSE @]
          \/ Ended(g)
      BY <1>17, <1>0, <2>3, PutsEffect
    <3>3. CASE Ended(g)
      BY <3>3 DEF Ended, SyncOK
    <3>4. CASE /\ job'[g].step = "base"
               /\ due' = [due EXCEPT ![g] = IF job[g].late THEN {} ELSE @]
      <4>1. due'[g] = {}
        BY <1>0, <3>1, <3>4 DEF FileTypes, SyncOK
      <4>2. QED
        BY <3>4, <4>1 DEF SyncOK
    <3>5. QED
      BY <2>3, <3>2, <3>3, <3>4, <1>0 DEF SyncOK
  <2>4. QED
    BY <2>2, <2>3
<1>18. ASSUME NEW h \in Hands, PutsBase(h) PROVE SyncOK(g)'
  <2>1. Others(h)
    BY <1>18, <1>0, PutsBaseEffect
  <2>2. CASE g # h
    BY <1>0, <2>1, <2>2, SyncStays DEF Others, Same, Carried
  <2>3. CASE g = h
    <3>1. Ended(g)
      BY <1>18, <1>0, <2>3, PutsBaseEffect
    <3>2. QED
      BY <2>3, <3>1, <1>0 DEF Ended, SyncOK
  <2>4. QED
    BY <2>2, <2>3
<1>19. ASSUME NEW h \in Hands, MovesAside(h) PROVE SyncOK(g)'
  BY <1>19 DEF MovesAside
<1>20. ASSUME NEW h \in Hands, PlansSync(h) PROVE SyncOK(g)'
  BY <1>20 DEF PlansSync
<1>21. ASSUME NEW h \in Hands, PlansReturn(h) PROVE SyncOK(g)'
  BY <1>21 DEF PlansReturn
<1>22. ASSUME NEW h \in Hands, WritesFile(h) PROVE SyncOK(g)'
  BY <1>22 DEF WritesFile
<1>23. ASSUME NEW h \in Hands, WriteFileFails(h) PROVE SyncOK(g)'
  BY <1>23 DEF WriteFileFails
<1>24. ASSUME NEW h \in Hands, Adopts(h) PROVE SyncOK(g)'
  BY <1>24, Places DEF Adopts, Does
<1>25. ASSUME NEW h \in Hands, PutsBack(h) PROVE SyncOK(g)'
  BY <1>25, Places DEF PutsBack, Does
<1>26. ASSUME NEW h \in Hands, Dies(h) PROVE SyncOK(g)'
  <2>1. Others(h)
    BY <1>26, <1>0, DiesEffect
  <2>2. CASE g # h
    BY <1>0, <2>1, <2>2, SyncStays DEF Others, Same, Carried
  <2>3. CASE g = h
    <3>1. Ended(g)
      BY <1>26, <1>0, <2>3, DiesEffect
    <3>2. QED
      BY <2>3, <3>1, <1>0 DEF Ended, SyncOK
  <2>4. QED
    BY <2>2, <2>3
<1>27. CASE UNCHANGED vars
  BY <1>27, <1>0, SyncStays DEF vars, Same, Carried
<1>28. QED
  BY <1>1, <1>2, <1>3, <1>4, <1>5, <1>6, <1>7, <1>8, <1>9, <1>10, <1>11, <1>12, <1>13,
     <1>14, <1>15, <1>16, <1>17, <1>18, <1>19, <1>20, <1>21, <1>22, <1>23, <1>24, <1>25,
     <1>26, <1>27 DEF Next, FolderStep, HandStep, Folders, Hands

\* A file of the editor's folder is as far as it was, but for what its Claude
\* changed.
LEMMA AsideStays ==
    ASSUME IInv, [Next]_vars, ~Merged, NEW g \in Editors, Same(g), Carried(g)
    PROVE  AsideOK(g)'
<1>1. /\ AsideOK(g) /\ g \in Hands /\ g \in Folders /\ FileTypes /\ kind' = kind
  BY KindKept DEF IInv, AsideInv, Hands, Folders
<1>2. CASE job[g].step = "idle"
  BY <1>2 DEF AsideOK, Same
<1>3. CASE job[g].step # "idle"
  <2>1. EditorStill(g) /\ ~linked[g]
    BY <1>1, <1>3, EditorKept, Places, Apart DEF Same, IInv, JobsInv, JobOK, AtWork,
       EditorAtWork
  <2>2. base'[g] = base[g]
    BY <2>1 DEF EditorStill
  <2>3. ASSUME job[g].step = "settle", job[g].ok, job[g].plan # "aside"
        PROVE  (due[g] \subseteq Due(base[g], own[g]))'
    <3>1. due[g] \subseteq Due(base[g], own[g])
      BY <1>1, <2>3 DEF AsideOK
    <3>2. CASE own'[g] = own[g] /\ due'[g] \subseteq due[g]
      <4>1. (Due(base[g], own[g]))' = Due(base[g], own[g])
        BY <1>1, <2>2, <3>2 DEF Due, LegacyOurs
      <4>2. QED
        BY <3>1, <3>2, <4>1
    <3>3. CASE ClaudeWrites(g)
      <4>1. PICK o : /\ own' = [own EXCEPT ![g] = o]
                     /\ due' = [due EXCEPT ![g] =
                          {c \in (@ \cup Changes(Content(own[g]), o)) \cap DueNext(g, o) :
                              user = Broken \/ ~Shows(Content(user), c)}]
        BY <2>1, <3>3 DEF ClaudeWrites
      <4>2. own'[g] = o /\ due'[g] \subseteq DueNext(g, o)
        BY <1>1, <4>1 DEF FileTypes
      <4>3. (Due(base[g], own[g]))' = Due(base[g], o)
        BY <1>1, <2>2, <4>2 DEF Due, LegacyOurs
      <4>4. QED
        BY <4>2, <4>3 DEF DueNext
    <3>4. QED
      BY <2>1, <3>2, <3>3 DEF EditorStill
  <2>4. QED
    BY <1>1, <2>2, <2>3 DEF AsideOK, Same, Carried
<1>4. QED
  BY <1>2, <1>3

\* A file of the editor's folder that is dealt with leaves due only what its
\* Claude wrote meanwhile, or what is kept aside.
LEMMA AsideKept == IInv /\ [Next]_vars => AsideInv'
<1> SUFFICES ASSUME IInv, [Next]_vars, ~Merged, NEW g \in Editors PROVE AsideOK(g)'
  BY KindKept DEF AsideInv
<1>0. /\ JobTypes /\ FileTypes /\ AsideOK(g) /\ g \in Hands /\ g \in Folders /\ job[g] \in Jobs
      /\ g \notin Sessions /\ g \notin Sweepers /\ kind' = kind
  BY Apart, KindKept DEF IInv, JobTypes, AsideInv, Hands, Folders
<1>1. CASE UserEdits
  BY <1>1, <1>0, LateJob, AsideStays DEF UserEdits
<1>2. CASE UserBreaks
  BY <1>2, <1>0, LateJob, AsideStays DEF UserBreaks
<1>3. CASE LockAges
  BY <1>3, <1>0, AsideStays DEF LockAges, Same, Carried
<1>4. ASSUME NEW f \in Folders, Starts(f) PROVE AsideOK(g)'
  BY <1>4, <1>0, AsideStays DEF Starts, Same, Carried
<1>5. ASSUME NEW f \in Folders, Exits(f) PROVE AsideOK(g)'
  BY <1>5, <1>0, AsideStays DEF Exits, Same, Carried
<1>6. ASSUME NEW f \in Folders, Relaunches(f) PROVE AsideOK(g)'
  BY <1>6, <1>0, AsideStays DEF Relaunches, Same, Carried
<1>7. ASSUME NEW f \in Folders, ClaudeWrites(f) PROVE AsideOK(g)'
  BY <1>7, <1>0, ClaudeJob, AsideStays
<1>8. ASSUME NEW h \in Hands, BeginsMerge(h) PROVE AsideOK(g)'
  BY <1>8 DEF BeginsMerge
<1>9. ASSUME NEW h \in Hands, LocksAndReads(h) PROVE AsideOK(g)'
  BY <1>9 DEF LocksAndReads
<1>10. ASSUME NEW h \in Hands, Compares(h) PROVE AsideOK(g)'
  BY <1>10, Places DEF Compares, Does
<1>11. ASSUME NEW h \in Hands, LockNotHad(h) PROVE AsideOK(g)'
  <2>1. Others(h)
    BY <1>11, <1>0, UnhadEffect
  <2>2. CASE g # h
    BY <1>0, <2>1, <2>2, AsideStays DEF Others, Same, Carried
  <2>3. CASE g = h
    <3>1. job'[g].step = "settle" /\ job'[g].ok = FALSE
      BY <1>11, <1>0, <2>3, UnhadEffect
    <3>2. QED
      BY <2>3, <3>1, <1>0 DEF AsideOK
  <2>4. QED
    BY <2>2, <2>3
<1>12. ASSUME NEW h \in Hands, WritesMerged(h) PROVE AsideOK(g)'
  BY <1>12 DEF WritesMerged
<1>13. ASSUME NEW h \in Hands, WriteFails(h) PROVE AsideOK(g)'
  BY <1>13 DEF WriteFails
<1>14. ASSUME NEW h \in Hands, HandsBack(h) PROVE AsideOK(g)'
  BY <1>14 DEF HandsBack
<1>15. ASSUME NEW h \in Hands, CopiesUsers(h) PROVE AsideOK(g)'
  <2>1. h \in Sessions /\ job[h].step # "idle"
    BY <1>15, Places DEF CopiesUsers, Does
  <2>2. QED
    BY <2>1, Places
<1>16. ASSUME NEW h \in Hands, Snaps(h) PROVE AsideOK(g)'
  <2>1. h \in Sessions /\ job[h].step # "idle"
    BY <1>16, Places DEF Snaps, Does
  <2>2. QED
    BY <2>1, Places
<1>17. ASSUME NEW h \in Hands, Clears(h) PROVE AsideOK(g)'
  <2>1. Others(h)
    BY <1>17, <1>0, ClearsEffect
  <2>2. CASE g # h
    BY <1>0, <2>1, <2>2, AsideStays DEF Others, Same, Carried
  <2>3. CASE g = h
    <3>1. job[g].step = "clear"
      BY <1>17, <1>0, <2>3, ClearsEffect
    <3>2. FALSE
      BY <1>0, <3>1, Places
    <3>3. QED
      BY <2>3, <3>2, <1>0 DEF AsideOK
  <2>4. QED
    BY <2>2, <2>3
<1>18. ASSUME NEW h \in Hands, Looks(h) PROVE AsideOK(g)'
  BY <1>18 DEF Looks
<1>19. ASSUME NEW h \in Hands, Puts(h) PROVE AsideOK(g)'
  BY <1>19, Places DEF Puts, Does
<1>20. ASSUME NEW h \in Hands, PutsBase(h) PROVE AsideOK(g)'
  BY <1>20, Places DEF PutsBase, Does
<1>21. ASSUME NEW h \in Hands, MovesAside(h) PROVE AsideOK(g)'
  <2>1. Others(h)
    BY <1>21, <1>0, AsideEffect
  <2>2. CASE g # h
    BY <1>0, <2>1, <2>2, AsideStays DEF Others, Same, Carried
  <2>3. CASE g = h
    <3>1. job[g].step = "idle" /\ (job' = job \/ job'[g].step = "wait")
      BY <1>21, <1>0, <2>3, AsideEffect
    <3>2. QED
      BY <2>3, <3>1, <1>0 DEF AsideOK
  <2>4. QED
    BY <2>2, <2>3
<1>22. ASSUME NEW h \in Hands, PlansSync(h) PROVE AsideOK(g)'
  <2>1. Others(h)
    BY <1>22, <1>0, PlansEffect
  <2>2. CASE g # h
    BY <1>0, <2>1, <2>2, AsideStays DEF Others, Same, Carried
  <2>3. CASE g = h
    <3>1. /\ UNCHANGED <<own, base, user, due>> /\ job[g].step = "wait"
          /\ job'[g].base = base[g] /\ job'[g].plan \in Plans(base[g], job[g].ours, user)
          /\ job'[g].step = (IF job'[g].plan = "back" THEN "write" ELSE "settle")
      BY <1>22, <1>0, <2>3, PlansEffect DEF Steady
    <3>2. job[g].ours \in Writable /\ job[g].task = "sync"
      BY <1>0, <3>1, Places DEF IInv, OursInv, OursOK
    <3>3. job'[g].plan \in {"none", "back", "aside"}
      BY <3>1 DEF Plans, PlanWhole
    <3>4. ASSUME job'[g].plan = "none" PROVE (due[g] \subseteq Due(base[g], own[g]))'
      <4>1. base[g] \in Contents \cup {None} /\ user # Broken
        BY <1>0, ReadableFile DEF FileTypes
      <4>2. \A c \in Due(base[g], job[g].ours) : Shows(Content(user), c)
        BY <3>1, <3>2, <3>4, <4>1, NothingToHandBack
      <4>3. \A c \in due[g] : ~Shows(Content(user), c)
        BY <1>0, <4>1 DEF IInv, DueInv, DueOK
      <4>4. due[g] \subseteq Due(base[g], own[g]) \cup Due(base[g], job[g].ours)
        BY <1>0, <3>2 DEF IInv, StillDue
      <4>5. (Due(base[g], own[g]))' = Due(base[g], own[g])
        BY <1>0, <3>1 DEF Due, LegacyOurs
      <4>6. QED
        BY <3>1, <4>2, <4>3, <4>4, <4>5
    <3>5. QED
      BY <2>3, <3>1, <3>2, <3>3, <3>4, <1>0 DEF AsideOK
  <2>4. QED
    BY <2>2, <2>3
<1>23. ASSUME NEW h \in Hands, PlansReturn(h) PROVE AsideOK(g)'
  <2>1. Others(h)
    BY <1>23, <1>0, ReturnsEffect
  <2>2. CASE g # h
    BY <1>0, <2>1, <2>2, AsideStays DEF Others, Same, Carried
  <2>3. CASE g = h
    <3>1. g \in Sweepers
      BY <1>23, <1>0, <2>3, ReturnsEffect
    <3>2. FALSE
      BY <1>0, <3>1
    <3>3. QED
      BY <2>3, <3>2, <1>0 DEF AsideOK
  <2>4. QED
    BY <2>2, <2>3
<1>24. ASSUME NEW h \in Hands, WritesFile(h) PROVE AsideOK(g)'
  <2>1. Others(h)
    BY <1>24, <1>0, FileEffect
  <2>2. CASE g # h
    BY <1>0, <2>1, <2>2, AsideStays DEF Others, Same, Carried
  <2>3. CASE g = h
    <3>1. /\ UNCHANGED base /\ job[g].step = "write" /\ job'[g].step = AfterFile(g) /\ Carried(g)
          /\ due' = Arrives(user')
          /\ (Unlinked /\ UNCHANGED own) \/ InPlace(user')
      BY <1>24, <1>0, <2>3, FileEffect
    <3>2. job[g].task = "sync" /\ job[g].plan = "back" /\ ~linked[g]
      BY <1>0, <3>1, Places, Apart DEF AsideOK, IInv, JobsInv, JobOK, AtWork,
         EditorAtWork
    <3>3. own'[g] = own[g]
      BY <1>0, <3>1, <3>2 DEF InPlace, FileTypes
    <3>4. (due[g] \subseteq Due(base[g], own[g]))'
      <4>1. base[g] \in Contents \cup {None} /\ user' # Broken
        BY <1>24, <1>0, FileWritten, Atoms DEF FileTypes
      <4>2. \A c \in Due(base[g], job[g].ours) : Shows(Content(user'), c)
        BY <1>24, <2>3, <4>1, FileArrives
      <4>3. /\ due'[g] \subseteq due[g]
            /\ \A c \in due'[g] : ~Shows(Content(user'), c)
        BY <1>0, <3>1, <4>1, ArrivesSpares
      <4>4. due[g] \subseteq Due(base[g], own[g]) \cup Due(base[g], job[g].ours)
        BY <1>0, <3>2 DEF IInv, StillDue
      <4>5. (Due(base[g], own[g]))' = Due(base[g], own[g])
        BY <1>0, <3>1, <3>3 DEF Due, LegacyOurs
      <4>6. QED
        BY <4>2, <4>3, <4>4, <4>5
    <3>5. job'[g].step = "settle" /\ job'[g].plan = "back"
      BY <3>1, <3>2 DEF AfterFile, Carried
    <3>6. QED
      BY <2>3, <3>4, <3>5, <1>0 DEF AsideOK
  <2>4. QED
    BY <2>2, <2>3
<1>25. ASSUME NEW h \in Hands, WriteFileFails(h) PROVE AsideOK(g)'
  <2>1. Others(h)
    BY <1>25, <1>0, FileFailsEffect
  <2>2. CASE g # h
    BY <1>0, <2>1, <2>2, AsideStays DEF Others, Same, Carried
  <2>3. CASE g = h
    <3>1. job'[g].ok = FALSE /\ job'[g].step = AfterFile(g)
      BY <1>25, <1>0, <2>3, FileFailsEffect
    <3>2. QED
      BY <2>3, <3>1, <1>0 DEF AfterFile, AsideOK
  <2>4. QED
    BY <2>2, <2>3
<1>26. ASSUME NEW h \in Hands, Adopts(h) PROVE AsideOK(g)'
  <2>1. Others(h)
    BY <1>26, <1>0, EndedJob DEF Adopts
  <2>2. CASE g # h
    BY <1>0, <2>1, <2>2, AsideStays DEF Others, Same, Carried
  <2>3. CASE g = h
    <3>1. Ended(g)
      BY <1>26, <1>0, <2>3, EndedJob DEF Adopts
    <3>2. QED
      BY <2>3, <3>1, <1>0 DEF Ended, AsideOK
  <2>4. QED
    BY <2>2, <2>3
<1>27. ASSUME NEW h \in Hands, PutsBack(h) PROVE AsideOK(g)'
  <2>1. Others(h)
    BY <1>27, <1>0, PutsBackEffect
  <2>2. CASE g # h
    BY <1>0, <2>1, <2>2, AsideStays DEF Others, Same, Carried
  <2>3. CASE g = h
    <3>1. Ended(g)
      BY <1>27, <1>0, <2>3, PutsBackEffect
    <3>2. QED
      BY <2>3, <3>1, <1>0 DEF Ended, AsideOK
  <2>4. QED
    BY <2>2, <2>3
<1>28. ASSUME NEW h \in Hands, Dies(h) PROVE AsideOK(g)'
  <2>1. Others(h)
    BY <1>28, <1>0, DiesEffect
  <2>2. CASE g # h
    BY <1>0, <2>1, <2>2, AsideStays DEF Others, Same, Carried
  <2>3. CASE g = h
    <3>1. Ended(g)
      BY <1>28, <1>0, <2>3, DiesEffect
    <3>2. QED
      BY <2>3, <3>1, <1>0 DEF Ended, AsideOK
  <2>4. QED
    BY <2>2, <2>3
<1>29. CASE UNCHANGED vars
  BY <1>29, <1>0, AsideStays DEF vars, Same, Carried
<1>30. QED
  BY <1>1, <1>2, <1>3, <1>4, <1>5, <1>6, <1>7, <1>8, <1>9, <1>10, <1>11, <1>12, <1>13,
     <1>14, <1>15, <1>16, <1>17, <1>18, <1>19, <1>20, <1>21, <1>22, <1>23, <1>24, <1>25,
     <1>26, <1>27, <1>28, <1>29 DEF Next, FolderStep, HandStep, Folders, Hands

\* What is due of a folder is in it, or in what was moved aside of it.
DueAt(x) ==
    due[x] \subseteq Due(base[x], own[x])
             \cup (IF ~Merged /\ job[x].task = "sync" THEN Due(base[x], job[x].ours) ELSE {})

\* A folder in which nothing moves still has what is due of it.
LEMMA DueStays ==
    ASSUME IInv, kind' = kind, NEW x \in Folders, due'[x] \subseteq due[x],
           \/ due'[x] = {}
           \/ /\ base'[x] = base[x] /\ own'[x] = own[x]
              /\ \/ Merged \/ job[x].task # "sync"
                 \/ job'[x].task = job[x].task /\ job'[x].ours = job[x].ours
    PROVE  DueAt(x)'
<1>1. due[x] \subseteq Due(base[x], own[x])
               \cup (IF ~Merged /\ job[x].task = "sync" THEN Due(base[x], job[x].ours) ELSE {})
  BY DEF IInv, StillDue
<1>2. CASE due'[x] = {}
  BY <1>2 DEF DueAt
<1>3. CASE base'[x] = base[x] /\ own'[x] = own[x] /\ (Merged \/ job[x].task # "sync")
  <2>1. (Due(base[x], own[x]))' = Due(base[x], own[x])
    BY <1>3 DEF Due, LegacyOurs
  <2>2. QED
    BY <1>1, <1>3, <2>1 DEF DueAt
<1>4. CASE /\ base'[x] = base[x] /\ own'[x] = own[x] /\ ~Merged /\ job[x].task = "sync"
           /\ job'[x].task = job[x].task /\ job'[x].ours = job[x].ours
  <2>1. (Due(base[x], own[x]))' = Due(base[x], own[x])
    BY <1>4 DEF Due, LegacyOurs
  <2>2. (Due(base[x], job[x].ours))' = Due(base[x], job[x].ours) /\ ~Merged'
    BY <1>4 DEF Due, LegacyOurs, Merged
  <2>3. QED
    BY <1>1, <1>4, <2>1, <2>2 DEF DueAt
<1>5. QED
  BY <1>2, <1>3, <1>4

\* Of a file that is the user's own nothing is due.
LEMMA LinkedDue ==
    ASSUME IInv, NEW x \in Folders, linked[x]
    PROVE  due[x] = {}
<1>1. /\ ~Merged /\ own[x] = user /\ user # Broken /\ user \in Contents \cup {None} /\ x \in Hands
      /\ base[x] \in Contents \cup {None}
  BY ReadableFile DEF IInv, LinksInv, Hands, FileTypes
<1>2. job[x].task # "sync"
  <2>1. job[x].step = "idle" => job[x].task # "sync"
    BY <1>1 DEF IInv, JobsInv, JobOK
  <2>2. x \in Editors => job[x].step = "idle"
    BY <1>1 DEF IInv, JobsInv, JobOK, AtWork, EditorAtWork
  <2>3. x \in Sessions => job[x].task # "sync"
    BY <1>1, <2>1 DEF IInv, JobsInv, JobOK, AtWork, SessionAtWork
  <2>4. QED
    BY <2>1, <2>2, <2>3 DEF Folders
<1>3. due[x] \subseteq Due(base[x], own[x])
  BY <1>2 DEF IInv, StillDue
<1>4. ASSUME NEW c \in due[x] PROVE FALSE
  <2>1. c \in Due(base[x], own[x]) /\ ~Shows(Content(user), c)
    BY <1>1, <1>3, <1>4 DEF IInv, DueInv, DueOK
  <2>2. own[x] \in Contents
    BY <1>1, <2>1 DEF Due
  <2>3. QED
    BY <1>1, <2>1, <2>2, DueShown
<1>5. QED
  BY <1>4

\* What is due of a folder is still there to be handed back.
LEMMA StillDueKept == IInv /\ [Next]_vars => StillDue'
<1> SUFFICES ASSUME IInv, [Next]_vars, NEW x \in Folders PROVE DueAt(x)'
  BY DEF StillDue, DueAt
<1> USE DEF Steady
<1>0. /\ JobTypes /\ FileTypes /\ x \in Hands /\ job[x] \in Jobs /\ kind' = kind /\ DueAt(x)
      /\ x \notin Sweepers
  BY Apart, KindKept DEF IInv, JobTypes, Hands, Folders, StillDue, DueAt
<1>1. CASE UserEdits
  <2>1. UNCHANGED base /\ due' = Arrives(user') /\ Interrupts
    BY <1>1 DEF UserEdits
  <2>2. due'[x] \subseteq due[x]
    BY <1>0, <2>1, ArrivesSpares
  <2>3. job'[x].task = job[x].task /\ job'[x].ours = job[x].ours
    BY <1>0, <2>1, LateJob DEF Same, Carried
  <2>4. linked[x] \/ own'[x] = own[x]
    BY <1>1, <1>0 DEF UserEdits, InPlace, FileTypes
  <2>5. QED
    BY <1>0, <2>1, <2>2, <2>3, <2>4, LinkedDue, DueStays
<1>2. CASE UserBreaks
  <2>1. UNCHANGED base /\ due' = Arrives(user') /\ Interrupts
    BY <1>2 DEF UserBreaks
  <2>2. due'[x] \subseteq due[x]
    BY <1>0, <2>1, ArrivesSpares
  <2>3. job'[x].task = job[x].task /\ job'[x].ours = job[x].ours
    BY <1>0, <2>1, LateJob DEF Same, Carried
  <2>4. linked[x] \/ own'[x] = own[x]
    BY <1>2, <1>0 DEF UserBreaks, InPlace, FileTypes
  <2>5. QED
    BY <1>0, <2>1, <2>2, <2>3, <2>4, LinkedDue, DueStays
<1>3. CASE LockAges
  BY <1>3, <1>0, DueStays DEF LockAges
<1>4. ASSUME NEW f \in Folders, Starts(f) PROVE DueAt(x)'
  <2>1. UNCHANGED <<job, due>> /\ phase[f] = "gone" /\ (x = f => due[x] = {})
    BY <1>4, <1>0, StartsEffect DEF IInv, DueInv, DueOK
  <2>2. x # f => base'[x] = base[x] /\ own'[x] = own[x]
    BY <1>4, <1>0, StartsEffect DEF Retaken, FileTypes
  <2>3. QED
    BY <1>0, <2>1, <2>2, DueStays
<1>5. ASSUME NEW f \in Folders, Exits(f) PROVE DueAt(x)'
  BY <1>5, <1>0, DueStays DEF Exits
<1>6. ASSUME NEW f \in Folders, Relaunches(f) PROVE DueAt(x)'
  BY <1>6, <1>0, DueStays DEF Relaunches
<1>7. ASSUME NEW f \in Folders, ClaudeWrites(f) PROVE DueAt(x)'
  <2>1. UNCHANGED base /\ job'[x].task = job[x].task /\ job'[x].ours = job[x].ours
    BY <1>7, <1>0, ClaudeJob DEF ClaudeWrites, Same, Carried
  <2>2. ASSUME NEW o, InPlace(o), due' = Arrives(o) PROVE DueAt(x)'
    <3>1. due'[x] \subseteq due[x]
      BY <1>0, <2>2, ArrivesSpares
    <3>2. linked[x] \/ own'[x] = own[x]
      BY <1>0, <2>2 DEF InPlace, FileTypes
    <3>3. QED
      BY <1>0, <2>1, <3>1, <3>2, LinkedDue, DueStays
  <2>3. ASSUME NEW o, own' = [own EXCEPT ![f] = o],
               due' = [due EXCEPT ![f] =
                {c \in (@ \cup Changes(Content(own[f]), o)) \cap DueNext(f, o) :
                    user = Broken \/ ~Shows(Content(user), c)}]
        PROVE  DueAt(x)'
    <3>1. CASE x # f
      BY <1>0, <2>1, <2>3, <3>1, DueStays DEF FileTypes
    <3>2. CASE x = f
      <4>1. own'[x] = o /\ due'[x] \subseteq DueNext(x, o)
        BY <1>0, <2>3, <3>2 DEF FileTypes
      <4>2. (Due(base[x], own[x]))' = Due(base[x], o)
        BY <1>0, <2>1, <4>1 DEF Due, LegacyOurs
      <4>3. QED
        BY <4>1, <4>2 DEF DueNext, DueAt
    <3>3. QED
      BY <3>1, <3>2
  <2>4. QED
    BY <1>7, <2>2, <2>3 DEF ClaudeWrites
<1>8. ASSUME NEW h \in Hands, BeginsMerge(h) PROVE DueAt(x)'
  <2>1. UNCHANGED <<own, base, due>> /\ Merged
    BY <1>8, <1>0, BeginsEffect
  <2>2. QED
    BY <1>0, <2>1, DueStays
<1>9. ASSUME NEW h \in Hands, LocksAndReads(h) \/ Compares(h) PROVE DueAt(x)'
  <2>1. UNCHANGED <<own, base>>
    BY <1>9, <1>0, ReadsEffect
  <2>2. Merged
    BY <1>9, <1>0, ReadsEffect, Places
  <2>3. Settled(h, user, due) \/ UNCHANGED due
    BY <1>9, <1>0, ReadsEffect
  <2>4. due'[x] \subseteq due[x]
    BY <1>0, <2>3, SettledSpares DEF FileTypes
  <2>5. QED
    BY <1>0, <2>1, <2>2, <2>4, DueStays
<1>10. ASSUME NEW h \in Hands, LockNotHad(h) PROVE DueAt(x)'
  <2>1. UNCHANGED <<own, base, due>> /\ Others(h)
    BY <1>10, <1>0, UnhadEffect
  <2>2. Merged \/ (job'[x].task = job[x].task /\ job'[x].ours = job[x].ours)
    BY <1>10, <1>0, <2>1, UnhadEffect DEF Others
  <2>3. QED
    BY <1>0, <2>1, <2>2, DueStays
<1>11. ASSUME NEW h \in Hands, WritesMerged(h) PROVE DueAt(x)'
  <2>1. UNCHANGED <<own, base>> /\ Merged /\ Settled(h, job[h].seen, Arrives(user'))
    BY <1>11 DEF WritesMerged
  <2>2. Arrives(user') \in [Folders -> SUBSET AllChanges]
    BY <1>0, ArrivesType
  <2>3. due'[x] \subseteq Arrives(user')[x]
    BY <1>0, <2>1, <2>2, SettledSpares
  <2>4. due'[x] \subseteq due[x]
    BY <1>0, <2>3, ArrivesSpares
  <2>5. QED
    BY <1>0, <2>1, <2>4, DueStays
<1>12. ASSUME NEW h \in Hands, WriteFails(h) PROVE DueAt(x)'
  <2>1. UNCHANGED <<own, base, due>> /\ Merged
    BY <1>12 DEF WriteFails
  <2>2. QED
    BY <1>0, <2>1, DueStays
<1>13. ASSUME NEW h \in Hands, HandsBack(h) PROVE DueAt(x)'
  <2>1. UNCHANGED <<own, due>> /\ job[h].step = "after" /\ Merged /\ job[h].task # "sync"
    BY <1>13, <1>0, HandsBackEffect
  <2>2. UNCHANGED base \/ (job[h].ok /\ AdvancesBase(job[h].folder))
    BY <1>13, <1>0, HandsBackEffect
  <2>3. h \in Sessions \cup Sweepers /\ job[h].folder \in Folders
    BY <2>1, Places DEF Hands, Folders
  <2>4. job[h].ok => due[job[h].folder] = {}
    BY <2>1, <2>3 DEF IInv, ReturnInv, ReturnOK
  <2>5. base'[x] = base[x] \/ due[x] = {}
    BY <1>0, <2>2, <2>3, <2>4 DEF AdvancesBase, FileTypes
  <2>6. QED
    BY <1>0, <2>1, <2>5, DueStays
<1>14. ASSUME NEW h \in Hands, CopiesUsers(h) PROVE DueAt(x)'
  <2>1. UNCHANGED <<base, due>> /\ job[h].step = "copy"
    BY <1>14, <1>0, CopiesEffect
  <2>2. h \in Sessions /\ Merged /\ job[h].folder = h
    BY <2>1, Places DEF Folders
  <2>3. due[h] = {}
    BY <2>1, <2>2 DEF IInv, ReturnInv, ReturnOK
  <2>4. own'[x] = own[x] \/ x = h
    BY <1>14, <1>0, CopiesEffect DEF FileTypes
  <2>5. QED
    BY <1>0, <2>1, <2>2, <2>3, <2>4, DueStays
<1>15. ASSUME NEW h \in Hands, Snaps(h) PROVE DueAt(x)'
  <2>1. UNCHANGED <<own, due>> /\ job[h].step = "snap"
    BY <1>15, <1>0, SnapsEffect
  <2>2. h \in Sessions /\ Merged /\ job[h].folder = h
    BY <2>1, Places DEF Folders
  <2>3. due[h] = {}
    BY <2>1, <2>2 DEF IInv, ReturnInv, ReturnOK
  <2>4. base'[x] = base[x] \/ x = h
    BY <1>15, <1>0, SnapsEffect DEF FileTypes
  <2>5. QED
    BY <1>0, <2>1, <2>2, <2>3, <2>4, DueStays
<1>16. ASSUME NEW h \in Hands, Clears(h) PROVE DueAt(x)'
  <2>1. job[h].step = "clear" /\ Others(h)
    BY <1>16, <1>0, ClearsEffect
  <2>2. h \in Sweepers /\ job[h].folder \in Folders /\ x # h
    BY <1>0, <2>1, Places
  <2>3. job'[x] = job[x] /\ (job[h].ok => due[job[h].folder] = {})
    BY <1>0, <2>1, <2>2 DEF IInv, ReturnInv, ReturnOK, Others
  <2>4. \/ /\ due' = IF job[h].ok THEN due ELSE [due EXCEPT ![job[h].folder] = {}]
           /\ own' = [own EXCEPT ![job[h].folder] = None] /\ base' = [base EXCEPT ![job[h].folder] = None]
        \/ UNCHANGED <<own, base, due>>
    BY <1>16, <1>0, ClearsEffect
  <2>5. due'[x] \subseteq due[x] /\ (due'[x] = {} \/ (base'[x] = base[x] /\ own'[x] = own[x]))
    BY <1>0, <2>2, <2>3, <2>4 DEF FileTypes
  <2>6. QED
    BY <1>0, <2>3, <2>5, DueStays
<1>17. ASSUME NEW h \in Hands, Looks(h) PROVE DueAt(x)'
  <2>1. UNCHANGED <<own, base>> /\ Merged
    BY <1>17, <1>0, LooksEffect
  <2>2. due' = [due EXCEPT ![h] = IF job[h].late THEN {} ELSE @ \ Settles(h)] \/ UNCHANGED due
    BY <1>17, <1>0, LooksEffect
  <2>3. due'[x] \subseteq due[x]
    BY <1>0, <2>2 DEF FileTypes
  <2>4. QED
    BY <1>0, <2>1, <2>3, DueStays
<1>18. ASSUME NEW h \in Hands, Puts(h) PROVE DueAt(x)'
  <2>1. UNCHANGED base /\ job[h].step = "put"
    BY <1>18, <1>0, PutsEffect
  <2>2. \/ /\ own' = [own EXCEPT ![h] = Content(job[h].seen)]
           /\ due' = [due EXCEPT ![h] = IF job[h].late THEN {} ELSE @]
        \/ UNCHANGED <<own, due>>
    BY <1>18, <1>0, PutsEffect
  <2>3. Merged /\ (job[h].late \/ due[h] = {})
    BY <2>1, Places DEF IInv, SyncInv, SyncOK
  <2>4. due'[x] \subseteq due[x] /\ (due'[x] = {} \/ own'[x] = own[x])
    BY <1>0, <2>2, <2>3 DEF FileTypes
  <2>5. QED
    BY <1>0, <2>1, <2>3, <2>4, DueStays
<1>19. ASSUME NEW h \in Hands, PutsBase(h) PROVE DueAt(x)'
  <2>1. UNCHANGED <<own, due>> /\ job[h].step = "base"
    BY <1>19, <1>0, PutsBaseEffect
  <2>2. Merged /\ h \in Editors /\ due[h] \subseteq Due(Content(job[h].seen), own[h])
    BY <2>1, Places DEF IInv, SyncInv, SyncOK
  <2>3. CASE base'[x] = base[x]
    BY <1>0, <2>1, <2>2, <2>3, DueStays
  <2>4. CASE x = h /\ base'[x] = Content(job[h].seen)
    <3>1. (Due(base[x], own[x]))' = Due(Content(job[h].seen), own[h])
      BY <1>0, <2>1, <2>4 DEF Due, LegacyOurs
    <3>2. QED
      BY <2>1, <2>2, <2>4, <3>1 DEF DueAt
  <2>5. QED
    BY <1>19, <1>0, <2>3, <2>4, PutsBaseEffect DEF FileTypes
<1>20. ASSUME NEW h \in Hands, MovesAside(h) PROVE DueAt(x)'
  <2>1. Others(h) /\ UNCHANGED due /\ ~Merged /\ job[h].step = "idle" /\ h \in Folders
    BY <1>20, <1>0, AsideEffect DEF Folders
  <2>2. job[h].task # "sync"
    BY <1>0, <2>1 DEF IInv, JobsInv, JobOK
  <2>3. due[h] \subseteq Due(base[h], own[h])
    BY <2>1, <2>2 DEF IInv, StillDue
  <2>4. CASE x # h
    <3>1. Retaken(h) \/ (own' = [own EXCEPT ![h] = None] /\ UNCHANGED base)
      BY <1>20, <1>0, AsideEffect
    <3>2. job'[x] = job[x] /\ base'[x] = base[x] /\ own'[x] = own[x]
      BY <1>0, <2>1, <2>4, <3>1 DEF Others, Retaken, FileTypes
    <3>3. QED
      BY <1>0, <2>1, <3>2, DueStays
  <2>5. CASE x = h /\ own[h] = None
    BY <1>0, <2>1, <2>3, <2>5, DueStays DEF Due
  <2>6. CASE /\ x = h /\ own[h] # None /\ UNCHANGED base
             /\ job'[h].task = "sync" /\ job'[h].ours = own[h]
    <3>1. (Due(base[x], job[x].ours))' = Due(base[x], own[x]) /\ ~Merged'
      BY <1>0, <2>1, <2>6 DEF Due, LegacyOurs, Merged
    <3>2. QED
      BY <2>1, <2>3, <2>6, <3>1 DEF DueAt
  <2>7. QED
    BY <1>20, <1>0, <2>4, <2>5, <2>6, AsideEffect
<1>21. ASSUME NEW h \in Hands, PlansSync(h) PROVE DueAt(x)'
  <2>1. UNCHANGED <<own, base, due>> /\ Others(h)
    BY <1>21, <1>0, PlansEffect
  <2>2. job'[x].task = job[x].task /\ job'[x].ours = job[x].ours
    BY <1>21, <1>0, <2>1, PlansEffect DEF Others
  <2>3. QED
    BY <1>0, <2>1, <2>2, DueStays
<1>22. ASSUME NEW h \in Hands, PlansReturn(h) PROVE DueAt(x)'
  <2>1. UNCHANGED <<own, base, due>> /\ Others(h) /\ h \in Sweepers
    BY <1>22, <1>0, ReturnsEffect
  <2>2. job'[x] = job[x]
    BY <1>0, <2>1 DEF Others
  <2>3. QED
    BY <1>0, <2>1, <2>2, DueStays
<1>23. ASSUME NEW h \in Hands, WritesFile(h) PROVE DueAt(x)'
  <2>1. UNCHANGED base /\ due' = Arrives(user') /\ Others(h)
    BY <1>23, <1>0, FileEffect
  <2>2. due'[x] \subseteq due[x]
    BY <1>0, <2>1, ArrivesSpares
  <2>3. job'[x].task = job[x].task /\ job'[x].ours = job[x].ours
    BY <1>23, <1>0, <2>1, FileEffect DEF Others, Carried
  <2>4. linked[x] \/ own'[x] = own[x]
    BY <1>23, <1>0, FileEffect DEF InPlace, FileTypes
  <2>5. QED
    BY <1>0, <2>1, <2>2, <2>3, <2>4, LinkedDue, DueStays
<1>24. ASSUME NEW h \in Hands, WriteFileFails(h) PROVE DueAt(x)'
  <2>1. UNCHANGED <<own, base, due>> /\ Others(h)
    BY <1>24, <1>0, FileFailsEffect
  <2>2. job'[x].task = job[x].task /\ job'[x].ours = job[x].ours
    BY <1>24, <1>0, <2>1, FileFailsEffect DEF Others
  <2>3. QED
    BY <1>0, <2>1, <2>2, DueStays
<1>25. ASSUME NEW h \in Hands, Adopts(h) PROVE DueAt(x)'
  <2>1. h \in Editors /\ h \in Folders /\ h \in Hands /\ ~Merged
    BY <1>25, Places DEF Adopts, Does, Folders
  <2>2. /\ Others(h) /\ job[h].step = "settle" /\ job[h].ok
        /\ due' = (IF job[h].plan = "aside"
                   THEN [due EXCEPT ![h] = @ \ Due(job[h].base, job[h].ours)] ELSE due)
        /\ IF own[h] = None THEN Retaken(h) ELSE UNCHANGED <<own, linked, base>>
    BY <1>25, <1>0, <2>1, AdoptsEffect
  <2>3. CASE x # h
    <3>1. job'[x] = job[x] /\ base'[x] = base[x] /\ own'[x] = own[x] /\ due'[x] = due[x]
      BY <1>0, <2>2, <2>3 DEF Others, Retaken, FileTypes
    <3>2. QED
      BY <1>0, <3>1, DueStays
  <2>4. /\ due[h] \subseteq Due(base[h], own[h]) \cup Due(base[h], job[h].ours)
        /\ IF job[h].plan = "aside" THEN job[h].base = base[h]
           ELSE due[h] \subseteq Due(base[h], own[h])
    BY <2>1, <2>2 DEF IInv, StillDue, AsideInv, AsideOK
  <2>5. due'[h] \subseteq due[h] /\ due'[h] \subseteq Due(base[h], own[h])
    BY <1>0, <2>1, <2>2, <2>4 DEF FileTypes
  <2>6. CASE x = h
    <3>1. CASE own[h] = None
      BY <1>0, <2>5, <2>6, <3>1, DueStays DEF Due
    <3>2. CASE UNCHANGED <<own, base>>
      <4>1. (Due(base[x], own[x]))' = Due(base[x], own[x])
        BY <1>0, <3>2 DEF Due, LegacyOurs
      <4>2. QED
        BY <2>5, <2>6, <4>1 DEF DueAt
    <3>3. QED
      BY <2>2, <3>1, <3>2
  <2>7. QED
    BY <2>3, <2>6
<1>26. ASSUME NEW h \in Hands, PutsBack(h) PROVE DueAt(x)'
  <2>1. h \in Editors /\ h \in Folders /\ ~Merged
    BY <1>26, Places DEF PutsBack, Does, Folders
  <2>2. CASE x # h
    <3>1. job'[x] = job[x] /\ base'[x] = base[x] /\ own'[x] = own[x] /\ due'[x] = due[x]
      BY <1>26, <1>0, <2>1, <2>2, PutsBackEffect DEF Others, FileTypes
    <3>2. QED
      BY <1>0, <3>1, DueStays
  <2>3. due[h] \subseteq Due(base[h], own[h]) \cup Due(base[h], job[h].ours)
    BY <2>1 DEF IInv, StillDue
  <2>4. CASE x = h /\ own[h] = None
    <3>1. own'[h] = job[h].ours /\ UNCHANGED <<due, base>>
      BY <1>26, <1>0, <2>4, PutsBackEffect DEF FileTypes
    <3>2. (Due(base[h], own[h]))' = Due(base[h], job[h].ours)
      BY <1>0, <3>1 DEF Due, LegacyOurs
    <3>3. Due(base[h], own[h]) = {}
      BY <2>4 DEF Due
    <3>4. QED
      BY <2>3, <2>4, <3>1, <3>2, <3>3 DEF DueAt
  <2>5. CASE x = h /\ own[h] # None
    <3>1. due'[h] \subseteq Due(base[h], own[h]) /\ UNCHANGED <<own, base>>
      BY <1>26, <1>0, <2>1, <2>5, PutsBackEffect DEF FileTypes
    <3>2. (Due(base[h], own[h]))' = Due(base[h], own[h])
      BY <1>0, <3>1 DEF Due, LegacyOurs
    <3>3. QED
      BY <2>5, <3>1, <3>2 DEF DueAt
  <2>6. QED
    BY <2>2, <2>4, <2>5
<1>27. ASSUME NEW h \in Hands, Dies(h) PROVE DueAt(x)'
  <2>1. /\ UNCHANGED <<own, base>> /\ Others(h)
        /\ due' = (IF ~Merged /\ job[h].task = "sync" /\ job[h].step # "idle"
                   THEN [due EXCEPT ![h] = @ \cap Due(base[h], own[h])] ELSE due)
    BY <1>27, <1>0, DiesEffect
  <2>2. job[h].task = "sync" => job[h].step # "idle"
    BY DEF IInv, JobsInv, JobOK
  <2>3. CASE x # h \/ Merged \/ job[h].task # "sync"
    <3>1. due'[x] \subseteq due[x] /\ (x # h => job'[x] = job[x])
      BY <1>0, <2>1, <2>3 DEF Others, FileTypes
    <3>2. QED
      BY <1>0, <2>1, <2>3, <3>1, DueStays
  <2>4. CASE x = h /\ ~Merged /\ job[h].task = "sync"
    <3>1. due'[h] \subseteq Due(base[h], own[h])
      BY <1>0, <2>1, <2>2, <2>4 DEF FileTypes
    <3>2. (Due(base[h], own[h]))' = Due(base[h], own[h])
      BY <1>0, <2>1 DEF Due, LegacyOurs
    <3>3. QED
      BY <2>4, <3>1, <3>2 DEF DueAt
  <2>5. QED
    BY <2>3, <2>4
<1>28. CASE UNCHANGED vars
  BY <1>28, <1>0, DueStays DEF vars
<1>29. QED
  BY <1>1, <1>2, <1>3, <1>4, <1>5, <1>6, <1>7, <1>8, <1>9, <1>10, <1>11, <1>12, <1>13,
     <1>14, <1>15, <1>16, <1>17, <1>18, <1>19, <1>20, <1>21, <1>22, <1>23, <1>24, <1>25,
     <1>26, <1>27, <1>28 DEF Next, FolderStep, HandStep, Folders, Hands

-----------------------------------------------------------------------------

LEMMA StartsRight == Init => IInv
<1> SUFFICES ASSUME Init PROVE IInv
  OBVIOUS
<1>1. /\ kind \in Kinds
      /\ \/ user = None /\ ~Merged
         \/ \E c \in Starting : user = [value |-> IF kind = "lines" THEN Absent ELSE c.value,
                                        list |-> IF kind = "whole" THEN Absent ELSE c.list]
  BY DEF Init
<1>2. ASSUME NEW c \in Starting,
             user = [value |-> IF kind = "lines" THEN Absent ELSE c.value,
                     list |-> IF kind = "whole" THEN Absent ELSE c.list]
      PROVE  user \in Contents /\ (~Merged => user \in Writable)
  <2>1. c.value \in Values /\ c.list \in SUBSET Items
    BY UserFilesAssumption
  <2>2. user \in Contents
    BY <1>2, <2>1 DEF Contents
  <2>3. CASE kind = "whole"
    BY <1>2, <2>1, <2>2, <2>3 DEF Writable, Empty, Merged
  <2>4. CASE kind = "lines"
    <3>1. user = [value |-> Absent, list |-> c.list]
      BY <1>2, <2>4
    <3>2. user = [Empty EXCEPT !.list = c.list]
      BY <3>1 DEF Empty
    <3>3. QED
      BY <2>1, <2>2, <2>4, <3>2 DEF Writable, Merged
  <2>5. QED
    BY <1>1, <2>2, <2>3, <2>4, UserFilesAssumption DEF Merged
<1>3. user \in Contents \cup {None}
  BY <1>1, <1>2
<1>4. ~Merged => user \in Writable \cup {None}
  BY <1>1, <1>2
<1>5. FileTypes
  BY <1>3, UserFilesAssumption DEF Init, FileTypes
<1>6. \A h \in Hands : job[h] = NoJob
  BY DEF Init
<1>7. JobTypes
  BY NoJobType DEF Init, JobTypes
<1>8. LinksInv
  BY <1>4 DEF Init, LinksInv
<1>9. \A h \in Hands : job[h].step = "idle" /\ job[h].task = "none" /\ job[h].folder = None
  BY <1>6 DEF NoJob
<1>10. JobsInv /\ LockInv /\ OursInv
  BY <1>9 DEF JobsInv, JobOK, LockInv, LockOK, OursInv, OursOK
<1>11. \A f \in Folders : due[f] = {}
  BY DEF Init
<1>12. DueInv /\ StillDue
  BY <1>11 DEF DueInv, DueOK, StillDue
<1>13. ReturnInv /\ SyncInv /\ AsideInv
  BY <1>9 DEF ReturnInv, ReturnOK, SyncInv, SyncOK, AsideInv, AsideOK, Hands, Folders
<1>14. QED
  BY <1>5, <1>7, <1>8, <1>10, <1>12, <1>13 DEF IInv

LEMMA StepsKeep == IInv /\ [Next]_vars => IInv'
<1> SUFFICES ASSUME IInv /\ [Next]_vars PROVE IInv'
  OBVIOUS
<1>1. FileTypes' /\ JobTypes' /\ LinksInv' /\ JobsInv'
  BY FileTypesKept, JobTypesKept, LinksKept, JobsKept
<1>2. LockInv' /\ OursInv' /\ DueInv' /\ ReturnInv'
  BY LockKept, OursKept, DueKept, ReturnKept
<1>3. SyncInv' /\ AsideInv' /\ StillDue'
  BY SyncKept, AsideKept, StillDueKept
<1>4. QED
  BY <1>1, <1>2, <1>3 DEF IInv

LEMMA Always == Spec => []IInv
  BY StartsRight, StepsKeep, PTL DEF Spec

\* The types hold, and a change made in a folder that is nowhere else is still
\* in the folder, told apart from what it started from: for any number of
\* folders and processes clearing them, however they die, and whatever the
\* user and the Claudes change meanwhile.
THEOREM ChangesStayDue == Spec => []Inv
<1>1. IInv => Inv
  BY DEF IInv, Inv, TypeOK, FileTypes, JobTypes, LinksInv
<1>2. QED
  BY <1>1, Always, PTL

\* What a hand-back writes over was read, and the folder started from it.
LEMMA WriteSpares ==
    ASSUME IInv, [Next]_vars, NEW h \in Hands, job[h].step = "write", ~job[h].late,
           job'[h].step # "write", user' # user, kind # "whole"
    PROVE  /\ user # Broken
           /\ Content(user).value # Content(user').value => Content(user).value = JobBase(h).value
           /\ Members(Content(user).list) \ Members(Content(user').list)
                \subseteq Members(JobBase(h).list)
<1>0. JobTypes /\ FileTypes /\ job[h] \in Jobs
  BY DEF IInv, JobTypes
<1>1. \/ WritesMerged(h) \/ WritesFile(h)
  <2>1. ~UserEdits /\ ~UserBreaks
    BY <1>0, LateJob DEF UserEdits, UserBreaks, Same
  <2>2. ~LockAges
    BY DEF LockAges
  <2>3. ASSUME NEW f \in Folders, FolderStep(f) PROVE FALSE
    BY <1>0, <2>3, ClaudeJob DEF FolderStep, Starts, Exits, Relaunches, Same
  <2>4. PICK g \in Hands : HandStep(g)
    BY <2>1, <2>2, <2>3 DEF Next, vars
  <2>5. WritesMerged(g) \/ WritesFile(g)
    BY <2>4 DEF HandStep, BeginsMerge, LocksAndReads, LockNotHad, Compares, WriteFails,
       HandsBack,
                CopiesUsers, Snaps, Clears, Looks, Puts, PutsBase, MovesAside, PlansSync,
                PlansReturn, WriteFileFails, Adopts, PutsBack, Dies
  <2>6. Others(g)
    BY <1>0, <2>5, MergedEffect, FileEffect
  <2>7. QED
    BY <2>5, <2>6 DEF Others
<1>2. CASE WritesMerged(h)
  <2>1. Merged /\ user' = Result(h)
    BY <1>2 DEF WritesMerged
  <2>2. user = job[h].seen
    BY <2>1 DEF IInv, LockInv, LockOK
  <2>3. user # Broken /\ user \in Contents \cup {None}
    BY <1>0, <2>2, JobFields, Atoms
  <2>4. JobBase(h) \in Contents /\ JobOurs(h) \in Contents /\ Result(h) \in Contents
    BY <2>1, AtWrite
  <2>5. Content(user) \in Contents /\ Content(user') = Result(h)
    BY <2>1, <2>3, <2>4, ContentType, Atoms DEF Content
  <2>6. Result(h) = Merge(JobBase(h), JobOurs(h), Content(user))
    BY <2>2 DEF Result
  <2>7. LET m == Result(h)  t == Content(user) IN
        /\ t.value # m.value => t.value = JobBase(h).value
        /\ Members(t.list) \ Members(m.list) \subseteq Members(JobBase(h).list)
    <3>1. PICK b \in Contents, o \in Contents, t \in Contents :
              b = JobBase(h) /\ o = JobOurs(h) /\ t = Content(user)
      BY <2>4, <2>5
    <3>2. LET m == Merge(b, o, t) IN
          /\ t.value # m.value => t.value = b.value
          /\ Members(t.list) \ Members(m.list) \subseteq Members(b.list)
      BY MergeSpares
    <3>3. QED
      BY <2>6, <3>1, <3>2
  <2>8. QED
    BY <2>3, <2>5, <2>7
<1>3. CASE WritesFile(h)
  <2>1. /\ ~Merged /\ user' = [Empty EXCEPT !.list =
              Members(Content(user).list) \cup MissingLines(job[h].ours, job[h].seen)]
    BY <1>3 DEF WritesFile
  <2>2. kind = "lines"
    BY <2>1, UserFilesAssumption DEF IInv, FileTypes, Merged
  <2>3. user # Broken /\ user \in Writable \cup {None} /\ user' \in Contents
    BY <1>3, <2>1, ReadableFile, FileWritten DEF IInv, LinksInv
  <2>4. Content(user') = user' /\ user'.value = Absent
    BY <2>1, <2>3, Atoms DEF Content, Empty
  <2>5. Content(user).value = Absent
    BY <2>1, <2>2, <2>3, WritableIsContent, Atoms DEF Content, Writable, Empty
  <2>6. user'.list = Members(Content(user).list) \cup MissingLines(job[h].ours, job[h].seen)
    BY <2>1 DEF Empty
  <2>7. user'.list # Absent
    <3>1. job[h].ours \in Contents /\ Content(user) \in Contents
      BY <1>0, ContentType DEF IInv, OursInv, OursOK, FileTypes
    <3>2. user'.list \subseteq Items
      BY <2>6, <3>1 DEF Members, MissingLines, Contents
    <3>3. QED
      BY <3>2, UserFilesAssumption
  <2>8. QED
    BY <2>3, <2>4, <2>5, <2>6, <2>7 DEF Members
<1>4. QED
  BY <1>1, <1>2, <1>3

\* A hand-back never replaces a setting, or drops a member of a list, that the
\* folder did not start from, unless it was put there between the last look at
\* the file and the write; nor writes over a file that does not parse.
THEOREM UsersChoice == Spec => UsersChoiceStands
<1>1. IInv /\ [Next]_vars =>
        [\A h \in Hands :
            LET was == Content(user)  now == Content(user')  b == JobBase(h) IN
            job[h].step = "write" /\ ~job[h].late /\ job'[h].step # "write" /\ user' # user
              /\ kind # "whole" =>
              /\ user # Broken
              /\ was.value # now.value => was.value = b.value
              /\ Members(was.list) \ Members(now.list) \subseteq Members(b.list)]_vars
  BY WriteSpares
<1>2. QED
  BY <1>1, Always, PTL DEF Spec, UsersChoiceStands

-----------------------------------------------------------------------------
(* Claude's installation *)

\* Under the lock, and past looking at what there is to repair.
Under == {"judging", "npm", "placing", "renaming", "linking", "linkingOver", "copying",
          "removing", "puttingBack", "renamingBack", "repaired", "failed"}
Working == Under \ {"judging"}
Stages == {"moved", "unpacked", "streaming", "streamed", "copying"}

RepairTypes ==
    /\ folder \in {"there", "moved"} /\ links \in BOOLEAN
    /\ program \in Install!FileStates /\ platform \in Install!FileStates
    /\ aside \in [Procs -> Install!FileStates]
    /\ old \in [program : Install!FileStates, platform : Install!FileStates,
                aside : [Procs -> Install!FileStates]]
    /\ npm # None => npm \in [by : Procs \cup {"person", "nobody"}, at : Stages]
    /\ pause \in Nat /\ changed \in 0..SettledFor /\ platformAge \in 0..Quiet
    /\ installSeen \in [{"program", "platform"} -> Nat \cup {None}]
    /\ pc \in [Procs -> Under \cup {"idle", "over", "locking", "waiting"}]
    /\ told \in [Procs -> {"nothing", "changed", "repaired", "failed"}]
    /\ npmSaid \in [Procs -> {"nothing", "ok", "failed"}]

\* One repairs at a time, and the npm it runs is its own.
RepairLock ==
    /\ installLock \in Procs \cup {None}
    /\ \A p \in Procs : pc[p] \in Under <=> installLock = p
    /\ npm # None /\ npm.by \in Procs => pc[npm.by] = "npm" /\ npmSaid[npm.by] = "nothing"

\* What the package holds, by how far npm has come.
StageInv ==
    /\ folder = "moved" => program = "none" /\ platform = "none"
    /\ \A p \in Procs : pc[p] = "copying" => folder = "there"
    /\ npm # None =>
        /\ folder = (IF npm.at = "moved" THEN "moved" ELSE "there")
        /\ npm.at \in {"moved", "unpacked"} => platform = "none"
        /\ npm.at = "streaming" => platform = "partial"
        /\ npm.at \in {"streamed", "copying"} => platform = "whole"
        /\ npm.at = "copying" => program # "none" /\ ~links

\* npm at work shows: in the change times between two files, in the size of the
\* one it writes, and by the time it has written the first its age says as much.
PaceInv ==
    npm # None =>
        /\ IF npm.at \in {"streaming", "copying"} THEN pause <= Fetch ELSE pause < SettledFor
        /\ npm.at \in {"moved", "unpacked", "streamed"} => changed <= pause
        /\ npm.at = "streaming" /\ installSeen["platform"] # None => installSeen["platform"] <= pause
        /\ npm.at = "copying" /\ installSeen["program"] # None => installSeen["program"] <= pause
        /\ npm.at \in {"streamed", "copying"} => platformAge = Quiet \/ changed <= platformAge

\* A whole program is moved aside, or was when npm moved the package, only to go back.
AsideWhole ==
    \A p \in Procs :
        aside[p] = "whole" \/ old.aside[p] = "whole" =>
            pc[p] \in {"puttingBack", "renamingBack", "failed", "over"}

\* Where the disk makes links, nothing partial is in its place then.
PlacesInv ==
    links =>
        /\ ~lost
        /\ \A p \in Procs :
            /\ pc[p] \notin {"renamingBack", "copying"}
            /\ pc[p] = "puttingBack" =>
                /\ aside[p] = "whole" => program # "partial"
                /\ old.aside[p] = "whole" => old.program # "partial"

\* While one repairs, no install stands as repaired, and what it puts in place is
\* whole unless npm has changed the program since.
RepairedInv ==
    /\ \A p, q \in Procs : pc[p] \in Working => told[q] # "repaired"
    /\ \A p \in Procs :
        /\ pc[p] \in {"renaming", "linking", "linkingOver"} =>
               platform = "whole" \/ told[p] = "changed"
        /\ pc[p] \in {"removing", "repaired"} => program = "whole" \/ told[p] = "changed"

RepairInv ==
    /\ RepairTypes /\ RepairLock /\ StageInv /\ PaceInv /\ AsideWhole /\ PlacesInv
    /\ RepairedInv /\ Install!OneWriter /\ Install!RepairedIsWhole

-----------------------------------------------------------------------------

LEMMA RepairInit == Install!Init => RepairInv
<1> SUFFICES ASSUME Install!Init PROVE RepairInv
  OBVIOUS
<1> USE RepairAssumption DEF Install!Init, Install!Nothing, Install!FileStates
<1>1. RepairTypes
  BY DEF RepairTypes
<1>2. RepairLock
  BY DEF RepairLock, Under
<1>3. StageInv /\ PaceInv
  BY DEF StageInv, PaceInv
<1>4. AsideWhole /\ PlacesInv
  BY DEF AsideWhole, PlacesInv
<1>5. RepairedInv /\ Install!OneWriter /\ Install!RepairedIsWhole
  BY DEF RepairedInv, Install!OneWriter, Install!RepairedIsWhole
<1>6. QED
  BY <1>1, <1>2, <1>3, <1>4, <1>5 DEF RepairInv

LEMMA RepairTypesKept == RepairInv /\ [Install!Next]_(Install!vars) => RepairTypes'
<1> SUFFICES ASSUME RepairInv, [Install!Next]_(Install!vars) PROVE RepairTypes'
  OBVIOUS
<1> USE RepairAssumption DEF Install!vars, Install!install, Install!npms, Install!times,
      Install!memories, Install!runs, Install!ghosts, Install!placing
<1>1. CASE Install!PersonUpdates
  BY <1>1 DEF Install!PersonUpdates, Install!NpmStarts, Install!Changed,
     Install!Nothing, RepairInv, RepairTypes, Install!FileStates, Stages
<1>2. CASE Install!NpmUnpacks
  BY <1>2 DEF Install!NpmUnpacks, Install!At, Install!Writes, RepairInv, RepairTypes,
     Install!FileStates, Stages
<1>3. CASE Install!NpmStreams
  BY <1>3 DEF Install!NpmStreams, Install!At, Install!Writes, RepairInv, RepairTypes,
     Install!FileStates, Stages
<1>4. CASE Install!NpmStreamed
  BY <1>4 DEF Install!NpmStreamed, Install!At, Install!Writes, RepairInv, RepairTypes,
     Install!FileStates, Stages
<1>5. CASE Install!NpmCopies
  BY <1>5 DEF Install!NpmCopies, Install!At, Install!Writes, Install!Changed, RepairInv,
     RepairTypes, Install!FileStates, Stages
<1>6. CASE Install!NpmEnds
  BY <1>6 DEF Install!NpmEnds, Install!NpmOver, Install!Changed, Install!Nothing,
     RepairInv, RepairTypes, Install!FileStates
<1>7. CASE Install!NpmEndsWithoutScripts
  BY <1>7 DEF Install!NpmEndsWithoutScripts, Install!NpmOver, Install!Nothing,
     RepairInv, RepairTypes, Install!FileStates
<1>8. CASE Install!NpmDies
  BY <1>8 DEF Install!NpmDies, Install!NpmOver, RepairInv, RepairTypes
<1>9. CASE Install!NpmPutsBack
  BY <1>9 DEF Install!NpmPutsBack, Install!NpmOver, Install!Changed, Install!Nothing,
     RepairInv, RepairTypes, Install!FileStates
<1>10. CASE Install!Tick
  BY <1>10 DEF Install!Tick, Install!Older, RepairInv, RepairTypes
<1>11. ASSUME NEW p \in Procs,
             Install!Launches(p) \/ Install!Fixes(p) \/ Install!Locks(p) \/
             Install!LockIsTaken(p) \/ Install!GivesUp(p)
      PROVE  RepairTypes'
  BY <1>11 DEF Install!Launches, Install!Goes, Install!Fixes, Install!Locks,
     Install!LockIsTaken, Install!GivesUp, RepairInv, RepairTypes, Under
<1>12. ASSUME NEW p \in Procs,
             Install!Places(p) \/ Install!LeavesAlone(p)
      PROVE  RepairTypes'
  BY <1>12 DEF Install!Places, Install!Goes, Install!WatchesSizes, Install!LeavesAlone,
     Install!Released, RepairInv, RepairTypes, Under
<1>13. ASSUME NEW p \in Procs, Install!Reinstalls(p) PROVE RepairTypes'
  BY <1>13 DEF Install!Reinstalls, Install!Goes, Install!NpmStarts, Install!Changed,
     Install!Nothing, RepairInv, RepairTypes, Install!FileStates, Stages, Under
<1>14. ASSUME NEW p \in Procs,
             Install!CannotRunNpm(p) \/ Install!NpmIsOver(p) \/ Install!Checks(p) \/
             Install!CannotLink(p)
      PROVE  RepairTypes'
  BY <1>14 DEF Install!CannotRunNpm, Install!Goes, Install!NpmIsOver, Install!Checks,
     Install!CannotLink, RepairInv, RepairTypes, Under
<1>15. ASSUME NEW p \in Procs, Install!Ends(p) PROVE RepairTypes'
  BY <1>15 DEF Install!Ends, Install!Released, Install!Goes, RepairInv, RepairTypes
<1>16. ASSUME NEW p \in Procs, Install!Renames(p) PROVE RepairTypes'
  BY <1>16 DEF Install!Renames, Install!Goes, RepairInv, RepairTypes,
     Install!FileStates, Under
<1>17. ASSUME NEW p \in Procs, Install!Links(p) PROVE RepairTypes'
  BY <1>17 DEF Install!Links, Install!Goes, RepairInv, RepairTypes, Install!FileStates,
     Under
<1>18. ASSUME NEW p \in Procs,
             Install!Copied(p) \/ Install!Removes(p)
      PROVE  RepairTypes'
  BY <1>18 DEF Install!Copied, Install!Goes, Install!Removes, RepairInv, RepairTypes,
     Install!FileStates, Under
<1>19. ASSUME NEW p \in Procs, Install!PutsBack(p) PROVE RepairTypes'
  BY <1>19 DEF Install!PutsBack, Install!Goes, RepairInv, RepairTypes,
     Install!FileStates, Under
<1>20. ASSUME NEW p \in Procs, Install!RenamesBack(p) PROVE RepairTypes'
  BY <1>20 DEF Install!RenamesBack, Install!Goes, RepairInv, RepairTypes,
     Install!FileStates, Under
<1>21. ASSUME NEW p \in Procs, Install!Dies(p) PROVE RepairTypes'
  BY <1>21 DEF Install!Dies, Install!Goes, RepairInv, RepairTypes
<1>22. CASE UNCHANGED Install!vars
  BY <1>22 DEF RepairInv, RepairTypes
<1>23. QED
  BY <1>1, <1>2, <1>3, <1>4, <1>5, <1>6, <1>7, <1>8, <1>9, <1>10, <1>11, <1>12, <1>13,
     <1>14, <1>15, <1>16, <1>17, <1>18, <1>19, <1>20, <1>21, <1>22 DEF Install!Next

LEMMA RepairLockKept == RepairInv /\ [Install!Next]_(Install!vars) => RepairLock'
<1> SUFFICES ASSUME RepairInv, [Install!Next]_(Install!vars) PROVE RepairLock'
  OBVIOUS
<1> USE RepairAssumption DEF Install!vars, Install!install, Install!npms, Install!times,
      Install!memories, Install!runs, Install!ghosts, Install!placing
<1>1. CASE Install!PersonUpdates
  BY <1>1 DEF Install!PersonUpdates, Install!NpmStarts, RepairInv, RepairLock
<1>2. CASE Install!NpmUnpacks \/ Install!NpmStreams \/ Install!NpmStreamed \/
            Install!NpmCopies
  BY <1>2 DEF Install!NpmUnpacks, Install!At, Install!Writes, Install!NpmStreams,
     Install!NpmStreamed, Install!NpmCopies, RepairInv, RepairLock, RepairTypes
<1>3. CASE Install!NpmEnds \/ Install!NpmEndsWithoutScripts \/ Install!NpmDies \/
            Install!NpmPutsBack
  BY <1>3 DEF Install!NpmEnds, Install!NpmOver, Install!NpmEndsWithoutScripts,
     Install!NpmDies, Install!NpmPutsBack, RepairInv, RepairLock
<1>4. CASE Install!Tick
  BY <1>4 DEF Install!Tick, RepairInv, RepairLock
<1>5. ASSUME NEW p \in Procs,
             Install!Launches(p) \/ Install!Fixes(p) \/ Install!LockIsTaken(p) \/
             Install!GivesUp(p)
      PROVE  RepairLock'
  BY <1>5 DEF Install!Launches, Install!Goes, Install!Fixes, Install!LockIsTaken,
     Install!GivesUp, RepairInv, RepairLock, RepairTypes, Under
<1>6. ASSUME NEW p \in Procs, Install!Locks(p) PROVE RepairLock'
  BY <1>6 DEF Install!Locks, Install!Goes, RepairInv, RepairLock, RepairTypes, Under
<1>7. ASSUME NEW p \in Procs,
             Install!LeavesAlone(p) \/ Install!Ends(p)
      PROVE  RepairLock'
  BY <1>7 DEF Install!LeavesAlone, Install!Released, Install!Goes, Install!Ends,
     RepairInv, RepairLock, RepairTypes, Under
<1>8. ASSUME NEW p \in Procs,
             Install!Places(p) \/ Install!CannotRunNpm(p)
      PROVE  RepairLock'
  BY <1>8 DEF Install!Places, Install!Goes, Install!Repairs, Install!CannotRunNpm,
     RepairInv, RepairLock, RepairTypes, Under
<1>9. ASSUME NEW p \in Procs, Install!Reinstalls(p) PROVE RepairLock'
  BY <1>9 DEF Install!Reinstalls, Install!Repairs, Install!Goes, Install!NpmStarts,
     RepairInv, RepairLock, RepairTypes, Under
<1>10. ASSUME NEW p \in Procs, Install!NpmIsOver(p) PROVE RepairLock'
  BY <1>10 DEF Install!NpmIsOver, Install!Goes, RepairInv, RepairLock, Under
<1>11. ASSUME NEW p \in Procs,
             Install!Checks(p) \/ Install!CannotLink(p) \/ Install!Copied(p) \/
             Install!Removes(p) \/ Install!Links(p)
      PROVE  RepairLock'
  BY <1>11 DEF Install!Checks, Install!Goes, Install!CannotLink, Install!Linking,
     Install!Copied, Install!Removes, Install!Links, RepairInv, RepairLock, RepairTypes,
     Under
<1>12. ASSUME NEW p \in Procs,
             Install!Renames(p) \/ Install!PutsBack(p) \/ Install!RenamesBack(p)
      PROVE  RepairLock'
  BY <1>12 DEF Install!Renames, Install!Goes, Install!PutsBack, Install!RenamesBack,
     RepairInv, RepairLock, RepairTypes, Under
<1>13. ASSUME NEW p \in Procs, Install!Dies(p) PROVE RepairLock'
  BY <1>13 DEF Install!Dies, Install!Goes, RepairInv, RepairLock, RepairTypes, Under
<1>14. CASE UNCHANGED Install!vars
  BY <1>14 DEF RepairInv, RepairLock
<1>15. QED
  BY <1>1, <1>2, <1>3, <1>4, <1>5, <1>6, <1>7, <1>8, <1>9, <1>10, <1>11, <1>12, <1>13,
     <1>14 DEF Install!Next

LEMMA StageKept == RepairInv /\ [Install!Next]_(Install!vars) => StageInv'
<1> SUFFICES ASSUME RepairInv, [Install!Next]_(Install!vars) PROVE StageInv'
  OBVIOUS
<1> USE RepairAssumption DEF Install!vars, Install!install, Install!npms, Install!times,
      Install!memories, Install!runs, Install!ghosts, Install!placing
<1>1. CASE Install!PersonUpdates
  BY <1>1 DEF Install!PersonUpdates, Install!NpmStarts, Install!CopyOpen, StageInv
<1>2. CASE Install!NpmUnpacks
  BY <1>2 DEF Install!NpmUnpacks, Install!At, Install!Writes, RepairInv, StageInv
<1>3. CASE Install!NpmStreams
  BY <1>3 DEF Install!NpmStreams, Install!At, Install!Writes, RepairInv, StageInv
<1>4. CASE Install!NpmStreamed
  BY <1>4 DEF Install!NpmStreamed, Install!At, Install!Writes, RepairInv, StageInv
<1>5. CASE Install!NpmCopies
  BY <1>5 DEF Install!NpmCopies, Install!At, Install!Writes, RepairInv, StageInv
<1>6. CASE Install!NpmEnds
  BY <1>6 DEF Install!NpmEnds, Install!At, Install!NpmOver, RepairInv, StageInv
<1>7. CASE Install!NpmEndsWithoutScripts \/ Install!NpmDies \/ Install!Tick
  BY <1>7 DEF Install!NpmEndsWithoutScripts, Install!NpmOver, Install!NpmDies,
     Install!Tick, RepairInv, StageInv
<1>8. CASE Install!NpmPutsBack
  BY <1>8 DEF Install!NpmPutsBack, Install!NpmOver, StageInv
<1>9. ASSUME NEW p \in Procs,
             Install!Launches(p) \/ Install!Fixes(p) \/ Install!Locks(p) \/
             Install!LockIsTaken(p) \/ Install!GivesUp(p) \/ Install!CannotRunNpm(p) \/
             Install!NpmIsOver(p) \/ Install!Ends(p) \/ Install!Checks(p) \/
             Install!CannotLink(p)
      PROVE  StageInv'
  BY <1>9 DEF Install!Launches, Install!Goes, Install!Fixes, Install!Locks,
     Install!LockIsTaken, Install!GivesUp, Install!CannotRunNpm, Install!NpmIsOver,
     Install!Ends, Install!Released, Install!Checks, Install!CannotLink, RepairInv,
     StageInv, RepairTypes
<1>10. ASSUME NEW p \in Procs,
             Install!LeavesAlone(p) \/ Install!Places(p) \/ Install!Removes(p) \/
             Install!Dies(p)
      PROVE  StageInv'
  BY <1>10 DEF Install!LeavesAlone, Install!Released, Install!Goes, Install!Places,
     Install!Removes, Install!Dies, RepairInv, StageInv, RepairTypes
<1>11. ASSUME NEW p \in Procs, Install!Reinstalls(p) PROVE StageInv'
  BY <1>11 DEF Install!Reinstalls, Install!Repairs, Install!Goes, Install!NpmStarts,
     RepairInv, StageInv, RepairTypes, RepairLock
<1>12. ASSUME NEW p \in Procs, Install!Renames(p) PROVE StageInv'
  BY <1>12 DEF Install!Renames, Install!Goes, RepairInv, StageInv, RepairTypes,
     Install!At
<1>13. ASSUME NEW p \in Procs, Install!Links(p) PROVE StageInv'
  BY <1>13 DEF Install!Links, Install!Free, RepairInv, StageInv
<1>14. ASSUME NEW p \in Procs, Install!Copied(p) PROVE StageInv'
  BY <1>14 DEF Install!Copied, RepairInv, StageInv
<1>15. ASSUME NEW p \in Procs, Install!PutsBack(p) PROVE StageInv'
  BY <1>15 DEF Install!PutsBack, Install!Goes, RepairInv, StageInv, RepairTypes
<1>16. ASSUME NEW p \in Procs, Install!RenamesBack(p) PROVE StageInv'
  BY <1>16 DEF Install!RenamesBack, Install!Goes, RepairInv, StageInv
<1>17. CASE UNCHANGED Install!vars
  BY <1>17 DEF RepairInv, StageInv
<1>18. QED
  BY <1>1, <1>2, <1>3, <1>4, <1>5, <1>6, <1>7, <1>8, <1>9, <1>10, <1>11, <1>12, <1>13,
     <1>14, <1>15, <1>16, <1>17 DEF Install!Next

LEMMA PaceKept == RepairInv /\ [Install!Next]_(Install!vars) => PaceInv'
<1> SUFFICES ASSUME RepairInv, [Install!Next]_(Install!vars) PROVE PaceInv'
  OBVIOUS
<1> USE RepairAssumption DEF Install!vars, Install!install, Install!npms, Install!times,
      Install!memories, Install!runs, Install!ghosts, Install!placing
<1>1. CASE Install!PersonUpdates
  BY <1>1 DEF Install!PersonUpdates, Install!NpmStarts, PaceInv
<1>2. CASE Install!NpmUnpacks
  BY <1>2 DEF Install!NpmUnpacks, Install!Writes, PaceInv
<1>3. CASE Install!NpmStreams
  BY <1>3 DEF Install!NpmStreams, Install!Writes, RepairInv, PaceInv, RepairTypes
<1>4. CASE Install!NpmStreamed
  BY <1>4 DEF Install!NpmStreamed, Install!Writes, PaceInv
<1>5. CASE Install!NpmCopies
  BY <1>5 DEF Install!NpmCopies, Install!At, Install!Writes, RepairInv, PaceInv,
     RepairTypes
<1>6. CASE Install!NpmEnds \/ Install!NpmEndsWithoutScripts \/ Install!NpmDies \/
            Install!NpmPutsBack
  BY <1>6 DEF Install!NpmEnds, Install!NpmOver, Install!NpmEndsWithoutScripts,
     Install!NpmDies, Install!NpmPutsBack, PaceInv
<1>7. CASE Install!Tick
  BY <1>7 DEF Install!Tick, Install!Older, RepairInv, PaceInv, RepairTypes
<1>8. ASSUME NEW p \in Procs,
             Install!Launches(p) \/ Install!Fixes(p) \/ Install!Locks(p) \/
             Install!LockIsTaken(p) \/ Install!GivesUp(p) \/ Install!CannotRunNpm(p) \/
             Install!NpmIsOver(p)
      PROVE  PaceInv'
  BY <1>8 DEF Install!Launches, Install!Fixes, Install!Locks, Install!LockIsTaken,
     Install!GivesUp, Install!CannotRunNpm, Install!NpmIsOver, RepairInv, PaceInv
<1>9. ASSUME NEW p \in Procs, Install!LeavesAlone(p) \/ Install!Places(p) PROVE PaceInv'
  BY <1>9 DEF Install!LeavesAlone, Install!WatchesSizes, Install!Places, RepairInv,
     PaceInv, RepairTypes
<1>10. ASSUME NEW p \in Procs, Install!Reinstalls(p) PROVE PaceInv'
  BY <1>10 DEF Install!Reinstalls, Install!NpmStarts, RepairInv, PaceInv
<1>11. ASSUME NEW p \in Procs, Install!Ends(p) PROVE PaceInv'
  BY <1>11 DEF Install!Ends, RepairInv, PaceInv, RepairTypes
<1>12. ASSUME NEW p \in Procs,
             Install!Checks(p) \/ Install!Renames(p) \/ Install!Links(p) \/
             Install!CannotLink(p) \/ Install!Copied(p) \/ Install!Removes(p) \/
             Install!PutsBack(p) \/ Install!RenamesBack(p)
      PROVE  PaceInv'
  BY <1>12 DEF Install!Checks, Install!Renames, Install!Links, Install!CannotLink,
     Install!Copied, Install!Removes, Install!PutsBack, Install!RenamesBack, RepairInv,
     PaceInv
<1>13. ASSUME NEW p \in Procs, Install!Dies(p) PROVE PaceInv'
  BY <1>13 DEF Install!Dies, RepairInv, PaceInv
<1>14. CASE UNCHANGED Install!vars
  BY <1>14 DEF RepairInv, PaceInv
<1>15. QED
  BY <1>1, <1>2, <1>3, <1>4, <1>5, <1>6, <1>7, <1>8, <1>9, <1>10, <1>11, <1>12, <1>13,
     <1>14 DEF Install!Next

LEMMA AsideWholeKept == RepairInv /\ [Install!Next]_(Install!vars) => AsideWhole'
<1> SUFFICES ASSUME RepairInv, [Install!Next]_(Install!vars) PROVE AsideWhole'
  OBVIOUS
<1> USE RepairAssumption DEF Install!vars, Install!install, Install!npms, Install!times,
      Install!memories, Install!runs, Install!ghosts, Install!placing
<1>1. CASE Install!PersonUpdates
  BY <1>1 DEF Install!PersonUpdates, Install!NpmStarts, Install!Nothing, RepairInv,
     AsideWhole
<1>2. CASE Install!NpmUnpacks \/ Install!NpmStreams \/ Install!NpmStreamed \/
            Install!NpmCopies \/ Install!NpmDies \/ Install!Tick
  BY <1>2 DEF Install!NpmUnpacks, Install!Writes, Install!NpmStreams,
     Install!NpmStreamed, Install!NpmCopies, Install!NpmDies, Install!NpmOver,
     Install!Tick, RepairInv, AsideWhole
<1>3. CASE Install!NpmEnds
  BY <1>3 DEF Install!NpmEnds, Install!NpmOver, Install!Nothing, RepairInv, AsideWhole
<1>4. CASE Install!NpmEndsWithoutScripts
  BY <1>4 DEF Install!NpmEndsWithoutScripts, Install!NpmOver, Install!Nothing,
     RepairInv, AsideWhole
<1>5. CASE Install!NpmPutsBack
  BY <1>5 DEF Install!NpmPutsBack, Install!NpmOver, Install!Nothing, RepairInv,
     AsideWhole
<1>6. ASSUME NEW p \in Procs, Install!Launches(p) \/ Install!Fixes(p) PROVE AsideWhole'
  BY <1>6 DEF Install!Launches, Install!Goes, Install!Fixes, RepairInv, AsideWhole,
     RepairTypes
<1>7. ASSUME NEW p \in Procs,
             Install!Locks(p) \/ Install!LockIsTaken(p)
      PROVE  AsideWhole'
  BY <1>7 DEF Install!Locks, Install!Goes, Install!LockIsTaken, RepairInv, AsideWhole,
     RepairTypes
<1>8. ASSUME NEW p \in Procs, Install!GivesUp(p) PROVE AsideWhole'
  BY <1>8 DEF Install!GivesUp, Install!Goes, RepairInv, AsideWhole
<1>9. ASSUME NEW p \in Procs,
             Install!LeavesAlone(p) \/ Install!Places(p)
      PROVE  AsideWhole'
  BY <1>9 DEF Install!LeavesAlone, Install!Released, Install!Goes, Install!Places,
     Install!Repairs, RepairInv, AsideWhole, RepairTypes
<1>10. ASSUME NEW p \in Procs, Install!Reinstalls(p) PROVE AsideWhole'
  BY <1>10 DEF Install!Reinstalls, Install!Repairs, Install!Goes, Install!NpmStarts,
     Install!Nothing, RepairInv, AsideWhole
<1>11. ASSUME NEW p \in Procs,
             Install!CannotRunNpm(p) \/ Install!NpmIsOver(p)
      PROVE  AsideWhole'
  BY <1>11 DEF Install!CannotRunNpm, Install!Goes, Install!NpmIsOver, RepairInv,
     AsideWhole, RepairTypes
<1>12. ASSUME NEW p \in Procs, Install!Ends(p) \/ Install!Dies(p) PROVE AsideWhole'
  BY <1>12 DEF Install!Ends, Install!Released, Install!Goes, Install!Dies, RepairInv,
     AsideWhole, RepairTypes
<1>13. ASSUME NEW p \in Procs,
             Install!Checks(p) \/ Install!Links(p) \/ Install!CannotLink(p) \/
             Install!Copied(p)
      PROVE  AsideWhole'
  BY <1>13 DEF Install!Checks, Install!Goes, Install!Links, Install!Linking,
     Install!CannotLink, Install!Copied, RepairInv, AsideWhole, RepairTypes
<1>14. ASSUME NEW p \in Procs, Install!Renames(p) PROVE AsideWhole'
  BY <1>14 DEF Install!Renames, Install!Goes, RepairInv, AsideWhole, RepairTypes
<1>15. ASSUME NEW p \in Procs, Install!Removes(p) PROVE AsideWhole'
  BY <1>15 DEF Install!Removes, Install!Goes, RepairInv, AsideWhole
<1>16. ASSUME NEW p \in Procs, Install!PutsBack(p) PROVE AsideWhole'
  BY <1>16 DEF Install!PutsBack, Install!Goes, RepairInv, AsideWhole, RepairTypes
<1>17. ASSUME NEW p \in Procs, Install!RenamesBack(p) PROVE AsideWhole'
  BY <1>17 DEF Install!RenamesBack, Install!Goes, RepairInv, AsideWhole, RepairTypes
<1>18. CASE UNCHANGED Install!vars
  BY <1>18 DEF RepairInv, AsideWhole
<1>19. QED
  BY <1>1, <1>2, <1>3, <1>4, <1>5, <1>6, <1>7, <1>8, <1>9, <1>10, <1>11, <1>12, <1>13,
     <1>14, <1>15, <1>16, <1>17, <1>18 DEF Install!Next

LEMMA PlacesKept == RepairInv /\ [Install!Next]_(Install!vars) => PlacesInv'
<1> SUFFICES ASSUME RepairInv, [Install!Next]_(Install!vars) PROVE PlacesInv'
  OBVIOUS
<1> USE RepairAssumption DEF Install!vars, Install!install, Install!npms, Install!times,
      Install!memories, Install!runs, Install!ghosts, Install!placing
<1>1. CASE Install!PersonUpdates
  BY <1>1 DEF Install!PersonUpdates, Install!NpmStarts, RepairInv, PlacesInv
<1>2. CASE Install!NpmUnpacks \/ Install!NpmStreams \/ Install!NpmStreamed \/
            Install!NpmCopies \/ Install!NpmDies \/ Install!Tick
  BY <1>2 DEF Install!NpmUnpacks, Install!Writes, Install!NpmStreams,
     Install!NpmStreamed, Install!NpmCopies, Install!NpmDies, Install!NpmOver,
     Install!Tick, RepairInv, PlacesInv
<1>3. CASE Install!NpmEnds
  BY <1>3 DEF Install!NpmEnds, Install!NpmOver, Install!Nothing, RepairInv, PlacesInv
<1>4. CASE Install!NpmEndsWithoutScripts
  BY <1>4 DEF Install!NpmEndsWithoutScripts, Install!NpmOver, Install!Nothing,
     RepairInv, PlacesInv
<1>5. CASE Install!NpmPutsBack
  BY <1>5 DEF Install!NpmPutsBack, Install!NpmOver, Install!Nothing, RepairInv, PlacesInv
<1>6. ASSUME NEW p \in Procs,
             Install!Launches(p) \/ Install!Fixes(p) \/ Install!Locks(p) \/
             Install!LockIsTaken(p) \/ Install!GivesUp(p)
      PROVE  PlacesInv'
  <2>1. UNCHANGED <<links, lost, program, aside, old>>
    BY <1>6 DEF Install!Launches, Install!Fixes, Install!Locks, Install!LockIsTaken,
       Install!GivesUp
  <2>2. \A q \in Procs : \/ pc'[q] = pc[q]
                         \/ pc'[q] \notin {"renamingBack", "copying", "puttingBack"}
    BY <1>6 DEF Install!Launches, Install!Fixes, Install!Locks, Install!LockIsTaken,
       Install!GivesUp, Install!Goes, RepairInv, RepairTypes
  <2>3. QED
    BY <2>1, <2>2 DEF RepairInv, PlacesInv
<1>7. ASSUME NEW p \in Procs,
             Install!LeavesAlone(p) \/ Install!Places(p) \/ Install!CannotRunNpm(p) \/
             Install!NpmIsOver(p) \/ Install!Ends(p) \/ Install!Dies(p)
      PROVE  PlacesInv'
  <2>1. UNCHANGED <<links, lost, program, aside, old>>
    BY <1>7 DEF Install!LeavesAlone, Install!Places, Install!CannotRunNpm,
       Install!NpmIsOver, Install!Ends, Install!Dies
  <2>2. \A q \in Procs : \/ pc'[q] = pc[q]
                         \/ pc'[q] \notin {"renamingBack", "copying", "puttingBack"}
    BY <1>7 DEF Install!LeavesAlone, Install!Places, Install!CannotRunNpm,
       Install!NpmIsOver, Install!Ends, Install!Dies, Install!Released, Install!Goes,
       RepairInv, RepairTypes
  <2>3. QED
    BY <2>1, <2>2 DEF RepairInv, PlacesInv
<1>8. ASSUME NEW p \in Procs, Install!Reinstalls(p) PROVE PlacesInv'
  BY <1>8 DEF Install!Reinstalls, Install!Goes, Install!NpmStarts, RepairInv, PlacesInv
<1>9. ASSUME NEW p \in Procs, Install!Checks(p) PROVE PlacesInv'
  BY <1>9 DEF Install!Checks, Install!Goes, RepairInv, PlacesInv
<1>10. ASSUME NEW p \in Procs, Install!Renames(p) PROVE PlacesInv'
  BY <1>10 DEF Install!Renames, Install!Goes, RepairInv, PlacesInv, RepairTypes,
     AsideWhole
<1>11. ASSUME NEW p \in Procs, Install!Links(p) PROVE PlacesInv'
  BY <1>11 DEF Install!Links, Install!Goes, Install!Linking, RepairInv, PlacesInv,
     RepairTypes, RepairLock
<1>12. ASSUME NEW p \in Procs, Install!CannotLink(p) PROVE PlacesInv'
  BY <1>12 DEF Install!CannotLink, Install!Goes, RepairInv, PlacesInv, AsideWhole
<1>13. ASSUME NEW p \in Procs, Install!Copied(p) PROVE PlacesInv'
  BY <1>13 DEF Install!Copied, RepairInv, PlacesInv
<1>14. ASSUME NEW p \in Procs, Install!Removes(p) PROVE PlacesInv'
  <2>1. aside[p] # "whole"
    BY <1>14 DEF RepairInv, AsideWhole, Install!Removes
  <2>2. links => ~lost'
    BY <1>14, <2>1 DEF RepairInv, PlacesInv, Install!Removes
  <2>3. \A q \in Procs : pc'[q] \in {pc[q], "repaired"} /\ aside'[q] \in {aside[q], "none"}
    BY <1>14 DEF Install!Removes, Install!Goes
  <2>4. UNCHANGED <<links, program, old>>
    BY <1>14 DEF Install!Removes
  <2>5. QED
    BY <2>2, <2>3, <2>4 DEF RepairInv, PlacesInv
<1>15. ASSUME NEW p \in Procs, Install!PutsBack(p) PROVE PlacesInv'
  <2>1. links => ~lost'
    BY <1>15 DEF Install!PutsBack, RepairInv, PlacesInv, RepairTypes, Install!FileStates
  <2>2. pc'[p] # "puttingBack" /\ (links => pc'[p] = "failed")
    BY <1>15 DEF Install!PutsBack, Install!Goes, RepairInv, RepairTypes
  <2>3. \A q \in Procs \ {p} : pc'[q] = pc[q] /\ pc[q] # "puttingBack"
    BY <1>15 DEF Install!PutsBack, Install!Goes, RepairInv, RepairTypes, RepairLock
  <2>4. UNCHANGED links
    BY <1>15 DEF Install!PutsBack
  <2>5. QED
    BY <2>1, <2>2, <2>3, <2>4 DEF RepairInv, PlacesInv
<1>16. ASSUME NEW p \in Procs, Install!RenamesBack(p) PROVE PlacesInv'
  BY <1>16 DEF Install!RenamesBack, RepairInv, PlacesInv
<1>17. CASE UNCHANGED Install!vars
  BY <1>17 DEF RepairInv, PlacesInv
<1>18. QED
  BY <1>1, <1>2, <1>3, <1>4, <1>5, <1>6, <1>7, <1>8, <1>9, <1>10, <1>11, <1>12, <1>13,
     <1>14, <1>15, <1>16, <1>17 DEF Install!Next

LEMMA OneWriterKept == RepairInv /\ [Install!Next]_(Install!vars) => Install!OneWriter'
<1> SUFFICES ASSUME RepairInv, [Install!Next]_(Install!vars) PROVE Install!OneWriter'
  OBVIOUS
<1> USE RepairAssumption DEF Install!vars, Install!install, Install!npms, Install!times,
      Install!memories, Install!runs, Install!ghosts, Install!placing
<1>1. CASE Install!PersonUpdates \/ Install!NpmUnpacks \/ Install!NpmStreams \/
            Install!NpmStreamed \/ Install!NpmDies \/ Install!NpmEndsWithoutScripts \/
            Install!NpmCopies \/ Install!NpmEnds \/ Install!NpmPutsBack \/ Install!Tick
  BY <1>1 DEF Install!PersonUpdates, Install!NpmUnpacks, Install!Writes,
     Install!NpmStreams, Install!NpmStreamed, Install!NpmDies, Install!NpmOver,
     Install!NpmEndsWithoutScripts, Install!NpmCopies, Install!NpmEnds,
     Install!NpmPutsBack, Install!Tick, RepairInv, Install!OneWriter
<1>2. ASSUME NEW p \in Procs,
             Install!Launches(p) \/ Install!Fixes(p) \/ Install!Locks(p) \/
             Install!LockIsTaken(p) \/ Install!GivesUp(p) \/ Install!LeavesAlone(p) \/
             Install!CannotRunNpm(p) \/ Install!NpmIsOver(p) \/ Install!Ends(p)
      PROVE  Install!OneWriter'
  BY <1>2 DEF Install!Launches, Install!Fixes, Install!Locks, Install!LockIsTaken,
     Install!GivesUp, Install!LeavesAlone, Install!CannotRunNpm, Install!NpmIsOver,
     Install!Ends, RepairInv, Install!OneWriter
<1>3. ASSUME NEW p \in Procs, Install!Places(p) PROVE Install!OneWriter'
  <2>1. ~(Install!At("copying") /\ program = "partial")
    <3> SUFFICES ASSUME Install!At("copying"), program = "partial"
                 PROVE  FALSE
      OBVIOUS
    <3>1. folder = "there" /\ pause <= Fetch
      BY DEF RepairInv, StageInv, PaceInv, Install!At
    <3>2. "program" \in Install!Watched
      BY <3>1 DEF Install!Watched
    <3>3. ~Install!Still("program")
      BY <3>1 DEF RepairInv, RepairTypes, PaceInv, Install!At, Install!Still
    <3>4. QED
      BY <1>3, <3>2, <3>3 DEF Install!Places, Install!Repairs, Install!Moving
  <2>2. QED
    BY <1>3, <2>1 DEF RepairInv, Install!OneWriter, Install!Places
<1>4. ASSUME NEW p \in Procs, Install!Reinstalls(p) PROVE Install!OneWriter'
  BY <1>4 DEF Install!Reinstalls, Install!Repairs, RepairInv, Install!OneWriter,
     RepairTypes, StageInv, PaceInv, Install!TooBusy, Install!Busy,
     Install!PlatformProgram, Install!Moving, Install!Watched, Install!Still, Stages
<1>5. ASSUME NEW p \in Procs,
             Install!Checks(p) \/ Install!Renames(p) \/ Install!Links(p) \/
             Install!CannotLink(p) \/ Install!Copied(p) \/ Install!Removes(p) \/
             Install!PutsBack(p) \/ Install!RenamesBack(p) \/ Install!Dies(p)
      PROVE  Install!OneWriter'
  BY <1>5 DEF Install!Checks, Install!Renames, Install!Links, Install!CannotLink,
     Install!Copied, Install!Removes, Install!PutsBack, Install!RenamesBack,
     Install!Dies, RepairInv, Install!OneWriter
<1>6. CASE UNCHANGED Install!vars
  BY <1>6 DEF RepairInv, Install!OneWriter
<1>7. QED
  BY <1>1, <1>2, <1>3, <1>4, <1>5, <1>6 DEF Install!Next

LEMMA RepairedKept == RepairInv /\ [Install!Next]_(Install!vars) => RepairedInv'
<1> SUFFICES ASSUME RepairInv, [Install!Next]_(Install!vars) PROVE RepairedInv'
  OBVIOUS
<1> USE RepairAssumption DEF Install!vars, Install!install, Install!npms, Install!times,
      Install!memories, Install!runs, Install!ghosts, Install!placing
<1>1. CASE Install!PersonUpdates
  BY <1>1 DEF Install!PersonUpdates, Install!Changed, RepairedInv
<1>2. CASE Install!NpmUnpacks
  BY <1>2 DEF Install!NpmUnpacks, Install!At, Install!Writes, RepairInv, RepairedInv,
     StageInv
<1>3. CASE Install!NpmStreams \/ Install!NpmStreamed
  BY <1>3 DEF Install!NpmStreams, Install!At, Install!Writes, Install!NpmStreamed,
     RepairInv, RepairedInv, StageInv
<1>4. CASE Install!NpmCopies
  BY <1>4 DEF Install!NpmCopies, Install!At, Install!Writes, Install!Changed, RepairInv,
     RepairedInv, RepairLock
<1>5. CASE Install!NpmEnds
  BY <1>5 DEF Install!NpmEnds, Install!NpmOver, Install!Changed, RepairInv, RepairedInv
<1>6. CASE Install!NpmEndsWithoutScripts \/ Install!NpmDies \/ Install!Tick
  BY <1>6 DEF Install!NpmEndsWithoutScripts, Install!NpmOver, Install!NpmDies,
     Install!Tick, RepairInv, RepairedInv
<1>7. CASE Install!NpmPutsBack
  BY <1>7 DEF Install!NpmPutsBack, Install!NpmOver, Install!Changed, RepairInv,
     RepairedInv, RepairLock
<1>8. ASSUME NEW p \in Procs,
             Install!Launches(p) \/ Install!Fixes(p) \/ Install!LockIsTaken(p) \/
             Install!GivesUp(p)
      PROVE  RepairedInv'
  BY <1>8 DEF Install!Launches, Install!Goes, Install!Fixes, Install!LockIsTaken,
     Install!GivesUp, RepairInv, RepairedInv, RepairTypes, Under, Working
<1>9. ASSUME NEW p \in Procs, Install!Locks(p) PROVE RepairedInv'
  BY <1>9 DEF Install!Locks, Install!Goes, RepairInv, RepairedInv, Working
<1>10. ASSUME NEW p \in Procs,
             Install!Places(p) \/ Install!CannotRunNpm(p) \/ Install!LeavesAlone(p)
      PROVE  RepairedInv'
  BY <1>10 DEF Install!Places, Install!Goes, Install!Repairs, Install!CannotRunNpm,
     Install!LeavesAlone, Install!Released, RepairInv, RepairedInv, RepairTypes,
     StageInv, Install!RepairedIsWhole, Under, Working, Install!LostProgram
<1>11. ASSUME NEW p \in Procs, Install!Reinstalls(p) PROVE RepairedInv'
  BY <1>11 DEF Install!Reinstalls, Install!Repairs, Install!Goes, Install!Changed,
     RepairInv, RepairedInv, StageInv, Install!RepairedIsWhole, Install!LostProgram
<1>12. ASSUME NEW p \in Procs, Install!NpmIsOver(p) PROVE RepairedInv'
  BY <1>12 DEF Install!NpmIsOver, Install!Goes, RepairInv, RepairedInv, RepairTypes,
     Working, Install!LostProgram
<1>13. ASSUME NEW p \in Procs, Install!Ends(p) PROVE RepairedInv'
  BY <1>13 DEF Install!Ends, Install!Released, Install!Goes, RepairInv, RepairedInv,
     RepairTypes, RepairLock, Under, Working
<1>14. ASSUME NEW p \in Procs, Install!Checks(p) PROVE RepairedInv'
  BY <1>14 DEF Install!Checks, Install!Goes, RepairInv, RepairedInv, RepairTypes,
     Working
<1>15. ASSUME NEW p \in Procs, Install!Renames(p) PROVE RepairedInv'
  BY <1>15 DEF Install!Renames, Install!Goes, RepairInv, RepairedInv, RepairTypes,
     RepairLock, Working
<1>16. ASSUME NEW p \in Procs, Install!Links(p) PROVE RepairedInv'
  BY <1>16 DEF Install!Links, Install!Goes, Install!Linking, Install!Free, RepairInv,
     RepairedInv, Install!RepairedIsWhole
<1>17. ASSUME NEW p \in Procs, Install!CannotLink(p) PROVE RepairedInv'
  BY <1>17 DEF Install!CannotLink, Install!Goes, Install!Linking, RepairInv,
     RepairedInv, RepairTypes, Working
<1>18. ASSUME NEW p \in Procs, Install!Copied(p) PROVE RepairedInv'
  BY <1>18 DEF Install!Copied, Install!Goes, RepairInv, RepairedInv, RepairTypes,
     Working
<1>19. ASSUME NEW p \in Procs, Install!Removes(p) PROVE RepairedInv'
  BY <1>19 DEF Install!Removes, Install!Goes, RepairInv, RepairedInv, RepairTypes,
     Working
<1>20. ASSUME NEW p \in Procs, Install!PutsBack(p) PROVE RepairedInv'
  BY <1>20 DEF Install!PutsBack, Install!Goes, RepairInv, RepairedInv, RepairTypes,
     Working
<1>21. ASSUME NEW p \in Procs, Install!RenamesBack(p) PROVE RepairedInv'
  BY <1>21 DEF Install!RenamesBack, Install!Goes, RepairInv, RepairedInv, RepairTypes,
     RepairLock, Working
<1>22. ASSUME NEW p \in Procs, Install!Dies(p) PROVE RepairedInv'
  BY <1>22 DEF Install!Dies, Install!Goes, RepairInv, RepairedInv, Under, Working
<1>23. CASE UNCHANGED Install!vars
  BY <1>23 DEF RepairInv, RepairedInv
<1>24. QED
  BY <1>1, <1>2, <1>3, <1>4, <1>5, <1>6, <1>7, <1>8, <1>9, <1>10, <1>11, <1>12, <1>13,
     <1>14, <1>15, <1>16, <1>17, <1>18, <1>19, <1>20, <1>21, <1>22, <1>23 DEF
     Install!Next

LEMMA RepairedIsWholeKept == RepairInv /\ [Install!Next]_(Install!vars) => Install!RepairedIsWhole'
<1> SUFFICES ASSUME RepairInv, [Install!Next]_(Install!vars) PROVE Install!RepairedIsWhole'
  OBVIOUS
<1> USE RepairAssumption DEF Install!vars, Install!install, Install!npms, Install!times,
      Install!memories, Install!runs, Install!ghosts, Install!placing
<1>1. CASE Install!PersonUpdates
  BY <1>1 DEF Install!PersonUpdates, Install!Changed, Install!RepairedIsWhole
<1>2. CASE Install!NpmUnpacks
  BY <1>2 DEF Install!NpmUnpacks, Install!At, RepairInv, StageInv,
     Install!RepairedIsWhole
<1>3. CASE Install!NpmStreams \/ Install!NpmStreamed \/ Install!NpmEndsWithoutScripts \/
            Install!NpmDies \/ Install!Tick
  BY <1>3 DEF Install!NpmStreams, Install!NpmStreamed, Install!NpmEndsWithoutScripts,
     Install!NpmDies, Install!Tick, RepairInv, Install!RepairedIsWhole
<1>4. CASE Install!NpmCopies
  BY <1>4 DEF Install!NpmCopies, Install!At, Install!Changed, RepairInv, RepairedInv,
     RepairTypes, RepairLock, Install!RepairedIsWhole, Working
<1>5. CASE Install!NpmEnds
  BY <1>5 DEF Install!NpmEnds, Install!RepairedIsWhole
<1>6. CASE Install!NpmPutsBack
  BY <1>6 DEF Install!NpmPutsBack, Install!Changed, RepairInv, RepairedInv, RepairTypes,
     RepairLock, Install!RepairedIsWhole, Working
<1>7. ASSUME NEW p \in Procs,
             Install!Launches(p) \/ Install!Fixes(p) \/ Install!Locks(p) \/
             Install!LockIsTaken(p) \/ Install!GivesUp(p)
      PROVE  Install!RepairedIsWhole'
  BY <1>7 DEF Install!Launches, Install!Fixes, Install!Locks, Install!LockIsTaken,
     Install!GivesUp, RepairInv, RepairTypes, Install!RepairedIsWhole
<1>8. ASSUME NEW p \in Procs,
             Install!LeavesAlone(p) \/ Install!Places(p) \/ Install!CannotRunNpm(p) \/
             Install!NpmIsOver(p) \/ Install!Dies(p)
      PROVE  Install!RepairedIsWhole'
  BY <1>8 DEF Install!LeavesAlone, Install!Places, Install!CannotRunNpm,
     Install!NpmIsOver, Install!Dies, RepairInv, Install!RepairedIsWhole
<1>9. ASSUME NEW p \in Procs, Install!Reinstalls(p) PROVE Install!RepairedIsWhole'
  BY <1>9 DEF Install!Reinstalls, Install!Repairs, Install!Changed, RepairInv, StageInv,
     Install!RepairedIsWhole, Install!LostProgram
<1>10. ASSUME NEW p \in Procs, Install!Ends(p) PROVE Install!RepairedIsWhole'
  BY <1>10 DEF Install!Ends, RepairInv, RepairedInv, Install!RepairedIsWhole
<1>11. ASSUME NEW p \in Procs,
             Install!Checks(p) \/ Install!CannotLink(p) \/ Install!Removes(p)
      PROVE  Install!RepairedIsWhole'
  BY <1>11 DEF Install!Checks, Install!CannotLink, Install!Removes, RepairInv,
     Install!RepairedIsWhole
<1>12. ASSUME NEW p \in Procs,
             Install!Renames(p) \/ Install!PutsBack(p) \/ Install!RenamesBack(p)
      PROVE  Install!RepairedIsWhole'
  BY <1>12 DEF Install!Renames, Install!PutsBack, Install!RenamesBack, RepairInv,
     RepairedInv, RepairTypes, Install!RepairedIsWhole, Working
<1>13. ASSUME NEW p \in Procs, Install!Links(p) PROVE Install!RepairedIsWhole'
  BY <1>13 DEF Install!Links, Install!Free, RepairInv, Install!RepairedIsWhole
<1>14. ASSUME NEW p \in Procs, Install!Copied(p) PROVE Install!RepairedIsWhole'
  BY <1>14 DEF Install!Copied, Install!RepairedIsWhole
<1>15. CASE UNCHANGED Install!vars
  BY <1>15 DEF RepairInv, Install!RepairedIsWhole
<1>16. QED
  BY <1>1, <1>2, <1>3, <1>4, <1>5, <1>6, <1>7, <1>8, <1>9, <1>10, <1>11, <1>12, <1>13,
     <1>14, <1>15 DEF Install!Next

-----------------------------------------------------------------------------

\* An npm at work is never met by a second one, nor by a program put over what it
\* copies; a whole program is not lost where the disk makes links; and what is told
\* to be repaired has its program until npm changes it: whoever dies, and when.
THEOREM RepairsAreSafe == Install!Init /\ [][Install!Next]_(Install!vars) => []InstallInv
<1>1. RepairInv => InstallInv
  BY RepairAssumption DEF InstallInv, Install!Inv, Install!TypeOK,
     Install!NothingWholeLost, RepairInv, RepairTypes, RepairLock, PlacesInv, Under
<1>2. RepairInv /\ [Install!Next]_(Install!vars) => RepairInv'
  BY RepairTypesKept, RepairLockKept, StageKept, PaceKept, AsideWholeKept, PlacesKept,
     OneWriterKept, RepairedKept, RepairedIsWholeKept DEF RepairInv
<1>3. QED
  BY RepairInit, <1>1, <1>2, PTL

==============================================================================
