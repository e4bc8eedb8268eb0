----------------------------- MODULE OwnedLock -----------------------------
(***************************************************************************)
(* The lock of src/claude/locks.ts that names its holder: a file created   *)
(* with the holder's pid in it (acquireOwnedLock, withOwnedLockAsync).     *)
(* The ledger, the event log, the editor folder and the repair of Claude   *)
(* take it around a read-change-write of a shared file.                    *)
(*                                                                         *)
(* An acquisition is a task; several tasks may share a process, which has  *)
(* one thread.  Every file operation is a step of its own, since that is   *)
(* where another process can come between: to judge a lock is to look at   *)
(* its age, then to read its holder, then to ask whether that process      *)
(* runs, and the three may be of three different locks.  (Writing the pid  *)
(* and reading it back is one step: what comes between them could as well  *)
(* come before.)  Time is kept as the ages the code tells apart: of the    *)
(* lock (young, over half its longest hold, past it; for a lock that names *)
(* no holder, anything over 0 is stale) and of the takeover guard (fresh   *)
(* or stale).                                                              *)
(***************************************************************************)
EXTENDS Naturals, FiniteSets

CONSTANTS Tasks,          \* the acquisitions
          Pids,           \* the process ids they run under
          PidOf,          \* the process of each
          MaxDeaths,      \* bound: how many times a process may die
          MayDieInGuard,  \* whether a process may die while it holds the guard
          MayStall,       \* whether one may pause past staleMs between making
                          \* the file and writing its pid into it
          NoTask          \* stands for nobody

ASSUME OwnedLockAssumption ==
    /\ PidOf \in [Tasks -> Pids]
    /\ MaxDeaths \in Nat
    /\ MayDieInGuard \in BOOLEAN
    /\ MayStall \in BOOLEAN
    /\ NoTask \notin Tasks

VARIABLES pc,        \* where each task is
          alive,     \* which processes run; a pid may come to run again, reused
          heldHere,  \* per process: the acquisition that holds the lock (heldHere)
          lock,      \* the lock file
          guard,     \* the takeover guard, a folder beside it
          judging,   \* what each task has found of the lock it is judging
          overran,   \* history: tasks whose lock outlived what its age allows
          missed,    \* history: takeovers that looked at a lock, under the guard,
                     \* which its holder then let go without it, as it may
          ousted,    \* history: tasks whose own lock such a takeover removed
          deaths     \* counts deaths up to MaxDeaths

marks == <<overran, missed, ousted>>
vars == <<pc, alive, heldHere, lock, guard, judging, overran, missed, ousted, deaths>>

-----------------------------------------------------------------------------
(* Types *)

\* The steps of taking the lock, of taking over one, and of letting it go.
TryPC      == {"create", "write", "judge", "read", "probe"}
FailPC     == {"failed", "failedCheck", "failedRemove"}
TakeOverPC == {"guard", "clear", "rejudge", "reread", "reprobe", "remove"}
ReleasePC  == {"release", "relGuard", "relCheck", "relRemove"}
UnguardPC  == {"unguardRetry", "unguardWait", "unguardDone"}
\* Where a task's thread is free for the other tasks of its process.
FreePC     == {"idle", "waiting", "working"}
PC == FreePC \cup TryPC \cup FailPC \cup TakeOverPC \cup ReleasePC \cup UnguardPC

\* A lock file: the acquisition that created it (its inode), whether the pid is
\* in it yet, and its age.
Young == 0
Half  == 1
Past  == 2
LockFile == [by : Tasks, named : BOOLEAN, age : {Young, Half, Past}]
NoLock == [by |-> NoTask, named |-> FALSE, age |-> Young]

\* What isAbandoned knows so far: the age of the lock it looked at, and the pid
\* it read.
Seen == [age : {"fresh", "stale", "past"}, holder : Pids \cup {NoTask}]
NothingSeen == [age |-> "fresh", holder |-> NoTask]

\* A guard: who made it (NoTask once that process died), and whether it is stale.
GuardDir == [there : {TRUE}, by : Tasks \cup {NoTask}, stale : BOOLEAN]
NoGuard == [there |-> FALSE, by |-> NoTask, stale |-> FALSE]

\* Type invariant: the shape of every variable.
TypeOK ==
    /\ pc \in [Tasks -> PC]
    /\ alive \in [Pids -> BOOLEAN]
    /\ heldHere \in [Pids -> Tasks \cup {NoTask}]
    /\ lock \in LockFile \cup {NoLock}
    /\ guard \in GuardDir \cup {NoGuard}
    /\ judging \in [Tasks -> Seen]
    /\ overran \subseteq Tasks
    /\ missed \subseteq Tasks
    /\ ousted \subseteq Tasks
    /\ deaths \in 0..MaxDeaths

Init ==
    /\ pc = [t \in Tasks |-> "idle"]
    /\ alive = [p \in Pids |-> TRUE]
    /\ heldHere = [p \in Pids |-> NoTask]
    /\ lock = NoLock
    /\ guard = NoGuard
    /\ judging = [t \in Tasks |-> NothingSeen]
    /\ overran = {}
    /\ missed = {}
    /\ ousted = {}
    /\ deaths = 0

-----------------------------------------------------------------------------
(* Helpers *)

\* A process has one thread: a task steps only while no other task of its
\* process is inside a series of file operations.
Step(t, from, to) ==
    /\ pc[t] = from
    /\ alive[PidOf[t]]
    /\ \A u \in Tasks \ {t} : PidOf[u] = PidOf[t] => pc[u] \in FreePC
    /\ pc' = [pc EXCEPT ![t] = to]

\* The lock file is the one this acquisition created (same inode).
IsMine(t) == lock # NoLock /\ lock.by = t

\* lockHolder(file) === process.pid
NamesProcessOf(t) == lock # NoLock /\ lock.named /\ PidOf[lock.by] = PidOf[t]

\* Still using the lock file it created: its age is then an overrun.
Using(t) == pc[t] \in {"write", "working"} \cup ReleasePC

\* Whether a task holds the takeover guard.
Guarded(t) == guard # NoGuard /\ guard.by = t

\* The work under the lock, from the create that succeeded to the release.
Holding(t) == pc[t] = "working"

\* Nothing of a task is left to overrun, or to be taken from it.
Forget(t) == overran' = overran \ {t} /\ ousted' = ousted \ {t} /\ UNCHANGED missed

\* A lock file is removed that may be another's, by a task that may be misled.
RemoveMisled(t, misled) ==
    /\ lock' = NoLock
    /\ ousted' = {u \in Tasks \ {t} :
                    \/ u \in ousted
                    \/ misled /\ IsMine(u) /\ (Using(u) \/ pc[u] = "failedRemove")}

-----------------------------------------------------------------------------
(* Taking the lock: ownedLockTries *)

Begin(t) ==
    /\ Step(t, "idle", "create")
    /\ UNCHANGED <<alive, heldHere, lock, guard, judging, marks, deaths>>

\* openSync(file, 'wx'): the file is there, and names nobody yet.
CreateOpens(t) ==
    /\ Step(t, "create", "write")
    /\ lock = NoLock
    /\ lock' = [by |-> t, named |-> FALSE, age |-> Young]
    /\ UNCHANGED <<alive, heldHere, guard, judging, marks, deaths>>

CreateMeetsLock(t) ==
    /\ Step(t, "create", "judge")
    /\ lock # NoLock
    /\ UNCHANGED <<alive, heldHere, lock, guard, judging, marks, deaths>>

\* The folder cannot be written at all: the caller is told it is unusable.
CreateRefused(t) ==
    /\ Step(t, "create", "idle")
    /\ UNCHANGED <<alive, heldHere, lock, guard, judging, marks, deaths>>

\* The pid is written into the open file and read back by name: what counts is
\* that the file of that name holds it.  Writing makes the file young again.
WritePid(t) ==
    /\ IsMine(t)
    /\ Step(t, "write", "working")
    /\ lock' = [by |-> t, named |-> TRUE, age |-> Young]
    /\ heldHere' = [heldHere EXCEPT ![PidOf[t]] = t]
    /\ UNCHANGED <<alive, guard, judging, marks, deaths>>

\* The file was taken away meanwhile, so what was written went with it and what
\* is read back is another's pid, or nothing: createOwnedLockFile throws.
WritePidLost(t) ==
    /\ ~IsMine(t)
    /\ Step(t, "write", "failed")
    /\ UNCHANGED <<alive, heldHere, lock, guard, judging, marks, deaths>>

\* A full disk: the file stays without a holder's pid.
WriteComesUpShort(t) ==
    /\ IsMine(t)
    /\ Step(t, "write", "failed")
    /\ UNCHANGED <<alive, heldHere, lock, guard, judging, marks, deaths>>

\* removeOwnFailedLock: under the guard, the file is removed if it is still the
\* one this attempt opened, which is looked at first.
FailedTakesGuard(t) ==
    /\ Step(t, "failed", "failedCheck")
    /\ guard = NoGuard
    /\ guard' = [there |-> TRUE, by |-> t, stale |-> FALSE]
    /\ UNCHANGED <<alive, heldHere, lock, judging, marks, deaths>>

FailedWithoutGuard(t) ==
    /\ Step(t, "failed", "idle")
    /\ guard # NoGuard
    /\ Forget(t)
    /\ UNCHANGED <<alive, heldHere, lock, guard, judging, deaths>>

FailedChecks(t) ==
    /\ \/ IsMine(t) /\ Step(t, "failedCheck", "failedRemove") /\ UNCHANGED marks
       \/ ~IsMine(t) /\ Step(t, "failedCheck", "unguardDone") /\ Forget(t)
    /\ UNCHANGED <<alive, heldHere, lock, guard, judging, deaths>>

FailedRemoves(t) ==
    /\ Step(t, "failedRemove", "unguardDone")
    /\ RemoveMisled(t, t \in ousted)
    /\ overran' = overran \ {t}
    /\ UNCHANGED <<alive, heldHere, guard, judging, missed, deaths>>

\* A wait that has not run out tries again; one that has returns unheld.
Retry(t) ==
    /\ Step(t, "waiting", "create")
    /\ UNCHANGED <<alive, heldHere, lock, guard, judging, marks, deaths>>

GiveUp(t) ==
    /\ Step(t, "waiting", "idle")
    /\ Forget(t)
    /\ UNCHANGED <<alive, heldHere, lock, guard, judging, deaths>>

-----------------------------------------------------------------------------
(* Is the lock abandoned: isAbandoned, asked before taking the guard and     *)
(* again under it                                                            *)

\* The answer: the first one sends the task to the guard or to wait, the second
\* to remove the lock or to let the guard go.
Concludes(t, first, again, abandoned) ==
    /\ \/ Step(t, first, IF abandoned THEN "guard" ELSE "waiting") /\ UNCHANGED missed
       \/ /\ Step(t, again, IF abandoned THEN "remove" ELSE "unguardWait")
          /\ missed' = IF abandoned THEN missed ELSE missed \ {t}
    /\ judging' = [judging EXCEPT ![t] = NothingSeen]

\* Mutant: half the longest hold is taken for all of it.
AgesSeenAtHalf ==
    CASE lock.age = Past \/ (lock.named /\ lock.age = Half) -> {"past"}
      [] lock.age = Young /\ lock.named -> {"fresh", "stale"}
      [] OTHER -> {IF lock.age = Half THEN "stale" ELSE "fresh"}

\* What a look at the file's age may find.  staleMs may be less than half the
\* longest hold, so a lock that has a holder may be older than it at any age.
AgesSeen ==
    CASE lock.age = Past -> {"past"}
      [] lock.age # Past /\ lock.named -> {"fresh", "stale"}
      [] OTHER -> {IF lock.age = Half THEN "stale" ELSE "fresh"}

\* Mutant: the lock is not judged again once the guard is held.
LooksOnce(t) ==
    /\ \/ /\ lock = NoLock \/ pc[t] = "rejudge"
          /\ Concludes(t, "judge", "rejudge", pc[t] = "rejudge")
       \/ /\ lock # NoLock
          /\ Step(t, "judge", "read")
          /\ \E age \in AgesSeen : judging' = [judging EXCEPT ![t].age = age]
          /\ UNCHANGED missed
    /\ UNCHANGED <<alive, heldHere, lock, guard, overran, ousted, deaths>>

\* mtimeMs(lockFile): a lock that is gone is not abandoned.
Looks(t) ==
    /\ \/ lock = NoLock /\ Concludes(t, "judge", "rejudge", FALSE)
       \/ /\ lock # NoLock
          /\ Step(t, "judge", "read") \/ Step(t, "rejudge", "reread")
          /\ \E age \in AgesSeen : judging' = [judging EXCEPT ![t].age = age]
          /\ UNCHANGED missed
    /\ UNCHANGED <<alive, heldHere, lock, guard, overran, ousted, deaths>>

\* lockHolder(lockFile), of the file there is by now, if any: one that names
\* nobody is abandoned once stale, one that names this process while none of its
\* acquisitions has the lock, or whose age was past the longest hold, is abandoned.
Reads(t) ==
    /\ \/ /\ lock = NoLock \/ ~lock.named
          /\ Concludes(t, "read", "reread", judging[t].age # "fresh")
       \/ /\ lock # NoLock /\ lock.named
          /\ IF \/ NamesProcessOf(t) /\ heldHere[PidOf[t]] = NoTask
                \/ judging[t].age = "past"
             THEN Concludes(t, "read", "reread", TRUE)
             ELSE /\ Step(t, "read", "probe") \/ Step(t, "reread", "reprobe")
                  /\ judging' = [judging EXCEPT ![t].holder = PidOf[lock.by]]
                  /\ UNCHANGED missed
    /\ UNCHANGED <<alive, heldHere, lock, guard, overran, ousted, deaths>>

\* isRunning(holder): whether the pid that was read runs, by now.
Probes(t) ==
    /\ \/ pc[t] = "probe" \/ pc[t] = "reprobe"
    /\ Concludes(t, "probe", "reprobe", ~alive[judging[t].holder])
    /\ UNCHANGED <<alive, heldHere, lock, guard, overran, ousted, deaths>>

-----------------------------------------------------------------------------
(* Taking over an abandoned lock: takeOver *)

\* Mutant: a takeover goes on without the guard when it is taken.
TakeGuardOrNot(t) ==
    /\ Step(t, "guard", "rejudge")
    /\ guard' = IF guard = NoGuard THEN [there |-> TRUE, by |-> t, stale |-> FALSE] ELSE guard
    /\ UNCHANGED <<alive, heldHere, lock, judging, marks, deaths>>

TakeGuard(t) ==
    /\ Step(t, "guard", "rejudge")
    /\ guard = NoGuard
    /\ guard' = [there |-> TRUE, by |-> t, stale |-> FALSE]
    /\ UNCHANGED <<alive, heldHere, lock, judging, marks, deaths>>

\* Mutant: a guard its maker died with is never cleared.
MeetGuardAlways(t) ==
    /\ guard # NoGuard
    /\ Step(t, "guard", "waiting")
    /\ UNCHANGED <<alive, heldHere, lock, guard, judging, marks, deaths>>

\* Somebody holds the guard.  One that has gone stale was left by a process
\* that died, and is cleared for the next attempt: looking at it and removing
\* it are two operations.
MeetGuard(t) ==
    /\ guard # NoGuard
    /\ Step(t, "guard", IF guard.stale THEN "clear" ELSE "waiting")
    /\ UNCHANGED <<alive, heldHere, lock, guard, judging, marks, deaths>>

ClearGuard(t) ==
    /\ Step(t, "clear", "waiting")
    /\ guard' = NoGuard
    /\ UNCHANGED <<alive, heldHere, lock, judging, marks, deaths>>

\* The lock goes, whatever it is by now.
RemoveAbandoned(t) ==
    /\ Step(t, "remove", "unguardRetry")
    /\ RemoveMisled(t, t \in missed)
    /\ missed' = missed \ {t}
    /\ UNCHANGED <<alive, heldHere, guard, judging, overran, deaths>>

\* rmdirSync(guard), whoever's it is: then the lock is tried again at once, or
\* after a pause, or the release (or the failed create) is over.
Unguard(t) ==
    /\ \/ Step(t, "unguardRetry", "create")
       \/ Step(t, "unguardWait", "waiting")
       \/ Step(t, "unguardDone", "idle")
    /\ guard' = NoGuard
    /\ UNCHANGED <<alive, heldHere, lock, judging, marks, deaths>>

-----------------------------------------------------------------------------
(* Letting it go: ownedHandle.release *)

FinishWork(t) ==
    /\ Step(t, "working", "release")
    /\ UNCHANGED <<alive, heldHere, lock, guard, judging, marks, deaths>>

\* Another acquisition of this process may have replaced this one: its lock is not
\* this one's to remove. Young locks are removed without the guard, others only
\* under it.
ReleaseLooks(t) ==
    /\ \/ /\ heldHere[PidOf[t]] # t
          /\ Step(t, "release", "idle")
          /\ Forget(t)
          /\ UNCHANGED heldHere
       \/ /\ heldHere[PidOf[t]] = t
          /\ Step(t, "release",
                  IF lock # NoLock /\ lock.age = Young THEN "relCheck" ELSE "relGuard")
          /\ heldHere' = [heldHere EXCEPT ![PidOf[t]] = NoTask]
          /\ UNCHANGED marks
    /\ UNCHANGED <<alive, lock, guard, judging, deaths>>

ReleaseTakesGuard(t) ==
    /\ Step(t, "relGuard", "relCheck")
    /\ guard = NoGuard
    /\ guard' = [there |-> TRUE, by |-> t, stale |-> FALSE]
    /\ UNCHANGED <<alive, heldHere, lock, judging, marks, deaths>>

\* Twenty tries found the guard taken: whoever has it is taking the lock over.
ReleaseWithoutGuard(t) ==
    /\ Step(t, "relGuard", "idle")
    /\ guard # NoGuard
    /\ Forget(t)
    /\ UNCHANGED <<alive, heldHere, lock, guard, judging, deaths>>

\* Done with the lock file: the guard is let go by who took it at relGuard.
Leaves(t, from) == Step(t, from, IF Guarded(t) THEN "unguardDone" ELSE "idle")

ReleaseChecks(t) ==
    /\ \/ NamesProcessOf(t) /\ Step(t, "relCheck", "relRemove") /\ UNCHANGED marks
       \/ ~NamesProcessOf(t) /\ Leaves(t, "relCheck") /\ Forget(t)
    /\ UNCHANGED <<alive, heldHere, lock, guard, judging, deaths>>

\* A lock removed without the guard may be one a takeover is judging.
ReleaseRemoves(t) ==
    /\ Leaves(t, "relRemove")
    /\ RemoveMisled(t, t \in ousted)
    /\ overran' = overran \ {t}
    /\ missed' = IF lock # NoLock /\ ~Guarded(t)
                 THEN missed \cup {u \in Tasks : pc[u] \in {"reread", "reprobe", "remove"}}
                 ELSE missed
    /\ UNCHANGED <<alive, heldHere, guard, judging, deaths>>

-----------------------------------------------------------------------------
(* The environment: time, deaths, pids used again *)

\* A process does not pause for half the longest hold between judging its lock
\* young and removing it (the code's stated assumption, in release).
RemovingYoung(t) ==
    pc[t] \in {"relCheck", "relRemove"} /\ ~Guarded(t) /\ IsMine(t)

LockAges ==
    /\ lock # NoLock
    /\ lock.age # Past
    /\ lock.age = Half => ~\E t \in Tasks : RemovingYoung(t)
    /\ pc[lock.by] = "write" => MayStall
    /\ lock' = [lock EXCEPT !.age = @ + 1]
    /\ overran' = IF Using(lock.by) /\ (lock.named => lock.age = Half)
                  THEN overran \cup {lock.by}
                  ELSE overran
    /\ UNCHANGED <<pc, alive, heldHere, guard, judging, missed, ousted, deaths>>

\* A guard is held for a few file operations, so only one left by a dead
\* process lives to be stale.
GuardAges ==
    /\ guard # NoGuard
    /\ guard.by = NoTask
    /\ ~guard.stale
    /\ guard' = [guard EXCEPT !.stale = TRUE]
    /\ UNCHANGED <<pc, alive, heldHere, lock, judging, marks, deaths>>

Die(p) ==
    LET lost == {t \in Tasks : PidOf[t] = p} IN
    /\ alive[p]
    /\ deaths < MaxDeaths
    /\ guard.by \in lost => MayDieInGuard
    /\ alive' = [alive EXCEPT ![p] = FALSE]
    /\ deaths' = deaths + 1
    /\ pc' = [t \in Tasks |-> IF t \in lost THEN "idle" ELSE pc[t]]
    /\ heldHere' = [heldHere EXCEPT ![p] = NoTask]
    /\ guard' = IF guard.by \in lost THEN [guard EXCEPT !.by = NoTask] ELSE guard
    /\ judging' = [t \in Tasks |-> IF t \in lost THEN NothingSeen ELSE judging[t]]
    /\ overran' = overran \ lost
    /\ missed' = missed \ lost
    /\ ousted' = ousted \ lost
    /\ UNCHANGED lock

\* The pid is given to a new process, which may be a ccx too.
PidReused(p) ==
    /\ ~alive[p]
    /\ alive' = [alive EXCEPT ![p] = TRUE]
    /\ UNCHANGED <<pc, heldHere, lock, guard, judging, marks, deaths>>

-----------------------------------------------------------------------------

\* Everything a task does of itself once it has begun; the loop goes round, and
\* the wait's end (GiveUp), a refusal and a short write come from outside.
Progress(t) ==
    \/ CreateOpens(t) \/ CreateMeetsLock(t) \/ WritePid(t) \/ WritePidLost(t)
    \/ FailedTakesGuard(t) \/ FailedWithoutGuard(t) \/ FailedChecks(t) \/ FailedRemoves(t)
    \/ Retry(t) \/ Looks(t) \/ Reads(t) \/ Probes(t)
    \/ TakeGuard(t) \/ MeetGuard(t) \/ ClearGuard(t) \/ RemoveAbandoned(t) \/ Unguard(t)
    \/ FinishWork(t) \/ ReleaseLooks(t) \/ ReleaseTakesGuard(t) \/ ReleaseWithoutGuard(t)
    \/ ReleaseChecks(t) \/ ReleaseRemoves(t)

Outside(t) == Begin(t) \/ CreateRefused(t) \/ WriteComesUpShort(t) \/ GiveUp(t)

Next ==
    \/ \E t \in Tasks : Progress(t) \/ Outside(t)
    \/ LockAges \/ GuardAges
    \/ \E p \in Pids : Die(p) \/ PidReused(p)

Spec == Init /\ [][Next]_vars

\* Time passes, a process that runs goes on with its code, and its event loop
\* gets to every timer that is due, however busy its other tasks keep it.
Fairness ==
    /\ \A t \in Tasks : WF_vars(Progress(t)) /\ SF_vars(Retry(t))
    /\ WF_vars(LockAges)
    /\ WF_vars(GuardAges)

FairSpec == Spec /\ Fairness

-----------------------------------------------------------------------------
(* Properties *)

\* Two tasks work under the lock at once only when one of them has outlived what
\* the lock's age allows, or lost its lock to a takeover that was judging the one
\* before while its holder let that go: otherwise a takeover never removes a lock
\* its holder is within its rights to (locks.ts, acquireOwnedLock and takeOver).
MutualExclusion ==
    \A t, u \in Tasks :
        t # u /\ Holding(t) /\ Holding(u) => {t, u} \cap (overran \cup ousted) # {}

\* A release, or a create that failed, removes the lock file only while it is the
\* one this acquisition made, unless that was taken from it between its look and
\* the removal: never the lock of whoever took it over, in this process or
\* another (locks.ts, ownedHandle.release and removeOwnFailedLock).
ReleaseRemovesOnlyOwn ==
    [][\A t \in Tasks :
          pc[t] \in {"relRemove", "failedRemove"} /\ lock # NoLock /\ lock' = NoLock
              => lock.by = t \/ t \in ousted]_vars

\* A takeover removes a lock file only when the acquisition that made it is over
\* or has outlived its hold; but for one that, while it judged a lock under the
\* guard, missed the release of that lock without the guard (locks.ts, takeOver).
TakeoverSparesLiveHolders ==
    [][\A t \in Tasks :
          pc[t] = "remove" /\ lock # NoLock /\ lock' = NoLock
              => ~Using(lock.by) \/ lock.by \in overran \/ t \in missed]_vars

\* Whatever is removed may be, by a release and by a takeover.
RemovalsAreRightful == ReleaseRemovesOnlyOwn /\ TakeoverSparesLiveHolders


\* A lock left by an acquisition that is over does not stand in the way for
\* ever: while a task goes on trying for it, it is removed, even when a process
\* has died holding the takeover guard (locks.ts, takeOver).
LeftBehind ==
    lock # NoLock /\ ~Using(lock.by) /\ pc[lock.by] \notin FailPC \cup {"unguardDone"}
Trying(t) ==
    pc[t] \in (TryPC \ {"write"}) \cup {"waiting", "unguardRetry", "unguardWait"} \cup TakeOverPC
LeftLockIsRecovered ==
    \A t \in Tasks : LeftBehind /\ Trying(t) ~> ~LeftBehind \/ ~Trying(t)

\* The lock keeps the promise of HoldOnce.
Working == {t \in Tasks : Holding(t)}
Promise == INSTANCE HoldOnce WITH
    holding <- Working, lapsed <- (overran \cup ousted) \cap Working
KeepsPromise == Promise!Spec

-----------------------------------------------------------------------------
(* Why the lock excludes, while no process dies in the guard or stalls as it *)
(* creates the file: the parts of the inductive invariant the proofs use.    *)

\* One thread per process, and a dead process is nowhere in the code.
ThreadInv ==
    /\ \A t, u \in Tasks :
          t # u /\ PidOf[t] = PidOf[u] => pc[t] \in FreePC \/ pc[u] \in FreePC
    /\ \A t \in Tasks : ~alive[PidOf[t]] => pc[t] = "idle"

\* Under the guard: about to judge or remove a lock there.
AgainPC == {"rejudge", "reread", "reprobe", "remove"}
FailGuardPC == {"failedCheck", "failedRemove"}

\* The guard has one holder, which is where the code removes under it.
GuardInv ==
    /\ guard # NoGuard =>
          /\ guard.by \in Tasks
          /\ ~guard.stale
          /\ pc[guard.by] \in FailGuardPC \cup AgainPC \cup UnguardPC
                              \cup {"relCheck", "relRemove"}
    /\ \A t \in Tasks :
          /\ pc[t] # "clear"
          /\ pc[t] \in FailGuardPC \cup AgainPC \cup UnguardPC => Guarded(t)

\* A task within its hold still has its own lock file, unless it was ousted; of a
\* task past it, the file's age says so for as long as it is there.
HoldInv ==
    /\ \A t \in Tasks : Using(t) \/ pc[t] = "failedRemove" =>
          t \in overran \cup ousted \/ IsMine(t)
    /\ \A t \in ousted : ~IsMine(t) /\ (Using(t) \/ pc[t] \in FailPC)
    /\ \A t \in overran : pc[t] \in {"working"} \cup ReleasePC
    /\ lock # NoLock /\ Using(lock.by) =>
          /\ lock.named <=> pc[lock.by] # "write"
          /\ ~lock.named => lock.age = Young
          /\ lock.by \in overran <=> lock.age = Past

\* The lock's pid and the process's own record of its holder agree.
OwnerInv ==
    /\ \A t \in Tasks : pc[t] = "working" /\ IsMine(t) => heldHere[PidOf[t]] = t
    /\ lock # NoLock /\ lock.named =>
          /\ heldHere[PidOf[lock.by]] \in {lock.by, NoTask}
          /\ \A t \in Tasks :
                pc[t] \in {"relGuard", "relCheck"} /\ PidOf[t] = PidOf[lock.by] => lock.by = t
    /\ \A p \in Pids : heldHere[p] # NoTask =>
          PidOf[heldHere[p]] = p /\ pc[heldHere[p]] \in {"working", "release"}

\* The lock is over or overdue.
Over == lock # NoLock /\ (Using(lock.by) => lock.by \in overran)

\* Of a takeover that missed nothing, what it has found under the guard is still
\* so of the lock there is.
JudgingInv ==
    \A t \in Tasks \ missed :
        /\ pc[t] \in {"reread", "reprobe"} =>
              /\ lock # NoLock
              /\ judging[t].age # "fresh" => lock.named \/ Over
              /\ judging[t].age = "past" => Over
        /\ pc[t] = "reprobe" => lock.named /\ judging[t].holder = PidOf[lock.by]
        /\ pc[t] = "remove" => Over

\* What a release is about to remove may be.
RemovalInv ==
    \A t \in Tasks :
        /\ pc[t] = "relRemove" => t \in ousted \/ (IsMine(t) /\ lock.named)
        /\ RemovingYoung(t) => lock.age # Past

IInv == TypeOK /\ ThreadInv /\ GuardInv /\ HoldInv /\ OwnerInv /\ JudgingInv /\ RemovalInv

\* The lock excludes, for the reasons above (locks.ts, withOwnedLock).
Inv == IInv /\ MutualExclusion

=============================================================================
