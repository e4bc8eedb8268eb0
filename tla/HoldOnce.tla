------------------------------ MODULE HoldOnce ------------------------------
(***************************************************************************)
(* What a lock with a longest hold promises (src/claude/locks.ts,          *)
(* acquireOwnedLock): the holders of one lock at any time are at most one  *)
(* task that is within its rights, and tasks whose hold has lapsed: they   *)
(* outlived the longest one, or lost their lock file to a takeover misled  *)
(* by a release.  OwnedLock implements this specification.                 *)
(***************************************************************************)
CONSTANT Tasks      \* the acquisitions that may want the lock

VARIABLES holding,  \* the tasks whose work believes it holds the lock
          lapsed    \* the tasks among them that no longer do

vars == <<holding, lapsed>>

TypeOK == /\ holding \subseteq Tasks
          /\ lapsed \subseteq holding

Init == /\ holding = {}
        /\ lapsed = {}

\* A task gets the lock only past tasks that outlived their hold.  One that
\* was held up while it made the lock is overdue from the start.
Acquire(t) == /\ t \in Tasks \ holding
              /\ holding \subseteq lapsed
              /\ holding' = holding \cup {t}
              /\ lapsed' \in {lapsed, lapsed \cup {t}}

Lapse(t) == /\ t \in holding
              /\ lapsed' = lapsed \cup {t}
              /\ UNCHANGED holding

\* Tasks let go of the lock: one by releasing it, several as their process dies.
LetGo(S) == /\ holding' = holding \ S
            /\ lapsed' = lapsed \ S

Next == \/ \E t \in Tasks : Acquire(t) \/ Lapse(t)
        \/ \E S \in SUBSET Tasks : LetGo(S)

Spec == Init /\ [][Next]_vars

=============================================================================
