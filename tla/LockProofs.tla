----------------------------- MODULE LockProofs -----------------------------
(***************************************************************************)
(* Proofs about the locks, and about the other parts MCParts puts side by  *)
(* side.                                                                   *)
(*                                                                         *)
(* OwnedLock, for any number of tasks, processes and deaths: its types,    *)
(* and, when no process dies inside the takeover guard or stalls while it  *)
(* creates the file, that the lock excludes, that it is only ever removed  *)
(* by who may remove it, and that it keeps the promise of HoldOnce.        *)
(*                                                                         *)
(* DirLock, for any processes and number of directories: its invariant,    *)
(* as MCParts instances it.                                                *)
(*                                                                         *)
(* The other parts MCParts instances, for any bounds: DesktopHandoff, for  *)
(* any conversations and processes; ConfirmCap, for any accounts and       *)
(* models; RefusedTurn, for any lines, logins and conversations.           *)
(***************************************************************************)
EXTENDS MCParts, FiniteSetTheorems, SequenceTheorems, WellFoundedInduction, TLAPS

-----------------------------------------------------------------------------
(* Types *)

LEMMA TypeInit == Init => TypeOK
  BY OwnedLockAssumption
  DEF Init, TypeOK, PC, FreePC, LockFile, NoLock, GuardDir, NoGuard, Seen, NothingSeen

\* What judging the lock may change, of the task that judges and of nobody else.
LEMMA JudgingMoves ==
    ASSUME TypeOK, NEW t \in Tasks, Looks(t) \/ Reads(t) \/ Probes(t)
    PROVE  /\ UNCHANGED <<alive, heldHere, lock, guard, overran, ousted, deaths>>
           /\ \/ /\ pc[t] \in {"judge", "read", "probe"} /\ UNCHANGED missed
                 /\ pc'[t] \in {"read", "probe", "guard", "waiting"}
              \/ /\ pc[t] \in {"rejudge", "reread", "reprobe"}
                 /\ pc'[t] \in {"reread", "reprobe", "remove", "unguardWait"}
           /\ missed' \in {missed, missed \ {t}}
           /\ pc' = [pc EXCEPT ![t] = pc'[t]]
           /\ judging' = [judging EXCEPT ![t] = judging'[t]] /\ judging'[t] \in Seen
           /\ alive[PidOf[t]]
           /\ \A u \in Tasks \ {t} : PidOf[u] = PidOf[t] => pc[u] \in FreePC
<1> DEFINE Moves ==
        /\ \/ /\ pc[t] \in {"judge", "read", "probe"} /\ UNCHANGED missed
              /\ pc'[t] \in {"read", "probe", "guard", "waiting"}
           \/ /\ pc[t] \in {"rejudge", "reread", "reprobe"}
              /\ pc'[t] \in {"reread", "reprobe", "remove", "unguardWait"}
        /\ missed' \in {missed, missed \ {t}}
        /\ pc' = [pc EXCEPT ![t] = pc'[t]]
        /\ alive[PidOf[t]]
        /\ \A u \in Tasks \ {t} : PidOf[u] = PidOf[t] => pc[u] \in FreePC
<1> USE OwnedLockAssumption DEF TypeOK
<1>1. UNCHANGED <<alive, heldHere, lock, guard, overran, ousted, deaths>>
  BY DEF Looks, Reads, Probes
<1>2. NothingSeen \in Seen /\ \A u \in Tasks : judging[u] \in Seen
  BY DEF Seen, NothingSeen
<1>3. ASSUME NEW from \in {"judge", "read", "probe"},
             NEW again \in {"rejudge", "reread", "reprobe"}, NEW abandoned,
             Concludes(t, from, again, abandoned)
      PROVE  Moves /\ judging' = [judging EXCEPT ![t] = NothingSeen]
  <2>1. CASE Step(t, from, IF abandoned THEN "guard" ELSE "waiting") /\ UNCHANGED missed
    BY <1>3, <2>1 DEF Concludes, Step
  <2>2. CASE /\ Step(t, again, IF abandoned THEN "remove" ELSE "unguardWait")
             /\ missed' = IF abandoned THEN missed ELSE missed \ {t}
    BY <1>3, <2>2 DEF Concludes, Step
  <2>3. QED
    BY <1>3, <2>1, <2>2 DEF Concludes
<1>4. ASSUME UNCHANGED missed,
             \/ Step(t, "judge", "read") \/ Step(t, "rejudge", "reread")
             \/ Step(t, "read", "probe") \/ Step(t, "reread", "reprobe")
      PROVE  Moves
  BY <1>4 DEF Step
<1> HIDE DEF Moves
<1>5. ASSUME Looks(t)
      PROVE  Moves /\ judging' = [judging EXCEPT ![t] = judging'[t]] /\ judging'[t] \in Seen
  <2>1. CASE Concludes(t, "judge", "rejudge", FALSE)
    BY <1>2, <1>3, <2>1
  <2>2. ASSUME NEW age \in AgesSeen, UNCHANGED missed,
               Step(t, "judge", "read") \/ Step(t, "rejudge", "reread"),
               judging' = [judging EXCEPT ![t].age = age]
        PROVE  Moves /\ judging' = [judging EXCEPT ![t] = judging'[t]] /\ judging'[t] \in Seen
    <3>1. age \in {"fresh", "stale", "past"}
      BY DEF AgesSeen
    <3>2. QED
      BY <1>2, <1>4, <2>2, <3>1 DEF Seen
  <2>3. QED
    BY <1>5, <2>1, <2>2 DEF Looks
<1>6. ASSUME Reads(t)
      PROVE  Moves /\ judging' = [judging EXCEPT ![t] = judging'[t]] /\ judging'[t] \in Seen
  <2>1. CASE \E abandoned \in BOOLEAN : Concludes(t, "read", "reread", abandoned)
    BY <1>2, <1>3, <2>1
  <2>2. CASE /\ Step(t, "read", "probe") \/ Step(t, "reread", "reprobe")
             /\ lock # NoLock /\ judging' = [judging EXCEPT ![t].holder = PidOf[lock.by]]
             /\ UNCHANGED missed
    <3>1. PidOf[lock.by] \in Pids
      BY <2>2 DEF LockFile
    <3>2. QED
      BY <1>2, <1>4, <2>2, <3>1 DEF Seen
  <2>3. QED
    BY <1>6, <2>1, <2>2 DEF Reads
<1>7. ASSUME Probes(t)
      PROVE  Moves /\ judging' = [judging EXCEPT ![t] = judging'[t]] /\ judging'[t] \in Seen
  BY <1>2, <1>3, <1>7 DEF Probes
<1>8. QED
  BY <1>1, <1>5, <1>6, <1>7 DEF Moves

LEMMA JudgingTypes ==
    ASSUME TypeOK, NEW t \in Tasks, Looks(t) \/ Reads(t) \/ Probes(t)
    PROVE  TypeOK'
<1>1. pc'[t] \in PC
  BY JudgingMoves DEF PC, FreePC, TryPC, TakeOverPC, UnguardPC
<1>2. missed' \subseteq Tasks
  BY JudgingMoves DEF TypeOK
<1>3. pc' \in [Tasks -> PC] /\ judging' \in [Tasks -> Seen]
  BY <1>1, JudgingMoves DEF TypeOK
<1>4. QED
  BY <1>2, <1>3, JudgingMoves DEF TypeOK

LEMMA TypeStep == TypeOK /\ [Next]_vars => TypeOK'
<1> SUFFICES ASSUME TypeOK, [Next]_vars
             PROVE  TypeOK'
  OBVIOUS
<1>14. ASSUME NEW t \in Tasks, Looks(t) PROVE TypeOK'
  BY <1>14, JudgingTypes
<1>15. ASSUME NEW t \in Tasks, Reads(t) PROVE TypeOK'
  BY <1>15, JudgingTypes
<1>16. ASSUME NEW t \in Tasks, Probes(t) PROVE TypeOK'
  BY <1>16, JudgingTypes
<1> USE OwnedLockAssumption
    DEF TypeOK, PC, FreePC, TryPC, FailPC, TakeOverPC, ReleasePC, UnguardPC,
        LockFile, NoLock, GuardDir, NoGuard, Seen, NothingSeen, Young, Half, Past,
        Step, Forget, marks
<1>1. ASSUME NEW t \in Tasks, Begin(t) PROVE TypeOK'
  BY <1>1 DEF Begin
<1>2. ASSUME NEW t \in Tasks, CreateOpens(t) PROVE TypeOK'
  BY <1>2 DEF CreateOpens
<1>3. ASSUME NEW t \in Tasks, CreateMeetsLock(t) PROVE TypeOK'
  BY <1>3 DEF CreateMeetsLock
<1>4. ASSUME NEW t \in Tasks, CreateRefused(t) PROVE TypeOK'
  BY <1>4 DEF CreateRefused
<1>5. ASSUME NEW t \in Tasks, WritePid(t) PROVE TypeOK'
  BY <1>5 DEF WritePid
<1>6. ASSUME NEW t \in Tasks, WritePidLost(t) PROVE TypeOK'
  BY <1>6 DEF WritePidLost
<1>7. ASSUME NEW t \in Tasks, WriteComesUpShort(t) PROVE TypeOK'
  BY <1>7 DEF WriteComesUpShort
<1>8. ASSUME NEW t \in Tasks, FailedTakesGuard(t) PROVE TypeOK'
  BY <1>8 DEF FailedTakesGuard
<1>9. ASSUME NEW t \in Tasks, FailedWithoutGuard(t) PROVE TypeOK'
  BY <1>9 DEF FailedWithoutGuard
<1>10. ASSUME NEW t \in Tasks, FailedChecks(t) PROVE TypeOK'
  BY <1>10 DEF FailedChecks
<1>11. ASSUME NEW t \in Tasks, FailedRemoves(t) PROVE TypeOK'
  BY <1>11 DEF FailedRemoves, RemoveMisled
<1>12. ASSUME NEW t \in Tasks, Retry(t) PROVE TypeOK'
  BY <1>12 DEF Retry
<1>13. ASSUME NEW t \in Tasks, GiveUp(t) PROVE TypeOK'
  BY <1>13 DEF GiveUp
<1>17. ASSUME NEW t \in Tasks, TakeGuard(t) PROVE TypeOK'
  BY <1>17 DEF TakeGuard
<1>18. ASSUME NEW t \in Tasks, MeetGuard(t) PROVE TypeOK'
  BY <1>18 DEF MeetGuard
<1>19. ASSUME NEW t \in Tasks, ClearGuard(t) PROVE TypeOK'
  BY <1>19 DEF ClearGuard
<1>20. ASSUME NEW t \in Tasks, RemoveAbandoned(t) PROVE TypeOK'
  BY <1>20 DEF RemoveAbandoned, RemoveMisled
<1>21. ASSUME NEW t \in Tasks, Unguard(t) PROVE TypeOK'
  BY <1>21 DEF Unguard
<1>22. ASSUME NEW t \in Tasks, FinishWork(t) PROVE TypeOK'
  BY <1>22 DEF FinishWork
<1>23. ASSUME NEW t \in Tasks, ReleaseLooks(t), heldHere[PidOf[t]] # t PROVE TypeOK'
  BY <1>23 DEF ReleaseLooks
<1>24. ASSUME NEW t \in Tasks, ReleaseLooks(t), heldHere[PidOf[t]] = t PROVE TypeOK'
  BY <1>24 DEF ReleaseLooks
<1>25. ASSUME NEW t \in Tasks, ReleaseTakesGuard(t) PROVE TypeOK'
  BY <1>25 DEF ReleaseTakesGuard
<1>26. ASSUME NEW t \in Tasks, ReleaseWithoutGuard(t) PROVE TypeOK'
  BY <1>26 DEF ReleaseWithoutGuard
<1>27. ASSUME NEW t \in Tasks, ReleaseChecks(t) PROVE TypeOK'
  <2>1. pc' \in [Tasks -> PC]
    BY <1>27 DEF ReleaseChecks, Leaves
  <2>2. UNCHANGED missed /\ overran' \subseteq Tasks /\ ousted' \subseteq Tasks
    BY <1>27 DEF ReleaseChecks
  <2>3. QED
    BY <1>27, <2>1, <2>2 DEF ReleaseChecks
<1>28. ASSUME NEW t \in Tasks, ReleaseRemoves(t) PROVE TypeOK'
  <2>1. pc' \in [Tasks -> PC]
    BY <1>28 DEF ReleaseRemoves, Leaves
  <2>2. missed' \subseteq Tasks /\ ousted' \subseteq Tasks /\ overran' \subseteq Tasks
    BY <1>28 DEF ReleaseRemoves, RemoveMisled
  <2>3. lock' = NoLock
    BY <1>28 DEF ReleaseRemoves, RemoveMisled
  <2>4. QED
    BY <1>28, <2>1, <2>2, <2>3 DEF ReleaseRemoves
<1>29. CASE LockAges
  <2>1. lock.age + 1 \in {Young, Half, Past} /\ lock \in LockFile
    BY <1>29 DEF LockAges
  <2>2. lock' \in LockFile
    BY <1>29, <2>1 DEF LockAges
  <2>3. overran' \subseteq Tasks
    BY <1>29, <2>1 DEF LockAges
  <2>4. QED
    BY <1>29, <2>2, <2>3 DEF LockAges
<1>30. CASE GuardAges
  BY <1>30 DEF GuardAges
<1>31. ASSUME NEW p \in Pids, Die(p) PROVE TypeOK'
  <2>1. deaths' \in 0..MaxDeaths
    BY <1>31 DEF Die
  <2>2. pc' \in [Tasks -> PC]
    BY <1>31 DEF Die
  <2>3. guard' \in GuardDir \cup {NoGuard}
    <3>1. CASE guard.by \in {t \in Tasks : PidOf[t] = p}
      <4>1. guard \in GuardDir
        <5>1. guard.by \in Tasks
          BY <3>1
        <5>2. guard # NoGuard
          BY <5>1
        <5>3. QED
          BY <5>2
      <4>2. guard' = [guard EXCEPT !.by = NoTask]
        BY <1>31, <3>1 DEF Die
      <4>3. QED
        BY <4>1, <4>2
    <3>2. CASE guard.by \notin {t \in Tasks : PidOf[t] = p}
      BY <1>31, <3>2 DEF Die
    <3>3. QED
      BY <3>1, <3>2
  <2>4. /\ alive' \in [Pids -> BOOLEAN]
        /\ heldHere' \in [Pids -> Tasks \cup {NoTask}]
        /\ lock' \in LockFile \cup {NoLock}
        /\ overran' \subseteq Tasks /\ missed' \subseteq Tasks /\ ousted' \subseteq Tasks
        /\ judging' \in [Tasks -> Seen]
    BY <1>31 DEF Die
  <2>5. QED
    BY <2>1, <2>2, <2>3, <2>4
<1>32. ASSUME NEW p \in Pids, PidReused(p) PROVE TypeOK'
  BY <1>32 DEF PidReused
<1>33. CASE UNCHANGED vars
  BY <1>33 DEF vars
<1>34. QED
  BY <1>1, <1>2, <1>3, <1>4, <1>5, <1>6, <1>7, <1>8, <1>9, <1>10, <1>11, <1>12, <1>13, <1>14,
     <1>15, <1>16, <1>17, <1>18, <1>19, <1>20, <1>21, <1>22, <1>23, <1>24, <1>25, <1>26,
     <1>27, <1>28, <1>29, <1>30, <1>31, <1>32, <1>33
  DEF Next, Progress, Outside

\* Every variable keeps its shape, whatever dies or stalls.
THEOREM TypeCorrect == Spec => []TypeOK
  BY TypeInit, TypeStep, PTL DEF Spec

-----------------------------------------------------------------------------
(* The inductive invariant *)

LEMMA InvariantInit == Init => IInv
  BY TypeInit, OwnedLockAssumption
  DEF Init, IInv, ThreadInv, GuardInv, HoldInv, OwnerInv, JudgingInv, RemovalInv, FreePC,
      ReleasePC, UnguardPC, AgainPC, FailGuardPC, NoLock, NoGuard, Using, RemovingYoung

\* What is found under the guard is so, of a takeover that missed nothing.
LEMMA LooksFinds ==
    ASSUME IInv, NEW t \in Tasks, Looks(t), t \notin missed',
           pc'[t] \in {"reread", "reprobe", "remove"}
    PROVE  /\ lock # NoLock /\ pc'[t] = "reread"
           /\ judging'[t].age # "fresh" => lock.named \/ Over
           /\ judging'[t].age = "past" => Over
<1> USE OwnedLockAssumption DEF IInv, TypeOK
<1>1. CASE Concludes(t, "judge", "rejudge", FALSE)
  BY <1>1 DEF Concludes, Step
<1>2. ASSUME lock # NoLock, NEW age \in AgesSeen, judging' = [judging EXCEPT ![t].age = age],
             Step(t, "judge", "read") \/ Step(t, "rejudge", "reread")
      PROVE  lock # NoLock /\ pc'[t] = "reread" /\ judging'[t].age = age
  BY <1>2 DEF Step, Seen
<1>3. ASSUME lock # NoLock, NEW age \in AgesSeen
      PROVE  (age # "fresh" => lock.named \/ Over) /\ (age = "past" => Over)
  <2>1. lock.by \in Tasks /\ lock \in LockFile
    BY <1>3 DEF LockFile
  <2>2. CASE lock.age = Past
    BY <1>3, <2>1, <2>2 DEF Over, HoldInv
  <2>3. CASE lock.age # Past /\ lock.named
    BY <1>3, <2>3 DEF AgesSeen
  <2>4. CASE lock.age # Past /\ ~lock.named
    <3>1. age = IF lock.age = Half THEN "stale" ELSE "fresh"
      BY <1>3, <2>4 DEF AgesSeen
    <3>2. lock.age = Half => Over
      BY <1>3, <2>1, <2>4 DEF Over, HoldInv, Half, Young
    <3>3. QED
      BY <3>1, <3>2
  <2>5. QED
    BY <2>2, <2>3, <2>4
<1>4. QED
  BY <1>1, <1>2, <1>3 DEF Looks

LEMMA ReadsFinds ==
    ASSUME IInv, NEW t \in Tasks, Reads(t), t \notin missed',
           pc'[t] \in {"reread", "reprobe", "remove"}
    PROVE  /\ t \notin missed /\ pc[t] = "reread" /\ pc'[t] \in {"reprobe", "remove"}
           /\ lock # NoLock
           /\ judging[t].age = "past" => Over
           /\ pc'[t] = "reprobe" => /\ judging'[t].age = judging[t].age /\ lock.named
                                    /\ judging'[t].holder = PidOf[lock.by]
           /\ pc'[t] = "remove" => Over
<1> USE OwnedLockAssumption DEF IInv, TypeOK
<1>1. t \notin missed /\ pc[t] = "reread" /\ pc'[t] \in {"reprobe", "remove"}
  BY DEF Reads, Concludes, Step
<1>2. /\ lock # NoLock /\ lock \in LockFile /\ lock.by \in Tasks
      /\ judging[t].age # "fresh" => lock.named \/ Over
      /\ judging[t].age = "past" => Over
  BY <1>1 DEF JudgingInv, LockFile
<1>3. CASE ~lock.named /\ Concludes(t, "read", "reread", judging[t].age # "fresh")
  BY <1>1, <1>2, <1>3 DEF Concludes, Step
<1>4. CASE NamesProcessOf(t) /\ heldHere[PidOf[t]] = NoTask
           /\ Concludes(t, "read", "reread", TRUE)
  <2>1. lock.named /\ PidOf[lock.by] = PidOf[t]
    BY <1>4 DEF NamesProcessOf
  <2>2. ~Using(lock.by)
    <3>1. pc[lock.by] # "write"
      BY <1>2, <2>1 DEF HoldInv, Using
    <3>2. pc[lock.by] # "working"
      BY <1>2, <1>4, <2>1 DEF OwnerInv, IsMine
    <3>3. pc[lock.by] \notin ReleasePC
      BY <1>1, <1>2, <2>1 DEF ThreadInv, FreePC, ReleasePC
    <3>4. QED
      BY <3>1, <3>2, <3>3 DEF Using
  <2>3. QED
    BY <1>1, <1>2, <1>4, <2>2 DEF Over, Concludes, Step
<1>5. CASE judging[t].age = "past" /\ Concludes(t, "read", "reread", TRUE)
  BY <1>1, <1>2, <1>5 DEF Concludes, Step
<1>6. CASE /\ lock.named
           /\ Step(t, "read", "probe") \/ Step(t, "reread", "reprobe")
           /\ judging' = [judging EXCEPT ![t].holder = PidOf[lock.by]]
  <2>1. pc'[t] = "reprobe"
    BY <1>1, <1>6 DEF Step
  <2>2. judging'[t].age = judging[t].age /\ judging'[t].holder = PidOf[lock.by]
    BY <1>6 DEF Seen
  <2>3. QED
    BY <1>1, <1>2, <1>6, <2>1, <2>2
<1>7. QED
  BY <1>2, <1>3, <1>4, <1>5, <1>6 DEF Reads

LEMMA ProbesFinds ==
    ASSUME IInv, NEW t \in Tasks, Probes(t), t \notin missed',
           pc'[t] \in {"reread", "reprobe", "remove"}
    PROVE  pc'[t] = "remove" /\ Over
<1> USE OwnedLockAssumption DEF IInv, TypeOK
<1>1. t \notin missed /\ pc[t] = "reprobe" /\ pc'[t] = "remove" /\ ~alive[judging[t].holder]
  BY DEF Probes, Concludes, Step
<1>2. lock # NoLock /\ judging[t].holder = PidOf[lock.by] /\ lock.by \in Tasks
  BY <1>1 DEF JudgingInv, LockFile
<1>3. pc[lock.by] = "idle"
  BY <1>1, <1>2 DEF ThreadInv
<1>4. QED
  BY <1>1, <1>2, <1>3 DEF Over, Using, ReleasePC

LEMMA JudgingKeeps ==
    ASSUME IInv, NEW t \in Tasks, Looks(t) \/ Reads(t) \/ Probes(t)
    PROVE  IInv'
<1> USE OwnedLockAssumption
<1>0. TypeOK /\ TypeOK'
  BY JudgingTypes DEF IInv
<1> DEFINE one == {"judge", "read", "probe"}
           two == {"rejudge", "reread", "reprobe"}
<1>1. /\ UNCHANGED <<alive, heldHere, lock, guard, overran, ousted, deaths>>
      /\ \/ pc[t] \in one /\ pc'[t] \in {"read", "probe", "guard", "waiting"}
         \/ pc[t] \in two /\ pc'[t] \in {"reread", "reprobe", "remove", "unguardWait"}
      /\ pc' = [pc EXCEPT ![t] = pc'[t]]
      /\ \A u \in Tasks \ {t} : pc'[u] = pc[u] /\ judging'[u] = judging[u]
      /\ missed' \in {missed, missed \ {t}}
      /\ alive[PidOf[t]]
      /\ \A u \in Tasks \ {t} : PidOf[u] = PidOf[t] => pc[u] \in FreePC
  BY <1>0, JudgingMoves DEF TypeOK
<1>2. /\ ThreadInv /\ GuardInv /\ HoldInv /\ OwnerInv /\ JudgingInv /\ RemovalInv
  BY DEF IInv
<1>3. \A u \in Tasks : Using(u)' <=> Using(u)
  BY <1>0, <1>1 DEF Using, ReleasePC
<1>4. ThreadInv'
  BY <1>0, <1>1, <1>2 DEF ThreadInv, TypeOK, FreePC
<1>5. GuardInv'
  BY <1>0, <1>1, <1>2
  DEF GuardInv, TypeOK, FailGuardPC, AgainPC, UnguardPC, Guarded, NoGuard
<1>6. HoldInv'
  <2>1. (\A u \in Tasks : Using(u) \/ pc[u] = "failedRemove" =>
            u \in overran \cup ousted \/ IsMine(u))'
    BY <1>0, <1>1, <1>2, <1>3 DEF HoldInv, IsMine
  <2>2. (\A u \in ousted : ~IsMine(u) /\ (Using(u) \/ pc[u] \in FailPC))'
    BY <1>0, <1>1, <1>2, <1>3 DEF HoldInv, IsMine, TypeOK, FailPC
  <2>3. (\A u \in overran : pc[u] \in {"working"} \cup ReleasePC)'
    BY <1>0, <1>1, <1>2 DEF HoldInv, ReleasePC, TypeOK
  <2>4. (lock # NoLock /\ Using(lock.by) =>
          /\ lock.named <=> pc[lock.by] # "write"
          /\ ~lock.named => lock.age = Young
          /\ lock.by \in overran <=> lock.age = Past)'
    <3>1. lock # NoLock => lock.by \in Tasks
      BY <1>0 DEF TypeOK, LockFile
    <3>2. \A u \in Tasks : (pc'[u] = "write") <=> (pc[u] = "write")
      BY <1>0, <1>1
    <3>3. QED
      BY <1>1, <1>2, <1>3, <3>1, <3>2 DEF HoldInv
  <2>5. QED
    BY <2>1, <2>2, <2>3, <2>4 DEF HoldInv
<1>7. OwnerInv'
  <2>1. \A u \in Tasks : /\ pc'[u] = "working" <=> pc[u] = "working"
                         /\ pc'[u] = "release" <=> pc[u] = "release"
                         /\ pc'[u] \in {"relGuard", "relCheck"} <=> pc[u] \in {"relGuard", "relCheck"}
    BY <1>0, <1>1
  <2>2. \A p \in Pids : heldHere[p] \in Tasks \cup {NoTask}
    BY <1>0 DEF TypeOK
  <2>3. QED
    BY <1>1, <1>2, <2>1, <2>2 DEF OwnerInv, IsMine
<1>8. JudgingInv'
  <2>1. Over' <=> Over
    <3>1. lock # NoLock => lock.by \in Tasks
      BY <1>0 DEF TypeOK, LockFile
    <3>2. QED
      BY <1>1, <1>3, <3>1 DEF Over
  <2>2. ASSUME NEW u \in Tasks, u \notin missed', u # t
        PROVE  u \notin missed /\ pc'[u] = pc[u] /\ judging'[u] = judging[u] /\ lock' = lock
    BY <1>1, <2>2
  <2>3. ASSUME t \notin missed', pc'[t] \in {"reread", "reprobe", "remove"}
        PROVE  /\ pc'[t] \in {"reread", "reprobe"} =>
                     /\ lock' # NoLock
                     /\ judging'[t].age # "fresh" => lock'.named \/ Over'
                     /\ judging'[t].age = "past" => Over'
               /\ pc'[t] = "reprobe" => lock'.named /\ judging'[t].holder = PidOf[lock'.by]
               /\ pc'[t] = "remove" => Over'
    <3>1. CASE Looks(t)
      BY <1>1, <2>1, <2>3, <3>1, LooksFinds
    <3>2. CASE Reads(t)
      <4>1. /\ t \notin missed /\ pc[t] = "reread" /\ pc'[t] \in {"reprobe", "remove"}
            /\ lock # NoLock
            /\ judging[t].age = "past" => Over
            /\ pc'[t] = "reprobe" => /\ judging'[t].age = judging[t].age /\ lock.named
                                     /\ judging'[t].holder = PidOf[lock.by]
            /\ pc'[t] = "remove" => Over
        BY <2>3, <3>2, ReadsFinds
      <4>2. QED
        BY <1>1, <2>1, <4>1
    <3>3. CASE Probes(t)
      BY <1>1, <2>1, <2>3, <3>3, ProbesFinds
    <3>4. QED
      BY <3>1, <3>2, <3>3
  <2>4. ASSUME NEW u \in Tasks, u \notin missed'
        PROVE  /\ pc'[u] \in {"reread", "reprobe"} =>
                     /\ lock' # NoLock
                     /\ judging'[u].age # "fresh" => lock'.named \/ Over'
                     /\ judging'[u].age = "past" => Over'
               /\ pc'[u] = "reprobe" => lock'.named /\ judging'[u].holder = PidOf[lock'.by]
               /\ pc'[u] = "remove" => Over'
    <3>1. CASE u = t
      BY <2>3, <2>4, <3>1
    <3>2. CASE u # t
      BY <1>2, <2>1, <2>2, <2>4, <3>2 DEF JudgingInv
    <3>3. QED
      BY <3>1, <3>2
  <2>5. QED
    BY <2>4 DEF JudgingInv
<1>9. RemovalInv'
  <2>1. \A u \in Tasks : /\ pc'[u] = "relRemove" <=> pc[u] = "relRemove"
                         /\ RemovingYoung(u)' <=> RemovingYoung(u)
    BY <1>0, <1>1 DEF RemovingYoung, Guarded, IsMine
  <2>2. QED
    BY <1>1, <1>2, <2>1 DEF RemovalInv, IsMine
<1>10. QED
  BY <1>0, <1>4, <1>5, <1>6, <1>7, <1>8, <1>9 DEF IInv

\* One step per action, and under it one per part of the invariant.
LEMMA InvariantStep ==
    ASSUME ~MayDieInGuard, ~MayStall
    PROVE  IInv /\ [Next]_vars => IInv'
<1> SUFFICES ASSUME IInv, [Next]_vars
             PROVE  IInv'
  OBVIOUS
<1>0. TypeOK /\ TypeOK'
  BY TypeStep DEF IInv
<1>14. ASSUME NEW t \in Tasks, Looks(t) PROVE IInv'
  BY <1>14, JudgingKeeps
<1>15. ASSUME NEW t \in Tasks, Reads(t) PROVE IInv'
  BY <1>15, JudgingKeeps
<1>16. ASSUME NEW t \in Tasks, Probes(t) PROVE IInv'
  BY <1>16, JudgingKeeps
<1> USE <1>0, OwnedLockAssumption
    DEF IInv, TypeOK, PC, FreePC, TryPC, FailPC, TakeOverPC, ReleasePC, UnguardPC,
        AgainPC, FailGuardPC, LockFile, NoLock, GuardDir, NoGuard, Seen, NothingSeen,
        Young, Half, Past, Step, Forget, marks, IsMine, Guarded, Using, NamesProcessOf,
        RemovingYoung, Over
<1>1. ASSUME NEW t \in Tasks, Begin(t) PROVE IInv'
  <2>1. ThreadInv'
    BY <1>1 DEF Begin, ThreadInv
  <2>2. GuardInv'
    BY <1>1 DEF Begin, ThreadInv, GuardInv
  <2>3. HoldInv'
    BY <1>1 DEF Begin, ThreadInv, GuardInv, HoldInv, JudgingInv, RemovalInv
  <2>4. OwnerInv'
    BY <1>1 DEF Begin, ThreadInv, HoldInv, OwnerInv
  <2>5. JudgingInv'
    BY <1>1 DEF Begin, ThreadInv, GuardInv, HoldInv, OwnerInv, JudgingInv
  <2>6. RemovalInv'
    BY <1>1 DEF Begin, ThreadInv, GuardInv, HoldInv, OwnerInv, JudgingInv, RemovalInv
  <2>7. QED
    BY <2>1, <2>2, <2>3, <2>4, <2>5, <2>6
<1>2. ASSUME NEW t \in Tasks, CreateOpens(t) PROVE IInv'
  <2>1. ThreadInv'
    BY <1>2 DEF CreateOpens, ThreadInv
  <2>2. GuardInv'
    BY <1>2 DEF CreateOpens, ThreadInv, GuardInv
  <2>3. HoldInv'
    BY <1>2 DEF CreateOpens, ThreadInv, GuardInv, HoldInv, JudgingInv, RemovalInv
  <2>4. OwnerInv'
    BY <1>2 DEF CreateOpens, ThreadInv, HoldInv, OwnerInv
  <2>5. JudgingInv'
    BY <1>2 DEF CreateOpens, ThreadInv, GuardInv, HoldInv, OwnerInv, JudgingInv
  <2>6. RemovalInv'
    BY <1>2 DEF CreateOpens, ThreadInv, GuardInv, HoldInv, OwnerInv, JudgingInv, RemovalInv
  <2>7. QED
    BY <2>1, <2>2, <2>3, <2>4, <2>5, <2>6
<1>3. ASSUME NEW t \in Tasks, CreateMeetsLock(t) PROVE IInv'
  <2>1. ThreadInv'
    BY <1>3 DEF CreateMeetsLock, ThreadInv
  <2>2. GuardInv'
    BY <1>3 DEF CreateMeetsLock, ThreadInv, GuardInv
  <2>3. HoldInv'
    BY <1>3 DEF CreateMeetsLock, ThreadInv, GuardInv, HoldInv, JudgingInv, RemovalInv
  <2>4. OwnerInv'
    BY <1>3 DEF CreateMeetsLock, ThreadInv, HoldInv, OwnerInv
  <2>5. JudgingInv'
    BY <1>3 DEF CreateMeetsLock, ThreadInv, GuardInv, HoldInv, OwnerInv, JudgingInv
  <2>6. RemovalInv'
    BY <1>3 DEF CreateMeetsLock, ThreadInv, GuardInv, HoldInv, OwnerInv, JudgingInv, RemovalInv
  <2>7. QED
    BY <2>1, <2>2, <2>3, <2>4, <2>5, <2>6
<1>4. ASSUME NEW t \in Tasks, CreateRefused(t) PROVE IInv'
  <2>1. ThreadInv'
    BY <1>4 DEF CreateRefused, ThreadInv
  <2>2. GuardInv'
    BY <1>4 DEF CreateRefused, ThreadInv, GuardInv
  <2>3. HoldInv'
    BY <1>4 DEF CreateRefused, ThreadInv, GuardInv, HoldInv, JudgingInv, RemovalInv
  <2>4. OwnerInv'
    BY <1>4 DEF CreateRefused, ThreadInv, HoldInv, OwnerInv
  <2>5. JudgingInv'
    BY <1>4 DEF CreateRefused, ThreadInv, GuardInv, HoldInv, OwnerInv, JudgingInv
  <2>6. RemovalInv'
    BY <1>4 DEF CreateRefused, ThreadInv, GuardInv, HoldInv, OwnerInv, JudgingInv, RemovalInv
  <2>7. QED
    BY <2>1, <2>2, <2>3, <2>4, <2>5, <2>6
<1>5. ASSUME NEW t \in Tasks, WritePid(t) PROVE IInv'
  <2>1. ThreadInv'
    BY <1>5 DEF WritePid, ThreadInv
  <2>2. GuardInv'
    BY <1>5 DEF WritePid, ThreadInv, GuardInv
  <2>3. HoldInv'
    BY <1>5 DEF WritePid, ThreadInv, GuardInv, HoldInv, JudgingInv, RemovalInv
  <2>4. OwnerInv'
    <3>1. /\ lock' = [by |-> t, named |-> TRUE, age |-> Young] /\ lock'.by = t
          /\ heldHere' = [heldHere EXCEPT ![PidOf[t]] = t] /\ heldHere'[PidOf[t]] = t
          /\ pc' = [pc EXCEPT ![t] = "working"] /\ pc[t] = "write"
      BY <1>5 DEF WritePid
    <3>2. (\A u \in Tasks : pc[u] = "working" /\ IsMine(u) => heldHere[PidOf[u]] = u)'
      BY <3>1
    <3>3. \A u \in Tasks \ {t} : PidOf[u] = PidOf[t] => pc'[u] \in FreePC
      BY <1>5, <3>1 DEF WritePid
    <3>4. (\A p \in Pids : heldHere[p] # NoTask =>
             PidOf[heldHere[p]] = p /\ pc[heldHere[p]] \in {"working", "release"})'
      <4>1. ASSUME NEW p \in Pids, heldHere'[p] # NoTask
            PROVE  PidOf[heldHere'[p]] = p /\ pc'[heldHere'[p]] \in {"working", "release"}
        <5>1. CASE p = PidOf[t]
          BY <3>1, <5>1
        <5>2. CASE p # PidOf[t]
          BY <3>1, <4>1, <5>2 DEF OwnerInv
        <5>3. QED
          BY <5>1, <5>2
      <4>2. QED
        BY <4>1
    <3>5. QED
      BY <3>1, <3>2, <3>3, <3>4 DEF OwnerInv
  <2>5. JudgingInv'
    BY <1>5 DEF WritePid, ThreadInv, GuardInv, HoldInv, OwnerInv, JudgingInv
  <2>6. RemovalInv'
    BY <1>5 DEF WritePid, ThreadInv, GuardInv, HoldInv, OwnerInv, JudgingInv, RemovalInv
  <2>7. QED
    BY <2>1, <2>2, <2>3, <2>4, <2>5, <2>6
<1>6. ASSUME NEW t \in Tasks, WritePidLost(t) PROVE IInv'
  <2>1. ThreadInv'
    BY <1>6 DEF WritePidLost, ThreadInv
  <2>2. GuardInv'
    BY <1>6 DEF WritePidLost, ThreadInv, GuardInv
  <2>3. HoldInv'
    BY <1>6 DEF WritePidLost, ThreadInv, GuardInv, HoldInv, JudgingInv, RemovalInv
  <2>4. OwnerInv'
    BY <1>6 DEF WritePidLost, ThreadInv, HoldInv, OwnerInv
  <2>5. JudgingInv'
    BY <1>6 DEF WritePidLost, ThreadInv, GuardInv, HoldInv, OwnerInv, JudgingInv
  <2>6. RemovalInv'
    BY <1>6 DEF WritePidLost, ThreadInv, GuardInv, HoldInv, OwnerInv, JudgingInv, RemovalInv
  <2>7. QED
    BY <2>1, <2>2, <2>3, <2>4, <2>5, <2>6
<1>7. ASSUME NEW t \in Tasks, WriteComesUpShort(t) PROVE IInv'
  <2>1. ThreadInv'
    BY <1>7 DEF WriteComesUpShort, ThreadInv
  <2>2. GuardInv'
    BY <1>7 DEF WriteComesUpShort, ThreadInv, GuardInv
  <2>3. HoldInv'
    BY <1>7 DEF WriteComesUpShort, ThreadInv, GuardInv, HoldInv, JudgingInv, RemovalInv
  <2>4. OwnerInv'
    BY <1>7 DEF WriteComesUpShort, ThreadInv, HoldInv, OwnerInv
  <2>5. JudgingInv'
    BY <1>7 DEF WriteComesUpShort, ThreadInv, GuardInv, HoldInv, OwnerInv, JudgingInv
  <2>6. RemovalInv'
    BY <1>7 DEF WriteComesUpShort, ThreadInv, GuardInv, HoldInv, OwnerInv, JudgingInv, RemovalInv
  <2>7. QED
    BY <2>1, <2>2, <2>3, <2>4, <2>5, <2>6
<1>8. ASSUME NEW t \in Tasks, FailedTakesGuard(t) PROVE IInv'
  <2>1. ThreadInv'
    BY <1>8 DEF FailedTakesGuard, ThreadInv
  <2>2. GuardInv'
    BY <1>8 DEF FailedTakesGuard, ThreadInv, GuardInv
  <2>3. HoldInv'
    BY <1>8 DEF FailedTakesGuard, ThreadInv, GuardInv, HoldInv, JudgingInv, RemovalInv
  <2>4. OwnerInv'
    BY <1>8 DEF FailedTakesGuard, ThreadInv, HoldInv, OwnerInv
  <2>5. JudgingInv'
    BY <1>8 DEF FailedTakesGuard, ThreadInv, GuardInv, HoldInv, OwnerInv, JudgingInv
  <2>6. RemovalInv'
    BY <1>8 DEF FailedTakesGuard, ThreadInv, GuardInv, HoldInv, OwnerInv, JudgingInv, RemovalInv
  <2>7. QED
    BY <2>1, <2>2, <2>3, <2>4, <2>5, <2>6
<1>9. ASSUME NEW t \in Tasks, FailedWithoutGuard(t) PROVE IInv'
  <2>1. ThreadInv'
    BY <1>9 DEF FailedWithoutGuard, ThreadInv
  <2>2. GuardInv'
    BY <1>9 DEF FailedWithoutGuard, ThreadInv, GuardInv
  <2>3. HoldInv'
    BY <1>9 DEF FailedWithoutGuard, ThreadInv, GuardInv, HoldInv, JudgingInv, RemovalInv
  <2>4. OwnerInv'
    BY <1>9 DEF FailedWithoutGuard, ThreadInv, HoldInv, OwnerInv
  <2>5. JudgingInv'
    BY <1>9 DEF FailedWithoutGuard, ThreadInv, GuardInv, HoldInv, OwnerInv, JudgingInv
  <2>6. RemovalInv'
    BY <1>9 DEF FailedWithoutGuard, ThreadInv, GuardInv, HoldInv, OwnerInv, JudgingInv, RemovalInv
  <2>7. QED
    BY <2>1, <2>2, <2>3, <2>4, <2>5, <2>6
<1>10. ASSUME NEW t \in Tasks, FailedChecks(t) PROVE IInv'
  <2>1. ThreadInv'
    BY <1>10 DEF FailedChecks, ThreadInv
  <2>2. GuardInv'
    BY <1>10 DEF FailedChecks, ThreadInv, GuardInv
  <2>3. HoldInv'
    <3>1. CASE IsMine(t) /\ Step(t, "failedCheck", "failedRemove") /\ UNCHANGED marks
      BY <1>10, <3>1 DEF FailedChecks, HoldInv
    <3>2. CASE ~IsMine(t) /\ Step(t, "failedCheck", "unguardDone") /\ Forget(t)
      <4>1. /\ lock' = lock /\ pc' = [pc EXCEPT ![t] = "unguardDone"] /\ pc[t] = "failedCheck"
            /\ overran' = overran \ {t} /\ ousted' = ousted \ {t}
        BY <1>10, <3>2 DEF FailedChecks
      <4>2. \A u \in Tasks \ {t} : pc'[u] = pc[u]
        BY <4>1
      <4>3. pc'[t] = "unguardDone"
        BY <4>1
      <4>4. lock # NoLock => lock.by \in Tasks /\ lock.by # t
        BY <3>2
      <4>5. QED
        BY <4>1, <4>2, <4>3, <4>4 DEF HoldInv
    <3>3. QED
      BY <1>10, <3>1, <3>2 DEF FailedChecks
  <2>4. OwnerInv'
    BY <1>10 DEF FailedChecks, ThreadInv, HoldInv, OwnerInv
  <2>5. JudgingInv'
    BY <1>10 DEF FailedChecks, ThreadInv, GuardInv, HoldInv, OwnerInv, JudgingInv
  <2>6. RemovalInv'
    BY <1>10 DEF FailedChecks, ThreadInv, GuardInv, HoldInv, OwnerInv, JudgingInv, RemovalInv
  <2>7. QED
    BY <2>1, <2>2, <2>3, <2>4, <2>5, <2>6
<1>11. ASSUME NEW t \in Tasks, FailedRemoves(t) PROVE IInv'
  <2>1. ThreadInv'
    BY <1>11 DEF FailedRemoves, RemoveMisled, ThreadInv
  <2>2. GuardInv'
    BY <1>11 DEF FailedRemoves, RemoveMisled, ThreadInv, GuardInv
  <2>3. HoldInv'
    BY <1>11 DEF FailedRemoves, RemoveMisled, ThreadInv, GuardInv, HoldInv, JudgingInv, RemovalInv
  <2>4. OwnerInv'
    BY <1>11 DEF FailedRemoves, RemoveMisled, ThreadInv, HoldInv, OwnerInv
  <2>5. JudgingInv'
    BY <1>11 DEF FailedRemoves, RemoveMisled, ThreadInv, GuardInv, HoldInv, OwnerInv, JudgingInv
  <2>6. RemovalInv'
    BY <1>11 DEF FailedRemoves, RemoveMisled, ThreadInv, GuardInv, HoldInv, OwnerInv, JudgingInv, RemovalInv
  <2>7. QED
    BY <2>1, <2>2, <2>3, <2>4, <2>5, <2>6
<1>12. ASSUME NEW t \in Tasks, Retry(t) PROVE IInv'
  <2>1. ThreadInv'
    BY <1>12 DEF Retry, ThreadInv
  <2>2. GuardInv'
    BY <1>12 DEF Retry, ThreadInv, GuardInv
  <2>3. HoldInv'
    BY <1>12 DEF Retry, ThreadInv, GuardInv, HoldInv, JudgingInv, RemovalInv
  <2>4. OwnerInv'
    BY <1>12 DEF Retry, ThreadInv, HoldInv, OwnerInv
  <2>5. JudgingInv'
    BY <1>12 DEF Retry, ThreadInv, GuardInv, HoldInv, OwnerInv, JudgingInv
  <2>6. RemovalInv'
    BY <1>12 DEF Retry, ThreadInv, GuardInv, HoldInv, OwnerInv, JudgingInv, RemovalInv
  <2>7. QED
    BY <2>1, <2>2, <2>3, <2>4, <2>5, <2>6
<1>13. ASSUME NEW t \in Tasks, GiveUp(t) PROVE IInv'
  <2>1. ThreadInv'
    BY <1>13 DEF GiveUp, ThreadInv
  <2>2. GuardInv'
    BY <1>13 DEF GiveUp, ThreadInv, GuardInv
  <2>3. HoldInv'
    BY <1>13 DEF GiveUp, ThreadInv, GuardInv, HoldInv, JudgingInv, RemovalInv
  <2>4. OwnerInv'
    BY <1>13 DEF GiveUp, ThreadInv, HoldInv, OwnerInv
  <2>5. JudgingInv'
    BY <1>13 DEF GiveUp, ThreadInv, GuardInv, HoldInv, OwnerInv, JudgingInv
  <2>6. RemovalInv'
    BY <1>13 DEF GiveUp, ThreadInv, GuardInv, HoldInv, OwnerInv, JudgingInv, RemovalInv
  <2>7. QED
    BY <2>1, <2>2, <2>3, <2>4, <2>5, <2>6
<1>17. ASSUME NEW t \in Tasks, TakeGuard(t) PROVE IInv'
  <2>1. ThreadInv'
    BY <1>17 DEF TakeGuard, ThreadInv
  <2>2. GuardInv'
    BY <1>17 DEF TakeGuard, ThreadInv, GuardInv
  <2>3. HoldInv'
    BY <1>17 DEF TakeGuard, ThreadInv, GuardInv, HoldInv, JudgingInv, RemovalInv
  <2>4. OwnerInv'
    BY <1>17 DEF TakeGuard, ThreadInv, HoldInv, OwnerInv
  <2>5. JudgingInv'
    BY <1>17 DEF TakeGuard, ThreadInv, GuardInv, HoldInv, OwnerInv, JudgingInv
  <2>6. RemovalInv'
    BY <1>17 DEF TakeGuard, ThreadInv, GuardInv, HoldInv, OwnerInv, JudgingInv, RemovalInv
  <2>7. QED
    BY <2>1, <2>2, <2>3, <2>4, <2>5, <2>6
<1>18. ASSUME NEW t \in Tasks, MeetGuard(t) PROVE IInv'
  <2>1. ThreadInv'
    BY <1>18 DEF MeetGuard, ThreadInv
  <2>2. GuardInv'
    BY <1>18 DEF MeetGuard, ThreadInv, GuardInv
  <2>3. HoldInv'
    BY <1>18 DEF MeetGuard, ThreadInv, GuardInv, HoldInv, JudgingInv, RemovalInv
  <2>4. OwnerInv'
    BY <1>18 DEF MeetGuard, ThreadInv, HoldInv, OwnerInv
  <2>5. JudgingInv'
    BY <1>18 DEF MeetGuard, ThreadInv, GuardInv, HoldInv, OwnerInv, JudgingInv
  <2>6. RemovalInv'
    BY <1>18 DEF MeetGuard, ThreadInv, GuardInv, HoldInv, OwnerInv, JudgingInv, RemovalInv
  <2>7. QED
    BY <2>1, <2>2, <2>3, <2>4, <2>5, <2>6
<1>19. ASSUME NEW t \in Tasks, ClearGuard(t) PROVE IInv'
  <2>1. ThreadInv'
    BY <1>19 DEF ClearGuard, ThreadInv
  <2>2. GuardInv'
    BY <1>19 DEF ClearGuard, ThreadInv, GuardInv
  <2>3. HoldInv'
    BY <1>19 DEF ClearGuard, ThreadInv, GuardInv, HoldInv, JudgingInv, RemovalInv
  <2>4. OwnerInv'
    BY <1>19 DEF ClearGuard, ThreadInv, HoldInv, OwnerInv
  <2>5. JudgingInv'
    BY <1>19 DEF ClearGuard, ThreadInv, GuardInv, HoldInv, OwnerInv, JudgingInv
  <2>6. RemovalInv'
    BY <1>19 DEF ClearGuard, ThreadInv, GuardInv, HoldInv, OwnerInv, JudgingInv, RemovalInv
  <2>7. QED
    BY <2>1, <2>2, <2>3, <2>4, <2>5, <2>6
<1>20. ASSUME NEW t \in Tasks, RemoveAbandoned(t) PROVE IInv'
  <2>1. ThreadInv'
    BY <1>20 DEF RemoveAbandoned, RemoveMisled, ThreadInv
  <2>2. GuardInv'
    BY <1>20 DEF RemoveAbandoned, RemoveMisled, ThreadInv, GuardInv
  <2>3. HoldInv'
    BY <1>20 DEF RemoveAbandoned, RemoveMisled, ThreadInv, GuardInv, HoldInv, JudgingInv, RemovalInv
  <2>4. OwnerInv'
    BY <1>20 DEF RemoveAbandoned, RemoveMisled, ThreadInv, HoldInv, OwnerInv
  <2>5. JudgingInv'
    BY <1>20 DEF RemoveAbandoned, RemoveMisled, ThreadInv, GuardInv, HoldInv, OwnerInv, JudgingInv
  <2>6. RemovalInv'
    BY <1>20 DEF RemoveAbandoned, RemoveMisled, ThreadInv, GuardInv, HoldInv, OwnerInv, JudgingInv, RemovalInv
  <2>7. QED
    BY <2>1, <2>2, <2>3, <2>4, <2>5, <2>6
<1>21. ASSUME NEW t \in Tasks, Unguard(t) PROVE IInv'
  <2>1. ThreadInv'
    <3>1. \E to \in {"create", "waiting", "idle"} : pc' = [pc EXCEPT ![t] = to]
      BY <1>21 DEF Unguard
    <3>2. alive[PidOf[t]] /\ \A u \in Tasks \ {t} : PidOf[u] = PidOf[t] => pc[u] \in FreePC
      BY <1>21 DEF Unguard
    <3>3. QED
      BY <1>21, <3>1, <3>2 DEF Unguard, ThreadInv
  <2>2. GuardInv'
    BY <1>21 DEF Unguard, ThreadInv, GuardInv
  <2>3. HoldInv'
    BY <1>21 DEF Unguard, ThreadInv, GuardInv, HoldInv, JudgingInv, RemovalInv
  <2>4. OwnerInv'
    BY <1>21 DEF Unguard, ThreadInv, HoldInv, OwnerInv
  <2>5. JudgingInv'
    BY <1>21 DEF Unguard, ThreadInv, GuardInv, HoldInv, OwnerInv, JudgingInv
  <2>6. RemovalInv'
    BY <1>21 DEF Unguard, ThreadInv, GuardInv, HoldInv, OwnerInv, JudgingInv, RemovalInv
  <2>7. QED
    BY <2>1, <2>2, <2>3, <2>4, <2>5, <2>6
<1>22. ASSUME NEW t \in Tasks, FinishWork(t) PROVE IInv'
  <2>1. ThreadInv'
    BY <1>22 DEF FinishWork, ThreadInv
  <2>2. GuardInv'
    BY <1>22 DEF FinishWork, ThreadInv, GuardInv
  <2>3. HoldInv'
    BY <1>22 DEF FinishWork, ThreadInv, GuardInv, HoldInv, JudgingInv, RemovalInv
  <2>4. OwnerInv'
    BY <1>22 DEF FinishWork, ThreadInv, HoldInv, OwnerInv
  <2>5. JudgingInv'
    BY <1>22 DEF FinishWork, ThreadInv, GuardInv, HoldInv, OwnerInv, JudgingInv
  <2>6. RemovalInv'
    BY <1>22 DEF FinishWork, ThreadInv, GuardInv, HoldInv, OwnerInv, JudgingInv, RemovalInv
  <2>7. QED
    BY <2>1, <2>2, <2>3, <2>4, <2>5, <2>6
<1>23. ASSUME NEW t \in Tasks, ReleaseLooks(t), heldHere[PidOf[t]] # t PROVE IInv'
  <2>1. ThreadInv'
    BY <1>23 DEF ReleaseLooks, ThreadInv
  <2>2. GuardInv'
    BY <1>23 DEF ReleaseLooks, ThreadInv, GuardInv
  <2>3. HoldInv'
    BY <1>23 DEF ReleaseLooks, ThreadInv, GuardInv, HoldInv, JudgingInv, RemovalInv
  <2>4. OwnerInv'
    BY <1>23 DEF ReleaseLooks, ThreadInv, HoldInv, OwnerInv
  <2>5. JudgingInv'
    BY <1>23 DEF ReleaseLooks, ThreadInv, GuardInv, HoldInv, OwnerInv, JudgingInv
  <2>6. RemovalInv'
    BY <1>23 DEF ReleaseLooks, ThreadInv, GuardInv, HoldInv, OwnerInv, JudgingInv, RemovalInv
  <2>7. QED
    BY <2>1, <2>2, <2>3, <2>4, <2>5, <2>6
<1>24. ASSUME NEW t \in Tasks, ReleaseLooks(t), heldHere[PidOf[t]] = t PROVE IInv'
  <2>1. ThreadInv'
    <3>1. PICK to \in {"relCheck", "relGuard"} : Step(t, "release", to)
      BY <1>24 DEF ReleaseLooks
    <3>2. UNCHANGED alive
      BY <1>24 DEF ReleaseLooks
    <3>3. QED
      BY <3>1, <3>2 DEF ThreadInv
  <2>2. GuardInv'
    BY <1>24 DEF ReleaseLooks, ThreadInv, GuardInv
  <2>3. HoldInv'
    BY <1>24 DEF ReleaseLooks, ThreadInv, GuardInv, HoldInv, JudgingInv, RemovalInv
  <2>4. OwnerInv'
    BY <1>24 DEF ReleaseLooks, ThreadInv, HoldInv, OwnerInv
  <2>5. JudgingInv'
    BY <1>24 DEF ReleaseLooks, ThreadInv, GuardInv, HoldInv, OwnerInv, JudgingInv
  <2>6. RemovalInv'
    BY <1>24 DEF ReleaseLooks, ThreadInv, GuardInv, HoldInv, OwnerInv, JudgingInv, RemovalInv
  <2>7. QED
    BY <2>1, <2>2, <2>3, <2>4, <2>5, <2>6
<1>25. ASSUME NEW t \in Tasks, ReleaseTakesGuard(t) PROVE IInv'
  <2>1. ThreadInv'
    BY <1>25 DEF ReleaseTakesGuard, ThreadInv
  <2>2. GuardInv'
    BY <1>25 DEF ReleaseTakesGuard, ThreadInv, GuardInv
  <2>3. HoldInv'
    BY <1>25 DEF ReleaseTakesGuard, ThreadInv, GuardInv, HoldInv, JudgingInv, RemovalInv
  <2>4. OwnerInv'
    BY <1>25 DEF ReleaseTakesGuard, ThreadInv, HoldInv, OwnerInv
  <2>5. JudgingInv'
    BY <1>25 DEF ReleaseTakesGuard, ThreadInv, GuardInv, HoldInv, OwnerInv, JudgingInv
  <2>6. RemovalInv'
    BY <1>25 DEF ReleaseTakesGuard, ThreadInv, GuardInv, HoldInv, OwnerInv, JudgingInv, RemovalInv
  <2>7. QED
    BY <2>1, <2>2, <2>3, <2>4, <2>5, <2>6
<1>26. ASSUME NEW t \in Tasks, ReleaseWithoutGuard(t) PROVE IInv'
  <2>1. ThreadInv'
    BY <1>26 DEF ReleaseWithoutGuard, ThreadInv
  <2>2. GuardInv'
    BY <1>26 DEF ReleaseWithoutGuard, ThreadInv, GuardInv
  <2>3. HoldInv'
    BY <1>26 DEF ReleaseWithoutGuard, ThreadInv, GuardInv, HoldInv, JudgingInv, RemovalInv
  <2>4. OwnerInv'
    BY <1>26 DEF ReleaseWithoutGuard, ThreadInv, HoldInv, OwnerInv
  <2>5. JudgingInv'
    BY <1>26 DEF ReleaseWithoutGuard, ThreadInv, GuardInv, HoldInv, OwnerInv, JudgingInv
  <2>6. RemovalInv'
    BY <1>26 DEF ReleaseWithoutGuard, ThreadInv, GuardInv, HoldInv, OwnerInv, JudgingInv, RemovalInv
  <2>7. QED
    BY <2>1, <2>2, <2>3, <2>4, <2>5, <2>6
<1>27. ASSUME NEW t \in Tasks, ReleaseChecks(t) PROVE IInv'
  <2>1. ThreadInv'
    <3>1. \E to \in {"relRemove", "unguardDone", "idle"} : pc' = [pc EXCEPT ![t] = to]
      BY <1>27 DEF ReleaseChecks, Leaves
    <3>2. alive[PidOf[t]] /\ \A u \in Tasks \ {t} : PidOf[u] = PidOf[t] => pc[u] \in FreePC
      BY <1>27 DEF ReleaseChecks, Leaves
    <3>3. QED
      BY <1>27, <3>1, <3>2 DEF ReleaseChecks, ThreadInv
  <2>2. GuardInv'
    BY <1>27 DEF ReleaseChecks, Leaves, ThreadInv, GuardInv
  <2>3. HoldInv'
    BY <1>27 DEF ReleaseChecks, Leaves, ThreadInv, GuardInv, HoldInv, JudgingInv, RemovalInv
  <2>4. OwnerInv'
    BY <1>27 DEF ReleaseChecks, Leaves, ThreadInv, HoldInv, OwnerInv
  <2>5. JudgingInv'
    BY <1>27 DEF ReleaseChecks, Leaves, ThreadInv, GuardInv, HoldInv, OwnerInv, JudgingInv
  <2>6. RemovalInv'
    BY <1>27 DEF ReleaseChecks, Leaves, ThreadInv, GuardInv, HoldInv, OwnerInv, JudgingInv, RemovalInv
  <2>7. QED
    BY <2>1, <2>2, <2>3, <2>4, <2>5, <2>6
<1>28. ASSUME NEW t \in Tasks, ReleaseRemoves(t) PROVE IInv'
  <2>1. ThreadInv'
    BY <1>28 DEF ReleaseRemoves, RemoveMisled, Leaves, ThreadInv
  <2>2. GuardInv'
    BY <1>28 DEF ReleaseRemoves, RemoveMisled, Leaves, ThreadInv, GuardInv
  <2>3. HoldInv'
    BY <1>28 DEF ReleaseRemoves, RemoveMisled, Leaves, ThreadInv, GuardInv, HoldInv, JudgingInv, RemovalInv
  <2>4. OwnerInv'
    BY <1>28 DEF ReleaseRemoves, RemoveMisled, Leaves, ThreadInv, HoldInv, OwnerInv
  <2>5. JudgingInv'
    BY <1>28 DEF ReleaseRemoves, RemoveMisled, Leaves, ThreadInv, GuardInv, HoldInv, OwnerInv, JudgingInv
  <2>6. RemovalInv'
    BY <1>28 DEF ReleaseRemoves, RemoveMisled, Leaves, ThreadInv, GuardInv, HoldInv, OwnerInv, JudgingInv, RemovalInv
  <2>7. QED
    BY <2>1, <2>2, <2>3, <2>4, <2>5, <2>6
<1>29. CASE LockAges
  <2>1. ThreadInv'
    BY <1>29 DEF LockAges, ThreadInv
  <2>2. GuardInv'
    BY <1>29 DEF LockAges, ThreadInv, GuardInv
  <2>3. HoldInv'
    BY <1>29 DEF LockAges, ThreadInv, GuardInv, HoldInv, JudgingInv, RemovalInv
  <2>4. OwnerInv'
    BY <1>29 DEF LockAges, ThreadInv, HoldInv, OwnerInv
  <2>5. JudgingInv'
    BY <1>29 DEF LockAges, ThreadInv, GuardInv, HoldInv, OwnerInv, JudgingInv
  <2>6. RemovalInv'
    BY <1>29 DEF LockAges, ThreadInv, GuardInv, HoldInv, OwnerInv, JudgingInv, RemovalInv
  <2>7. QED
    BY <2>1, <2>2, <2>3, <2>4, <2>5, <2>6
<1>30. CASE GuardAges
  <2>1. ThreadInv'
    BY <1>30 DEF GuardAges, ThreadInv
  <2>2. GuardInv'
    BY <1>30 DEF GuardAges, ThreadInv, GuardInv
  <2>3. HoldInv'
    BY <1>30 DEF GuardAges, ThreadInv, GuardInv, HoldInv, JudgingInv, RemovalInv
  <2>4. OwnerInv'
    BY <1>30 DEF GuardAges, ThreadInv, HoldInv, OwnerInv
  <2>5. JudgingInv'
    BY <1>30 DEF GuardAges, ThreadInv, GuardInv, HoldInv, OwnerInv, JudgingInv
  <2>6. RemovalInv'
    BY <1>30 DEF GuardAges, ThreadInv, GuardInv, HoldInv, OwnerInv, JudgingInv, RemovalInv
  <2>7. QED
    BY <2>1, <2>2, <2>3, <2>4, <2>5, <2>6
<1>31. ASSUME NEW p \in Pids, Die(p) PROVE IInv'
  <2>1. ThreadInv'
    BY <1>31 DEF Die, ThreadInv
  <2>2. GuardInv'
    BY <1>31 DEF Die, ThreadInv, GuardInv
  <2>3. HoldInv'
    BY <1>31 DEF Die, ThreadInv, GuardInv, HoldInv, JudgingInv, RemovalInv
  <2>4. OwnerInv'
    BY <1>31 DEF Die, ThreadInv, HoldInv, OwnerInv
  <2>5. JudgingInv'
    BY <1>31 DEF Die, ThreadInv, GuardInv, HoldInv, OwnerInv, JudgingInv
  <2>6. RemovalInv'
    BY <1>31 DEF Die, ThreadInv, GuardInv, HoldInv, OwnerInv, JudgingInv, RemovalInv
  <2>7. QED
    BY <2>1, <2>2, <2>3, <2>4, <2>5, <2>6
<1>32. ASSUME NEW p \in Pids, PidReused(p) PROVE IInv'
  <2>1. ThreadInv'
    BY <1>32 DEF PidReused, ThreadInv
  <2>2. GuardInv'
    BY <1>32 DEF PidReused, ThreadInv, GuardInv
  <2>3. HoldInv'
    BY <1>32 DEF PidReused, ThreadInv, GuardInv, HoldInv, JudgingInv, RemovalInv
  <2>4. OwnerInv'
    BY <1>32 DEF PidReused, ThreadInv, HoldInv, OwnerInv
  <2>5. JudgingInv'
    BY <1>32 DEF PidReused, ThreadInv, GuardInv, HoldInv, OwnerInv, JudgingInv
  <2>6. RemovalInv'
    BY <1>32 DEF PidReused, ThreadInv, GuardInv, HoldInv, OwnerInv, JudgingInv, RemovalInv
  <2>7. QED
    BY <2>1, <2>2, <2>3, <2>4, <2>5, <2>6
<1>33. CASE UNCHANGED vars
  <2>1. ThreadInv' /\ GuardInv'
    BY <1>33 DEF vars, ThreadInv, GuardInv
  <2>2. HoldInv'
    BY <1>33 DEF vars, HoldInv
  <2>3. OwnerInv'
    BY <1>33 DEF vars, OwnerInv
  <2>4. JudgingInv'
    BY <1>33 DEF vars, JudgingInv
  <2>5. RemovalInv'
    BY <1>33 DEF vars, RemovalInv
  <2>6. QED
    BY <2>1, <2>2, <2>3, <2>4, <2>5
<1>34. QED
  BY <1>1, <1>2, <1>3, <1>4, <1>5, <1>6, <1>7, <1>8, <1>9, <1>10, <1>11, <1>12, <1>13, <1>14,
     <1>15, <1>16, <1>17, <1>18, <1>19, <1>20, <1>21, <1>22, <1>23, <1>24, <1>25, <1>26,
     <1>27, <1>28, <1>29, <1>30, <1>31, <1>32, <1>33
  DEF Next, Progress, Outside

THEOREM Invariant ==
    ASSUME ~MayDieInGuard, ~MayStall
    PROVE  Spec => []IInv
  BY InvariantInit, InvariantStep, PTL DEF Spec

-----------------------------------------------------------------------------
(* What follows from it *)

\* The lock excludes, for any number of tasks and processes.
THEOREM Exclusion ==
    ASSUME ~MayDieInGuard, ~MayStall
    PROVE  Spec => []Inv
<1>1. IInv => Inv
  BY DEF Inv, IInv, HoldInv, MutualExclusion, Holding, Using, IsMine
<1>2. QED
  BY <1>1, Invariant, PTL

\* A release or a failed create only ever removes the lock its own acquisition
\* made, unless that one was taken from it.
THEOREM ReleasesOwn ==
    ASSUME ~MayDieInGuard, ~MayStall
    PROVE  Spec => ReleaseRemovesOnlyOwn
<1>1. IInv /\ [Next]_vars =>
        [\A t \in Tasks :
            pc[t] \in {"relRemove", "failedRemove"} /\ lock # NoLock /\ lock' = NoLock
                => lock.by = t \/ t \in ousted]_vars
  BY DEF IInv, HoldInv, RemovalInv, IsMine, ReleasePC
<1>2. QED
  BY <1>1, Invariant, PTL DEF Spec, ReleaseRemovesOnlyOwn

\* A takeover only ever removes a lock that is over or overdue, unless it missed
\* a release while it judged.
THEOREM TakeoversSpare ==
    ASSUME ~MayDieInGuard, ~MayStall
    PROVE  Spec => TakeoverSparesLiveHolders
<1>1. IInv /\ [Next]_vars =>
        [\A t \in Tasks :
            pc[t] = "remove" /\ lock # NoLock /\ lock' = NoLock
                => ~Using(lock.by) \/ lock.by \in overran \/ t \in missed]_vars
  BY DEF IInv, JudgingInv, Over
<1>2. QED
  BY <1>1, Invariant, PTL DEF Spec, TakeoverSparesLiveHolders

\* Whatever is removed may be, but for that.
THEOREM RemovesRightfully ==
    ASSUME ~MayDieInGuard, ~MayStall
    PROVE  Spec => RemovalsAreRightful
  BY ReleasesOwn, TakeoversSpare DEF RemovalsAreRightful

-----------------------------------------------------------------------------
(* The refinement *)

LEMMA PromiseInit == Init => Promise!Init
  BY DEF Init, Promise!Init, Working, Holding

\* Acquiring is the write of the pid, letting go is the end of the work or the
\* death of the process, a hold lapses by the age of the file or by its removal;
\* every other step is invisible.
LEMMA PromiseStep ==
    IInv /\ [Next]_vars => [Promise!Next]_(Promise!vars)
<1> SUFFICES ASSUME IInv, [Next]_vars
             PROVE  [Promise!Next]_(Promise!vars)
  OBVIOUS
<1> DEFINE barred == (overran \cup ousted) \cap Working
<1> USE OwnedLockAssumption DEF IInv, TypeOK
<1>1. ASSUME NEW t \in Tasks, WritePid(t)
      PROVE  Promise!Acquire(t)
  <2>1. t \notin Working /\ Working' = Working \cup {t}
    BY <1>1 DEF WritePid, Step, Working, Holding
  <2>2. \A u \in Working : u \in overran \cup ousted
    BY <1>1, <2>1 DEF WritePid, IsMine, HoldInv, Using, Working, Holding
  <2>3. overran' = overran /\ ousted' = ousted
    BY <1>1 DEF WritePid, marks
  <2>4. barred' \in {barred, barred \cup {t}}
    BY <2>1, <2>3
  <2>5. QED
    BY <2>1, <2>2, <2>4 DEF Promise!Acquire
<1>2. ASSUME NEW t \in Tasks, FinishWork(t)
      PROVE  Promise!LetGo({t})
  <2>1. Working' = Working \ {t} /\ overran' = overran /\ ousted' = ousted
    BY <1>2 DEF FinishWork, Step, Working, Holding, marks
  <2>2. QED
    BY <2>1 DEF Promise!LetGo
<1>3. ASSUME UNCHANGED Working,
             \/ barred' = barred
             \/ \E u \in Tasks : barred' = barred \cup ({u} \cap Working)
      PROVE  (\E u \in Tasks : Promise!Lapse(u)) \/ UNCHANGED Promise!vars
  <2>1. CASE barred' = barred
    BY <1>3, <2>1 DEF Promise!vars
  <2>2. ASSUME NEW u \in Tasks, barred' = barred \cup ({u} \cap Working)
        PROVE  Promise!Lapse(u) \/ UNCHANGED Promise!vars
    <3>1. CASE u \in Working
      BY <1>3, <2>2, <3>1 DEF Promise!Lapse
    <3>2. CASE u \notin Working
      BY <1>3, <2>2, <3>2 DEF Promise!vars
    <3>3. QED
      BY <3>1, <3>2
  <2>3. QED
    BY <1>3, <2>1, <2>2
<1>4. ASSUME LockAges
      PROVE  UNCHANGED Working /\ \E u \in Tasks : barred' = barred \cup ({u} \cap Working)
                                                  \/ barred' = barred
  <2>1. Working' = Working /\ ousted' = ousted /\ lock.by \in Tasks
    BY <1>4 DEF LockAges, Working, Holding, LockFile
  <2>2. overran' = overran \/ overran' = overran \cup {lock.by}
    BY <1>4 DEF LockAges
  <2>3. QED
    BY <2>1, <2>2
<1>5. ASSUME NEW p \in Pids, Die(p)
      PROVE  Promise!LetGo({t \in Tasks : PidOf[t] = p})
  <2> DEFINE lost == {t \in Tasks : PidOf[t] = p}
  <2>1. Working' = Working \ lost /\ overran' = overran \ lost /\ ousted' = ousted \ lost
    BY <1>5 DEF Die, Working, Holding
  <2>2. barred' = barred \ lost
    BY <2>1
  <2>3. QED
    BY <2>1, <2>2 DEF Promise!LetGo
<1>6. ASSUME NEW t \in Tasks,
             RemoveAbandoned(t) \/ FailedRemoves(t) \/ ReleaseRemoves(t)
      PROVE  UNCHANGED Working /\ \E u \in Tasks : barred' = barred \cup ({u} \cap Working)
                                                  \/ barred' = barred
  <2>1. UNCHANGED Working /\ t \notin Working
    BY <1>6 DEF RemoveAbandoned, FailedRemoves, ReleaseRemoves, Leaves, Step, Working, Holding
  <2>2. overran' \cup {t} = overran \cup {t}
    BY <1>6 DEF RemoveAbandoned, FailedRemoves, ReleaseRemoves
  <2>3. PICK misled \in BOOLEAN : RemoveMisled(t, misled)
    <3>1. (t \in missed) \in BOOLEAN /\ (t \in ousted) \in BOOLEAN
      OBVIOUS
    <3>2. RemoveMisled(t, t \in missed) \/ RemoveMisled(t, t \in ousted)
      BY <1>6 DEF RemoveAbandoned, FailedRemoves, ReleaseRemoves
    <3>3. QED
      BY <3>1, <3>2
  <2>4. CASE misled /\ lock # NoLock /\ lock.by # t /\ (Using(lock.by) \/ pc[lock.by] = "failedRemove")
    <3>1. lock.by \in Tasks
      BY <2>4 DEF LockFile
    <3>2. ousted' \cup {t} = ousted \cup {lock.by} \cup {t}
      BY <2>3, <2>4, <3>1 DEF RemoveMisled, IsMine
    <3>3. QED
      BY <2>1, <2>2, <3>1, <3>2
  <2>5. CASE ~(misled /\ lock # NoLock /\ lock.by # t /\ (Using(lock.by) \/ pc[lock.by] = "failedRemove"))
    <3>1. ousted' \cup {t} = ousted \cup {t}
      BY <2>3, <2>5 DEF RemoveMisled, IsMine
    <3>2. QED
      BY <2>1, <2>2, <3>1
  <2>6. QED
    BY <2>4, <2>5
<1>7. ASSUME NEW t \in Tasks, t \notin Working, Forget(t)
      PROVE  UNCHANGED Working => barred' = barred
  BY <1>7 DEF Forget
<1>8. ASSUME UNCHANGED <<overran, ousted>>, UNCHANGED Working
      PROVE  barred' = barred
  BY <1>8
<1>9. ASSUME NEW t \in Tasks,
             \/ Begin(t) \/ CreateRefused(t) \/ WriteComesUpShort(t) \/ CreateOpens(t)
             \/ CreateMeetsLock(t) \/ WritePidLost(t) \/ FailedTakesGuard(t)
             \/ Retry(t) \/ Looks(t) \/ Reads(t) \/ Probes(t) \/ TakeGuard(t)
             \/ MeetGuard(t) \/ ClearGuard(t) \/ Unguard(t)
             \/ ReleaseTakesGuard(t)
      PROVE  UNCHANGED <<overran, ousted>> /\ UNCHANGED Working
  BY <1>9 DEF Begin, CreateRefused, WriteComesUpShort, CreateOpens, CreateMeetsLock,
     WritePidLost, FailedTakesGuard, Retry, Looks, Reads, Probes, Concludes, TakeGuard,
     MeetGuard, ClearGuard, Unguard, ReleaseTakesGuard, Step, Working, Holding, marks
<1>10. ASSUME NEW t \in Tasks,
              \/ FailedWithoutGuard(t) \/ FailedChecks(t) \/ GiveUp(t)
              \/ ReleaseLooks(t) \/ ReleaseWithoutGuard(t) \/ ReleaseChecks(t)
      PROVE  /\ t \notin Working /\ UNCHANGED Working
             /\ Forget(t) \/ UNCHANGED <<overran, ousted>>
  BY <1>10 DEF FailedWithoutGuard, FailedChecks, GiveUp, ReleaseLooks,
     ReleaseWithoutGuard, ReleaseChecks, Leaves, Step, Working, Holding, marks
<1>11. ASSUME GuardAges \/ (\E p \in Pids : PidReused(p)) \/ UNCHANGED vars
      PROVE  UNCHANGED <<overran, ousted>> /\ UNCHANGED Working
  BY <1>11 DEF GuardAges, PidReused, vars, Working, Holding, marks
<1> HIDE DEF barred
<1>12. QED
  BY <1>1, <1>2, <1>3, <1>4, <1>5, <1>6, <1>7, <1>8, <1>9, <1>10, <1>11
  DEF Next, Progress, Outside, Promise!Next

\* The lock implements HoldOnce.
THEOREM Refinement ==
    ASSUME ~MayDieInGuard, ~MayStall
    PROVE  Spec => KeepsPromise
  BY PromiseInit, PromiseStep, Invariant, PTL DEF Spec, KeepsPromise, Promise!Spec

-----------------------------------------------------------------------------
(* Claude's directory lock *)

\* The directories made are numbered from one, each by its maker; nobody's
\* last one is another's.
NumberInv ==
    /\ Dir!Made = 1..Cardinality(Dir!Made)
    /\ dir # 0 => dir \in Dir!Made
    /\ old \subseteq Dir!Made
    /\ \A p \in Procs : judged[p] # 0 => judged[p] \in Dir!Made
    /\ \A p \in Procs : mine[p] # 0 => mine[p] \in Dir!Made /\ madeBy[mine[p]] = p

\* A holder that was neither held up nor robbed has its directory there, and
\* nobody has judged that one old.
HolderInv ==
    \A p \in Procs : dirPc[p] = "holding" /\ p \notin robbed =>
        /\ mine[p] # 0 /\ dir = mine[p] /\ mine[p] \notin old
        /\ \A q \in Procs : judged[q] # mine[p]

DInv == Dir!TypeOK /\ NumberInv /\ HolderInv

LEMMA DirLockInit == Dir!Init => DInv
<1> SUFFICES ASSUME Dir!Init PROVE DInv
  OBVIOUS
<1>1. Dir!Made = {} /\ Cardinality({}) = 0
  BY FS_EmptySet DEF Dir!Init, Dir!Made
<1>2. QED
  BY <1>1, DirLockAssumption
  DEF Dir!Init, Dir!TypeOK, Dir!PC, DInv, NumberInv, HolderInv

LEMMA NumberOfMade ==
    ASSUME DInv
    PROVE  /\ Cardinality(Dir!Made) \in Nat /\ Dir!NextNumber = Cardinality(Dir!Made) + 1
           /\ Dir!NextNumber \notin Dir!Made /\ Dir!NextNumber # 0
           /\ Dir!NextNumber \in Nat
<1>1. Dir!Made \subseteq 1..MaxMade
  BY DEF Dir!Made
<1>2. IsFiniteSet(1..MaxMade)
  BY FS_Interval, DirLockAssumption
<1>3. Cardinality(Dir!Made) \in Nat
  BY <1>1, <1>2, FS_Subset, FS_CardinalityType
<1>4. Dir!Made = 1..Cardinality(Dir!Made)
  BY DEF DInv, NumberInv
<1> DEFINE k == Cardinality(Dir!Made)
<1>5. k \in Nat /\ Dir!Made = 1..k /\ Dir!NextNumber = k + 1
  BY <1>3, <1>4 DEF Dir!NextNumber, Dir!Cardinality, Cardinality, Dir!IsFiniteSet, IsFiniteSet
<1> HIDE DEF k
<1>6. k + 1 \notin 1..k
  BY <1>5
<1>7. QED
  BY <1>3, <1>5, <1>6 DEF k

LEMMA DirLockMakes ==
    ASSUME DInv, NEW p \in Procs, Dir!MakesDir(p)
    PROVE  DInv'
<1> DEFINE k == Dir!NextNumber
<1>1. /\ k \in 1..MaxMade /\ k \notin Dir!Made /\ k # 0
      /\ k - 1 \in Nat /\ Dir!Made = 1..(k - 1)
  <2>1. Dir!NextNumber <= MaxMade
    BY DEF Dir!MakesDir
  <2> DEFINE j == Cardinality(Dir!Made)
  <2>2. j \in Nat /\ k = j + 1 /\ Dir!Made = 1..j /\ k \notin Dir!Made
    BY NumberOfMade DEF DInv, NumberInv
  <2> HIDE DEF j, k
  <2>3. k \in Nat /\ k # 0 /\ k - 1 = j
    BY <2>2
  <2>4. k <= MaxMade
    BY <2>1 DEF k
  <2>5. QED
    BY <2>2, <2>3, <2>4, DirLockAssumption
<1>2. /\ dir = 0 /\ dir' = k /\ madeBy' = [madeBy EXCEPT ![k] = p]
      /\ mine' = [mine EXCEPT ![p] = k] /\ robbed' = robbed \ {p}
      /\ dirPc' = [dirPc EXCEPT ![p] = "holding"]
      /\ UNCHANGED <<old, judged, paused>>
  BY DEF Dir!MakesDir, Dir!Goes
<1> HIDE DEF k
<1>3. Dir!TypeOK'
  BY <1>1, <1>2 DEF DInv, Dir!TypeOK, Dir!PC
<1>4. Dir!Made' = Dir!Made \cup {k} /\ madeBy'[k] = p
  BY <1>1, <1>2, DirLockAssumption DEF DInv, Dir!TypeOK, Dir!Made
<1>5. Dir!Made' = 1..k /\ Cardinality(Dir!Made') = k
  <2>1. 1..k = 1..(k - 1) \cup {k}
    BY <1>1
  <2>2. Dir!Made' = 1..k
    BY <1>1, <1>4, <2>1
  <2>3. Cardinality(1..k) = k
    BY <1>1, FS_Interval
  <2>4. QED
    BY <2>2, <2>3
<1>6. NumberInv'
  <2>1. \A q \in Procs : mine'[q] # 0 => mine'[q] \in Dir!Made' /\ madeBy'[mine'[q]] = q
    BY <1>1, <1>2, <1>4 DEF DInv, NumberInv, Dir!TypeOK
  <2>2. QED
    BY <1>1, <1>2, <1>4, <1>5, <2>1 DEF DInv, NumberInv
<1>7. HolderInv'
  BY <1>1, <1>2, SMTT(30) DEF DInv, NumberInv, HolderInv, Dir!TypeOK
<1>8. QED
  BY <1>3, <1>6, <1>7 DEF DInv

\* A directory goes: the one who loses it then counts as robbed.
LEMMA DirLockGoes ==
    ASSUME DInv, NEW p \in Procs, Dir!RemovesOld(p) \/ Dir!Releases(p)
    PROVE  DInv'
<1>1. /\ dir' = 0
      /\ \/ dirPc' = [dirPc EXCEPT ![p] = "trying"] /\ dirPc[p] = "removing"
            /\ robbed' = robbed \cup Dir!Robbed(judged[p])
            /\ judged' = [judged EXCEPT ![p] = 0]
         \/ dirPc' = [dirPc EXCEPT ![p] = "idle"] /\ dirPc[p] = "holding"
            /\ robbed' = robbed \cup Dir!Robbed(mine[p]) /\ judged' = judged
      /\ UNCHANGED <<madeBy, old, mine, paused>>
  BY DEF Dir!RemovesOld, Dir!Releases, Dir!Goes
<1>2. dir # 0 => madeBy[dir] \in Procs
  BY DEF DInv, NumberInv, Dir!TypeOK, Dir!Made
<1>3. Dir!TypeOK'
  <2>1. \A i \in 0..MaxMade : Dir!Robbed(i) \subseteq Procs
    BY <1>2 DEF Dir!Robbed
  <2>2. robbed' \subseteq Procs
    BY <1>1, <2>1 DEF DInv, Dir!TypeOK
  <2>3. dirPc' \in [Procs -> Dir!PC]
    BY <1>1 DEF DInv, Dir!TypeOK, Dir!PC
  <2>4. judged' \in [Procs -> 0..MaxMade] /\ dir' \in 0..MaxMade
    BY <1>1, DirLockAssumption DEF DInv, Dir!TypeOK
  <2>5. QED
    BY <1>1, <2>2, <2>3, <2>4 DEF DInv, Dir!TypeOK
<1>4. Dir!Made' = Dir!Made /\ Cardinality(Dir!Made)' = Cardinality(Dir!Made)
  BY <1>1 DEF Dir!Made
<1>5. NumberInv'
  BY <1>1, <1>4 DEF DInv, NumberInv, Dir!TypeOK
<1>6. HolderInv'
  <2>1. \A q \in Procs : dirPc'[q] = "holding" /\ q \notin robbed' => FALSE
    BY <1>1 DEF DInv, NumberInv, HolderInv, Dir!TypeOK, Dir!Robbed
  <2>2. QED
    BY <2>1 DEF HolderInv
<1>7. QED
  BY <1>3, <1>5, <1>6 DEF DInv

LEMMA DirLockStep == DInv /\ [Dir!Next]_(Dir!vars) => DInv'
<1> SUFFICES ASSUME DInv, [Dir!Next]_(Dir!vars) PROVE DInv'
  OBVIOUS
<1> USE DEF DInv, NumberInv, HolderInv, Dir!TypeOK, Dir!PC, Dir!Made, Dir!Goes, Dir!Runs
<1>1. ASSUME NEW p \in Procs,
             Dir!Tries(p) \/ Dir!GoesWithout(p) \/ Dir!EndsWithout(p) \/ Dir!Pauses(p)
               \/ Dir!Resumes(p) \/ Dir!Dies(p)
      PROVE  DInv'
  <2>1. /\ UNCHANGED <<dir, madeBy, old, mine, judged, robbed>>
        /\ dirPc' \in [Procs -> Dir!PC] /\ paused' \in [Procs -> {"never", "now", "past"}]
        /\ \A q \in Procs : dirPc'[q] = "holding" => dirPc[q] = "holding"
    BY <1>1, ZenonT(40)
    DEF Dir!Tries, Dir!GoesWithout, Dir!EndsWithout, Dir!Pauses, Dir!Resumes, Dir!Dies
  <2>2. Dir!TypeOK' /\ NumberInv'
    BY <2>1, ZenonT(40)
  <2>3. HolderInv'
    BY <2>1
  <2>4. QED
    BY <2>2, <2>3
<1>2. ASSUME NEW p \in Procs, Dir!FindsOld(p)
      PROVE  DInv'
  BY <1>2 DEF Dir!FindsOld
<1>3. ASSUME NEW p \in Procs, Dir!Touches(p)
      PROVE  DInv'
  BY <1>3 DEF Dir!Touches
<1>4. CASE Dir!GrowsOld
  <2>1. dir \in Dir!Made /\ madeBy[dir] \in Procs
    BY <1>4, DirLockAssumption DEF Dir!GrowsOld
  <2>2. Dir!TypeOK'
    BY <1>4, <2>1 DEF Dir!GrowsOld
  <2>3. NumberInv'
    BY <1>4, <2>1, SMTT(30) DEF Dir!GrowsOld
  <2>4. HolderInv'
    BY <1>4, <2>1 DEF Dir!GrowsOld
  <2>5. QED
    BY <2>2, <2>3, <2>4
<1>5. CASE UNCHANGED Dir!vars
  BY <1>5 DEF Dir!vars
<1>6. QED
  BY <1>1, <1>2, <1>3, <1>4, <1>5, DirLockMakes, DirLockGoes DEF Dir!Next

\* Two hold Claude's directory lock only where one of them was held up past a
\* touch, or had its directory removed for another's (locks.ts, lockDirTries).
THEOREM DirectoryLock == Dir!Spec => []DirInv
<1>1. DInv => DirInv
  <2> SUFFICES ASSUME DInv, NEW p \in Procs, NEW q \in Procs,
                      dirPc[p] = "holding", dirPc[q] = "holding", p # q
               PROVE  robbed \cap {p, q} # {}
    BY DEF DInv, DirInv, Dir!Inv, Dir!HeldOnce
  <2>1. QED
    BY DEF DInv, NumberInv, HolderInv
<1>2. QED
  BY <1>1, DirLockInit, DirLockStep, PTL DEF Dir!Spec

-----------------------------------------------------------------------------
(* DesktopHandoff: what its windows, its messages and its file of handovers *)
(* are, of one conversation at a time.                                     *)

\* Why a window, or a message, may go astray: what `gaps` and `lost` hold.
Why == {"again", "overlap", "writtenOver", "unwritten", "killed"}
How == {"overwritten", "unopened", "gaveUp"}

\* What a process at each step is, and has in hand.
Sensible(x) ==
    /\ x.at = "free" => x = Handoff!Free
    /\ x.at # "free" => x.conv \in Conversations
    /\ x.at \in {"looks", "writesJob", "records", "starts"} => x.kind \in {"prompt", "limit"}
    /\ x.at = "reads" => x.kind = "job"
    /\ x.at \in {"forgets", "forgetting"} => x.kind \in {"prompt", "limit", "job"}
    /\ x.at \in {"opens", "recordsOpened"} => x.kind \in {"job", "move", "again", "swap"}
    /\ x.carries => x.kind \in {"prompt", "job"}
    /\ x.kind = "prompt" => x.carries
    /\ x.at \in {"records", "recordsOpened", "forgetting"} => x.seen # None
    /\ \/ x.at \in {"records", "starts", "recordsOpened", "forgets", "forgetting"}
       \/ x.at = "opens" /\ x.kind = "job"
       => x.stamp # None
Process == [at : Handoff!Steps, kind : Handoff!Kinds, conv : Conversations \cup {None},
            seen : Handoff!Records \cup {None}, stamp : Handoff!Stamps \cup {None},
            carries : BOOLEAN, begun : Nat \cup {None}]
Proc == {x \in Process : Sensible(x)}
Jobs == [stamp : Handoff!Stamps, carries : BOOLEAN]

FileTypes ==
    /\ deskNow \in 0..DeskTime /\ deskRecord \in Handoff!Records
    /\ job \in [Conversations -> Jobs \cup {None}]
    /\ launch \in [Conversations -> BOOLEAN \cup {None}]
DeskTypes ==
    /\ deskClaude \in [Conversations -> {"idle", "prompt", "busy", "failed", "gone"}]
    /\ message \in [Conversations -> {"none", "typed", "sent", "held", "carried"}]
    /\ turns \in [Conversations -> Nat] /\ (\A c \in Conversations : turns[c] <= MaxTurns[c])
    /\ hands \in 0..MaxHands
ProcTypes == procs \in [Handoff!Slots -> Proc]
WindowTypes ==
    /\ deskWindows \in [Conversations -> SUBSET Handoff!Windows] /\ begun \in [Conversations -> Nat]
    /\ \A c \in Conversations : \A w \in deskWindows[c] : w.at <= deskNow
HistoryTypes == gaps \in [Conversations -> SUBSET Why] /\ deskLost \in [Conversations -> SUBSET How]
HandoffTypes == FileTypes /\ DeskTypes /\ ProcTypes /\ WindowTypes /\ HistoryTypes

IsHook(p) == procs[p].kind \in {"prompt", "limit"}

\* The stamps of the handovers that are under way are of this moment.
StampInv(c) ==
    \A p \in Handoff!Slots : procs[p].conv = c =>
        /\ \/ procs[p].at \in {"records", "starts", "recordsOpened", "forgets", "forgetting"}
           \/ procs[p].at = "opens" /\ procs[p].kind = "job"
           => procs[p].stamp.time = deskNow
        /\ procs[p].at \in {"records", "starts", "reads"} /\ job[c] # None =>
              job[c].stamp.time = deskNow

\* A hook runs while Claude waits for it, one of a conversation at a time.
HookInv(c) ==
    /\ \A p \in Handoff!Slots : procs[p].conv = c =>
          /\ procs[p].kind = "prompt" => deskClaude[c] = "prompt"
          /\ procs[p].kind = "limit" => deskClaude[c] = "failed"
    /\ \A p, q \in Handoff!Slots :
          procs[p].conv = c /\ procs[q].conv = c /\ IsHook(p) /\ IsHook(q) => p = q

Handing(p, c) ==
    procs[p].conv = c /\ ((IsHook(p) /\ procs[p].at # "looks") \/ procs[p].kind = "job")

Clean(c) == gaps[c] \cap {"overlap", "writtenOver", "unwritten"} = {}
Opened(c) == Clean(c) /\ "again" \notin gaps[c]

\* One handover of a conversation is under way at a time; it is marked, and its
\* job is the one written down.
OneInv(c) == Clean(c) => \A p, q \in Handoff!Slots : Handing(p, c) /\ Handing(q, c) => p = q
MarkInv(c) ==
    Clean(c) => \A p \in Handoff!Slots :
        Handing(p, c) /\ procs[p].at \notin {"writesJob", "records"} =>
          deskRecord[c] # None /\ deskRecord[c].time = deskNow
JobInv(c) ==
    Clean(c) => \A p \in Handoff!Slots :
        Handing(p, c) /\ procs[p].at \in {"records", "starts"} =>
          job[c] # None /\ job[c].stamp = procs[p].stamp

\* Process p will open a window for what is marked, or take the mark back.
Answers(p, c) ==
    /\ Handing(p, c)
    /\ \/ procs[p].at \in {"starts", "opens", "forgets"} /\ procs[p].stamp = deskRecord[c]
       \/ procs[p].at = "forgetting" /\ procs[p].stamp = deskRecord[c]
          /\ procs[p].seen[c] = deskRecord[c]
       \/ procs[p].at = "reads" /\ job[c] # None /\ job[c].stamp = deskRecord[c]
BackInv(c) ==
    Clean(c) /\ "killed" \notin gaps[c] /\ Handoff!Recent(deskRecord, c) =>
        \/ \E w \in deskWindows[c] : w.at >= deskRecord[c].time
        \/ \E p \in Handoff!Slots : Answers(p, c)

OpenedInv(c) ==
    \A p \in Handoff!Slots : procs[p].conv = c /\ procs[p].at = "recordsOpened" =>
        \E w \in deskWindows[c] : w.at = deskNow

WindowNumbers(c) ==
    /\ \A v, w \in deskWindows[c] : v.nr = w.nr => v = w
    /\ \A w \in deskWindows[c] : w.nr <= begun[c] /\ (w.state = "waits" => launch[c] # None)

\* No window was opened a moment ago.
NoneRecent(c) == \A w \in deskWindows[c] : deskNow - w.at >= Quiet

MarkedInv(c) ==
    Opened(c) => \A w \in deskWindows[c] : deskNow - w.at < Quiet =>
        \/ deskRecord[c] # None /\ deskRecord[c].time >= w.at
        \/ \E p \in Handoff!Slots :
              procs[p].conv = c /\ procs[p].at = "recordsOpened" /\ procs[p].kind # "job"

\* Whoever found the conversation free, and nothing begun since, will open the
\* only window.
Asking(p, c) ==
    /\ procs[p].conv = c /\ procs[p].at = "opens" /\ procs[p].kind \in {"move", "swap"}
    /\ procs[p].begun = begun[c]
AskedInv(c) ==
    Opened(c) => \A p, q \in Handoff!Slots : Asking(p, c) /\ Handing(q, c) =>
        procs[q].at \in {"writesJob", "recordsOpened"}
Alone(p, c) ==
    \/ Asking(p, c)
    \/ procs[p].conv = c /\ procs[p].at = "writesJob" /\ procs[p].begun = begun[c]
    \/ Handing(p, c) /\ procs[p].at \notin {"writesJob", "recordsOpened"}
AloneInv(c) == Opened(c) => \A p \in Handoff!Slots : Alone(p, c) => NoneRecent(c)
BegunInv(c) ==
    \A p \in Handoff!Slots : procs[p].conv = c =>
        procs[p].begun = None \/ procs[p].begun <= begun[c]

TypedInv(c) == message[c] = "typed" => deskClaude[c] \in {"prompt", "gone"}

\* A message held, or about to be, has a job, a process or a window that
\* carries it.
Carried(c) ==
    \/ \E p \in Handoff!Slots : procs[p].conv = c /\ procs[p].at = "opens" /\ procs[p].carries
    \/ launch[c] = TRUE /\ \E w \in deskWindows[c] : w.state = "waits"
    \/ deskLost[c] # {}
JobCarries(c) == job[c] # None /\ job[c].carries
HeldInv(c) ==
    message[c] = "held" =>
        \/ Carried(c)
        \/ JobCarries(c) /\ \E p \in Handoff!Slots : procs[p].conv = c /\ procs[p].at = "reads"
HoldingInv(c) ==
    \A p \in Handoff!Slots :
        /\ procs[p].conv = c /\ procs[p].kind = "prompt"
        /\ procs[p].at \in {"records", "starts"} /\ message[c] = "typed"
        => Carried(c) \/ JobCarries(c)

\* OneWindow, of one conversation.
Apart(c) ==
    \A v, w \in deskWindows[c] : v # w /\ v.at - w.at \in 0..(Quiet - 1) => ~Opened(c)

Good(c) ==
    /\ StampInv(c) /\ HookInv(c) /\ OneInv(c) /\ MarkInv(c) /\ JobInv(c) /\ BackInv(c)
    /\ OpenedInv(c) /\ WindowNumbers(c) /\ MarkedInv(c) /\ AskedInv(c) /\ AloneInv(c)
    /\ BegunInv(c) /\ TypedInv(c) /\ HeldInv(c) /\ HoldingInv(c) /\ Apart(c)

-----------------------------------------------------------------------------
(* What a step does, as the invariant sees it.                             *)

Only(p) ==
    /\ procs' = [q \in Handoff!Slots |-> procs'[q]]
    /\ \A q \in Handoff!Slots : q # p => procs'[q] = procs[q]

\* A mark that holds others back, or would, is as it was.
MarkKept(d) ==
    Handoff!Recent(deskRecord, d) \/ Handoff!Recent(deskRecord', d) =>
        deskRecord'[d] = deskRecord[d]

\* Conversation d is left alone, but that its mark may be written over.
Undisturbed(d) ==
    /\ deskNow' = deskNow
    /\ \A q \in Handoff!Slots : procs[q].conv = d \/ procs'[q].conv = d => procs'[q] = procs[q]
    /\ deskClaude'[d] = deskClaude[d] /\ message'[d] = message[d]
    /\ job'[d] = job[d] /\ launch'[d] = launch[d] /\ deskWindows'[d] = deskWindows[d]
    /\ begun'[d] = begun[d] /\ deskLost'[d] = deskLost[d]
    /\ \/ gaps'[d] = gaps[d] /\ MarkKept(d)
       \/ gaps[d] \subseteq gaps'[d] /\ "writtenOver" \in gaps'[d]

\* What stays as it is of conversation c.
SameDesktop(c) == deskClaude'[c] = deskClaude[c] /\ message'[c] = message[c]
SameRecord(c) == deskRecord'[c] = deskRecord[c] /\ gaps'[c] = gaps[c]
SameJob(c) == job'[c] = job[c] /\ launch'[c] = launch[c]
SameWindows(c) == deskWindows'[c] = deskWindows[c] /\ begun'[c] = begun[c]
SameLost(c) == deskLost'[c] = deskLost[c]

Entry(at, kind, c, seen, stamp, carries, begunThen) ==
    [at |-> at, kind |-> kind, conv |-> c, seen |-> seen, stamp |-> stamp,
     carries |-> carries, begun |-> begunThen]

\* A process of c starts, in a slot that was free.
Starts(p, kind, c, step, carries, begunThen) ==
    /\ p \in Handoff!Slots /\ procs[p] = Handoff!Free /\ Only(p)
    /\ procs'[p] = Entry(step, kind, c, None, None, carries, begunThen)

\* Process p, of c, goes from one step to another.
From(p, c, step) == p \in Handoff!Slots /\ procs[p].conv = c /\ procs[p].at = step /\ Only(p)
To(p, c, step, kind, seen, stamp) ==
    procs'[p] = Entry(step, kind, c, seen, stamp, procs[p].carries, procs[p].begun)

Typed(c, p) ==
    /\ Starts(p, "prompt", c, "looks", TRUE, 0)
    /\ deskClaude[c] = "idle" /\ deskClaude'[c] = "prompt" /\ message'[c] = "typed"
    /\ SameRecord(c) /\ SameJob(c) /\ SameWindows(c) /\ SameLost(c)
Turned(c) ==
    /\ deskClaude[c] \in {"idle", "busy"} /\ deskClaude'[c] \in {"idle", "busy"}
    /\ message'[c] = message[c] /\ procs' = procs
    /\ SameRecord(c) /\ SameJob(c) /\ SameWindows(c) /\ SameLost(c)
Failed(c, p) ==
    /\ Starts(p, "limit", c, "looks", FALSE, 0)
    /\ deskClaude[c] = "busy" /\ deskClaude'[c] = "failed" /\ message'[c] = message[c]
    /\ SameRecord(c) /\ SameJob(c) /\ SameWindows(c) /\ SameLost(c)
Closed(c) ==
    /\ deskClaude'[c] = "gone" /\ message'[c] = message[c]
    /\ procs' = [q \in Handoff!Slots |-> procs'[q]]
    /\ \A q \in Handoff!Slots :
          \/ procs'[q] = procs[q] /\ (procs[q].conv = c => ~IsHook(q))
          \/ procs'[q] = Handoff!Free /\ procs[q].conv = c /\ IsHook(q) /\ "killed" \in gaps'[c]
    /\ gaps'[c] = gaps[c] \/ gaps'[c] = gaps[c] \cup {"killed"}
    /\ deskRecord'[c] = deskRecord[c] /\ SameJob(c) /\ SameWindows(c) /\ SameLost(c)
Moving(c, p) ==
    /\ \E kind \in {"move", "again", "swap"} :
          /\ Starts(p, kind, c, "opens", FALSE, Handoff!Begun(c))
          /\ kind # "again" => ~Handoff!Recent(deskRecord, c)
    /\ SameDesktop(c) /\ SameRecord(c) /\ SameJob(c) /\ SameWindows(c) /\ SameLost(c)

\* A hook lets the turn, or the message, be.
LetGo(p, c) ==
    \/ procs[p].kind = "prompt" /\ message'[c] \in {"sent", "none"}
    \/ procs[p].kind = "limit" /\ deskClaude'[c] = "idle" /\ message'[c] = message[c]
LetBe(c, p) ==
    /\ IsHook(p) /\ (From(p, c, "looks") \/ From(p, c, "writesJob"))
    /\ procs'[p] = Handoff!Free /\ LetGo(p, c)
    /\ SameRecord(c) /\ SameJob(c) /\ SameWindows(c) /\ SameLost(c)
Decided(c, p) ==
    /\ From(p, c, "looks") /\ ~Handoff!Recent(deskRecord, c)
    /\ procs'[p] = Entry("writesJob", procs[p].kind, c, procs[p].seen, procs[p].stamp,
                         procs[p].carries, Handoff!Begun(c))
    /\ SameDesktop(c) /\ SameRecord(c) /\ SameJob(c) /\ SameWindows(c) /\ SameLost(c)

\* A handover begins: what another that began since, or has yet to be recorded,
\* makes of the gaps.
BeginsOf(p, c) ==
    /\ begun'[c] = begun[c] + 1
    /\ \/ gaps'[c] = gaps[c] /\ procs[p].begun = begun[c]
       \/ gaps'[c] = gaps[c] \cup {"overlap"}
JobWritten(c, p) ==
    /\ From(p, c, "writesJob") /\ To(p, c, "records", procs[p].kind, deskRecord, Handoff!Stamp(c))
    /\ job'[c] = [stamp |-> Handoff!Stamp(c), carries |-> procs[p].carries]
    /\ BeginsOf(p, c)
    /\ \/ deskLost'[c] = deskLost[c] /\ ~JobCarries(c)
       \/ deskLost'[c] # {}
    /\ SameDesktop(c) /\ deskRecord'[c] = deskRecord[c] /\ launch'[c] = launch[c]
    /\ deskWindows'[c] = deskWindows[c]

\* The file is written, with `what` of c, or not.
Writes(c, what) ==
    \/ deskRecord'[c] = what /\ gaps'[c] = gaps[c]
    \/ gaps[c] \subseteq gaps'[c] /\ gaps'[c] \cap {"writtenOver", "unwritten"} # {}
Marked(c, p) ==
    /\ From(p, c, "records") /\ To(p, c, "starts", procs[p].kind, procs[p].seen, procs[p].stamp)
    /\ Writes(c, procs[p].stamp)
    /\ SameDesktop(c) /\ SameJob(c) /\ SameWindows(c) /\ SameLost(c)
OpenMarked(c, p) ==
    /\ From(p, c, "recordsOpened") /\ procs'[p] = Handoff!Free /\ Writes(c, procs[p].stamp)
    /\ SameDesktop(c) /\ SameJob(c) /\ SameWindows(c) /\ SameLost(c)

HeldBack(c) ==
    /\ deskClaude'[c] = "idle"
    /\ message'[c] = IF message[c] = "typed" THEN "held" ELSE message[c]
JobStarted(c, p) ==
    /\ p \in Handoff!Slots /\ procs[p].conv = c /\ procs[p].at = "starts"
    /\ procs'[p] = Handoff!Free
    /\ \E q \in Handoff!Slots :
          /\ q # p /\ procs[q] = Handoff!Free
          /\ procs'[q] = Entry("reads", "job", c, None, None, FALSE, 0)
          /\ \A o \in Handoff!Slots : o # p /\ o # q => procs'[o] = procs[o]
    /\ procs' = [q \in Handoff!Slots |-> procs'[q]]
    /\ HeldBack(c)
    /\ SameRecord(c) /\ SameJob(c) /\ SameWindows(c) /\ SameLost(c)
JobRefused(c, p) ==
    /\ From(p, c, "starts") /\ To(p, c, "forgets", procs[p].kind, procs[p].seen, procs[p].stamp)
    /\ SameDesktop(c) /\ SameRecord(c) /\ SameJob(c) /\ SameWindows(c) /\ SameLost(c)
JobFailed(c, p) ==
    /\ From(p, c, "starts") /\ To(p, c, "forgets", "job", procs[p].seen, procs[p].stamp)
    /\ HeldBack(c)
    /\ \/ deskLost'[c] # {}
       \/ deskLost'[c] = deskLost[c] /\ procs[p].kind = "limit"
    /\ SameRecord(c) /\ SameJob(c) /\ SameWindows(c)
NoJob(c, p) ==
    /\ From(p, c, "reads") /\ procs'[p] = Handoff!Free /\ job[c] = None
    /\ SameDesktop(c) /\ SameRecord(c) /\ SameJob(c) /\ SameWindows(c) /\ SameLost(c)
JobRead(c, p) ==
    /\ From(p, c, "reads") /\ job[c] # None /\ job'[c] = None /\ launch'[c] = launch[c]
    /\ procs'[p] = Entry("opens", "job", c, procs[p].seen, job[c].stamp, job[c].carries,
                         procs[p].begun)
    /\ SameDesktop(c) /\ SameRecord(c) /\ SameWindows(c) /\ SameLost(c)

\* The launch file is written; what it said is lost if a window still waited to
\* carry the message.
Relaunch(c, p) ==
    /\ From(p, c, "opens") /\ launch'[c] = procs[p].carries
    /\ \/ deskLost'[c] # {}
       \/ /\ deskLost'[c] = deskLost[c]
          /\ procs[p].carries \/ ~(launch[c] = TRUE /\ \E w \in deskWindows[c] : w.state = "waits")
    /\ SameDesktop(c) /\ deskRecord'[c] = deskRecord[c] /\ job'[c] = job[c]
NewWindow(c) == [at |-> deskNow, nr |-> begun[c] + 1, state |-> "waits"]
WindowOpened(c, p) ==
    /\ Relaunch(c, p) /\ To(p, c, "recordsOpened", procs[p].kind, deskRecord, Handoff!Stamp(c))
    /\ deskWindows'[c] = deskWindows[c] \cup {NewWindow(c)} /\ begun'[c] = begun[c] + 1
    /\ \/ procs[p].kind = "again" /\ gaps'[c] = gaps[c] \cup {"again"}
       \/ procs[p].kind = "job" /\ gaps'[c] = gaps[c]
       \/ procs[p].kind \in {"move", "swap"} /\ BeginsOf(p, c)
NotOpened(c, p) ==
    /\ Relaunch(c, p) /\ (procs[p].carries => deskLost'[c] # {})
    /\ \/ /\ procs[p].kind = "job"
          /\ To(p, c, "forgets", procs[p].kind, procs[p].seen, procs[p].stamp)
       \/ procs[p].kind # "job" /\ procs'[p] = Handoff!Free
    /\ gaps'[c] = gaps[c] /\ SameWindows(c)
Forgetting(c, p) ==
    /\ From(p, c, "forgets") /\ To(p, c, "forgetting", procs[p].kind, deskRecord, procs[p].stamp)
    /\ SameDesktop(c) /\ SameRecord(c) /\ SameJob(c) /\ SameWindows(c) /\ SameLost(c)
TakenBack(c, p) ==
    /\ From(p, c, "forgetting") /\ procs'[p] = Handoff!Free
    /\ \/ procs[p].seen[c] # procs[p].stamp /\ SameRecord(c)
       \/ procs[p].seen[c] = procs[p].stamp /\ deskRecord'[c] = None /\ gaps'[c] = gaps[c]
          /\ deskRecord[c] = procs[p].stamp
       \/ gaps[c] \subseteq gaps'[c] /\ gaps'[c] \cap {"writtenOver", "unwritten"} # {}
    /\ \/ IsHook(p) /\ LetGo(p, c)
       \/ ~IsHook(p) /\ SameDesktop(c)
    /\ SameJob(c) /\ SameWindows(c) /\ SameLost(c)

WindowMoved(c, w) ==
    /\ w \in deskWindows[c]
    /\ \E state \in {"runs", "over"} :
          deskWindows'[c] =
            (deskWindows[c] \ {w}) \cup {[at |-> w.at, nr |-> w.nr, state |-> state]}
    /\ begun'[c] = begun[c] /\ deskClaude'[c] = deskClaude[c] /\ procs' = procs
    /\ \/ message'[c] = "carried" /\ deskLost'[c] = deskLost[c]
       \/ message'[c] = message[c] /\ deskLost'[c] # {}
       \/ message'[c] = message[c] /\ deskLost'[c] = deskLost[c]
          /\ (w.state = "waits" /\ launch[c] = TRUE => message[c] \notin {"typed", "held"})
    /\ SameRecord(c) /\ SameJob(c)

ProcessSteps(c, p) ==
    \/ LetBe(c, p) \/ Decided(c, p) \/ JobWritten(c, p) \/ Marked(c, p) \/ OpenMarked(c, p)
    \/ JobStarted(c, p) \/ JobRefused(c, p) \/ JobFailed(c, p) \/ NoJob(c, p)
    \/ JobRead(c, p) \/ WindowOpened(c, p) \/ NotOpened(c, p) \/ Forgetting(c, p)
    \/ TakenBack(c, p)
Joins(c, p) == Typed(c, p) \/ Failed(c, p) \/ Moving(c, p)
Runs(c) ==
    \/ Turned(c) \/ Closed(c)
    \/ \E p \in Handoff!Slots : Joins(c, p) \/ ProcessSteps(c, p)
Acts(c) == Runs(c) \/ \E w \in deskWindows[c] : WindowMoved(c, w)
Ticked ==
    /\ deskNow' = deskNow + 1 /\ procs' = procs
    /\ \A p \in Handoff!Slots : procs[p] = Handoff!Free
    /\ \A d \in Conversations :
          /\ SameDesktop(d) /\ SameRecord(d) /\ SameJob(d) /\ SameWindows(d) /\ SameLost(d)
StepOf(c) == Acts(c) /\ deskNow' = deskNow /\ \A d \in Conversations : d # c => Undisturbed(d)
HandoffStep ==
    \/ \E c \in Conversations : StepOf(c)
    \/ Ticked
    \/ procs' = procs /\ \A d \in Conversations : Undisturbed(d)

LEMMA StampFacts ==
  ASSUME NEW s \in Handoff!Stamps
  PROVE  s # None /\ s.time \in 0..DeskTime /\ s.time \in Nat /\ s.nr \in Nat
BY HandoffAssumption DEF Handoff!Stamps

LEMMA NewStamp ==
  ASSUME HandoffTypes, NEW c \in Conversations
  PROVE  /\ Handoff!Stamp(c) \in Handoff!Stamps /\ Handoff!Stamp(c) # None
         /\ Handoff!Stamp(c).time = deskNow /\ Handoff!Stamp(c).nr = begun[c] + 1
<1>1. deskNow \in 0..DeskTime /\ begun[c] \in Nat
  BY DEF HandoffTypes, FileTypes, WindowTypes
<1>2. QED
  BY <1>1, StampFacts DEF Handoff!Stamp, Handoff!Stamps

LEMMA FreeFacts ==
  /\ Handoff!Free.at = "free" /\ Handoff!Free.kind = None /\ Handoff!Free.conv = None
  /\ Handoff!Free.carries = FALSE /\ Handoff!Free.conv \notin Conversations
  /\ Handoff!Free.kind \notin {"prompt", "limit", "job"}
BY HandoffAssumption DEF Handoff!Free

LEMMA EntryFacts ==
  ASSUME NEW at, NEW kind, NEW c, NEW seen, NEW stamp, NEW carries, NEW count,
         NEW x, x = Entry(at, kind, c, seen, stamp, carries, count)
  PROVE  /\ x.at = at /\ x.kind = kind /\ x.conv = c /\ x.seen = seen /\ x.stamp = stamp
         /\ x.carries = carries /\ x.begun = count
BY DEF Entry

LEMMA ProcFacts ==
  ASSUME NEW x \in Proc
  PROVE  /\ x.at \in Handoff!Steps /\ x.kind \in Handoff!Kinds
         /\ x.conv \in Conversations \cup {None}
         /\ x.seen \in Handoff!Records \cup {None} /\ x.stamp \in Handoff!Stamps \cup {None}
         /\ x.carries \in BOOLEAN /\ x.begun \in Nat \cup {None} /\ Sensible(x)
         /\ x = Entry(x.at, x.kind, x.conv, x.seen, x.stamp, x.carries, x.begun)
BY DEF Proc, Process, Entry

LEMMA SlotFacts ==
  ASSUME HandoffTypes, NEW p \in Handoff!Slots
  PROVE  /\ procs[p] \in Proc /\ Sensible(procs[p])
         /\ procs[p].at # "free" => procs[p].conv \in Conversations
         /\ procs[p].at = "free" => procs[p] = Handoff!Free
BY DEF HandoffTypes, ProcTypes, Proc, Sensible

LEMMA MakesProc ==
  ASSUME NEW at \in Handoff!Steps, NEW kind \in Handoff!Kinds, NEW c \in Conversations \cup
         {None}, NEW seen \in Handoff!Records \cup {None}, NEW stamp \in Handoff!Stamps \cup
         {None}, NEW carries \in BOOLEAN, NEW count \in Nat \cup {None}, Sensible(Entry(at,
         kind, c, seen, stamp, carries, count))
  PROVE  Entry(at, kind, c, seen, stamp, carries, count) \in Proc
<1>1. Entry(at, kind, c, seen, stamp, carries, count) \in Process
  BY DEF Entry, Process
<1>2. QED
  BY <1>1 DEF Proc

LEMMA FreeIsProc == Handoff!Free \in Proc
<1>1. Handoff!Free \in Process
  BY DEF Handoff!Free, Process, Handoff!Steps, Handoff!Kinds
<1>2. Sensible(Handoff!Free)
  BY HandoffAssumption DEF Handoff!Free, Sensible
<1>3. QED
  BY <1>1, <1>2 DEF Proc

\* A conversation that nothing is written of.
LEMMA StaysUndisturbed ==
  ASSUME NEW d, deskNow' = deskNow, \A q \in Handoff!Slots : procs[q].conv = d \/
         procs'[q].conv = d => procs'[q] = procs[q], SameDesktop(d), SameRecord(d),
         SameJob(d), SameWindows(d), SameLost(d)
  PROVE  Undisturbed(d)
BY DEF Undisturbed, SameDesktop, SameRecord, SameJob, SameWindows, SameLost, MarkKept

Aside(c) ==
    \A d \in Conversations : d # c =>
        SameDesktop(d) /\ SameRecord(d) /\ SameJob(d) /\ SameWindows(d) /\ SameLost(d)

LEMMA Elsewhere ==
  ASSUME NEW c \in Conversations, NEW p \in Handoff!Slots, deskNow' = deskNow, Only(p),
         Aside(c), procs[p].conv \in {c, None}, procs'[p].conv \in {c, None}
  PROVE  \A d \in Conversations : d # c => Undisturbed(d)
<1> SUFFICES ASSUME NEW d \in Conversations, d # c PROVE Undisturbed(d)
  OBVIOUS
<1>1. \A q \in Handoff!Slots : procs[q].conv = d \/ procs'[q].conv = d => procs'[q] = procs[q]
  BY HandoffAssumption DEF Only
<1>2. QED
  BY <1>1, StaysUndisturbed DEF Aside

LEMMA StartsElsewhere ==
  ASSUME NEW c \in Conversations, NEW p, NEW kind, NEW step, NEW carries, NEW count,
         Starts(p, kind, c, step, carries, count), deskNow' = deskNow, Aside(c)
  PROVE  \A d \in Conversations : d # c => Undisturbed(d)
<1>1. p \in Handoff!Slots /\ Only(p) /\ procs[p].conv = None /\ procs'[p].conv = c
  BY FreeFacts DEF Starts, Entry
<1>2. QED
  BY <1>1, Elsewhere

-----------------------------------------------------------------------------
(* What each action does.                                                  *)

LEMMA SendsMessageDoes ==
  ASSUME HandoffTypes, NEW c \in Conversations, NEW p \in Handoff!Slots,
         Handoff!SendsMessage(c, p)
  PROVE  StepOf(c)
<1>1. procs[p] = Handoff!Free
  BY SlotFacts DEF Handoff!SendsMessage, Handoff!Takes, Handoff!At
<1>2. Starts(p, "prompt", c, "looks", TRUE, 0)
  BY <1>1
     DEF Handoff!SendsMessage, Handoff!Started, Handoff!Free, Starts, Only, Entry,
         HandoffTypes, ProcTypes
<1>3. deskNow' = deskNow /\ Aside(c)
  BY DEF Handoff!SendsMessage, Handoff!files, Handoff!history, HandoffTypes, DeskTypes,
     Aside, SameDesktop, SameRecord, SameJob, SameWindows, SameLost
<1>4. \A d \in Conversations : d # c => Undisturbed(d)
  BY <1>2, <1>3, StartsElsewhere
<1>5. Typed(c, p)
  BY <1>2
     DEF Handoff!SendsMessage, Handoff!files, Handoff!history, HandoffTypes, DeskTypes,
         Typed, SameRecord, SameJob, SameWindows, SameLost
<1>6. QED
  BY <1>3, <1>4, <1>5 DEF StepOf, Acts, Runs, Joins

LEMMA TurnBeginsDoes ==
  ASSUME HandoffTypes, NEW c \in Conversations, Handoff!TurnBegins(c)
  PROVE  StepOf(c)
<1>1. procs' = procs /\ deskNow' = deskNow /\ Aside(c)
  BY DEF Handoff!TurnBegins, Handoff!files, Handoff!history, HandoffTypes, DeskTypes, Aside,
     SameDesktop, SameRecord, SameJob, SameWindows, SameLost
<1>2. \A d \in Conversations : d # c => Undisturbed(d)
  BY <1>1, StaysUndisturbed DEF Aside
<1>3. Turned(c)
  BY <1>1
     DEF Handoff!TurnBegins, Handoff!files, Handoff!history, HandoffTypes, DeskTypes,
         Turned, SameRecord, SameJob, SameWindows, SameLost
<1>4. QED
  BY <1>1, <1>2, <1>3 DEF StepOf, Acts, Runs, Joins

LEMMA TurnEndsDoes ==
  ASSUME HandoffTypes, NEW c \in Conversations, Handoff!TurnEnds(c)
  PROVE  StepOf(c)
<1>1. deskNow' = deskNow /\ Aside(c) /\ deskClaude[c] = "busy" /\ message' = message
      /\ SameRecord(c) /\ SameJob(c) /\ SameWindows(c) /\ SameLost(c)
  BY DEF Handoff!TurnEnds, Handoff!files, Handoff!history, HandoffTypes, DeskTypes, Aside,
     SameDesktop, SameRecord, SameJob, SameWindows, SameLost
<1>2. CASE deskClaude' = [deskClaude EXCEPT ![c] = "idle"] /\ procs' = procs
  <2>1. \A d \in Conversations : d # c => Undisturbed(d)
    BY <1>1, <1>2, StaysUndisturbed DEF Aside
  <2>2. Turned(c)
    BY <1>1, <1>2 DEF Turned, HandoffTypes, DeskTypes
  <2>3. QED
    BY <1>1, <2>1, <2>2 DEF StepOf, Acts, Runs, Joins
<1>3. ASSUME NEW p \in Handoff!Slots, Handoff!Takes(p), deskClaude' = [deskClaude EXCEPT
             ![c] = "failed"], procs' = [procs EXCEPT ![p] = Handoff!Started("limit", c,
             "looks", None, FALSE)]
      PROVE  StepOf(c)
  <2>1. procs[p] = Handoff!Free
    BY <1>3, SlotFacts DEF Handoff!Takes, Handoff!At
  <2>2. Starts(p, "limit", c, "looks", FALSE, 0)
    BY <1>3, <2>1
       DEF Handoff!Started, Handoff!Free, Starts, Only, Entry, HandoffTypes, ProcTypes
  <2>3. \A d \in Conversations : d # c => Undisturbed(d)
    BY <1>1, <2>2, StartsElsewhere
  <2>4. Failed(c, p)
    BY <1>1, <1>3, <2>2 DEF HandoffTypes, DeskTypes, Failed
  <2>5. QED
    BY <1>1, <2>3, <2>4 DEF StepOf, Acts, Runs, Joins
<1>4. QED
  BY <1>2, <1>3 DEF Handoff!TurnEnds

LEMMA ClosesDoes ==
  ASSUME HandoffTypes, NEW c \in Conversations, Handoff!Closes(c)
  PROVE  StepOf(c)
<1> DEFINE taken ==
      {p \in Handoff!Slots : procs[p].conv = c /\ procs[p].kind \in {"prompt", "limit"}}
<1>1. /\ procs' = [p \in Handoff!Slots |-> IF p \in taken THEN Handoff!Free ELSE procs[p]]
      /\ gaps' = IF taken = {} THEN gaps ELSE [gaps EXCEPT ![c] = @ \cup {"killed"}]
  BY DEF Handoff!Closes, Handoff!Conv
<1>2. /\ deskNow' = deskNow /\ deskClaude' = [deskClaude EXCEPT ![c] = "gone"] /\ message' = message
      /\ deskRecord' = deskRecord /\ job' = job /\ launch' = launch /\ deskWindows' = deskWindows
      /\ begun' = begun /\ deskLost' = deskLost
  BY DEF Handoff!Closes, Handoff!files
<1>3. gaps' = gaps \/ gaps' = [gaps EXCEPT ![c] = @ \cup {"killed"}]
  BY <1>1
<1>4. \A q \in Handoff!Slots : q \in taken => "killed" \in gaps'[c]
  BY <1>1 DEF HandoffTypes, HistoryTypes
<1>5. ASSUME NEW d \in Conversations, d # c PROVE Undisturbed(d)
  <2>1. \A q \in Handoff!Slots : procs[q].conv = d \/ procs'[q].conv = d => procs'[q] = procs[q]
    BY <1>1, <1>5, FreeFacts
  <2>2. SameDesktop(d) /\ SameRecord(d) /\ SameJob(d) /\ SameWindows(d) /\ SameLost(d)
    BY <1>2, <1>3, <1>5
       DEF HandoffTypes, DeskTypes, HistoryTypes, SameDesktop, SameRecord, SameJob,
           SameWindows, SameLost
  <2>3. QED
    BY <1>2, <2>1, <2>2, StaysUndisturbed
<1>6. /\ procs' = [q \in Handoff!Slots |-> procs'[q]]
      /\ \A q \in Handoff!Slots :
            \/ procs'[q] = procs[q] /\ (procs[q].conv = c => ~IsHook(q))
            \/ procs'[q] = Handoff!Free /\ procs[q].conv = c /\ IsHook(q) /\ "killed" \in gaps'[c]
  BY <1>1, <1>4 DEF IsHook
<1>7. Closed(c)
  BY <1>2, <1>3, <1>6
     DEF HandoffTypes, DeskTypes, HistoryTypes, Closed, SameJob, SameWindows, SameLost
<1>8. QED
  BY <1>2, <1>5, <1>7 DEF StepOf, Acts, Runs, Joins

LEMMA AskedDoes ==
  ASSUME HandoffTypes, NEW c \in Conversations, NEW p \in Handoff!Slots,
         NEW kind \in {"move", "again", "swap"}, Handoff!Asked(c, p, kind)
  PROVE  StepOf(c)
<1>1. procs[p] = Handoff!Free
  BY SlotFacts DEF Handoff!Asked, Handoff!Takes, Handoff!At
<1>2. Starts(p, kind, c, "opens", FALSE, Handoff!Begun(c))
  BY <1>1
     DEF Handoff!Asked, Handoff!Started, Handoff!Free, Starts, Only, Entry, HandoffTypes,
         ProcTypes
<1>3. /\ deskNow' = deskNow /\ Aside(c) /\ SameDesktop(c) /\ SameRecord(c) /\ SameJob(c)
      /\ SameWindows(c) /\ SameLost(c) /\ (kind # "again" => ~Handoff!Recent(deskRecord, c))
  BY DEF Handoff!Asked, Handoff!files, Handoff!history, Aside, SameDesktop, SameRecord,
     SameJob, SameWindows, SameLost
<1>4. \A d \in Conversations : d # c => Undisturbed(d)
  BY <1>2, <1>3, StartsElsewhere
<1>5. Moving(c, p)
  BY <1>2, <1>3 DEF Moving
<1>6. QED
  BY <1>3, <1>4, <1>5 DEF StepOf, Acts, Runs, Joins

-----------------------------------------------------------------------------
(* The processes.                                                          *)

LEMMA OfConv ==
  ASSUME HandoffTypes, NEW p \in Handoff!Slots, procs[p].at # "free"
  PROVE  /\ procs[p].conv \in Conversations /\ procs[p].kind \in Handoff!Kinds
         /\ procs[p].carries \in BOOLEAN /\ Sensible(procs[p])
         /\ procs[p] = Entry(procs[p].at, procs[p].kind, procs[p].conv, procs[p].seen,
                             procs[p].stamp, procs[p].carries, procs[p].begun)
BY SlotFacts, ProcFacts

\* A step of process p, that is of c before and after or ends.
LEMMA ProcessStep ==
  ASSUME NEW c \in Conversations, NEW p \in Handoff!Slots, procs[p].conv = c, Only(p),
         procs'[p].conv \in {c, None}, deskNow' = deskNow, Aside(c), ProcessSteps(c, p)
  PROVE  StepOf(c)
BY Elsewhere DEF StepOf, Acts, Runs, Joins

LEMMA HookLetsBeDoes ==
  ASSUME HandoffTypes, NEW p \in Handoff!Slots, NEW c, c = procs[p].conv,
         Handoff!HookLetsBe(p) \/ Handoff!HookStops(p)
  PROVE  c \in Conversations /\ StepOf(c)
<1>1. procs[p].at = "looks" /\ c \in Conversations /\ IsHook(p)
  BY OfConv DEF Handoff!HookLetsBe, Handoff!HookStops, Handoff!At, IsHook
<1>2. Only(p) /\ procs'[p] = Handoff!Free
  BY DEF Handoff!HookLetsBe, Handoff!HookStops, Handoff!Ends, Only, HandoffTypes, ProcTypes
<1>3. deskNow' = deskNow /\ Aside(c) /\ SameRecord(c) /\ SameJob(c) /\ SameWindows(c) /\ SameLost(c)
  BY DEF Handoff!HookLetsBe, Handoff!HookStops, Handoff!LetsBe, Handoff!Conv, Handoff!files,
     Handoff!history, HandoffTypes, DeskTypes, Aside, SameDesktop, SameRecord, SameJob,
     SameWindows, SameLost
<1>4. LetGo(p, c)
  BY <1>1
     DEF Handoff!HookLetsBe, Handoff!HookStops, Handoff!LetsBe, Handoff!Conv, HandoffTypes,
         DeskTypes, LetGo, IsHook
<1>5. LetBe(c, p)
  BY <1>1, <1>2, <1>3, <1>4 DEF LetBe, From
<1>6. QED
  BY <1>1, <1>2, <1>3, <1>5, ProcessStep, FreeFacts DEF ProcessSteps

LEMMA HookDecidesDoes ==
  ASSUME HandoffTypes, NEW p \in Handoff!Slots, NEW c, c = procs[p].conv,
         Handoff!HookDecides(p)
  PROVE  c \in Conversations /\ StepOf(c)
<1>1. /\ procs[p].at = "looks" /\ c \in Conversations /\ ~Handoff!Recent(deskRecord, c)
      /\ procs[p] = Entry(procs[p].at, procs[p].kind, c, procs[p].seen,
                          procs[p].stamp, procs[p].carries, procs[p].begun)
  BY OfConv DEF Handoff!HookDecides, Handoff!At, Handoff!Conv
<1>2. /\ Only(p) /\ procs'[p].conv = c
      /\ procs'[p] = Entry("writesJob", procs[p].kind, c, procs[p].seen, procs[p].stamp,
                           procs[p].carries, Handoff!Begun(c))
  BY <1>1 DEF Handoff!HookDecides, Handoff!Conv, Only, HandoffTypes, ProcTypes, Entry
<1>3. /\ deskNow' = deskNow /\ Aside(c) /\ SameDesktop(c) /\ SameRecord(c) /\ SameJob(c)
      /\ SameWindows(c) /\ SameLost(c)
  BY DEF Handoff!HookDecides, Handoff!files, Handoff!history, Aside, SameDesktop,
     SameRecord, SameJob, SameWindows, SameLost
<1>4. Decided(c, p)
  BY <1>1, <1>2, <1>3 DEF Decided, From
<1>5. QED
  BY <1>1, <1>2, <1>3, <1>4, ProcessStep DEF ProcessSteps

LEMMA WritesJobDoes ==
  ASSUME HandoffTypes, NEW p \in Handoff!Slots, NEW c, c = procs[p].conv,
         Handoff!WritesJob(p)
  PROVE  c \in Conversations /\ StepOf(c)
<1>1. /\ procs[p].at = "writesJob" /\ c \in Conversations /\ IsHook(p)
      /\ procs[p] = Entry(procs[p].at, procs[p].kind, c, procs[p].seen,
                          procs[p].stamp, procs[p].carries, procs[p].begun)
  BY OfConv DEF Handoff!WritesJob, Handoff!At, Handoff!Conv, Sensible, IsHook
<1>2. /\ deskNow' = deskNow /\ deskRecord' = deskRecord
      /\ launch' = launch /\ deskWindows' = deskWindows
  BY DEF Handoff!WritesJob
<1>3. CASE Handoff!LetsBe(p) /\ Handoff!Ends(p) /\ UNCHANGED <<job, begun, gaps, deskLost>>
  <2>1. Only(p) /\ procs'[p] = Handoff!Free
    BY <1>3 DEF Handoff!Ends, Only, HandoffTypes, ProcTypes
  <2>2. Aside(c) /\ SameRecord(c) /\ SameJob(c) /\ SameWindows(c) /\ SameLost(c)
    BY <1>2, <1>3
       DEF Handoff!LetsBe, Handoff!Conv, HandoffTypes, DeskTypes, Aside, SameDesktop,
           SameRecord, SameJob, SameWindows, SameLost
  <2>3. LetGo(p, c)
    BY <1>1, <1>3 DEF Handoff!LetsBe, Handoff!Conv, HandoffTypes, DeskTypes, LetGo, IsHook
  <2>4. LetBe(c, p)
    BY <1>1, <2>1, <2>2, <2>3 DEF LetBe, From
  <2>5. QED
    BY <1>1, <1>2, <2>1, <2>2, <2>4, ProcessStep, FreeFacts DEF ProcessSteps
<1>4. CASE /\ job' = [job EXCEPT ![c] = [stamp |-> Handoff!Stamp(c), carries |-> procs[p].carries]]
           /\ Handoff!Begins(c) /\ gaps' = Handoff!GapsFor(p, c)
           /\ deskClaude' = deskClaude /\ message' = message
           /\ procs' = [procs EXCEPT ![p].at = "records", ![p].seen = deskRecord,
                                     ![p].stamp = Handoff!Stamp(c)]
           /\ deskLost' = [deskLost EXCEPT ![c] = IF job[c] # None /\ job[c].carries
                                                  THEN @ \cup {"overwritten"} ELSE @]
  <2>1. /\ Only(p) /\ procs'[p].conv = c
        /\ To(p, c, "records", procs[p].kind, deskRecord, Handoff!Stamp(c))
    BY <1>1, <1>4 DEF Only, HandoffTypes, ProcTypes, To, Entry
  <2>2. Aside(c)
    BY <1>2, <1>4
       DEF Handoff!Begins, Handoff!GapsFor, HandoffTypes, FileTypes, WindowTypes,
           HistoryTypes, Aside, SameDesktop, SameRecord, SameJob, SameWindows, SameLost
  <2>3. BeginsOf(p, c)
    BY <1>1, <1>4
       DEF Handoff!Begins, Handoff!GapsFor, HandoffTypes, WindowTypes, HistoryTypes,
           BeginsOf
  <2>4. (deskLost'[c] = deskLost[c] /\ ~JobCarries(c)) \/ deskLost'[c] # {}
    BY <1>1, <1>4 DEF HandoffTypes, HistoryTypes, JobCarries
  <2>5. job'[c] = [stamp |-> Handoff!Stamp(c), carries |-> procs[p].carries]
    BY <1>1, <1>4 DEF HandoffTypes, FileTypes
  <2>6. JobWritten(c, p)
    BY <1>1, <1>2, <1>4, <2>1, <2>3, <2>4, <2>5 DEF JobWritten, From, SameDesktop
  <2>7. QED
    BY <1>1, <1>2, <2>1, <2>2, <2>6, ProcessStep DEF ProcessSteps
<1>5. QED
  BY <1>1, <1>3, <1>4 DEF Handoff!WritesJob, Handoff!Conv, Handoff!history

-----------------------------------------------------------------------------
(* The file of handovers.                                                  *)

MarkAside(d) ==
    \/ gaps'[d] = gaps[d] /\ MarkKept(d)
    \/ gaps[d] \subseteq gaps'[d] /\ "writtenOver" \in gaps'[d]

LEMMA MarkElsewhere ==
  ASSUME NEW c \in Conversations, NEW p \in Handoff!Slots, deskNow' = deskNow, Only(p),
         procs[p].conv = c, procs'[p].conv \in {c, None}, ProcessSteps(c, p),
         \A d \in Conversations : d # c =>
            SameDesktop(d) /\ MarkAside(d) /\ SameJob(d) /\ SameWindows(d) /\ SameLost(d)
  PROVE  StepOf(c)
<1>1. ASSUME NEW d \in Conversations, d # c PROVE Undisturbed(d)
  <2>1. \A q \in Handoff!Slots : procs[q].conv = d \/ procs'[q].conv = d => procs'[q] = procs[q]
    BY <1>1, HandoffAssumption DEF Only
  <2>2. QED
    BY <1>1, <2>1 DEF Undisturbed, MarkAside, SameDesktop, SameJob, SameWindows, SameLost
<1>2. QED
  BY <1>1 DEF StepOf, Acts, Runs, Joins

\* What is written over another's change is told; what is not, is as it was.
LEMMA CrossedFacts ==
  ASSUME HandoffTypes, NEW file \in Handoff!Records, NEW c \in Conversations, gaps'[c] =
         gaps[c], NEW d \in Conversations, d # c, gaps'[d] = Handoff!Crossed(file, c)[d],
         deskRecord'[d] = file[d] \/ (deskRecord'[d] = None /\ ~Handoff!Recent(file, d))
  PROVE  MarkAside(d)
<1>1. CASE file[d] # deskRecord[d] /\ (Handoff!Recent(file, d) \/ Handoff!Recent(deskRecord, d))
  BY <1>1 DEF Handoff!Crossed, MarkAside, HandoffTypes, HistoryTypes
<1>2. CASE file[d] = deskRecord[d]
  BY <1>2 DEF Handoff!Crossed, MarkAside, MarkKept, Handoff!Recent
<1>3. CASE ~Handoff!Recent(file, d) /\ ~Handoff!Recent(deskRecord, d)
  BY <1>3 DEF Handoff!Crossed, MarkAside, MarkKept, Handoff!Recent
<1>4. QED
  BY <1>1, <1>2, <1>3

LEMMA RecordWritten ==
  ASSUME HandoffTypes, NEW p \in Handoff!Slots, NEW c \in Conversations, c = procs[p].conv,
         procs[p].seen \in Handoff!Records, Handoff!RecordWrite(p)
  PROVE  /\ Writes(c, procs[p].stamp)
         /\ \A d \in Conversations : d # c => MarkAside(d)
<1>1. CASE /\ deskRecord' = Handoff!Recorded(procs[p].seen, c, procs[p].stamp)
           /\ gaps' = Handoff!Crossed(procs[p].seen, c)
  <2>1. deskRecord'[c] = procs[p].stamp /\ gaps'[c] = gaps[c]
    BY <1>1 DEF Handoff!Recorded, Handoff!Crossed
  <2>2. ASSUME NEW d \in Conversations, d # c
        PROVE  \/ deskRecord'[d] = procs[p].seen[d]
               \/ deskRecord'[d] = None /\ ~Handoff!Recent(procs[p].seen, d)
    BY <1>1, <2>2 DEF Handoff!Recorded
  <2>3. ASSUME NEW d \in Conversations, d # c PROVE MarkAside(d)
    BY <1>1, <2>1, <2>2, <2>3, CrossedFacts
  <2>4. QED
    BY <2>1, <2>3 DEF Writes
<1>2. CASE gaps' = [gaps EXCEPT ![c] = @ \cup {"unwritten"}] /\ deskRecord' = deskRecord
  BY <1>2 DEF HandoffTypes, HistoryTypes, Writes, MarkAside, MarkKept
<1>3. QED
  BY <1>1, <1>2 DEF Handoff!RecordWrite, Handoff!Conv

LEMMA RecordsHandoffDoes ==
  ASSUME HandoffTypes, NEW p \in Handoff!Slots, NEW c, c = procs[p].conv,
         Handoff!RecordsHandoff(p)
  PROVE  c \in Conversations /\ StepOf(c)
<1>1. /\ procs[p].at = "records" /\ c \in Conversations /\ procs[p].seen \in Handoff!Records
      /\ procs[p] = Entry(procs[p].at, procs[p].kind, c, procs[p].seen,
                          procs[p].stamp, procs[p].carries, procs[p].begun)
  BY OfConv, SlotFacts, ProcFacts DEF Handoff!RecordsHandoff, Handoff!At, Sensible
<1>2. /\ Only(p) /\ To(p, c, "starts", procs[p].kind, procs[p].seen, procs[p].stamp)
      /\ procs'[p].conv = c
  BY <1>1 DEF Handoff!RecordsHandoff, Handoff!Goes, Only, HandoffTypes, ProcTypes, To, Entry
<1>3. /\ Writes(c, procs[p].stamp)
      /\ \A d \in Conversations : d # c => MarkAside(d)
  BY <1>1, RecordWritten DEF Handoff!RecordsHandoff
<1>4. /\ deskNow' = deskNow
      /\ \A d \in Conversations : SameDesktop(d) /\ SameJob(d) /\ SameWindows(d) /\ SameLost(d)
  BY DEF Handoff!RecordsHandoff, SameDesktop, SameJob, SameWindows, SameLost
<1>5. Marked(c, p)
  BY <1>1, <1>2, <1>3, <1>4 DEF Marked, From
<1>6. QED
  BY <1>1, <1>2, <1>3, <1>4, <1>5, MarkElsewhere DEF ProcessSteps

LEMMA RecordsOpenedDoes ==
  ASSUME HandoffTypes, NEW p \in Handoff!Slots, NEW c, c = procs[p].conv,
         Handoff!RecordsOpened(p)
  PROVE  c \in Conversations /\ StepOf(c)
<1>1. procs[p].at = "recordsOpened" /\ c \in Conversations /\ procs[p].seen \in Handoff!Records
  BY OfConv, SlotFacts, ProcFacts DEF Handoff!RecordsOpened, Handoff!At, Sensible
<1>2. Only(p) /\ procs'[p] = Handoff!Free
  BY DEF Handoff!RecordsOpened, Handoff!Ends, Only, HandoffTypes, ProcTypes
<1>3. /\ Writes(c, procs[p].stamp)
      /\ \A d \in Conversations : d # c => MarkAside(d)
  BY <1>1, RecordWritten DEF Handoff!RecordsOpened
<1>4. /\ deskNow' = deskNow
      /\ \A d \in Conversations : SameDesktop(d) /\ SameJob(d) /\ SameWindows(d) /\ SameLost(d)
  BY DEF Handoff!RecordsOpened, SameDesktop, SameJob, SameWindows, SameLost
<1>5. OpenMarked(c, p)
  BY <1>1, <1>2, <1>3, <1>4 DEF OpenMarked, From
<1>6. QED
  BY <1>1, <1>2, <1>3, <1>4, <1>5, MarkElsewhere, FreeFacts DEF ProcessSteps

LEMMA ForgottenDoes ==
  ASSUME HandoffTypes, NEW p \in Handoff!Slots, NEW c, c = procs[p].conv,
         Handoff!Forgotten(p)
  PROVE  c \in Conversations /\ StepOf(c)
<1> DEFINE file == procs[p].seen
<1>1. /\ procs[p].at = "forgetting" /\ c \in Conversations /\ file \in Handoff!Records
      /\ procs[p].kind \in {"prompt", "limit", "job"}
  BY OfConv, SlotFacts, ProcFacts DEF Handoff!Forgotten, Handoff!At, Sensible
<1>2. Only(p) /\ procs'[p] = Handoff!Free
  BY DEF Handoff!Forgotten, Handoff!Ends, Only, HandoffTypes, ProcTypes
<1>3. /\ (IsHook(p) /\ LetGo(p, c)) \/ (~IsHook(p) /\ SameDesktop(c))
      /\ \A d \in Conversations : d # c => SameDesktop(d)
  BY <1>1
     DEF Handoff!Forgotten, Handoff!LetsBe, Handoff!Conv, HandoffTypes, DeskTypes, LetGo,
         IsHook, SameDesktop
<1>4. /\ deskNow' = deskNow
      /\ \A d \in Conversations : SameJob(d) /\ SameWindows(d) /\ SameLost(d)
  BY DEF Handoff!Forgotten, SameJob, SameWindows, SameLost
<1>5. /\ \/ file[c] # procs[p].stamp /\ SameRecord(c)
         \/ /\ file[c] = procs[p].stamp /\ deskRecord'[c] = None /\ gaps'[c] = gaps[c]
            /\ deskRecord[c] = procs[p].stamp
         \/ gaps[c] \subseteq gaps'[c] /\ gaps'[c] \cap {"writtenOver", "unwritten"} # {}
      /\ \A d \in Conversations : d # c => MarkAside(d)
  <2>1. CASE file[c] # procs[p].stamp /\ UNCHANGED <<deskRecord, gaps>>
    BY <2>1 DEF SameRecord, MarkAside, MarkKept
  <2>2. CASE /\ file[c] = procs[p].stamp /\ deskRecord' = [file EXCEPT ![c] = None]
             /\ gaps' = [Handoff!Crossed(file, c) EXCEPT ![c] =
                            IF deskRecord[c] # file[c] THEN @ \cup {"writtenOver"} ELSE @]
    <3>1. deskRecord'[c] = None /\ \A d \in Conversations : d # c => deskRecord'[d] = file[d]
      BY <1>1, <2>2 DEF Handoff!Records
    <3>2. gaps'[c] = IF deskRecord[c] # file[c] THEN gaps[c] \cup {"writtenOver"} ELSE gaps[c]
      BY <1>1, <2>2 DEF Handoff!Crossed
    <3>3. ASSUME NEW d \in Conversations, d # c PROVE gaps'[d] = Handoff!Crossed(file, c)[d]
      BY <1>1, <2>2, <3>3 DEF Handoff!Crossed
    <3>4. ASSUME NEW d \in Conversations, d # c PROVE MarkAside(d)
      <4>1. CASE /\ file[d] # deskRecord[d]
                 /\ Handoff!Recent(file, d) \/ Handoff!Recent(deskRecord, d)
        BY <3>3, <3>4, <4>1 DEF Handoff!Crossed, MarkAside, HandoffTypes, HistoryTypes
      <4>2. CASE \/ file[d] = deskRecord[d]
                 \/ ~Handoff!Recent(file, d) /\ ~Handoff!Recent(deskRecord, d)
        BY <3>1, <3>3, <3>4, <4>2 DEF Handoff!Crossed, MarkAside, MarkKept, Handoff!Recent
      <4>3. QED
        BY <4>1, <4>2
    <3>5. QED
      BY <2>2, <3>1, <3>2, <3>4
  <2>3. CASE gaps' = [gaps EXCEPT ![c] = @ \cup {"unwritten"}] /\ deskRecord' = deskRecord
    BY <1>1, <2>3 DEF HandoffTypes, HistoryTypes, MarkAside, MarkKept
  <2>4. QED
    BY <2>1, <2>2, <2>3 DEF Handoff!Forgotten, Handoff!Conv
<1>6. TakenBack(c, p)
  BY <1>1, <1>2, <1>3, <1>4, <1>5 DEF TakenBack, From
<1>7. QED
  BY <1>1, <1>2, <1>3, <1>4, <1>5, <1>6, MarkElsewhere, FreeFacts DEF ProcessSteps

-----------------------------------------------------------------------------
(* Jobs, and windows.                                                      *)

LEMMA StartsDetachedDoes ==
  ASSUME HandoffTypes, NEW p \in Handoff!Slots, NEW c, c = procs[p].conv,
         Handoff!StartsDetached(p)
  PROVE  c \in Conversations /\ StepOf(c)
<1>1. /\ procs[p].at = "starts" /\ c \in Conversations /\ procs[p].kind \in {"prompt", "limit"}
      /\ procs[p] = Entry(procs[p].at, procs[p].kind, c, procs[p].seen,
                          procs[p].stamp, procs[p].carries, procs[p].begun)
  BY OfConv DEF Handoff!StartsDetached, Handoff!At, Sensible
<1>2. /\ deskNow' = deskNow
      /\ \A d \in Conversations : SameRecord(d) /\ SameJob(d) /\ SameWindows(d)
  BY DEF Handoff!StartsDetached, Handoff!files, SameRecord, SameJob, SameWindows
<1> DEFINE holds ==
             /\ deskClaude' = [deskClaude EXCEPT ![c] = "idle"]
             /\ message' = [message EXCEPT ![c] = IF @ = "typed" THEN "held" ELSE @]
<1>3. holds => HeldBack(c) /\ \A d \in Conversations : d # c => SameDesktop(d)
  BY <1>1 DEF HandoffTypes, DeskTypes, HeldBack, SameDesktop
<1>4. ASSUME holds, deskLost' = deskLost, NEW q \in Handoff!Slots \ {p}, Handoff!Takes(q),
             procs' = [procs EXCEPT ![p] = Handoff!Free, ![q] = Handoff!Started("job", c,
             "reads", None, FALSE)]
      PROVE  StepOf(c)
  <2>1. procs[q] = Handoff!Free
    BY <1>4, SlotFacts DEF Handoff!Takes, Handoff!At
  <2>2. /\ procs' = [o \in Handoff!Slots |-> procs'[o]] /\ procs'[p] = Handoff!Free
        /\ \A o \in Handoff!Slots : o # p /\ o # q => procs'[o] = procs[o]
        /\ procs'[q] = Entry("reads", "job", c, None, None, FALSE, 0)
    BY <1>4 DEF HandoffTypes, ProcTypes, Handoff!Started, Handoff!Free, Entry
  <2>3. \A d \in Conversations : SameLost(d)
    BY <1>4 DEF SameLost
  <2>4. JobStarted(c, p)
    BY <1>1, <1>2, <1>3, <1>4, <2>1, <2>2, <2>3 DEF JobStarted
  <2>5. ASSUME NEW d \in Conversations, d # c PROVE Undisturbed(d)
    <3>1. procs[q].conv = None /\ procs'[q].conv = c /\ procs'[p].conv = None
      BY <2>1, <2>2, FreeFacts DEF Entry
    <3>2. \A o \in Handoff!Slots : procs[o].conv = d \/ procs'[o].conv = d => procs'[o] = procs[o]
      BY <1>1, <2>2, <2>5, <3>1, HandoffAssumption
    <3>3. QED
      BY <1>2, <1>3, <1>4, <2>3, <2>5, <3>2, StaysUndisturbed
  <2>6. QED
    BY <1>1, <1>2, <2>4, <2>5 DEF StepOf, Acts, Runs, Joins, ProcessSteps
<1>5. CASE Handoff!Goes(p, "forgets") /\ UNCHANGED <<deskClaude, message, deskLost>>
  <2>1. /\ Only(p) /\ To(p, c, "forgets", procs[p].kind, procs[p].seen, procs[p].stamp)
        /\ procs'[p].conv = c
    BY <1>1, <1>5 DEF Handoff!Goes, Only, HandoffTypes, ProcTypes, To, Entry
  <2>2. \A d \in Conversations : SameDesktop(d) /\ SameLost(d)
    BY <1>5 DEF SameDesktop, SameLost
  <2>3. JobRefused(c, p)
    BY <1>1, <1>2, <2>1, <2>2 DEF JobRefused, From
  <2>4. QED
    BY <1>1, <1>2, <2>1, <2>2, <2>3, ProcessStep DEF ProcessSteps, Aside
<1>6. CASE /\ holds /\ procs' = [procs EXCEPT ![p].at = "forgets", ![p].kind = "job"]
           /\ deskLost' = [deskLost EXCEPT ![c] =
                         IF procs[p].kind = "prompt" THEN @ \cup {"unopened"} ELSE @]
  <2>1. /\ Only(p) /\ To(p, c, "forgets", "job", procs[p].seen, procs[p].stamp)
        /\ procs'[p].conv = c
    BY <1>1, <1>6 DEF Only, HandoffTypes, ProcTypes, To, Entry
  <2>2. /\ \A d \in Conversations : d # c => SameLost(d)
        /\ deskLost'[c] # {} \/ (deskLost'[c] = deskLost[c] /\ procs[p].kind = "limit")
    BY <1>1, <1>6 DEF HandoffTypes, HistoryTypes, SameLost
  <2>3. JobFailed(c, p)
    BY <1>1, <1>2, <1>3, <1>6, <2>1, <2>2 DEF JobFailed, From
  <2>4. QED
    BY <1>1, <1>2, <1>3, <1>6, <2>1, <2>2, <2>3, ProcessStep DEF ProcessSteps, Aside
<1>7. QED
  BY <1>1, <1>4, <1>5, <1>6 DEF Handoff!StartsDetached, Handoff!Conv

LEMMA ReadsJobDoes ==
  ASSUME HandoffTypes, NEW p \in Handoff!Slots, NEW c, c = procs[p].conv,
         Handoff!ReadsJob(p)
  PROVE  c \in Conversations /\ StepOf(c)
<1>1. /\ procs[p].at = "reads" /\ c \in Conversations /\ procs[p].kind = "job"
      /\ procs[p] = Entry(procs[p].at, procs[p].kind, c, procs[p].seen,
                          procs[p].stamp, procs[p].carries, procs[p].begun)
  BY OfConv DEF Handoff!ReadsJob, Handoff!At, Sensible
<1>2. /\ deskNow' = deskNow /\ job' = [job EXCEPT ![c] = None]
      /\ \A d \in Conversations : SameDesktop(d) /\ SameRecord(d) /\ SameWindows(d) /\ SameLost(d)
  BY DEF Handoff!ReadsJob, Handoff!Conv, Handoff!history, SameDesktop, SameRecord,
     SameWindows, SameLost
<1>3. /\ job'[c] = None /\ launch' = launch
      /\ \A d \in Conversations : d # c => SameJob(d)
  BY <1>1, <1>2 DEF Handoff!ReadsJob, HandoffTypes, FileTypes, SameJob
<1>4. Aside(c)
  BY <1>2, <1>3 DEF Aside
<1>5. CASE job[c] = None
  <2>1. Only(p) /\ procs'[p] = Handoff!Free
    BY <1>5 DEF Handoff!ReadsJob, Handoff!Conv, Handoff!Ends, Only, HandoffTypes, ProcTypes
  <2>2. NoJob(c, p)
    BY <1>1, <1>2, <1>3, <1>5, <2>1 DEF NoJob, From, SameJob
  <2>3. QED
    BY <1>1, <1>2, <1>4, <2>1, <2>2, ProcessStep, FreeFacts DEF ProcessSteps
<1>6. CASE job[c] # None
  <2>1. /\ Only(p) /\ procs'[p].conv = c
        /\ procs'[p] = Entry("opens", "job", c, procs[p].seen, job[c].stamp, job[c].carries,
                             procs[p].begun)
    BY <1>1, <1>6 DEF Handoff!ReadsJob, Handoff!Conv, Only, HandoffTypes, ProcTypes, Entry
  <2>2. JobRead(c, p)
    BY <1>1, <1>2, <1>3, <1>6, <2>1 DEF JobRead, From
  <2>3. QED
    BY <1>1, <1>2, <1>4, <2>1, <2>2, ProcessStep DEF ProcessSteps
<1>7. QED
  BY <1>5, <1>6

LEMMA OpensWindowDoes ==
  ASSUME HandoffTypes, NEW p \in Handoff!Slots, NEW c, c = procs[p].conv,
         Handoff!OpensWindow(p)
  PROVE  c \in Conversations /\ StepOf(c)
<1> DEFINE waiting == {w \in deskWindows[c] : w.state = "waits"}
           dropped == IF launch[c] = TRUE /\ ~procs[p].carries /\ waiting # {}
                      THEN {"overwritten"} ELSE {}
<1>1. /\ procs[p].at = "opens" /\ c \in Conversations
      /\ procs[p].kind \in {"job", "move", "again", "swap"}
      /\ procs[p] = Entry(procs[p].at, procs[p].kind, c, procs[p].seen,
                          procs[p].stamp, procs[p].carries, procs[p].begun)
  BY OfConv DEF Handoff!OpensWindow, Handoff!At, Sensible
<1>2. /\ deskNow' = deskNow /\ deskClaude' = deskClaude /\ message' = message
      /\ deskRecord' = deskRecord /\ job' = job
      /\ launch' = [launch EXCEPT ![c] = procs[p].carries]
  BY DEF Handoff!OpensWindow, Handoff!Conv
<1>3. /\ launch'[c] = procs[p].carries
      /\ \A d \in Conversations : d # c => launch'[d] = launch[d]
  BY <1>1, <1>2 DEF HandoffTypes, FileTypes
<1>4. dropped # {} \/ procs[p].carries
      \/ ~(launch[c] = TRUE /\ \E w \in deskWindows[c] : w.state = "waits")
  OBVIOUS
<1>5. CASE /\ deskWindows' = [deskWindows EXCEPT ![c] = @ \cup {NewWindow(c)}]
           /\ Handoff!Begins(c)
           /\ procs' = [procs EXCEPT ![p].at = "recordsOpened", ![p].seen = deskRecord,
                                     ![p].stamp = Handoff!Stamp(c)]
           /\ gaps' = CASE procs[p].kind = "again" -> [gaps EXCEPT ![c] = @ \cup {"again"}]
                        [] procs[p].kind = "job"   -> gaps
                        [] OTHER                   -> Handoff!GapsFor(p, c)
           /\ deskLost' = [deskLost EXCEPT ![c] = @ \cup dropped]
  <2>1. /\ Only(p) /\ procs'[p].conv = c
        /\ To(p, c, "recordsOpened", procs[p].kind, deskRecord, Handoff!Stamp(c))
    BY <1>1, <1>5 DEF Only, HandoffTypes, ProcTypes, To, Entry
  <2>2. /\ deskWindows'[c] = deskWindows[c] \cup {NewWindow(c)} /\ begun'[c] = begun[c] + 1
        /\ \A d \in Conversations : d # c => SameWindows(d)
    BY <1>1, <1>5 DEF Handoff!Begins, HandoffTypes, WindowTypes, SameWindows
  <2>3. /\ deskLost'[c] = deskLost[c] \cup dropped
        /\ \A d \in Conversations : d # c => SameLost(d)
    <3> HIDE DEF dropped
    <3>1. QED
      BY <1>1, <1>5 DEF HandoffTypes, HistoryTypes, SameLost
  <2>4. /\ \/ procs[p].kind = "again" /\ gaps'[c] = gaps[c] \cup {"again"}
           \/ procs[p].kind = "job" /\ gaps'[c] = gaps[c]
           \/ procs[p].kind \in {"move", "swap"} /\ BeginsOf(p, c)
        /\ \A d \in Conversations : d # c => gaps'[d] = gaps[d]
    <3>1. CASE procs[p].kind = "again"
      BY <1>1, <1>5, <3>1 DEF HandoffTypes, HistoryTypes
    <3>2. CASE procs[p].kind = "job"
      BY <1>1, <1>5, <3>2 DEF HandoffTypes, HistoryTypes
    <3>3. CASE procs[p].kind \in {"move", "swap"}
      <4>1. gaps' = Handoff!GapsFor(p, c)
        BY <1>5, <3>3
      <4>2. QED
        BY <1>1, <2>2, <3>3, <4>1 DEF Handoff!GapsFor, HandoffTypes, HistoryTypes, BeginsOf
    <3>4. QED
      BY <1>1, <3>1, <3>2, <3>3
  <2>5. Relaunch(c, p)
    BY <1>1, <1>2, <1>3, <1>4, <2>1, <2>3 DEF Relaunch, From, SameDesktop
  <2>6. WindowOpened(c, p)
    BY <2>1, <2>2, <2>4, <2>5 DEF WindowOpened
  <2>7. Aside(c)
    BY <1>2, <1>3, <2>2, <2>3, <2>4 DEF Aside, SameDesktop, SameRecord, SameJob
  <2>8. QED
    BY <1>1, <1>2, <2>1, <2>6, <2>7, ProcessStep DEF ProcessSteps
<1>6. CASE /\ IF procs[p].kind = "job" THEN Handoff!Goes(p, "forgets") ELSE Handoff!Ends(p)
           /\ deskLost' = [deskLost EXCEPT ![c] =
                             @ \cup dropped \cup (IF procs[p].carries THEN {"unopened"} ELSE {})]
           /\ UNCHANGED <<deskWindows, begun, gaps>>
  <2>1. /\ Only(p) /\ procs'[p].conv \in {c, None}
        /\ \/ /\ procs[p].kind = "job"
              /\ To(p, c, "forgets", procs[p].kind, procs[p].seen, procs[p].stamp)
           \/ procs[p].kind # "job" /\ procs'[p] = Handoff!Free
    <3>1. CASE procs[p].kind = "job"
      BY <1>1, <1>6, <3>1 DEF Handoff!Goes, Only, HandoffTypes, ProcTypes, To, Entry
    <3>2. CASE procs[p].kind # "job"
      BY <1>1, <1>6, <3>2, FreeFacts DEF Handoff!Ends, Only, HandoffTypes, ProcTypes
    <3>3. QED
      BY <3>1, <3>2
  <2>2. /\ deskLost'[c] = deskLost[c] \cup dropped
                              \cup (IF procs[p].carries THEN {"unopened"} ELSE {})
        /\ \A d \in Conversations : d # c => SameLost(d)
    <3> HIDE DEF dropped
    <3>1. QED
      BY <1>1, <1>6 DEF HandoffTypes, HistoryTypes, SameLost
  <2>3. Relaunch(c, p) /\ (procs[p].carries => deskLost'[c] # {})
    <3>1. procs[p].carries => deskLost'[c] # {}
      BY <2>2
    <3>2. \/ deskLost'[c] # {}
          \/ /\ deskLost'[c] = deskLost[c]
             /\ \/ procs[p].carries
                \/ ~(launch[c] = TRUE /\ \E w \in deskWindows[c] : w.state = "waits")
      BY <1>4, <2>2
    <3>3. QED
      BY <1>1, <1>2, <1>3, <2>1, <3>1, <3>2 DEF Relaunch, From, SameDesktop
  <2>4. NotOpened(c, p)
    BY <1>6, <2>1, <2>3 DEF NotOpened, SameWindows
  <2>5. Aside(c)
    BY <1>2, <1>3, <1>6, <2>2 DEF Aside, SameDesktop, SameRecord, SameJob, SameWindows
  <2>6. QED
    BY <1>1, <1>2, <2>1, <2>4, <2>5, ProcessStep DEF ProcessSteps
<1>7. QED
  BY <1>5, <1>6 DEF Handoff!OpensWindow, Handoff!Conv, NewWindow

LEMMA ForgetsDoes ==
  ASSUME HandoffTypes, NEW p \in Handoff!Slots, NEW c, c = procs[p].conv, Handoff!Forgets(p)
  PROVE  c \in Conversations /\ StepOf(c)
<1>1. /\ procs[p].at = "forgets" /\ c \in Conversations
      /\ procs[p] = Entry(procs[p].at, procs[p].kind, c, procs[p].seen,
                          procs[p].stamp, procs[p].carries, procs[p].begun)
  BY OfConv DEF Handoff!Forgets, Handoff!At
<1>2. /\ Only(p) /\ To(p, c, "forgetting", procs[p].kind, deskRecord, procs[p].stamp)
      /\ procs'[p].conv = c
  BY <1>1 DEF Handoff!Forgets, Only, HandoffTypes, ProcTypes, To, Entry
<1>3. /\ deskNow' = deskNow /\ Aside(c) /\ SameDesktop(c) /\ SameRecord(c) /\ SameJob(c)
      /\ SameWindows(c) /\ SameLost(c)
  BY DEF Handoff!Forgets, Handoff!files, Handoff!history, Aside, SameDesktop, SameRecord,
     SameJob, SameWindows, SameLost
<1>4. Forgetting(c, p)
  BY <1>1, <1>2, <1>3 DEF Forgetting, From
<1>5. QED
  BY <1>1, <1>2, <1>3, <1>4, ProcessStep DEF ProcessSteps

LEMMA WindowsDo ==
  ASSUME HandoffTypes, NEW c \in Conversations, WindowNumbers(c), NEW w \in deskWindows[c],
         Handoff!PicksUp(c, w) \/ Handoff!GivesUp(c, w) \/ Handoff!WindowEnds(c, w)
  PROVE  StepOf(c)
<1>1. /\ deskNow' = deskNow /\ procs' = procs /\ deskClaude' = deskClaude /\ begun' = begun
      /\ \A d \in Conversations : SameRecord(d) /\ SameJob(d)
  BY DEF Handoff!PicksUp, Handoff!GivesUp, Handoff!WindowEnds, Handoff!files,
     Handoff!history, SameRecord, SameJob
<1>2. /\ w = [at |-> w.at, nr |-> w.nr, state |-> w.state]
      /\ w.state = "waits" => launch[c] \in BOOLEAN
  BY DEF HandoffTypes, FileTypes, WindowTypes, Handoff!Windows, WindowNumbers
<1>3. ASSUME NEW state, Handoff!Moves(c, w, state)
      PROVE  /\ deskWindows'[c] =
                  (deskWindows[c] \ {w}) \cup {[at |-> w.at, nr |-> w.nr, state |-> state]}
             /\ \A d \in Conversations : d # c => deskWindows'[d] = deskWindows[d]
  <2>1. [w EXCEPT !.state = state] = [at |-> w.at, nr |-> w.nr, state |-> state]
    BY <1>2
  <2>2. QED
    BY <1>3, <2>1 DEF Handoff!Moves, HandoffTypes, WindowTypes
<1>4. PICK state \in {"runs", "over"} : Handoff!Moves(c, w, state)
  BY DEF Handoff!PicksUp, Handoff!GivesUp, Handoff!WindowEnds
<1>5. /\ \/ message'[c] = "carried" /\ deskLost'[c] = deskLost[c]
         \/ message'[c] = message[c] /\ deskLost'[c] # {}
         \/ /\ message'[c] = message[c] /\ deskLost'[c] = deskLost[c]
            /\ w.state = "waits" /\ launch[c] = TRUE => message[c] \notin {"typed", "held"}
      /\ \A d \in Conversations : d # c => message'[d] = message[d] /\ deskLost'[d] = deskLost[d]
  BY <1>2
     DEF Handoff!PicksUp, Handoff!GivesUp, Handoff!WindowEnds, Handoff!history,
         HandoffTypes, DeskTypes, HistoryTypes
<1>6. ASSUME NEW d \in Conversations, d # c PROVE Undisturbed(d)
  BY <1>1, <1>3, <1>4, <1>5, <1>6, StaysUndisturbed DEF SameDesktop, SameWindows, SameLost
<1>7. WindowMoved(c, w)
  BY <1>1, <1>3, <1>4, <1>5 DEF WindowMoved
<1>8. QED
  BY <1>1, <1>6, <1>7 DEF StepOf, Acts, Runs, Joins

LEMMA TickDoes == HandoffTypes /\ Handoff!Tick => Ticked
BY SlotFacts
   DEF Handoff!Tick, Handoff!At, Handoff!files, Handoff!history, Ticked, SameDesktop,
       SameRecord, SameJob, SameWindows, SameLost

\* Every step is one of a conversation, that of the clock, or none.
LEMMA EachStep ==
  ASSUME HandoffTypes, \A c \in Conversations : WindowNumbers(c),
         [Handoff!Next]_(Handoff!vars)
  PROVE  HandoffStep
<1>1. ASSUME NEW c \in Conversations, NEW p \in Handoff!Slots, Handoff!SendsMessage(c, p)
             PROVE HandoffStep
  BY <1>1, SendsMessageDoes DEF HandoffStep
<1>2. ASSUME NEW c \in Conversations, NEW p \in Handoff!Slots, Handoff!AsksToMove(c, p) \/
             Handoff!Swaps(c, p)
      PROVE  HandoffStep
  <2>1. PICK kind \in {"move", "again", "swap"} : Handoff!Asked(c, p, kind)
    BY <1>2 DEF Handoff!AsksToMove, Handoff!Swaps
  <2>2. QED
    BY <2>1, AskedDoes DEF HandoffStep
<1>3. ASSUME NEW c \in Conversations, Handoff!TurnBegins(c) \/ Handoff!TurnEnds(c) \/
             Handoff!Closes(c) PROVE HandoffStep
  BY <1>3, TurnBeginsDoes, TurnEndsDoes, ClosesDoes DEF HandoffStep
<1>4. ASSUME NEW c \in Conversations, NEW w \in deskWindows[c],
             Handoff!PicksUp(c, w) \/ Handoff!GivesUp(c, w) \/ Handoff!WindowEnds(c, w)
      PROVE  HandoffStep
  BY <1>4, WindowsDo DEF HandoffStep
<1>5. ASSUME NEW p \in Handoff!Slots, Handoff!ProcessActs(p) PROVE HandoffStep
  <2>1. PICK c : c = procs[p].conv
    OBVIOUS
  <2>2. c \in Conversations /\ StepOf(c)
    BY <1>5, <2>1, HookLetsBeDoes, HookDecidesDoes, WritesJobDoes, RecordsHandoffDoes,
       StartsDetachedDoes, ReadsJobDoes, OpensWindowDoes, RecordsOpenedDoes, ForgetsDoes,
       ForgottenDoes DEF Handoff!ProcessActs
  <2>3. QED
    BY <2>2 DEF HandoffStep
<1>6. CASE Handoff!Tick
  BY <1>6, TickDoes DEF HandoffStep
<1>7. CASE UNCHANGED Handoff!vars
  <2>1. ASSUME NEW d \in Conversations PROVE Undisturbed(d)
    BY <1>7, StaysUndisturbed
       DEF Handoff!vars, SameDesktop, SameRecord, SameJob, SameWindows, SameLost
  <2>2. QED
    BY <1>7, <2>1 DEF HandoffStep, Handoff!vars
<1>8. QED
  BY <1>1, <1>2, <1>3, <1>4, <1>5, <1>6, <1>7 DEF Handoff!Next

-----------------------------------------------------------------------------
(* Types.                                                                  *)

LEMMA FileTypesKept == HandoffTypes /\ [Handoff!Next]_(Handoff!vars) => FileTypes'
<1> SUFFICES ASSUME HandoffTypes, [Handoff!Next]_(Handoff!vars) PROVE FileTypes'
  OBVIOUS
<1>1. ASSUME UNCHANGED <<deskNow, deskRecord, job, launch>> PROVE FileTypes'
  BY <1>1 DEF HandoffTypes, FileTypes
<1>2. ASSUME NEW c \in Conversations, NEW p \in Handoff!Slots,
             Handoff!SendsMessage(c, p) \/ Handoff!AsksToMove(c, p) \/ Handoff!Swaps(c, p)
      PROVE  FileTypes'
  BY <1>1, <1>2
     DEF Handoff!SendsMessage, Handoff!AsksToMove, Handoff!Asked, Handoff!Swaps,
         Handoff!files
<1>3. ASSUME NEW c \in Conversations, Handoff!TurnBegins(c) \/ Handoff!TurnEnds(c) \/
             Handoff!Closes(c) PROVE FileTypes'
  BY <1>1, <1>3 DEF Handoff!TurnBegins, Handoff!TurnEnds, Handoff!Closes, Handoff!files
<1>4. ASSUME NEW c \in Conversations, NEW w \in deskWindows[c],
             Handoff!PicksUp(c, w) \/ Handoff!GivesUp(c, w) \/ Handoff!WindowEnds(c, w)
      PROVE  FileTypes'
  BY <1>1, <1>4 DEF Handoff!PicksUp, Handoff!GivesUp, Handoff!WindowEnds, Handoff!files
<1>5. ASSUME NEW p \in Handoff!Slots, Handoff!HookLetsBe(p) \/ Handoff!HookStops(p) \/
             Handoff!HookDecides(p) \/ Handoff!StartsDetached(p) \/ Handoff!Forgets(p)
      PROVE  FileTypes'
  BY <1>1, <1>5
     DEF Handoff!HookLetsBe, Handoff!HookStops, Handoff!HookDecides, Handoff!StartsDetached,
         Handoff!Forgets, Handoff!files
<1>6. ASSUME NEW p \in Handoff!Slots, Handoff!WritesJob(p) PROVE FileTypes'
  <2> PICK c : c = procs[p].conv
    OBVIOUS
  <2>1. c \in Conversations /\ procs[p].carries \in BOOLEAN
    BY <1>6, OfConv DEF Handoff!WritesJob, Handoff!At
  <2>2. /\ deskNow' = deskNow /\ deskRecord' = deskRecord /\ launch' = launch
        /\ \/ job' = job
           \/ job' = [job EXCEPT ![c] = [stamp |-> Handoff!Stamp(c), carries |-> procs[p].carries]]
    BY <1>6 DEF Handoff!WritesJob, Handoff!Conv
  <2>3. [stamp |-> Handoff!Stamp(c), carries |-> procs[p].carries] \in Jobs
    BY <2>1, NewStamp DEF Jobs
  <2>4. job' \in [Conversations -> Jobs \cup {None}]
    BY <2>2, <2>3 DEF HandoffTypes, FileTypes
  <2>5. QED
    BY <2>2, <2>4 DEF HandoffTypes, FileTypes
<1>7. ASSUME NEW p \in Handoff!Slots, Handoff!RecordsHandoff(p) \/ Handoff!RecordsOpened(p)
             PROVE FileTypes'
  <2> PICK c : c = procs[p].conv
    OBVIOUS
  <2>1. /\ c \in Conversations
        /\ procs[p].seen \in Handoff!Records /\ procs[p].stamp \in Handoff!Stamps
    BY <1>7, OfConv, SlotFacts, ProcFacts
       DEF Handoff!RecordsHandoff, Handoff!RecordsOpened, Handoff!At, Sensible
  <2>2. /\ deskNow' = deskNow /\ job' = job /\ launch' = launch
        /\ \/ deskRecord' = deskRecord
           \/ deskRecord' = Handoff!Recorded(procs[p].seen, c, procs[p].stamp)
    BY <1>7
       DEF Handoff!RecordsHandoff, Handoff!RecordsOpened, Handoff!RecordWrite, Handoff!Conv
  <2>3. Handoff!Recorded(procs[p].seen, c, procs[p].stamp) \in Handoff!Records
    BY <2>1 DEF Handoff!Recorded, Handoff!Records
  <2>4. QED
    BY <2>2, <2>3 DEF HandoffTypes, FileTypes
<1>8. ASSUME NEW p \in Handoff!Slots, Handoff!ReadsJob(p) PROVE FileTypes'
  BY <1>8 DEF Handoff!ReadsJob, HandoffTypes, FileTypes
<1>9. ASSUME NEW p \in Handoff!Slots, Handoff!OpensWindow(p) PROVE FileTypes'
  <2>1. procs[p].carries \in BOOLEAN
    BY SlotFacts, ProcFacts
  <2>2. QED
    BY <1>9, <2>1 DEF Handoff!OpensWindow, HandoffTypes, FileTypes
<1>10. ASSUME NEW p \in Handoff!Slots, Handoff!Forgotten(p) PROVE FileTypes'
  <2> PICK c : c = procs[p].conv
    OBVIOUS
  <2>1. c \in Conversations /\ procs[p].seen \in Handoff!Records
    BY <1>10, OfConv, SlotFacts, ProcFacts DEF Handoff!Forgotten, Handoff!At, Sensible
  <2>2. /\ deskNow' = deskNow /\ job' = job /\ launch' = launch
        /\ deskRecord' = deskRecord \/ deskRecord' = [procs[p].seen EXCEPT ![c] = None]
    BY <1>10 DEF Handoff!Forgotten, Handoff!Conv
  <2>3. [procs[p].seen EXCEPT ![c] = None] \in Handoff!Records
    BY <2>1 DEF Handoff!Records
  <2>4. QED
    BY <2>2, <2>3 DEF HandoffTypes, FileTypes
<1>11. CASE Handoff!Tick
  BY <1>11, HandoffAssumption DEF Handoff!Tick, Handoff!files, HandoffTypes, FileTypes
<1>12. CASE UNCHANGED Handoff!vars
  BY <1>1, <1>12 DEF Handoff!vars
<1>13. QED
  BY <1>2, <1>3, <1>4, <1>5, <1>6, <1>7, <1>8, <1>9, <1>10, <1>11, <1>12
     DEF Handoff!Next, Handoff!ProcessActs

LEMMA TurnCounted ==
  ASSUME HandoffTypes, NEW c \in Conversations, turns[c] < MaxTurns[c],
         turns' = [turns EXCEPT ![c] = @ + 1]
  PROVE  /\ turns' \in [Conversations -> Nat]
         /\ \A d \in Conversations : turns'[d] <= MaxTurns[d]
<1>1. turns \in [Conversations -> Nat] /\ \A d \in Conversations : turns[d] <= MaxTurns[d]
  BY DEF HandoffTypes, DeskTypes
<1>2. \A d \in Conversations : MaxTurns[d] \in Nat
  BY HandoffAssumption
<1>3. QED
  BY <1>1, <1>2

LEMMA DeskTypesKept == HandoffTypes /\ [Handoff!Next]_(Handoff!vars) => DeskTypes'
<1> SUFFICES ASSUME HandoffTypes, [Handoff!Next]_(Handoff!vars) PROVE DeskTypes'
  OBVIOUS
<1>1. ASSUME UNCHANGED <<deskClaude, turns, hands, message>> PROVE DeskTypes'
  BY <1>1 DEF HandoffTypes, DeskTypes
<1>2. ASSUME NEW c \in Conversations, NEW p \in Handoff!Slots, Handoff!SendsMessage(c, p)
             PROVE DeskTypes'
  BY <1>2, TurnCounted DEF Handoff!SendsMessage, HandoffTypes, DeskTypes
<1>3. ASSUME NEW c \in Conversations, NEW p \in Handoff!Slots, Handoff!AsksToMove(c, p) \/
             Handoff!Swaps(c, p)
      PROVE  DeskTypes'
  <2>1. /\ deskClaude' = deskClaude /\ turns' = turns /\ message' = message
        /\ hands < MaxHands /\ hands' = hands + 1
    BY <1>3 DEF Handoff!AsksToMove, Handoff!Asked, Handoff!Swaps
  <2>2. hands' \in 0..MaxHands
    BY <2>1, HandoffAssumption DEF HandoffTypes, DeskTypes
  <2>3. QED
    BY <2>1, <2>2 DEF HandoffTypes, DeskTypes
<1>4. ASSUME NEW c \in Conversations, Handoff!TurnBegins(c) PROVE DeskTypes'
  BY <1>4, TurnCounted DEF Handoff!TurnBegins, HandoffTypes, DeskTypes
<1>5. ASSUME NEW c \in Conversations, Handoff!TurnEnds(c) \/ Handoff!Closes(c) PROVE
             DeskTypes'
  <2>1. message' = message /\ turns' = turns /\ hands' = hands
    BY <1>5 DEF Handoff!TurnEnds, Handoff!Closes, Handoff!counts
  <2>2. \E said \in {"idle", "failed", "gone"} : deskClaude' = [deskClaude EXCEPT ![c] = said]
    BY <1>5 DEF Handoff!TurnEnds, Handoff!Closes
  <2>3. QED
    BY <2>1, <2>2 DEF HandoffTypes, DeskTypes
<1>6. ASSUME NEW c \in Conversations, NEW w \in deskWindows[c],
             Handoff!PicksUp(c, w) \/ Handoff!GivesUp(c, w) \/ Handoff!WindowEnds(c, w)
      PROVE  DeskTypes'
  BY <1>6
     DEF Handoff!PicksUp, Handoff!GivesUp, Handoff!WindowEnds, Handoff!counts, HandoffTypes,
         DeskTypes
<1>7. ASSUME NEW p \in Handoff!Slots, Handoff!HookLetsBe(p) \/ Handoff!HookStops(p) \/
             Handoff!WritesJob(p) PROVE DeskTypes'
  BY <1>7
     DEF Handoff!HookLetsBe, Handoff!HookStops, Handoff!WritesJob, Handoff!LetsBe,
         Handoff!counts, HandoffTypes, DeskTypes
<1>8. ASSUME NEW p \in Handoff!Slots, Handoff!StartsDetached(p) PROVE DeskTypes'
  <2> PICK c : c = procs[p].conv
    OBVIOUS
  <2>1. turns' = turns /\ hands' = hands
    BY <1>8 DEF Handoff!StartsDetached, Handoff!counts
  <2>2. \/ deskClaude' = deskClaude /\ message' = message
        \/ /\ deskClaude' = [deskClaude EXCEPT ![c] = "idle"]
           /\ message' = [message EXCEPT ![c] = IF @ = "typed" THEN "held" ELSE @]
    BY <1>8 DEF Handoff!StartsDetached, Handoff!Conv
  <2>3. QED
    BY <2>1, <2>2 DEF HandoffTypes, DeskTypes
<1>9. ASSUME NEW p \in Handoff!Slots, Handoff!Forgotten(p) PROVE DeskTypes'
  BY <1>9 DEF Handoff!Forgotten, Handoff!LetsBe, Handoff!counts, HandoffTypes, DeskTypes
<1>10. ASSUME NEW p \in Handoff!Slots,
              Handoff!HookDecides(p) \/ Handoff!RecordsHandoff(p) \/ Handoff!ReadsJob(p)
                \/ Handoff!OpensWindow(p) \/ Handoff!RecordsOpened(p) \/ Handoff!Forgets(p)
       PROVE  DeskTypes'
  BY <1>1, <1>10
     DEF Handoff!HookDecides, Handoff!RecordsHandoff, Handoff!ReadsJob, Handoff!OpensWindow,
         Handoff!RecordsOpened, Handoff!Forgets, Handoff!counts
<1>11. CASE Handoff!Tick \/ UNCHANGED Handoff!vars
  BY <1>1, <1>11 DEF Handoff!Tick, Handoff!vars, Handoff!counts
<1>12. QED
  BY <1>2, <1>3, <1>4, <1>5, <1>6, <1>7, <1>8, <1>9, <1>10, <1>11
     DEF Handoff!Next, Handoff!ProcessActs

LEMMA WindowTypesKept == HandoffTypes /\ [Handoff!Next]_(Handoff!vars) => WindowTypes'
<1> SUFFICES ASSUME HandoffTypes, [Handoff!Next]_(Handoff!vars) PROVE WindowTypes'
  OBVIOUS
<1>1. ASSUME UNCHANGED <<deskNow, deskWindows, begun>> PROVE WindowTypes'
  BY <1>1 DEF HandoffTypes, WindowTypes
<1>2. ASSUME NEW c \in Conversations, NEW p \in Handoff!Slots,
             Handoff!SendsMessage(c, p) \/ Handoff!AsksToMove(c, p) \/ Handoff!Swaps(c, p)
      PROVE  WindowTypes'
  BY <1>1, <1>2
     DEF Handoff!SendsMessage, Handoff!AsksToMove, Handoff!Asked, Handoff!Swaps,
         Handoff!history
<1>3. ASSUME NEW c \in Conversations, Handoff!TurnBegins(c) \/ Handoff!TurnEnds(c) \/
             Handoff!Closes(c) PROVE WindowTypes'
  BY <1>1, <1>3 DEF Handoff!TurnBegins, Handoff!TurnEnds, Handoff!Closes, Handoff!history
<1>4. ASSUME NEW c \in Conversations, NEW w \in deskWindows[c],
             Handoff!PicksUp(c, w) \/ Handoff!GivesUp(c, w) \/ Handoff!WindowEnds(c, w)
      PROVE  WindowTypes'
  <2>1. deskNow' = deskNow /\ begun' = begun
    BY <1>4 DEF Handoff!PicksUp, Handoff!GivesUp, Handoff!WindowEnds, Handoff!history
  <2>2. PICK state \in {"runs", "over"} : Handoff!Moves(c, w, state)
    BY <1>4 DEF Handoff!PicksUp, Handoff!GivesUp, Handoff!WindowEnds
  <2>3. [w EXCEPT !.state = state] \in Handoff!Windows /\ [w EXCEPT !.state = state].at = w.at
    BY DEF HandoffTypes, WindowTypes, Handoff!Windows
  <2>4. QED
    BY <2>1, <2>2, <2>3 DEF Handoff!Moves, HandoffTypes, WindowTypes
<1>5. ASSUME NEW p \in Handoff!Slots, Handoff!WritesJob(p) PROVE WindowTypes'
  BY <1>5 DEF Handoff!WritesJob, Handoff!Begins, Handoff!history, HandoffTypes, WindowTypes
<1>6. ASSUME NEW p \in Handoff!Slots, Handoff!OpensWindow(p) PROVE WindowTypes'
  <2> PICK c : c = procs[p].conv
    OBVIOUS
  <2>1. c \in Conversations /\ deskNow' = deskNow
    BY <1>6, OfConv DEF Handoff!OpensWindow, Handoff!At
  <2>2. \/ UNCHANGED <<deskWindows, begun>>
        \/ /\ deskWindows' = [deskWindows EXCEPT ![c] = @ \cup {NewWindow(c)}]
           /\ begun' = [begun EXCEPT ![c] = @ + 1]
    BY <1>6 DEF Handoff!OpensWindow, Handoff!Conv, Handoff!Begins, NewWindow
  <2>3. NewWindow(c) \in Handoff!Windows /\ NewWindow(c).at = deskNow
    BY <2>1 DEF NewWindow, Handoff!Windows, HandoffTypes, FileTypes, WindowTypes
  <2>4. QED
    BY <1>1, <2>1, <2>2, <2>3, HandoffAssumption DEF HandoffTypes, FileTypes, WindowTypes
<1>7. ASSUME NEW p \in Handoff!Slots,
             Handoff!HookLetsBe(p) \/ Handoff!HookStops(p) \/ Handoff!HookDecides(p)
               \/ Handoff!RecordsHandoff(p) \/ Handoff!StartsDetached(p) \/ Handoff!ReadsJob(p)
               \/ Handoff!RecordsOpened(p) \/ Handoff!Forgets(p) \/ Handoff!Forgotten(p)
      PROVE  WindowTypes'
  BY <1>1, <1>7
     DEF Handoff!HookLetsBe, Handoff!HookStops, Handoff!HookDecides, Handoff!RecordsHandoff,
         Handoff!StartsDetached, Handoff!ReadsJob, Handoff!RecordsOpened, Handoff!Forgets,
         Handoff!Forgotten, Handoff!history
<1>8. CASE Handoff!Tick
  <2>1. deskNow' = deskNow + 1 /\ deskWindows' = deskWindows /\ begun' = begun /\ deskNow \in Nat
    BY <1>8 DEF Handoff!Tick, Handoff!history, HandoffTypes, FileTypes
  <2>2. \A c \in Conversations : \A w \in deskWindows[c] : w.at \in Nat
    BY DEF HandoffTypes, WindowTypes, Handoff!Windows
  <2>3. QED
    BY <2>1, <2>2 DEF HandoffTypes, WindowTypes
<1>9. CASE UNCHANGED Handoff!vars
  BY <1>1, <1>9 DEF Handoff!vars
<1>10. QED
  BY <1>2, <1>3, <1>4, <1>5, <1>6, <1>7, <1>8, <1>9 DEF Handoff!Next, Handoff!ProcessActs

LEMMA HistoryTypesKept == HandoffTypes /\ [Handoff!Next]_(Handoff!vars) => HistoryTypes'
<1> SUFFICES ASSUME HandoffTypes, [Handoff!Next]_(Handoff!vars) PROVE HistoryTypes'
  OBVIOUS
<1>1. ASSUME UNCHANGED <<gaps, deskLost>> PROVE HistoryTypes'
  BY <1>1 DEF HandoffTypes, HistoryTypes
<1>2. ASSUME NEW c \in Conversations, NEW p \in Handoff!Slots,
             Handoff!SendsMessage(c, p) \/ Handoff!AsksToMove(c, p) \/ Handoff!Swaps(c, p)
      PROVE  HistoryTypes'
  BY <1>1, <1>2
     DEF Handoff!SendsMessage, Handoff!AsksToMove, Handoff!Asked, Handoff!Swaps,
         Handoff!history
<1>3. ASSUME NEW c \in Conversations, Handoff!TurnBegins(c) \/ Handoff!TurnEnds(c) PROVE
             HistoryTypes'
  BY <1>1, <1>3 DEF Handoff!TurnBegins, Handoff!TurnEnds, Handoff!history
<1>4. ASSUME NEW c \in Conversations, Handoff!Closes(c) PROVE HistoryTypes'
  BY <1>4 DEF Handoff!Closes, HandoffTypes, HistoryTypes, Why
<1>5. ASSUME NEW c \in Conversations, NEW w \in deskWindows[c],
             Handoff!PicksUp(c, w) \/ Handoff!GivesUp(c, w) \/ Handoff!WindowEnds(c, w)
      PROVE  HistoryTypes'
  BY <1>5
     DEF Handoff!PicksUp, Handoff!GivesUp, Handoff!WindowEnds, Handoff!history,
         HandoffTypes, HistoryTypes, How
<1>6. ASSUME NEW p \in Handoff!Slots, Handoff!WritesJob(p) PROVE HistoryTypes'
  BY <1>6
     DEF Handoff!WritesJob, Handoff!GapsFor, Handoff!history, HandoffTypes, HistoryTypes,
         Why, How
<1>7. ASSUME NEW p \in Handoff!Slots, Handoff!RecordsHandoff(p) \/ Handoff!RecordsOpened(p)
             PROVE HistoryTypes'
  BY <1>7
     DEF Handoff!RecordsHandoff, Handoff!RecordsOpened, Handoff!RecordWrite,
         Handoff!Crossed, HandoffTypes, HistoryTypes, Why
<1>8. ASSUME NEW p \in Handoff!Slots, Handoff!StartsDetached(p) PROVE HistoryTypes'
  <2> PICK c : c = procs[p].conv
    OBVIOUS
  <2>1. gaps' = gaps
    BY <1>8 DEF Handoff!StartsDetached
  <2>2. deskLost' \in {deskLost, [deskLost EXCEPT ![c] = @ \cup {"unopened"}],
                     [deskLost EXCEPT ![c] = @]}
    BY <1>8 DEF Handoff!StartsDetached, Handoff!Conv
  <2>3. QED
    BY <2>1, <2>2 DEF HandoffTypes, HistoryTypes, How
<1>9. ASSUME NEW p \in Handoff!Slots, Handoff!OpensWindow(p) PROVE HistoryTypes'
  <2> PICK c : c = procs[p].conv
    OBVIOUS
  <2> DEFINE dropped == IF /\ launch[c] = TRUE /\ ~procs[p].carries
                           /\ {w \in deskWindows[c] : w.state = "waits"} # {}
                        THEN {"overwritten"} ELSE {}
             unopened == IF procs[p].carries THEN {"unopened"} ELSE {}
  <2>1. \/ deskLost' = [deskLost EXCEPT ![c] = @ \cup dropped]
        \/ deskLost' = [deskLost EXCEPT ![c] = @ \cup dropped \cup unopened]
    BY <1>9 DEF Handoff!OpensWindow, Handoff!Conv
  <2>2. \E more \in SUBSET Why : gaps' = [gaps EXCEPT ![c] = @ \cup more] \/ gaps' = gaps
    <3>1. gaps' \in {gaps, [gaps EXCEPT ![c] = @ \cup {"again"}], Handoff!GapsFor(p, c)}
      BY <1>9 DEF Handoff!OpensWindow, Handoff!Conv
    <3>2. {"again"} \in SUBSET Why /\ {"overlap"} \in SUBSET Why
      BY DEF Why
    <3>3. QED
      BY <3>1, <3>2 DEF Handoff!GapsFor
  <2>3. deskLost' \in [Conversations -> SUBSET How]
    BY <2>1 DEF HandoffTypes, HistoryTypes, How
  <2>4. gaps' \in [Conversations -> SUBSET Why]
    BY <2>2 DEF HandoffTypes, HistoryTypes
  <2>5. QED
    BY <2>3, <2>4 DEF HistoryTypes
<1>10. ASSUME NEW p \in Handoff!Slots, Handoff!Forgotten(p) PROVE HistoryTypes'
  <2> PICK c : c = procs[p].conv
    OBVIOUS
  <2>1. deskLost' = deskLost
    BY <1>10 DEF Handoff!Forgotten
  <2>2. Handoff!Crossed(procs[p].seen, c) \in [Conversations -> SUBSET Why]
    BY DEF Handoff!Crossed, HandoffTypes, HistoryTypes, Why
  <2>3. \/ gaps' = gaps \/ gaps' = [gaps EXCEPT ![c] = @ \cup {"unwritten"}]
        \/ gaps' = [Handoff!Crossed(procs[p].seen, c) EXCEPT ![c] =
                       IF deskRecord[c] # procs[p].seen[c] THEN @ \cup {"writtenOver"} ELSE @]
    BY <1>10 DEF Handoff!Forgotten, Handoff!Conv
  <2>4. QED
    BY <2>1, <2>2, <2>3 DEF HandoffTypes, HistoryTypes, Why
<1>11. ASSUME NEW p \in Handoff!Slots, Handoff!HookLetsBe(p) \/ Handoff!HookStops(p) \/
              Handoff!HookDecides(p) \/ Handoff!ReadsJob(p) \/ Handoff!Forgets(p)
       PROVE  HistoryTypes'
  BY <1>1, <1>11
     DEF Handoff!HookLetsBe, Handoff!HookStops, Handoff!HookDecides, Handoff!ReadsJob,
         Handoff!Forgets, Handoff!history
<1>12. CASE Handoff!Tick \/ UNCHANGED Handoff!vars
  BY <1>1, <1>12 DEF Handoff!Tick, Handoff!vars, Handoff!history
<1>13. QED
  BY <1>2, <1>3, <1>4, <1>5, <1>6, <1>7, <1>8, <1>9, <1>10, <1>11, <1>12
     DEF Handoff!Next, Handoff!ProcessActs

\* What a step leaves in a slot is a process of the kind that is at its step.
LEMMA OneTyped ==
  ASSUME HandoffTypes, NEW p \in Handoff!Slots, Only(p), procs'[p] \in Proc PROVE ProcTypes'
BY DEF HandoffTypes, ProcTypes, Only, Handoff!Slots

LEMMA Becomes ==
  ASSUME HandoffTypes, NEW p \in Handoff!Slots, Only(p), NEW c \in Conversations, NEW at \in
         Handoff!Steps, NEW kind \in Handoff!Kinds, NEW seen \in Handoff!Records \cup
         {None}, NEW stamp \in Handoff!Stamps \cup {None}, NEW carries \in BOOLEAN, NEW
         count \in Nat \cup {None}, procs'[p] = Entry(at, kind, c, seen, stamp, carries,
         count), Sensible(Entry(at, kind, c, seen, stamp, carries, count))
  PROVE  ProcTypes'
<1>1. procs'[p] \in Proc
  BY MakesProc
<1>2. QED
  BY <1>1, OneTyped

LEMMA GoesOn ==
  ASSUME HandoffTypes, NEW c \in Conversations, NEW p \in Handoff!Slots, Only(p),
         procs[p].conv = c, procs[p].at # "free", NEW at \in Handoff!Steps, NEW kind \in
         Handoff!Kinds, NEW seen \in Handoff!Records \cup {None}, NEW stamp \in
         Handoff!Stamps \cup {None}, To(p, c, at, kind, seen, stamp), Sensible(Entry(at,
         kind, c, seen, stamp, procs[p].carries, procs[p].begun))
  PROVE  ProcTypes'
<1>1. procs[p].carries \in BOOLEAN /\ procs[p].begun \in Nat \cup {None}
  BY SlotFacts, ProcFacts
<1>2. Entry(at, kind, c, seen, stamp, procs[p].carries, procs[p].begun) \in Proc
  BY <1>1, MakesProc
<1>3. procs'[p] \in Proc
  BY <1>2 DEF To
<1>4. QED
  BY <1>3, OneTyped

LEMMA StartsTyped ==
  ASSUME HandoffTypes, NEW c \in Conversations, NEW p, NEW kind \in Handoff!Kinds, NEW at
         \in Handoff!Steps, NEW carries \in BOOLEAN, NEW count \in Nat \cup {None},
         Starts(p, kind, c, at, carries, count), Sensible(Entry(at, kind, c, None, None,
         carries, count))
  PROVE  ProcTypes'
<1>1. procs'[p] \in Proc
  BY MakesProc DEF Starts
<1>2. QED
  BY <1>1, OneTyped DEF Starts

LEMMA ProcTypesKept ==
  ASSUME HandoffTypes, HandoffStep PROVE ProcTypes'
<1>1. ASSUME procs' = procs PROVE ProcTypes'
  BY <1>1 DEF HandoffTypes, ProcTypes
<1>2. ASSUME NEW p \in Handoff!Slots, Only(p), procs'[p] = Handoff!Free PROVE ProcTypes'
  BY <1>2, FreeIsProc, OneTyped
<1>3. ASSUME NEW c \in Conversations, Turned(c) \/ \E w \in deskWindows[c] : WindowMoved(c,
             w)
      PROVE  ProcTypes'
  BY <1>1, <1>3 DEF Turned, WindowMoved
<1>4. ASSUME NEW c \in Conversations, Closed(c) PROVE ProcTypes'
  BY <1>4, FreeIsProc DEF Closed, HandoffTypes, ProcTypes
<1>5. ASSUME NEW c \in Conversations, NEW p \in Handoff!Slots, Typed(c, p) \/ Failed(c, p)
      PROVE  ProcTypes'
  <2>1. \E kind \in {"prompt", "limit"}, carries \in BOOLEAN :
           Starts(p, kind, c, "looks", carries, 0) /\ carries = (kind = "prompt")
    BY <1>5 DEF Typed, Failed
  <2>2. PICK kind \in {"prompt", "limit"}, carries \in BOOLEAN :
           Starts(p, kind, c, "looks", carries, 0) /\ carries = (kind = "prompt")
    BY <2>1
  <2>3. Sensible(Entry("looks", kind, c, None, None, carries, 0))
    BY <2>2 DEF Sensible, Entry
  <2>4. kind \in Handoff!Kinds /\ "looks" \in Handoff!Steps /\ 0 \in Nat \cup {None}
    BY DEF Handoff!Kinds, Handoff!Steps
  <2>5. QED
    BY <2>2, <2>3, <2>4, StartsTyped
<1>6. ASSUME NEW c \in Conversations, NEW p \in Handoff!Slots, Moving(c, p) PROVE ProcTypes'
  <2>1. PICK kind \in {"move", "again", "swap"} :
           Starts(p, kind, c, "opens", FALSE, Handoff!Begun(c))
    BY <1>6 DEF Moving
  <2>2. Handoff!Begun(c) \in Nat \cup {None}
    BY DEF Handoff!Begun, HandoffTypes, WindowTypes
  <2>3. Sensible(Entry("opens", kind, c, None, None, FALSE, Handoff!Begun(c)))
    BY DEF Sensible, Entry
  <2>4. QED
    BY <2>1, <2>2, <2>3, StartsTyped DEF Handoff!Kinds, Handoff!Steps
<1>7. ASSUME NEW c \in Conversations, NEW p \in Handoff!Slots, ProcessSteps(c, p) PROVE
             ProcTypes'
  <2> DEFINE x == procs[p]
  <2>1. /\ x \in Proc /\ x.at \in Handoff!Steps /\ x.kind \in Handoff!Kinds
        /\ x.seen \in Handoff!Records \cup {None}
        /\ x.stamp \in Handoff!Stamps \cup {None} /\ x.carries \in BOOLEAN
        /\ x.begun \in Nat \cup {None} /\ Sensible(x) /\ deskRecord \in Handoff!Records
    BY SlotFacts, ProcFacts DEF HandoffTypes, FileTypes
  <2>2. CASE LetBe(c, p) \/ OpenMarked(c, p) \/ NoJob(c, p) \/ TakenBack(c, p)
    BY <1>2, <2>2 DEF LetBe, OpenMarked, NoJob, TakenBack, From
  <2>3. CASE Decided(c, p)
    <3>1. Handoff!Begun(c) \in Nat \cup {None}
      BY DEF Handoff!Begun, HandoffTypes, WindowTypes
    <3>2. x.at = "looks" /\ Only(p)
      BY <2>3 DEF Decided, From
    <3>3. Sensible(Entry("writesJob", x.kind, c, x.seen, x.stamp, x.carries, Handoff!Begun(c)))
      BY <2>1, <3>2 DEF Sensible, Entry
    <3>4. /\ "writesJob" \in Handoff!Steps
          /\ procs'[p] = Entry("writesJob", x.kind, c, x.seen, x.stamp, x.carries, Handoff!Begun(c))
      BY <2>3 DEF Decided, Handoff!Steps
    <3>5. QED
      BY <2>1, <3>1, <3>2, <3>3, <3>4, Becomes
  <2>4. CASE JobWritten(c, p)
    <3>1. /\ x.at = "writesJob" /\ Only(p) /\ x.conv = c
          /\ To(p, c, "records", x.kind, deskRecord, Handoff!Stamp(c))
      BY <2>4 DEF JobWritten, From
    <3>2. Handoff!Stamp(c) \in Handoff!Stamps /\ Handoff!Stamp(c) # None /\ deskRecord # None
      BY <2>1, NewStamp, HandoffAssumption
    <3>3. Sensible(Entry("records", x.kind, c, deskRecord, Handoff!Stamp(c), x.carries, x.begun))
      BY <2>1, <3>1, <3>2 DEF Sensible, Entry
    <3>4. QED
      BY <2>1, <3>1, <3>2, <3>3, GoesOn DEF Handoff!Steps
  <2>5. CASE Marked(c, p)
    <3>1. /\ x.at = "records" /\ Only(p) /\ x.conv = c
          /\ To(p, c, "starts", x.kind, x.seen, x.stamp)
      BY <2>5 DEF Marked, From
    <3>2. Sensible(Entry("starts", x.kind, c, x.seen, x.stamp, x.carries, x.begun))
      BY <2>1, <3>1 DEF Sensible, Entry
    <3>3. QED
      BY <2>1, <3>1, <3>2, GoesOn DEF Handoff!Steps
  <2>6. CASE JobStarted(c, p)
    <3>1. PICK q \in Handoff!Slots :
             /\ procs'[q] = Entry("reads", "job", c, None, None, FALSE, 0)
             /\ \A o \in Handoff!Slots : o # p /\ o # q => procs'[o] = procs[o]
      BY <2>6 DEF JobStarted
    <3>2. Sensible(Entry("reads", "job", c, None, None, FALSE, 0))
      BY DEF Sensible, Entry
    <3>3. procs'[q] \in Proc
      BY <3>1, <3>2, MakesProc DEF Handoff!Steps, Handoff!Kinds
    <3>4. procs'[p] \in Proc /\ procs' = [o \in Handoff!Slots |-> procs'[o]]
      BY <2>6, FreeIsProc DEF JobStarted
    <3>5. QED
      BY <3>1, <3>3, <3>4 DEF HandoffTypes, ProcTypes
  <2>7. CASE JobRefused(c, p)
    <3>1. /\ x.at = "starts" /\ Only(p) /\ x.conv = c
          /\ To(p, c, "forgets", x.kind, x.seen, x.stamp)
      BY <2>7 DEF JobRefused, From
    <3>2. Sensible(Entry("forgets", x.kind, c, x.seen, x.stamp, x.carries, x.begun))
      BY <2>1, <3>1 DEF Sensible, Entry
    <3>3. QED
      BY <2>1, <3>1, <3>2, GoesOn DEF Handoff!Steps
  <2>8. CASE JobFailed(c, p)
    <3>1. /\ x.at = "starts" /\ Only(p) /\ x.conv = c
          /\ To(p, c, "forgets", "job", x.seen, x.stamp)
      BY <2>8 DEF JobFailed, From
    <3>2. Sensible(Entry("forgets", "job", c, x.seen, x.stamp, x.carries, x.begun))
      BY <2>1, <3>1 DEF Sensible, Entry
    <3>3. QED
      BY <2>1, <3>1, <3>2, GoesOn DEF Handoff!Steps, Handoff!Kinds
  <2>9. CASE JobRead(c, p)
    <3>1. /\ x.at = "reads" /\ Only(p) /\ x.conv = c /\ job[c] \in Jobs
          /\ procs'[p] = Entry("opens", "job", c, x.seen, job[c].stamp, job[c].carries, x.begun)
      BY <2>9 DEF JobRead, From, HandoffTypes, FileTypes
    <3>2. job[c].stamp \in Handoff!Stamps /\ job[c].carries \in BOOLEAN /\ job[c].stamp # None
      BY <3>1, HandoffAssumption DEF Jobs
    <3>3. Sensible(Entry("opens", "job", c, x.seen, job[c].stamp, job[c].carries, x.begun))
      BY <2>1, <3>1, <3>2 DEF Sensible, Entry
    <3>4. "opens" \in Handoff!Steps /\ "job" \in Handoff!Kinds
      BY DEF Handoff!Steps, Handoff!Kinds
    <3>5. QED
      BY <2>1, <3>1, <3>2, <3>3, <3>4, Becomes
  <2>10. CASE WindowOpened(c, p)
    <3>1. /\ x.at = "opens" /\ Only(p) /\ x.conv = c
          /\ To(p, c, "recordsOpened", x.kind, deskRecord, Handoff!Stamp(c))
      BY <2>10 DEF WindowOpened, Relaunch, From
    <3>2. Handoff!Stamp(c) \in Handoff!Stamps /\ Handoff!Stamp(c) # None /\ deskRecord # None
      BY <2>1, NewStamp, HandoffAssumption
    <3>3. Sensible(Entry("recordsOpened", x.kind, c, deskRecord, Handoff!Stamp(c),
                         x.carries, x.begun))
      BY <2>1, <3>1, <3>2 DEF Sensible, Entry
    <3>4. QED
      BY <2>1, <3>1, <3>2, <3>3, GoesOn DEF Handoff!Steps
  <2>11. CASE NotOpened(c, p)
    <3>1. x.at = "opens" /\ Only(p) /\ x.conv = c
      BY <2>11 DEF NotOpened, Relaunch, From
    <3>2. CASE x.kind = "job" /\ To(p, c, "forgets", x.kind, x.seen, x.stamp)
      <4>1. Sensible(Entry("forgets", x.kind, c, x.seen, x.stamp, x.carries, x.begun))
        BY <2>1, <3>1, <3>2 DEF Sensible, Entry
      <4>2. QED
        BY <2>1, <3>1, <3>2, <4>1, GoesOn DEF Handoff!Steps
    <3>3. CASE procs'[p] = Handoff!Free
      BY <1>2, <3>1, <3>3
    <3>4. QED
      BY <2>11, <3>2, <3>3 DEF NotOpened
  <2>12. CASE Forgetting(c, p)
    <3>1. /\ x.at = "forgets" /\ Only(p) /\ x.conv = c
          /\ To(p, c, "forgetting", x.kind, deskRecord, x.stamp)
      BY <2>12 DEF Forgetting, From
    <3>2. deskRecord # None
      BY <2>1, HandoffAssumption
    <3>3. Sensible(Entry("forgetting", x.kind, c, deskRecord, x.stamp, x.carries, x.begun))
      BY <2>1, <3>1, <3>2 DEF Sensible, Entry
    <3>4. QED
      BY <2>1, <3>1, <3>3, GoesOn DEF Handoff!Steps
  <2>13. QED
    BY <1>7, <2>2, <2>3, <2>4, <2>5, <2>6, <2>7, <2>8, <2>9, <2>10, <2>11, <2>12
       DEF ProcessSteps
<1>8. QED
  BY <1>1, <1>3, <1>4, <1>5, <1>6, <1>7 DEF HandoffStep, StepOf, Acts, Runs, Joins, Ticked

LEMMA TypesKept ==
  ASSUME HandoffTypes, \A c \in Conversations : WindowNumbers(c),
         [Handoff!Next]_(Handoff!vars) PROVE HandoffTypes'
BY EachStep, FileTypesKept, DeskTypesKept, ProcTypesKept, WindowTypesKept, HistoryTypesKept
   DEF HandoffTypes

-----------------------------------------------------------------------------
(* A conversation that is left alone.                                      *)

LEMMA UndisturbedFacts ==
  ASSUME NEW d \in Conversations, Undisturbed(d)
  PROVE  /\ \A q \in Handoff!Slots : procs[q].conv = d \/ procs'[q].conv = d => procs'[q] = procs[q]
         /\ \A q \in Handoff!Slots : Handing(q, d)' <=> Handing(q, d)
         /\ Clean(d)' => Clean(d) /\ gaps'[d] = gaps[d] /\ MarkKept(d)
         /\ Opened(d)' => Opened(d) /\ Clean(d) /\ MarkKept(d)
<1>1. \A q \in Handoff!Slots : Handing(q, d)' <=> Handing(q, d)
  BY DEF Undisturbed, Handing, IsHook
<1>2. Clean(d)' => Clean(d) /\ gaps'[d] = gaps[d] /\ MarkKept(d)
  BY DEF Undisturbed, Clean
<1>3. QED
  BY <1>1, <1>2 DEF Undisturbed, Opened

LEMMA ProcsUndisturbed ==
  ASSUME NEW d \in Conversations, Undisturbed(d)
  PROVE  /\ StampInv(d) => StampInv(d)'
         /\ HookInv(d) => HookInv(d)'
         /\ OneInv(d) => OneInv(d)'
         /\ JobInv(d) => JobInv(d)'
         /\ OpenedInv(d) => OpenedInv(d)'
         /\ WindowNumbers(d) => WindowNumbers(d)'
         /\ AskedInv(d) => AskedInv(d)'
         /\ BegunInv(d) => BegunInv(d)'
         /\ TypedInv(d) => TypedInv(d)'
         /\ Apart(d) => Apart(d)'
<1>1. StampInv(d) => StampInv(d)'
  BY DEF Undisturbed, StampInv
<1>2. HookInv(d) => HookInv(d)'
  BY DEF Undisturbed, HookInv, IsHook
<1>3. OneInv(d) => OneInv(d)'
  BY UndisturbedFacts DEF OneInv
<1>4. JobInv(d) => JobInv(d)'
  BY UndisturbedFacts DEF JobInv, Handing, Undisturbed
<1>5. OpenedInv(d) => OpenedInv(d)'
  BY DEF Undisturbed, OpenedInv
<1>6. WindowNumbers(d) => WindowNumbers(d)'
  BY DEF Undisturbed, WindowNumbers
<1>7. AskedInv(d) => AskedInv(d)'
  <2>1. \A q \in Handoff!Slots : Asking(q, d)' <=> Asking(q, d)
    BY DEF Undisturbed, Asking
  <2>2. QED
    BY <2>1, UndisturbedFacts DEF AskedInv, Handing
<1>8. BegunInv(d) => BegunInv(d)'
  BY DEF Undisturbed, BegunInv
<1>9. TypedInv(d) => TypedInv(d)'
  BY DEF Undisturbed, TypedInv
<1>10. Apart(d) => Apart(d)'
  BY UndisturbedFacts DEF Undisturbed, Apart
<1>11. QED
  BY <1>1, <1>2, <1>3, <1>4, <1>5, <1>6, <1>7, <1>8, <1>9, <1>10

LEMMA MarksUndisturbed ==
  ASSUME HandoffTypes, NEW d \in Conversations, Undisturbed(d)
  PROVE  /\ MarkInv(d) => MarkInv(d)'
         /\ BackInv(d) => BackInv(d)'
         /\ MarkedInv(d) => MarkedInv(d)'
         /\ AloneInv(d) => AloneInv(d)'
         /\ HeldInv(d) => HeldInv(d)'
         /\ HoldingInv(d) => HoldingInv(d)'
<1>1. /\ deskNow' = deskNow /\ deskWindows'[d] = deskWindows[d] /\ deskNow \in Nat
      /\ deskRecord[d] # None => deskRecord[d].time \in Nat
      /\ \A w \in deskWindows[d] : w.at \in Nat
  BY StampFacts
     DEF Undisturbed, HandoffTypes, FileTypes, WindowTypes, Handoff!Windows, Handoff!Records
<1>2. MarkInv(d) => MarkInv(d)'
  BY <1>1, UndisturbedFacts, HandoffAssumption
     DEF MarkInv, Handing, MarkKept, Handoff!Recent
<1>3. BackInv(d) => BackInv(d)'
  <2>1. ASSUME Clean(d)', Handoff!Recent(deskRecord, d)' PROVE Clean(d) /\
               Handoff!Recent(deskRecord, d) /\ deskRecord'[d] = deskRecord[d]
    BY <1>1, <2>1, UndisturbedFacts DEF MarkKept, Handoff!Recent
  <2>2. ASSUME NEW p \in Handoff!Slots, Answers(p, d), deskRecord'[d] = deskRecord[d] PROVE
               Answers(p, d)'
    BY <2>2, UndisturbedFacts DEF Answers, Handing, Undisturbed
  <2>3. QED
    BY <1>1, <2>1, <2>2, UndisturbedFacts DEF BackInv
<1>4. MarkedInv(d) => MarkedInv(d)'
  <2> SUFFICES ASSUME MarkedInv(d), Opened(d)', NEW w \in deskWindows[d], deskNow - w.at < Quiet
               PROVE  \/ deskRecord'[d] # None /\ deskRecord'[d].time >= w.at
                      \/ \E p \in Handoff!Slots :
                            /\ procs'[p].conv = d /\ procs'[p].at = "recordsOpened"
                            /\ procs'[p].kind # "job"
    BY <1>1 DEF MarkedInv
  <2>1. CASE deskRecord[d] # None /\ deskRecord[d].time >= w.at
    BY <1>1, <2>1, UndisturbedFacts, HandoffAssumption DEF MarkKept, Handoff!Recent
  <2>2. QED
    BY <2>1, UndisturbedFacts DEF MarkedInv
<1>5. AloneInv(d) => AloneInv(d)'
  <2>1. \A p \in Handoff!Slots : Alone(p, d)' => Alone(p, d)
    BY UndisturbedFacts DEF Alone, Asking, Handing, IsHook, Undisturbed
  <2>2. QED
    BY <1>1, <2>1, UndisturbedFacts DEF AloneInv, NoneRecent
<1>6. Carried(d) => Carried(d)'
  BY DEF Undisturbed, Carried
<1>7. HeldInv(d) => HeldInv(d)'
  BY <1>6 DEF Undisturbed, HeldInv, JobCarries
<1>8. HoldingInv(d) => HoldingInv(d)'
  BY <1>6 DEF Undisturbed, HoldingInv, JobCarries
<1>9. QED
  BY <1>2, <1>3, <1>4, <1>5, <1>7, <1>8

LEMMA GoodUndisturbed ==
  ASSUME HandoffTypes, NEW d \in Conversations, Undisturbed(d), Good(d) PROVE Good(d)'
BY ProcsUndisturbed, MarksUndisturbed DEF Good

LEMMA GoodTicked ==
  ASSUME HandoffTypes, NEW d \in Conversations, Ticked, Good(d) PROVE Good(d)'
<1>1. /\ deskNow' = deskNow + 1 /\ deskNow \in Nat
      /\ deskClaude'[d] = deskClaude[d] /\ message'[d] = message[d]
      /\ deskRecord'[d] = deskRecord[d] /\ gaps'[d] = gaps[d] /\ job'[d] = job[d]
      /\ launch'[d] = launch[d] /\ deskWindows'[d] = deskWindows[d] /\ begun'[d] = begun[d]
      /\ deskLost'[d] = deskLost[d]
  BY DEF Ticked, SameDesktop, SameRecord, SameJob, SameWindows, SameLost, HandoffTypes,
     FileTypes
<1>2. \A q \in Handoff!Slots : procs'[q].conv # d /\ procs[q].conv # d
  BY FreeFacts DEF Ticked
<1>3. \A w \in deskWindows[d] : w.at \in Nat
  BY DEF HandoffTypes, WindowTypes, Handoff!Windows
<1>4. deskRecord[d] # None => deskRecord[d].time \in Nat
  BY StampFacts DEF HandoffTypes, FileTypes, Handoff!Records
<1>5. StampInv(d)' /\ OpenedInv(d)' /\ BegunInv(d)'
  BY <1>2 DEF StampInv, OpenedInv, BegunInv
<1>6. HookInv(d)' /\ \A q \in Handoff!Slots : ~Handing(q, d)' /\ ~Alone(q, d)'
  BY <1>2 DEF HookInv, Handing, Alone, Asking
<1>7. OneInv(d)' /\ MarkInv(d)' /\ JobInv(d)' /\ AskedInv(d)' /\ AloneInv(d)'
  BY <1>6 DEF OneInv, MarkInv, JobInv, AskedInv, AloneInv
<1>8. BackInv(d)'
  <2>1. \A q \in Handoff!Slots : ~Answers(q, d)
    BY <1>2 DEF Answers, Handing
  <2>2. Handoff!Recent(deskRecord, d)' => Handoff!Recent(deskRecord, d)
    BY <1>1, <1>4, HandoffAssumption DEF Handoff!Recent
  <2>3. QED
    BY <1>1, <2>1, <2>2 DEF Good, BackInv, Clean
<1>9. MarkedInv(d)'
  BY <1>1, <1>2, <1>3, HandoffAssumption DEF Good, MarkedInv, Opened, Clean
<1>10. WindowNumbers(d)' /\ TypedInv(d)' /\ Apart(d)'
  BY <1>1 DEF Good, WindowNumbers, TypedInv, Apart, Opened, Clean
<1>11. HeldInv(d)' /\ HoldingInv(d)'
  BY <1>1, <1>2 DEF Good, HeldInv, HoldingInv, Carried, JobCarries
<1>12. QED
  BY <1>5, <1>6, <1>7, <1>8, <1>9, <1>10, <1>11 DEF Good

-----------------------------------------------------------------------------
(* The conversation that a step is of: what is needed of it again and       *)
(* again.                                                                  *)

LEMMA ConvFacts ==
  ASSUME HandoffTypes, NEW c \in Conversations
  PROVE  /\ deskNow \in Nat /\ begun[c] \in Nat /\ Quiet \in Nat /\ Quiet > 0
         /\ \A w \in deskWindows[c] : w.at \in Nat /\ w.nr \in Nat /\ w.at <= deskNow
         /\ deskRecord[c] # None => deskRecord[c] \in Handoff!Stamps /\ deskRecord[c].time \in Nat
         /\ job[c] # None => job[c].stamp \in Handoff!Stamps /\ job[c].carries \in BOOLEAN
  BY StampFacts, HandoffAssumption
     DEF HandoffTypes, FileTypes, WindowTypes, Handoff!Windows, Handoff!Records, Jobs

LEMMA StartsFacts ==
  ASSUME NEW c \in Conversations, NEW p, NEW kind, NEW step, NEW carries \in BOOLEAN, NEW
         count, Starts(p, kind, c, step, carries, count)
  PROVE  /\ p \in Handoff!Slots /\ procs[p].at = "free" /\ procs[p].conv # c
         /\ procs'[p].at = step /\ procs'[p].kind = kind /\ procs'[p].conv = c
         /\ procs'[p].carries = carries /\ procs'[p].begun = count
         /\ \A q \in Handoff!Slots : q # p => procs'[q] = procs[q]
<1>1. procs[p] = Handoff!Free /\ procs'[p] = Entry(step, kind, c, None, None, carries, count)
  BY DEF Starts
<1>2. QED
  BY <1>1, FreeFacts DEF Starts, Entry, Only

LEMMA JoinsFacts ==
  ASSUME NEW c \in Conversations, NEW p, Joins(c, p)
  PROVE  /\ p \in Handoff!Slots /\ procs[p].at = "free" /\ procs[p].conv # c /\ procs'[p].conv = c
         /\ (\A q \in Handoff!Slots : q # p => procs'[q] = procs[q])
         /\ SameRecord(c) /\ SameJob(c) /\ SameWindows(c) /\ SameLost(c)
         /\ \/ /\ deskClaude[c] = "idle" /\ deskClaude'[c] = "prompt" /\ message'[c] = "typed"
               /\ procs'[p].at = "looks" /\ procs'[p].kind = "prompt" /\ procs'[p].begun = 0
            \/ /\ deskClaude[c] = "busy" /\ deskClaude'[c] = "failed" /\ message'[c] = message[c]
               /\ procs'[p].at = "looks" /\ procs'[p].kind = "limit" /\ procs'[p].begun = 0
            \/ /\ SameDesktop(c)
               /\ procs'[p].at = "opens" /\ procs'[p].kind \in {"move", "again", "swap"}
               /\ procs'[p].begun = Handoff!Begun(c) /\ ~procs'[p].carries
               /\ procs'[p].kind # "again" => ~Handoff!Recent(deskRecord, c)
<1>1. CASE Typed(c, p)
  <2>1. Starts(p, "prompt", c, "looks", TRUE, 0)
    BY <1>1 DEF Typed
  <2>2. QED
    BY <1>1, <2>1, StartsFacts, FreeFacts DEF Typed, Starts, Entry, Only
<1>2. CASE Failed(c, p)
  <2>1. Starts(p, "limit", c, "looks", FALSE, 0)
    BY <1>2 DEF Failed
  <2>2. QED
    BY <1>2, <2>1, StartsFacts, FreeFacts DEF Failed, Starts, Entry, Only
<1>3. CASE Moving(c, p)
  <2>1. PICK kind \in {"move", "again", "swap"} :
           /\ Starts(p, kind, c, "opens", FALSE, Handoff!Begun(c))
           /\ kind # "again" => ~Handoff!Recent(deskRecord, c)
    BY <1>3 DEF Moving
  <2>2. QED
    BY <1>3, <2>1, StartsFacts, FreeFacts DEF Moving, Starts, Entry, Only
<1>4. QED
  BY <1>1, <1>2, <1>3 DEF Joins

\* A process of c that takes a step is of the kind its step is for.
LEMMA FromFacts ==
  ASSUME HandoffTypes, NEW c \in Conversations, NEW p, NEW step, From(p, c, step)
  PROVE  /\ p \in Handoff!Slots /\ procs[p].at = step /\ procs[p].conv = c /\ Sensible(procs[p])
         /\ procs[p].begun \in Nat \cup {None} /\ procs[p].carries \in BOOLEAN
         /\ \A q \in Handoff!Slots : q # p => procs'[q] = procs[q]
BY SlotFacts, ProcFacts DEF From, Only

LEMMA ToFacts ==
  ASSUME NEW c, NEW p, NEW step, NEW kind, NEW seen, NEW stamp, To(p, c, step, kind, seen,
         stamp)
  PROVE  /\ procs'[p].at = step /\ procs'[p].kind = kind /\ procs'[p].conv = c
         /\ procs'[p].seen = seen /\ procs'[p].stamp = stamp
         /\ procs'[p].carries = procs[p].carries /\ procs'[p].begun = procs[p].begun
BY DEF To, Entry

LEMMA JobStartedFacts ==
  ASSUME HandoffTypes, NEW c \in Conversations, NEW p, JobStarted(c, p)
  PROVE  /\ p \in Handoff!Slots /\ procs[p].conv = c /\ procs[p].at = "starts"
         /\ procs'[p] = Handoff!Free
         /\ procs[p].kind \in {"prompt", "limit"} /\ procs[p].stamp # None
         /\ procs'[p].conv # c /\ HeldBack(c)
         /\ SameRecord(c) /\ SameJob(c) /\ SameWindows(c) /\ SameLost(c)
         /\ \E q \in Handoff!Slots :
               /\ q # p /\ procs[q].at = "free" /\ procs[q].conv # c
               /\ procs'[q].at = "reads" /\ procs'[q].kind = "job" /\ procs'[q].conv = c
               /\ ~procs'[q].carries /\ procs'[q].begun = 0
               /\ \A o \in Handoff!Slots : o # p /\ o # q => procs'[o] = procs[o]
BY SlotFacts, FreeFacts DEF JobStarted, Entry, Sensible

\* What there is of windows after a new one, or after one that changed.
LEMMA NewWindowFacts ==
  ASSUME NEW c \in Conversations, deskWindows'[c] = deskWindows[c] \cup {NewWindow(c)}
  PROVE  /\ NewWindow(c).at = deskNow /\ NewWindow(c).nr = begun[c] + 1
         /\ NewWindow(c).state = "waits" /\ NewWindow(c) \in deskWindows'[c]
         /\ \A w \in deskWindows[c] : w \in deskWindows'[c]
         /\ \A w \in deskWindows'[c] : w = NewWindow(c) \/ w \in deskWindows[c]
BY DEF NewWindow

LEMMA MovedFacts ==
  ASSUME NEW c \in Conversations, NEW w \in deskWindows[c], WindowMoved(c, w)
  PROVE  /\ procs' = procs /\ begun'[c] = begun[c] /\ deskClaude'[c] = deskClaude[c]
         /\ SameRecord(c) /\ SameJob(c)
         /\ \/ message'[c] = "carried" /\ deskLost'[c] = deskLost[c]
            \/ message'[c] = message[c] /\ deskLost'[c] # {}
            \/ /\ message'[c] = message[c] /\ deskLost'[c] = deskLost[c]
               /\ w.state = "waits" /\ launch[c] = TRUE => message[c] \notin {"typed", "held"}
BY DEF WindowMoved

LEMMA MovedWindows ==
  ASSUME NEW c \in Conversations, NEW w \in deskWindows[c], WindowMoved(c, w)
  PROVE  /\ \A v \in deskWindows[c] : v # w => v \in deskWindows'[c]
         /\ \E u \in deskWindows'[c] :
               /\ u.at = w.at /\ u.nr = w.nr /\ u.state \in {"runs", "over"}
               /\ \A v \in deskWindows'[c] : v = u \/ (v \in deskWindows[c] /\ v # w)
<1>1. PICK state \in {"runs", "over"} :
         deskWindows'[c] = (deskWindows[c] \ {w}) \cup {[at |-> w.at, nr |-> w.nr, state |-> state]}
  BY DEF WindowMoved
<1> DEFINE u == [at |-> w.at, nr |-> w.nr, state |-> state]
<1>2. u.at = w.at /\ u.nr = w.nr /\ u.state \in {"runs", "over"} /\ u \in deskWindows'[c]
  BY <1>1
<1>3. \A v \in deskWindows'[c] : v = u \/ (v \in deskWindows[c] /\ v # w)
  BY <1>1
<1>4. \A v \in deskWindows[c] : v # w => v \in deskWindows'[c]
  BY <1>1
<1>5. QED
  BY <1>2, <1>3, <1>4

LEMMA WrittenFacts ==
  ASSUME HandoffTypes, NEW c \in Conversations, NEW p, JobWritten(c, p)
  PROVE  /\ job'[c] # None /\ job'[c].stamp = Handoff!Stamp(c)
         /\ job'[c].carries <=> procs[p].carries
<1>1. procs[p].carries \in BOOLEAN
  BY FromFacts DEF JobWritten
<1>2. job'[c] = [stamp |-> Handoff!Stamp(c), carries |-> procs[p].carries]
  BY DEF JobWritten
<1>3. job'[c] \in [stamp : Handoff!Stamps, carries : BOOLEAN]
  BY <1>1, <1>2, NewStamp
<1>4. QED
  BY <1>2, <1>3, HandoffAssumption

LEMMA RelaunchFacts ==
  ASSUME HandoffTypes, NEW c \in Conversations, NEW p, Relaunch(c, p)
  PROVE  launch'[c] # None
BY FromFacts, HandoffAssumption DEF Relaunch

LEMMA GoodMoved ==
  ASSUME HandoffTypes, NEW c \in Conversations, NEW w \in deskWindows[c], WindowMoved(c, w),
         deskNow' = deskNow, Good(c)
  PROVE  Good(c)'
<1>1. /\ procs' = procs /\ begun'[c] = begun[c] /\ deskClaude'[c] = deskClaude[c]
      /\ deskRecord'[c] = deskRecord[c] /\ gaps'[c] = gaps[c] /\ job'[c] = job[c]
      /\ launch'[c] = launch[c]
      /\ \/ message'[c] = "carried" /\ deskLost'[c] = deskLost[c]
         \/ message'[c] = message[c] /\ deskLost'[c] # {}
         \/ /\ message'[c] = message[c] /\ deskLost'[c] = deskLost[c]
            /\ w.state = "waits" /\ launch[c] = TRUE => message[c] \notin {"typed", "held"}
  BY MovedFacts DEF SameRecord, SameJob
<1>2. PICK u \in deskWindows'[c] :
         /\ u.at = w.at /\ u.nr = w.nr /\ u.state \in {"runs", "over"}
         /\ \A v \in deskWindows'[c] : v = u \/ (v \in deskWindows[c] /\ v # w)
  BY MovedWindows
<1>3. \A v \in deskWindows[c] : v # w => v \in deskWindows'[c]
  BY MovedWindows
<1>4. StampInv(c)' /\ HookInv(c)' /\ OneInv(c)' /\ MarkInv(c)' /\ JobInv(c)'
  BY <1>1 DEF Good, StampInv, HookInv, OneInv, MarkInv, JobInv, Handing, IsHook, Clean
<1>5. AskedInv(c)' /\ BegunInv(c)' /\ TypedInv(c)'
  BY <1>1 DEF Good, AskedInv, BegunInv, TypedInv, Asking, Handing, IsHook, Opened, Clean
<1>6. \A at : (\E v \in deskWindows[c] : v.at = at) <=> (\E v \in deskWindows'[c] : v.at = at)
  BY <1>2, <1>3
<1>7. OpenedInv(c)'
  BY <1>1, <1>6 DEF Good, OpenedInv
<1>8. WindowNumbers(c)'
  BY <1>1, <1>2 DEF Good, WindowNumbers
<1>9. BackInv(c)'
  <2>1. \A q \in Handoff!Slots : Answers(q, c) => Answers(q, c)'
    BY <1>1 DEF Answers, Handing, IsHook
  <2>2. QED
    BY <1>1, <1>2, <1>3, <2>1 DEF Good, BackInv, Clean, Handoff!Recent
<1>10. MarkedInv(c)'
  BY <1>1, <1>2 DEF Good, MarkedInv, Opened, Clean
<1>11. AloneInv(c)'
  <2>1. \A q \in Handoff!Slots : Alone(q, c)' => Alone(q, c)
    BY <1>1 DEF Alone, Asking, Handing, IsHook
  <2>2. NoneRecent(c) => NoneRecent(c)'
    BY <1>2 DEF NoneRecent
  <2>3. QED
    BY <1>1, <2>1, <2>2 DEF Good, AloneInv, Opened, Clean
<1>12. Apart(c)'
  BY <1>1, <1>2 DEF Good, Apart, Opened, Clean
<1>13. (message'[c] = message[c] /\ message[c] \in {"typed", "held"} /\ Carried(c)) => Carried(c)'
  BY <1>1, <1>3 DEF Carried
<1>14. HeldInv(c)' /\ HoldingInv(c)'
  BY <1>1, <1>13 DEF Good, HeldInv, HoldingInv, JobCarries
<1>15. QED
  BY <1>4, <1>5, <1>7, <1>8, <1>9, <1>10, <1>11, <1>12, <1>14 DEF Good

\* Whoever finds the conversation free, and none of its windows or handovers yet
\* to be recorded, has it to itself.
LEMMA FreeToOpen ==
  ASSUME HandoffTypes, NEW c \in Conversations, MarkInv(c), Clean(c),
         ~Handoff!Recent(deskRecord, c), Handoff!Begun(c) = begun[c]
  PROVE  /\ \A q \in Handoff!Slots : Handing(q, c) => procs[q].at \in {"writesJob", "recordsOpened"}
         /\ MarkedInv(c) /\ Opened(c) => NoneRecent(c)
<1>1. ASSUME NEW q \in Handoff!Slots, procs[q].conv = c, procs[q].at \in {"records",
             "recordsOpened"}
      PROVE  procs[q].kind = "job"
  BY <1>1, ConvFacts, HandoffAssumption DEF Handoff!Begun, Handoff!Conv
<1>2. ASSUME NEW q \in Handoff!Slots, Handing(q, c), procs[q].at \notin {"writesJob",
             "records"}
      PROVE  FALSE
  BY <1>2, ConvFacts DEF MarkInv, Handoff!Recent
<1>3. ASSUME NEW q \in Handoff!Slots, procs[q].at = "records" PROVE procs[q].kind # "job"
  BY <1>3, SlotFacts DEF Sensible
<1>4. MarkedInv(c) /\ Opened(c) => NoneRecent(c)
  BY <1>1, ConvFacts DEF MarkedInv, NoneRecent, Handoff!Recent
<1>5. QED
  BY <1>1, <1>2, <1>3, <1>4 DEF Handing

LEMMA NobodyBegan ==
  ASSUME HandoffTypes, NEW c \in Conversations, BegunInv(c), begun'[c] = begun[c] + 1,
         NEW q \in Handoff!Slots, procs[q].conv = c
  PROVE  procs[q].begun # begun'[c]
<1>1. procs[q].begun \in Nat \cup {None} /\ begun[c] \in Nat
  BY SlotFacts, ProcFacts, ConvFacts
<1>2. QED
  BY <1>1, HandoffAssumption DEF BegunInv

LEMMA StampInvKept ==
  ASSUME HandoffTypes, NEW c \in Conversations, deskNow' = deskNow, Runs(c), StampInv(c)
  PROVE  StampInv(c)'
<1>1. CASE Turned(c) \/ Closed(c)
  BY <1>1, FreeFacts DEF Turned, Closed, SameJob, StampInv
<1>2. ASSUME NEW p \in Handoff!Slots, Joins(c, p) PROVE StampInv(c)'
  BY <1>2, JoinsFacts DEF SameJob, StampInv
<1>3. ASSUME NEW p \in Handoff!Slots, LetBe(c, p) \/ Decided(c, p) \/ JobRefused(c, p) \/
               Forgetting(c, p) \/ NoJob(c, p)
      PROVE  StampInv(c)'
  BY <1>3, FromFacts, ToFacts, FreeFacts
     DEF LetBe, Decided, Entry, JobRefused, Forgetting, NoJob, SameJob, StampInv
<1>4. ASSUME NEW p \in Handoff!Slots, Marked(c, p) \/ OpenMarked(c, p) \/ TakenBack(c, p)
      PROVE  StampInv(c)'
  BY <1>4, FromFacts, ToFacts, FreeFacts
     DEF Marked, OpenMarked, TakenBack, SameJob, StampInv
<1>5. ASSUME NEW p \in Handoff!Slots, JobStarted(c, p) PROVE StampInv(c)'
  BY <1>5, JobStartedFacts DEF SameJob, StampInv
<1>6. ASSUME NEW p \in Handoff!Slots, JobWritten(c, p) \/ JobRead(c, p) \/ JobFailed(c, p)
      PROVE  StampInv(c)'
  BY <1>6, FromFacts, ToFacts, NewStamp
     DEF JobWritten, JobRead, Entry, JobFailed, SameJob, StampInv
<1>7. ASSUME NEW p \in Handoff!Slots, WindowOpened(c, p) \/ NotOpened(c, p) PROVE
             StampInv(c)'
  BY <1>7, FromFacts, ToFacts, NewStamp, FreeFacts
     DEF WindowOpened, Relaunch, NotOpened, StampInv
<1>8. QED
  BY <1>1, <1>2, <1>3, <1>4, <1>5, <1>6, <1>7 DEF Runs, ProcessSteps

LEMMA HookInvKept ==
  ASSUME HandoffTypes, NEW c \in Conversations, deskNow' = deskNow, Runs(c), HookInv(c)
  PROVE  HookInv(c)'
<1>1. CASE Turned(c) \/ Closed(c)
  BY <1>1, FreeFacts DEF Turned, Closed, HookInv, IsHook
<1>2. ASSUME NEW p \in Handoff!Slots, Joins(c, p) PROVE HookInv(c)'
  BY <1>2, JoinsFacts DEF SameDesktop, HookInv, IsHook
<1>3. ASSUME NEW p \in Handoff!Slots, LetBe(c, p) \/ Decided(c, p) \/ JobRefused(c, p) \/
               Forgetting(c, p) \/ NoJob(c, p)
      PROVE  HookInv(c)'
  BY <1>3, FromFacts, ToFacts, FreeFacts
     DEF LetBe, Decided, Entry, JobRefused, Forgetting, NoJob, SameDesktop, HookInv, IsHook
<1>4. ASSUME NEW p \in Handoff!Slots, Marked(c, p) \/ OpenMarked(c, p) \/ TakenBack(c, p)
      PROVE  HookInv(c)'
  BY <1>4, FromFacts, ToFacts, FreeFacts
     DEF Marked, OpenMarked, TakenBack, SameDesktop, HookInv, IsHook
<1>5. ASSUME NEW p \in Handoff!Slots, JobStarted(c, p) PROVE HookInv(c)'
  BY <1>5, JobStartedFacts DEF HookInv, IsHook
<1>6. ASSUME NEW p \in Handoff!Slots, JobWritten(c, p) \/ JobRead(c, p) \/ JobFailed(c, p)
      PROVE  HookInv(c)'
  BY <1>6, FromFacts, ToFacts
     DEF JobWritten, JobRead, Entry, JobFailed, SameDesktop, Sensible, HookInv, IsHook
<1>7. ASSUME NEW p \in Handoff!Slots, WindowOpened(c, p) \/ NotOpened(c, p) PROVE
             HookInv(c)'
  BY <1>7, FromFacts, ToFacts, FreeFacts
     DEF WindowOpened, Relaunch, NotOpened, SameDesktop, HookInv, IsHook
<1>8. QED
  BY <1>1, <1>2, <1>3, <1>4, <1>5, <1>6, <1>7 DEF Runs, ProcessSteps

LEMMA OneInvKept ==
  ASSUME HandoffTypes, NEW c \in Conversations, deskNow' = deskNow, Runs(c), OneInv(c),
         MarkInv(c), HookInv(c)
  PROVE  OneInv(c)'
<1>1. CASE Turned(c) \/ Closed(c)
  BY <1>1, FreeFacts DEF Turned, Closed, SameRecord, OneInv, Handing, IsHook, Clean
<1>2. ASSUME NEW p \in Handoff!Slots, Joins(c, p) PROVE OneInv(c)'
  BY <1>2, JoinsFacts DEF SameRecord, OneInv, Handing, IsHook, Clean
<1>3. ASSUME NEW p \in Handoff!Slots, LetBe(c, p) \/ JobRefused(c, p) \/ Forgetting(c, p) \/
               NoJob(c, p)
      PROVE  OneInv(c)'
  BY <1>3, FromFacts, ToFacts, FreeFacts
     DEF LetBe, JobRefused, Forgetting, NoJob, SameRecord, OneInv, Handing, IsHook, Clean
<1>4. ASSUME NEW p \in Handoff!Slots, Decided(c, p) PROVE OneInv(c)'
  BY <1>4, FromFacts, SlotFacts, ConvFacts
     DEF Decided, SameRecord, Sensible, OneInv, Handing, IsHook, Clean, Handoff!Recent,
         MarkInv, HookInv
<1>5. ASSUME NEW p \in Handoff!Slots, Marked(c, p) \/ OpenMarked(c, p) \/ TakenBack(c, p)
      PROVE  OneInv(c)'
  BY <1>5, FromFacts, ToFacts, FreeFacts
     DEF Marked, Writes, OpenMarked, TakenBack, SameRecord, OneInv, Handing, IsHook, Clean
<1>6. ASSUME NEW p \in Handoff!Slots, JobStarted(c, p) PROVE OneInv(c)'
  BY <1>6, JobStartedFacts DEF SameRecord, OneInv, Handing, IsHook, Clean
<1>7. ASSUME NEW p \in Handoff!Slots, JobWritten(c, p) \/ JobRead(c, p) \/ JobFailed(c, p)
      PROVE  OneInv(c)'
  BY <1>7, FromFacts
     DEF JobWritten, BeginsOf, JobRead, JobFailed, SameRecord, Sensible, OneInv, Handing,
         IsHook, Clean
<1>8. ASSUME NEW p \in Handoff!Slots, WindowOpened(c, p) \/ NotOpened(c, p) PROVE OneInv(c)'
  BY <1>8, FromFacts, ToFacts, FreeFacts
     DEF WindowOpened, Relaunch, BeginsOf, NotOpened, OneInv, Handing, IsHook, Clean
<1>9. QED
  BY <1>1, <1>2, <1>3, <1>4, <1>5, <1>6, <1>7, <1>8 DEF Runs, ProcessSteps

LEMMA MarkInvKept ==
  ASSUME HandoffTypes, NEW c \in Conversations, deskNow' = deskNow, Runs(c), MarkInv(c),
         OneInv(c), StampInv(c)
  PROVE  MarkInv(c)'
<1>1. CASE Turned(c) \/ Closed(c)
  BY <1>1, FreeFacts DEF Turned, Closed, SameRecord, MarkInv, Handing, IsHook, Clean
<1>2. ASSUME NEW p \in Handoff!Slots, Joins(c, p) PROVE MarkInv(c)'
  BY <1>2, JoinsFacts DEF SameRecord, MarkInv, Handing, IsHook, Clean
<1>3. ASSUME NEW p \in Handoff!Slots, LetBe(c, p) \/ Decided(c, p) \/ JobRefused(c, p) \/
               Forgetting(c, p) \/ NoJob(c, p)
      PROVE  MarkInv(c)'
  BY <1>3, FromFacts, ToFacts, FreeFacts
     DEF LetBe, Decided, Entry, JobRefused, Forgetting, NoJob, SameRecord, MarkInv, Handing,
         IsHook, Clean
<1>4. ASSUME NEW p \in Handoff!Slots, Marked(c, p) \/ OpenMarked(c, p) \/ TakenBack(c, p)
      PROVE  MarkInv(c)'
  BY <1>4, FromFacts, FreeFacts
     DEF Marked, Writes, OpenMarked, TakenBack, SameRecord, Sensible, MarkInv, Handing,
         IsHook, Clean, OneInv, StampInv
<1>5. ASSUME NEW p \in Handoff!Slots, JobStarted(c, p) PROVE MarkInv(c)'
  BY <1>5, JobStartedFacts DEF SameRecord, MarkInv, Handing, IsHook, Clean
<1>6. ASSUME NEW p \in Handoff!Slots, JobWritten(c, p) \/ JobRead(c, p) \/ JobFailed(c, p)
      PROVE  MarkInv(c)'
  BY <1>6, FromFacts, ToFacts
     DEF JobWritten, BeginsOf, JobRead, JobFailed, SameRecord, Sensible, MarkInv, Handing,
         IsHook, Clean
<1>7. ASSUME NEW p \in Handoff!Slots, WindowOpened(c, p) \/ NotOpened(c, p) PROVE
             MarkInv(c)'
  BY <1>7, FromFacts, ToFacts, FreeFacts
     DEF WindowOpened, Relaunch, BeginsOf, NotOpened, MarkInv, Handing, IsHook, Clean
<1>8. QED
  BY <1>1, <1>2, <1>3, <1>4, <1>5, <1>6, <1>7 DEF Runs, ProcessSteps

LEMMA JobInvKept ==
  ASSUME HandoffTypes, NEW c \in Conversations, deskNow' = deskNow, Runs(c), JobInv(c),
         OneInv(c)
  PROVE  JobInv(c)'
<1>1. CASE Turned(c) \/ Closed(c)
  BY <1>1, FreeFacts DEF Turned, Closed, SameRecord, SameJob, JobInv, Handing, IsHook, Clean
<1>2. ASSUME NEW p \in Handoff!Slots, Joins(c, p) PROVE JobInv(c)'
  BY <1>2, JoinsFacts DEF SameRecord, SameJob, JobInv, Handing, IsHook, Clean
<1>3. ASSUME NEW p \in Handoff!Slots, LetBe(c, p) \/ Decided(c, p) \/ JobRefused(c, p) \/
               Forgetting(c, p) \/ NoJob(c, p)
      PROVE  JobInv(c)'
  BY <1>3, FromFacts, ToFacts, FreeFacts
     DEF LetBe, Decided, Entry, JobRefused, Forgetting, NoJob, SameRecord, SameJob, JobInv,
         Handing, IsHook, Clean
<1>4. ASSUME NEW p \in Handoff!Slots, Marked(c, p) \/ OpenMarked(c, p) \/ TakenBack(c, p)
      PROVE  JobInv(c)'
  BY <1>4, FromFacts, ToFacts, FreeFacts
     DEF Marked, Writes, OpenMarked, TakenBack, SameRecord, SameJob, JobInv, Handing,
         IsHook, Clean
<1>5. ASSUME NEW p \in Handoff!Slots, JobStarted(c, p) PROVE JobInv(c)'
  BY <1>5, JobStartedFacts DEF SameRecord, JobInv, Handing, IsHook, Clean, OneInv
<1>6. ASSUME NEW p \in Handoff!Slots, JobRead(c, p) \/ JobFailed(c, p) PROVE JobInv(c)'
  BY <1>6, FromFacts, ToFacts
     DEF JobRead, Entry, JobFailed, SameRecord, Sensible, JobInv, Handing, IsHook, Clean,
         OneInv
<1>7. ASSUME NEW p \in Handoff!Slots, JobWritten(c, p) PROVE JobInv(c)'
  BY <1>7, FromFacts, ToFacts, WrittenFacts
     DEF JobWritten, BeginsOf, Sensible, JobInv, Handing, IsHook, Clean, OneInv
<1>8. ASSUME NEW p \in Handoff!Slots, WindowOpened(c, p) \/ NotOpened(c, p) PROVE JobInv(c)'
  BY <1>8, FromFacts, ToFacts, FreeFacts
     DEF WindowOpened, Relaunch, BeginsOf, NotOpened, JobInv, Handing, IsHook, Clean
<1>9. QED
  BY <1>1, <1>2, <1>3, <1>4, <1>5, <1>6, <1>7, <1>8 DEF Runs, ProcessSteps

LEMMA OpenedInvKept ==
  ASSUME HandoffTypes, NEW c \in Conversations, deskNow' = deskNow, Runs(c), OpenedInv(c)
  PROVE  OpenedInv(c)'
<1>1. CASE Turned(c) \/ Closed(c)
  BY <1>1, FreeFacts DEF Turned, Closed, SameWindows, OpenedInv
<1>2. ASSUME NEW p \in Handoff!Slots, Joins(c, p) PROVE OpenedInv(c)'
  BY <1>2, JoinsFacts DEF SameWindows, OpenedInv
<1>3. ASSUME NEW p \in Handoff!Slots, LetBe(c, p) \/ Decided(c, p) \/ JobRefused(c, p) \/
               Forgetting(c, p) \/ NoJob(c, p)
      PROVE  OpenedInv(c)'
  BY <1>3, FromFacts, ToFacts, FreeFacts
     DEF LetBe, Decided, Entry, JobRefused, Forgetting, NoJob, SameWindows, OpenedInv
<1>4. ASSUME NEW p \in Handoff!Slots, Marked(c, p) \/ OpenMarked(c, p) \/ TakenBack(c, p)
      PROVE  OpenedInv(c)'
  BY <1>4, FromFacts, ToFacts, FreeFacts
     DEF Marked, OpenMarked, TakenBack, SameWindows, OpenedInv
<1>5. ASSUME NEW p \in Handoff!Slots, JobStarted(c, p) PROVE OpenedInv(c)'
  BY <1>5, JobStartedFacts DEF SameWindows, OpenedInv
<1>6. ASSUME NEW p \in Handoff!Slots, JobWritten(c, p) \/ JobRead(c, p) \/ JobFailed(c, p)
      PROVE  OpenedInv(c)'
  BY <1>6, FromFacts, ToFacts
     DEF JobWritten, JobRead, Entry, JobFailed, SameWindows, OpenedInv
<1>7. ASSUME NEW p \in Handoff!Slots, WindowOpened(c, p) \/ NotOpened(c, p) PROVE
             OpenedInv(c)'
  BY <1>7, FromFacts, ToFacts, NewWindowFacts, FreeFacts
     DEF WindowOpened, Relaunch, NotOpened, SameWindows, OpenedInv
<1>8. QED
  BY <1>1, <1>2, <1>3, <1>4, <1>5, <1>6, <1>7 DEF Runs, ProcessSteps

LEMMA WindowNumbersKept ==
  ASSUME HandoffTypes, NEW c \in Conversations, deskNow' = deskNow, Runs(c),
         WindowNumbers(c)
  PROVE  WindowNumbers(c)'
<1>1. CASE Turned(c) \/ Closed(c)
  BY <1>1 DEF Turned, Closed, SameJob, SameWindows, WindowNumbers
<1>2. ASSUME NEW p \in Handoff!Slots, Joins(c, p) PROVE WindowNumbers(c)'
  BY <1>2, JoinsFacts DEF SameJob, SameWindows, WindowNumbers
<1>3. ASSUME NEW p \in Handoff!Slots, LetBe(c, p) \/ Decided(c, p) \/ JobRefused(c, p) \/
               Forgetting(c, p) \/ NoJob(c, p)
      PROVE  WindowNumbers(c)'
  BY <1>3
     DEF LetBe, Decided, JobRefused, Forgetting, NoJob, SameJob, SameWindows, WindowNumbers
<1>4. ASSUME NEW p \in Handoff!Slots, Marked(c, p) \/ OpenMarked(c, p) \/ TakenBack(c, p)
      PROVE  WindowNumbers(c)'
  BY <1>4 DEF Marked, OpenMarked, TakenBack, SameJob, SameWindows, WindowNumbers
<1>5. ASSUME NEW p \in Handoff!Slots, JobStarted(c, p) PROVE WindowNumbers(c)'
  BY <1>5, JobStartedFacts DEF SameJob, SameWindows, WindowNumbers
<1>6. ASSUME NEW p \in Handoff!Slots, JobWritten(c, p) \/ JobRead(c, p) \/ JobFailed(c, p)
      PROVE  WindowNumbers(c)'
  BY <1>6, ConvFacts
     DEF JobWritten, BeginsOf, JobRead, JobFailed, SameJob, SameWindows, WindowNumbers
<1>7. ASSUME NEW p \in Handoff!Slots, NotOpened(c, p) PROVE WindowNumbers(c)'
  <2>1. launch'[c] # None
    BY <1>7, RelaunchFacts DEF NotOpened
  <2>2. deskWindows'[c] = deskWindows[c] /\ begun'[c] = begun[c]
    BY <1>7 DEF NotOpened, SameWindows
  <2>3. QED
    BY <2>1, <2>2 DEF WindowNumbers
<1>8. ASSUME NEW p \in Handoff!Slots, WindowOpened(c, p) PROVE WindowNumbers(c)'
  <2>1. launch'[c] # None
    BY <1>8, RelaunchFacts DEF WindowOpened
  <2>2. deskWindows'[c] = deskWindows[c] \cup {NewWindow(c)} /\ begun'[c] = begun[c] + 1
    BY <1>8 DEF WindowOpened
  <2>3. QED
    BY <2>1, <2>2, NewWindowFacts, ConvFacts DEF WindowNumbers
<1>9. QED
  BY <1>1, <1>2, <1>3, <1>4, <1>5, <1>6, <1>7, <1>8 DEF Runs, ProcessSteps

LEMMA BegunInvKept ==
  ASSUME HandoffTypes, NEW c \in Conversations, deskNow' = deskNow, Runs(c), BegunInv(c)
  PROVE  BegunInv(c)'
<1>1. CASE Turned(c) \/ Closed(c)
  BY <1>1, FreeFacts DEF Turned, Closed, SameWindows, BegunInv
<1>2. ASSUME NEW p \in Handoff!Slots, Joins(c, p) PROVE BegunInv(c)'
  BY <1>2, JoinsFacts, ConvFacts DEF SameWindows, BegunInv, Handoff!Begun
<1>3. ASSUME NEW p \in Handoff!Slots, LetBe(c, p) \/ Decided(c, p) \/ JobRefused(c, p) \/
               Forgetting(c, p) \/ NoJob(c, p)
      PROVE  BegunInv(c)'
  BY <1>3, FromFacts, ToFacts, ConvFacts, FreeFacts
     DEF LetBe, Decided, Entry, JobRefused, Forgetting, NoJob, SameWindows, BegunInv,
         Handoff!Begun
<1>4. ASSUME NEW p \in Handoff!Slots, Marked(c, p) \/ OpenMarked(c, p) \/ TakenBack(c, p)
      PROVE  BegunInv(c)'
  BY <1>4, FromFacts, ToFacts, FreeFacts
     DEF Marked, OpenMarked, TakenBack, SameWindows, BegunInv
<1>5. ASSUME NEW p \in Handoff!Slots, JobStarted(c, p) PROVE BegunInv(c)'
  BY <1>5, JobStartedFacts, ConvFacts DEF SameWindows, BegunInv
<1>6. ASSUME NEW p \in Handoff!Slots, JobRead(c, p) \/ JobFailed(c, p) PROVE BegunInv(c)'
  BY <1>6, FromFacts, ToFacts DEF JobRead, Entry, JobFailed, SameWindows, BegunInv
<1>7. ASSUME NEW p \in Handoff!Slots, JobWritten(c, p) PROVE BegunInv(c)'
  BY <1>7, FromFacts, ToFacts, SlotFacts, ProcFacts, ConvFacts
     DEF JobWritten, BeginsOf, BegunInv
<1>8. ASSUME NEW p \in Handoff!Slots, NotOpened(c, p) PROVE BegunInv(c)'
  BY <1>8, FromFacts, ToFacts, FreeFacts DEF NotOpened, Relaunch, SameWindows, BegunInv
<1>9. ASSUME NEW p \in Handoff!Slots, WindowOpened(c, p) PROVE BegunInv(c)'
  BY <1>9, FromFacts, ToFacts, SlotFacts, ProcFacts, ConvFacts
     DEF WindowOpened, Relaunch, BegunInv
<1>10. QED
  BY <1>1, <1>2, <1>3, <1>4, <1>5, <1>6, <1>7, <1>8, <1>9 DEF Runs, ProcessSteps

LEMMA BackInvKept ==
  ASSUME HandoffTypes, NEW c \in Conversations, deskNow' = deskNow, Runs(c), BackInv(c),
         StampInv(c), OneInv(c), JobInv(c), OpenedInv(c)
  PROVE  BackInv(c)'
<1>1. CASE Turned(c) \/ Closed(c)
  BY <1>1
     DEF Turned, Closed, SameRecord, SameJob, SameWindows, BackInv, Answers, Handing,
         IsHook, Clean, Handoff!Recent
<1>2. ASSUME NEW p \in Handoff!Slots, Joins(c, p) PROVE BackInv(c)'
  BY <1>2, JoinsFacts
     DEF SameRecord, SameJob, SameWindows, BackInv, Answers, Handing, IsHook, Clean,
         Handoff!Recent
<1>3. ASSUME NEW p \in Handoff!Slots, LetBe(c, p) \/ Decided(c, p) \/ JobRefused(c, p) \/
               Forgetting(c, p) \/ NoJob(c, p)
      PROVE  BackInv(c)'
  BY <1>3, FromFacts, ToFacts, ConvFacts, FreeFacts
     DEF LetBe, LetGo, Decided, Entry, JobRefused, Forgetting, NoJob, SameDesktop,
         SameRecord, SameJob, SameWindows, SameLost, Sensible, BackInv, Answers, Handing,
         IsHook, Clean, Handoff!Recent, StampInv, OneInv, JobInv, OpenedInv
<1>4. ASSUME NEW p \in Handoff!Slots, Marked(c, p) \/ OpenMarked(c, p) \/ TakenBack(c, p)
      PROVE  BackInv(c)'
  BY <1>4, FromFacts, ToFacts, ConvFacts, FreeFacts
     DEF Marked, Writes, OpenMarked, TakenBack, LetGo, SameRecord, SameWindows, SameLost,
         Sensible, BackInv, Answers, Handing, IsHook, Clean, Handoff!Recent, StampInv,
         OneInv, OpenedInv
<1>5. ASSUME NEW p \in Handoff!Slots, JobStarted(c, p) PROVE BackInv(c)'
  BY <1>5, JobStartedFacts
     DEF SameRecord, SameJob, SameWindows, BackInv, Answers, Handing, IsHook, Clean,
         Handoff!Recent, JobInv
<1>6. ASSUME NEW p \in Handoff!Slots, JobWritten(c, p) \/ JobRead(c, p) \/ JobFailed(c, p)
      PROVE  BackInv(c)'
  BY <1>6, FromFacts, ToFacts
     DEF JobWritten, BeginsOf, JobRead, Entry, JobFailed, SameDesktop, SameRecord,
         SameWindows, Sensible, BackInv, Answers, Handing, IsHook, Clean, Handoff!Recent,
         OneInv
<1>7. ASSUME NEW p \in Handoff!Slots, WindowOpened(c, p) \/ NotOpened(c, p) PROVE
             BackInv(c)'
  BY <1>7, FromFacts, ToFacts, NewWindowFacts, ConvFacts
     DEF WindowOpened, Relaunch, BeginsOf, NotOpened, SameWindows, Sensible, BackInv,
         Answers, Handing, IsHook, Clean, Handoff!Recent, StampInv
<1>8. QED
  BY <1>1, <1>2, <1>3, <1>4, <1>5, <1>6, <1>7 DEF Runs, ProcessSteps

LEMMA MarkedInvKept ==
  ASSUME HandoffTypes, NEW c \in Conversations, deskNow' = deskNow, Runs(c), MarkedInv(c),
         MarkInv(c), StampInv(c), AloneInv(c)
  PROVE  MarkedInv(c)'
<1>1. CASE Turned(c) \/ Closed(c)
  BY <1>1, ConvFacts
     DEF Turned, Closed, SameRecord, SameWindows, MarkedInv, MarkInv, Handing, Opened, Clean
<1>2. ASSUME NEW p \in Handoff!Slots, Joins(c, p) PROVE MarkedInv(c)'
  BY <1>2, JoinsFacts DEF SameRecord, SameWindows, MarkedInv, Opened, Clean
<1>3. ASSUME NEW p \in Handoff!Slots, LetBe(c, p) \/ Decided(c, p) \/ JobRefused(c, p) \/
               Forgetting(c, p) \/ NoJob(c, p)
      PROVE  MarkedInv(c)'
  BY <1>3, FromFacts
     DEF LetBe, Decided, JobRefused, Forgetting, NoJob, SameDesktop, SameRecord,
         SameWindows, MarkedInv, Opened, Clean
<1>4. ASSUME NEW p \in Handoff!Slots, Marked(c, p) \/ OpenMarked(c, p) \/ TakenBack(c, p)
      PROVE  MarkedInv(c)'
  BY <1>4, FromFacts, ConvFacts
     DEF Marked, Writes, OpenMarked, TakenBack, LetGo, SameRecord, SameJob, SameWindows,
         Sensible, MarkedInv, StampInv, AloneInv, Alone, NoneRecent, Handing, IsHook,
         Opened, Clean
<1>5. ASSUME NEW p \in Handoff!Slots, JobStarted(c, p) PROVE MarkedInv(c)'
  BY <1>5, JobStartedFacts DEF SameRecord, SameWindows, MarkedInv, Opened, Clean
<1>6. ASSUME NEW p \in Handoff!Slots, JobWritten(c, p) \/ JobRead(c, p) \/ JobFailed(c, p)
      PROVE  MarkedInv(c)'
  BY <1>6, FromFacts
     DEF JobWritten, BeginsOf, JobRead, Entry, JobFailed, HeldBack, SameRecord, SameWindows,
         MarkedInv, Opened, Clean
<1>7. ASSUME NEW p \in Handoff!Slots, WindowOpened(c, p) \/ NotOpened(c, p) PROVE
             MarkedInv(c)'
  BY <1>7, FromFacts, ToFacts, NewStamp, NewWindowFacts, ConvFacts, FreeFacts
     DEF WindowOpened, Relaunch, BeginsOf, NotOpened, SameDesktop, SameRecord, SameJob,
         SameWindows, SameLost, Sensible, MarkedInv, MarkInv, StampInv, AloneInv, Alone,
         NoneRecent, Handing, IsHook, Opened, Clean
<1>8. QED
  BY <1>1, <1>2, <1>3, <1>4, <1>5, <1>6, <1>7 DEF Runs, ProcessSteps

LEMMA AskedInvKept ==
  ASSUME HandoffTypes, NEW c \in Conversations, deskNow' = deskNow, Runs(c), AskedInv(c),
         MarkInv(c), BegunInv(c)
  PROVE  AskedInv(c)'
<1>1. CASE Turned(c) \/ Closed(c)
  BY <1>1, FreeFacts
     DEF Turned, Closed, SameRecord, SameWindows, AskedInv, Asking, Handing, IsHook, Opened,
         Clean
<1>2. ASSUME NEW p \in Handoff!Slots, Joins(c, p) PROVE AskedInv(c)'
  <2> SUFFICES ASSUME Opened(c)', NEW y \in Handoff!Slots, NEW q \in Handoff!Slots,
                      Asking(y, c)', Handing(q, c)'
               PROVE  procs'[q].at \in {"writesJob", "recordsOpened"}
    BY DEF AskedInv
  <2>1. /\ procs[p].conv # c /\ ~Handing(p, c)' /\ Opened(c) /\ begun'[c] = begun[c]
        /\ \A o \in Handoff!Slots : o # p => procs'[o] = procs[o]
    BY <1>2, JoinsFacts DEF SameRecord, SameWindows, Handing, IsHook, Opened, Clean
  <2>2. q # p /\ Handing(q, c)
    BY <2>1 DEF Handing, IsHook
  <2>3. CASE y = p
    <3>1. Handoff!Begun(c) = begun[c] /\ ~Handoff!Recent(deskRecord, c)
      BY <1>2, <2>1, <2>3, JoinsFacts DEF Asking
    <3>2. QED
      BY <2>1, <2>2, <3>1, FreeToOpen DEF Opened
  <2>4. CASE y # p
    BY <2>1, <2>2, <2>4 DEF AskedInv, Asking
  <2>5. QED
    BY <2>3, <2>4
<1>3. ASSUME NEW p \in Handoff!Slots, LetBe(c, p) \/ Decided(c, p) \/ JobRefused(c, p) \/
               Forgetting(c, p) \/ NoJob(c, p)
      PROVE  AskedInv(c)'
  BY <1>3, FromFacts, ToFacts, FreeFacts
     DEF LetBe, LetGo, Decided, Entry, JobRefused, Forgetting, NoJob, SameRecord,
         SameWindows, AskedInv, Asking, Handing, IsHook, Opened, Clean
<1>4. ASSUME NEW p \in Handoff!Slots, Marked(c, p) \/ OpenMarked(c, p) \/ TakenBack(c, p)
      PROVE  AskedInv(c)'
  BY <1>4, FromFacts, ToFacts, FreeFacts
     DEF Marked, Writes, OpenMarked, TakenBack, SameRecord, SameWindows, AskedInv, Asking,
         Handing, IsHook, Opened, Clean
<1>5. ASSUME NEW p \in Handoff!Slots, JobStarted(c, p) PROVE AskedInv(c)'
  BY <1>5, JobStartedFacts
     DEF SameRecord, SameWindows, AskedInv, Asking, Handing, IsHook, Opened, Clean
<1>6. ASSUME NEW p \in Handoff!Slots, JobRead(c, p) \/ JobFailed(c, p) PROVE AskedInv(c)'
  BY <1>6, FromFacts, ToFacts
     DEF JobRead, Entry, JobFailed, SameRecord, SameWindows, Sensible, AskedInv, Asking,
         Handing, IsHook, Opened, Clean
<1>7. ASSUME NEW p \in Handoff!Slots, JobWritten(c, p) PROVE AskedInv(c)'
  <2>1. /\ procs[p].conv = c /\ procs'[p].at = "records" /\ begun'[c] = begun[c] + 1
        /\ \A o \in Handoff!Slots : o # p => procs'[o] = procs[o]
    BY <1>7, FromFacts, ToFacts DEF JobWritten, BeginsOf
  <2>2. ASSUME NEW y \in Handoff!Slots PROVE ~Asking(y, c)'
    BY <2>1, NobodyBegan DEF Asking
  <2>3. QED
    BY <2>2 DEF AskedInv
<1>8. ASSUME NEW p \in Handoff!Slots, NotOpened(c, p) PROVE AskedInv(c)'
  BY <1>8, FromFacts, ToFacts, FreeFacts
     DEF NotOpened, Relaunch, SameWindows, AskedInv, Asking, Handing, IsHook, Opened, Clean
<1>9. ASSUME NEW p \in Handoff!Slots, WindowOpened(c, p) PROVE AskedInv(c)'
  <2>1. /\ procs[p].conv = c /\ procs'[p].at = "recordsOpened" /\ begun'[c] = begun[c] + 1
        /\ \A o \in Handoff!Slots : o # p => procs'[o] = procs[o]
    BY <1>9, FromFacts, ToFacts DEF WindowOpened, Relaunch
  <2>2. ASSUME NEW y \in Handoff!Slots PROVE ~Asking(y, c)'
    BY <2>1, NobodyBegan DEF Asking
  <2>3. QED
    BY <2>2 DEF AskedInv
<1>10. QED
  BY <1>1, <1>2, <1>3, <1>4, <1>5, <1>6, <1>7, <1>8, <1>9 DEF Runs, ProcessSteps

LEMMA AloneInvKept ==
  ASSUME HandoffTypes, NEW c \in Conversations, deskNow' = deskNow, Runs(c), AloneInv(c),
         MarkInv(c), AskedInv(c), OneInv(c), BegunInv(c), MarkedInv(c)
  PROVE  AloneInv(c)'
<1>1. CASE Turned(c) \/ Closed(c)
  BY <1>1, FreeFacts
     DEF Turned, Closed, SameRecord, SameWindows, AloneInv, NoneRecent, Alone, Asking,
         Handing, IsHook, Opened, Clean
<1>2. ASSUME NEW p \in Handoff!Slots, Joins(c, p) PROVE AloneInv(c)'
  <2> SUFFICES ASSUME Opened(c)', NEW y \in Handoff!Slots, Alone(y, c)' PROVE NoneRecent(c)'
    BY DEF AloneInv
  <2>1. /\ ~Handing(p, c)' /\ procs'[p].at # "writesJob" /\ Opened(c)
        /\ begun'[c] = begun[c] /\ deskWindows'[c] = deskWindows[c]
        /\ \A o \in Handoff!Slots : o # p => procs'[o] = procs[o]
    BY <1>2, JoinsFacts DEF SameRecord, SameWindows, Handing, IsHook, Opened, Clean
  <2>2. NoneRecent(c) => NoneRecent(c)'
    BY <2>1 DEF NoneRecent
  <2>3. CASE y = p
    <3>1. Asking(p, c)'
      BY <2>1, <2>3 DEF Alone
    <3>2. Handoff!Begun(c) = begun[c] /\ ~Handoff!Recent(deskRecord, c)
      BY <1>2, <2>1, <3>1, JoinsFacts DEF Asking
    <3>3. QED
      BY <2>1, <2>2, <3>2, FreeToOpen DEF Opened
  <2>4. CASE y # p
    BY <2>1, <2>2, <2>4 DEF AloneInv, Alone, Asking, Handing, IsHook
  <2>5. QED
    BY <2>3, <2>4
<1>3. ASSUME NEW p \in Handoff!Slots, LetBe(c, p) \/ JobRefused(c, p) \/ Forgetting(c, p) \/
               NoJob(c, p)
      PROVE  AloneInv(c)'
  BY <1>3, FromFacts, ToFacts, ConvFacts, FreeFacts
     DEF LetBe, LetGo, JobRefused, Forgetting, NoJob, SameDesktop, SameRecord, SameJob,
         SameWindows, SameLost, Sensible, AloneInv, NoneRecent, Alone, AskedInv, OneInv,
         MarkedInv, BegunInv, Asking, Handing, IsHook, Opened, Clean, Handoff!Recent,
         Handoff!Begun
<1>4. ASSUME NEW p \in Handoff!Slots, Decided(c, p) PROVE AloneInv(c)'
  <2> SUFFICES ASSUME Opened(c)', NEW y \in Handoff!Slots, Alone(y, c)' PROVE NoneRecent(c)'
    BY DEF AloneInv
  <2>1. /\ ~Handoff!Recent(deskRecord, c) /\ procs'[p].at = "writesJob"
        /\ procs'[p].begun = Handoff!Begun(c)
        /\ Opened(c) /\ begun'[c] = begun[c] /\ deskWindows'[c] = deskWindows[c]
        /\ \A o \in Handoff!Slots : o # p => procs'[o] = procs[o]
    BY <1>4, FromFacts DEF Decided, Entry, SameRecord, SameWindows, Opened, Clean
  <2>2. NoneRecent(c) => NoneRecent(c)'
    BY <2>1 DEF NoneRecent
  <2>3. CASE y = p
    <3>1. Handoff!Begun(c) = begun[c]
      BY <2>1, <2>3 DEF Alone, Asking
    <3>2. QED
      BY <2>1, <2>2, <3>1, FreeToOpen DEF Opened
  <2>4. CASE y # p
    BY <2>1, <2>2, <2>4 DEF AloneInv, Alone, Asking, Handing, IsHook
  <2>5. QED
    BY <2>3, <2>4
<1>5. ASSUME NEW p \in Handoff!Slots, Marked(c, p) \/ OpenMarked(c, p) \/ TakenBack(c, p)
      PROVE  AloneInv(c)'
  BY <1>5, FromFacts, ToFacts, ConvFacts, FreeFacts
     DEF Marked, Writes, OpenMarked, TakenBack, LetGo, SameDesktop, SameRecord, SameJob,
         SameWindows, SameLost, Sensible, AloneInv, NoneRecent, Alone, AskedInv, OneInv,
         MarkedInv, BegunInv, Asking, Handing, IsHook, Opened, Clean, Handoff!Recent,
         Handoff!Begun
<1>6. ASSUME NEW p \in Handoff!Slots, JobStarted(c, p) PROVE AloneInv(c)'
  BY <1>6, JobStartedFacts
     DEF SameRecord, SameWindows, AloneInv, NoneRecent, Alone, Handing, IsHook, Opened,
         Clean
<1>7. ASSUME NEW p \in Handoff!Slots, JobRead(c, p) \/ JobFailed(c, p) PROVE AloneInv(c)'
  BY <1>7, FromFacts, ToFacts, ConvFacts, FreeFacts
     DEF JobRead, Entry, JobFailed, HeldBack, SameDesktop, SameRecord, SameJob, SameWindows,
         SameLost, Sensible, AloneInv, NoneRecent, Alone, AskedInv, OneInv, MarkedInv,
         BegunInv, Asking, Handing, IsHook, Opened, Clean, Handoff!Recent, Handoff!Begun
<1>8. ASSUME NEW p \in Handoff!Slots, JobWritten(c, p) PROVE AloneInv(c)'
  <2> SUFFICES ASSUME Opened(c)', NEW y \in Handoff!Slots, Alone(y, c)' PROVE NoneRecent(c)'
    BY DEF AloneInv
  <2>1. /\ procs[p].conv = c /\ procs[p].at = "writesJob" /\ procs'[p].at = "records"
        /\ begun'[c] = begun[c] + 1 /\ deskWindows'[c] = deskWindows[c]
        /\ \A o \in Handoff!Slots : o # p => procs'[o] = procs[o]
    BY <1>8, FromFacts, ToFacts DEF JobWritten, BeginsOf
  <2>2. Opened(c) /\ procs[p].begun = begun[c]
    BY <1>8 DEF JobWritten, BeginsOf, Opened, Clean
  <2>3. Alone(y, c)
    BY <2>1, <2>2, NobodyBegan DEF Alone, Asking, Handing, IsHook
  <2>4. QED
    BY <2>1, <2>2, <2>3 DEF AloneInv, NoneRecent
<1>9. ASSUME NEW p \in Handoff!Slots, NotOpened(c, p) PROVE AloneInv(c)'
  BY <1>9, FromFacts, FreeFacts
     DEF NotOpened, Relaunch, SameWindows, AloneInv, NoneRecent, Alone, Asking, Handing,
         IsHook, Opened, Clean
<1>10. ASSUME NEW p \in Handoff!Slots, WindowOpened(c, p) PROVE AloneInv(c)'
  <2> SUFFICES ASSUME Opened(c)', NEW y \in Handoff!Slots, Alone(y, c)' PROVE FALSE
    BY DEF AloneInv
  <2>1. /\ procs[p].conv = c /\ procs[p].at = "opens" /\ procs'[p].at = "recordsOpened"
        /\ begun'[c] = begun[c] + 1 /\ procs[p].kind \in {"job", "move", "again", "swap"}
        /\ \A o \in Handoff!Slots : o # p => procs'[o] = procs[o]
    BY <1>10, FromFacts, ToFacts DEF WindowOpened, Relaunch, Sensible
  <2>2. y # p /\ Handing(y, c) /\ procs[y].at \notin {"writesJob", "recordsOpened"}
    BY <2>1, NobodyBegan DEF Alone, Asking, Handing, IsHook
  <2>3. /\ Opened(c) /\ procs[p].kind # "again"
        /\ procs[p].kind = "job" \/ procs[p].begun = begun[c]
    BY <1>10 DEF WindowOpened, BeginsOf, Opened, Clean
  <2>4. CASE procs[p].kind = "job"
    BY <2>1, <2>2, <2>3, <2>4 DEF OneInv, Handing, Opened
  <2>5. CASE procs[p].kind # "job"
    BY <2>1, <2>2, <2>3, <2>5 DEF AskedInv, Asking
  <2>6. QED
    BY <2>4, <2>5
<1>11. QED
  BY <1>1, <1>2, <1>3, <1>4, <1>5, <1>6, <1>7, <1>8, <1>9, <1>10 DEF Runs, ProcessSteps

LEMMA ApartKept ==
  ASSUME HandoffTypes, NEW c \in Conversations, deskNow' = deskNow, Runs(c), Apart(c),
         AloneInv(c)
  PROVE  Apart(c)'
<1>1. CASE Turned(c) \/ Closed(c)
  BY <1>1, ConvFacts, FreeFacts
     DEF Turned, Closed, SameDesktop, SameRecord, SameJob, SameWindows, SameLost, Apart,
         AloneInv, Alone, NoneRecent, Asking, Handing, IsHook, Opened, Clean
<1>2. ASSUME NEW p \in Handoff!Slots, Joins(c, p) PROVE Apart(c)'
  BY <1>2, JoinsFacts, ConvFacts
     DEF SameDesktop, SameRecord, SameJob, SameWindows, SameLost, Apart, AloneInv, Alone,
         NoneRecent, Asking, Handing, IsHook, Opened, Clean
<1>3. ASSUME NEW p \in Handoff!Slots, LetBe(c, p) \/ Decided(c, p) \/ JobRefused(c, p) \/
               Forgetting(c, p) \/ NoJob(c, p)
      PROVE  Apart(c)'
  BY <1>3, FromFacts, ToFacts, ConvFacts, FreeFacts
     DEF LetBe, LetGo, Decided, Entry, JobRefused, Forgetting, NoJob, SameDesktop,
         SameRecord, SameJob, SameWindows, SameLost, Sensible, Apart, AloneInv, Alone,
         NoneRecent, Asking, Handing, IsHook, Opened, Clean
<1>4. ASSUME NEW p \in Handoff!Slots, Marked(c, p) \/ OpenMarked(c, p) \/ TakenBack(c, p)
      PROVE  Apart(c)'
  BY <1>4, FromFacts, ToFacts, ConvFacts, FreeFacts
     DEF Marked, Writes, OpenMarked, TakenBack, LetGo, SameDesktop, SameRecord, SameJob,
         SameWindows, SameLost, Sensible, Apart, AloneInv, Alone, NoneRecent, Asking,
         Handing, IsHook, Opened, Clean
<1>5. ASSUME NEW p \in Handoff!Slots, JobStarted(c, p) PROVE Apart(c)'
  BY <1>5, JobStartedFacts, ConvFacts, FreeFacts
     DEF HeldBack, SameDesktop, SameRecord, SameJob, SameWindows, SameLost, Sensible, Apart,
         AloneInv, Alone, NoneRecent, Asking, Handing, IsHook, Opened, Clean
<1>6. ASSUME NEW p \in Handoff!Slots, JobWritten(c, p) \/ JobRead(c, p) \/ JobFailed(c, p)
      PROVE  Apart(c)'
  BY <1>6, FromFacts, ToFacts, NewStamp, ConvFacts, FreeFacts
     DEF JobWritten, BeginsOf, JobRead, Entry, JobFailed, HeldBack, SameDesktop, SameRecord,
         SameJob, SameWindows, SameLost, Sensible, Apart, AloneInv, Alone, NoneRecent,
         Asking, Handing, IsHook, Opened, Clean
<1>7. ASSUME NEW p \in Handoff!Slots, NotOpened(c, p) PROVE Apart(c)'
  BY <1>7, FromFacts, ToFacts, ConvFacts, FreeFacts
     DEF NotOpened, Relaunch, SameDesktop, SameRecord, SameJob, SameWindows, SameLost,
         Sensible, Apart, AloneInv, Alone, NoneRecent, Asking, Handing, IsHook, Opened,
         Clean
<1>8. ASSUME NEW p \in Handoff!Slots, WindowOpened(c, p) PROVE Apart(c)'
  BY <1>8, FromFacts, ToFacts, NewStamp, NewWindowFacts, ConvFacts, FreeFacts, SMTT(30)
     DEF WindowOpened, Relaunch, BeginsOf, SameDesktop, SameRecord, SameJob, SameWindows,
         SameLost, Sensible, Apart, AloneInv, Alone, NoneRecent, Asking, Handing, IsHook,
         Opened, Clean
<1>9. QED
  BY <1>1, <1>2, <1>3, <1>4, <1>5, <1>6, <1>7, <1>8 DEF Runs, ProcessSteps

LEMMA TypedInvKept ==
  ASSUME HandoffTypes, NEW c \in Conversations, deskNow' = deskNow, Runs(c), TypedInv(c),
         HookInv(c)
  PROVE  TypedInv(c)'
<1>1. CASE Turned(c) \/ Closed(c)
  BY <1>1 DEF Turned, Closed, TypedInv
<1>2. ASSUME NEW p \in Handoff!Slots, Joins(c, p) PROVE TypedInv(c)'
  BY <1>2, JoinsFacts DEF SameDesktop, TypedInv
<1>3. ASSUME NEW p \in Handoff!Slots, LetBe(c, p) \/ Decided(c, p) \/ JobRefused(c, p) \/
               Forgetting(c, p) \/ NoJob(c, p)
      PROVE  TypedInv(c)'
  BY <1>3, FromFacts
     DEF LetBe, LetGo, Decided, JobRefused, Forgetting, NoJob, SameDesktop, TypedInv,
         HookInv
<1>4. ASSUME NEW p \in Handoff!Slots, Marked(c, p) \/ OpenMarked(c, p) \/ TakenBack(c, p)
      PROVE  TypedInv(c)'
  BY <1>4, FromFacts
     DEF Marked, OpenMarked, TakenBack, LetGo, SameDesktop, TypedInv, HookInv
<1>5. ASSUME NEW p \in Handoff!Slots, JobStarted(c, p) PROVE TypedInv(c)'
  BY <1>5, JobStartedFacts DEF HeldBack, TypedInv
<1>6. ASSUME NEW p \in Handoff!Slots, JobWritten(c, p) \/ JobRead(c, p) \/ JobFailed(c, p)
      PROVE  TypedInv(c)'
  BY <1>6 DEF JobWritten, JobRead, JobFailed, HeldBack, SameDesktop, TypedInv
<1>7. ASSUME NEW p \in Handoff!Slots, WindowOpened(c, p) \/ NotOpened(c, p) PROVE
             TypedInv(c)'
  BY <1>7 DEF WindowOpened, Relaunch, NotOpened, SameDesktop, TypedInv
<1>8. QED
  BY <1>1, <1>2, <1>3, <1>4, <1>5, <1>6, <1>7 DEF Runs, ProcessSteps

LEMMA HoldingInvKept ==
  ASSUME HandoffTypes, NEW c \in Conversations, deskNow' = deskNow, Runs(c), HoldingInv(c),
         HookInv(c), TypedInv(c)
  PROVE  HoldingInv(c)'
<1>1. CASE Turned(c) \/ Closed(c)
  BY <1>1, FreeFacts DEF Turned, Closed, HoldingInv, IsHook, TypedInv
<1>2. ASSUME NEW p \in Handoff!Slots, Joins(c, p) PROVE HoldingInv(c)'
  BY <1>2, JoinsFacts
     DEF SameDesktop, SameJob, SameWindows, SameLost, HoldingInv, Carried, JobCarries,
         HookInv
<1>3. ASSUME NEW p \in Handoff!Slots, LetBe(c, p) \/ Decided(c, p) \/ JobRefused(c, p) \/
               Forgetting(c, p) \/ NoJob(c, p)
      PROVE  HoldingInv(c)'
  BY <1>3, FromFacts, ToFacts, FreeFacts
     DEF LetBe, Decided, Entry, JobRefused, Forgetting, NoJob, SameDesktop, SameJob,
         SameWindows, SameLost, HoldingInv, Carried, JobCarries, HookInv, IsHook
<1>4. ASSUME NEW p \in Handoff!Slots, Marked(c, p) \/ OpenMarked(c, p) \/ TakenBack(c, p)
      PROVE  HoldingInv(c)'
  BY <1>4, FromFacts, ToFacts, FreeFacts
     DEF Marked, OpenMarked, TakenBack, SameDesktop, SameJob, SameWindows, SameLost,
         HoldingInv, Carried, JobCarries, HookInv, IsHook
<1>5. ASSUME NEW p \in Handoff!Slots, JobStarted(c, p) PROVE HoldingInv(c)'
  BY <1>5, JobStartedFacts DEF HoldingInv, HookInv, IsHook
<1>6. ASSUME NEW p \in Handoff!Slots, JobRead(c, p) \/ JobFailed(c, p) PROVE HoldingInv(c)'
  BY <1>6, FromFacts, ToFacts
     DEF JobRead, Entry, JobFailed, SameDesktop, SameWindows, SameLost, HoldingInv, Carried,
         JobCarries, HookInv
<1>7. ASSUME NEW p \in Handoff!Slots, JobWritten(c, p) PROVE HoldingInv(c)'
  <2>1. /\ IsHook(p) /\ procs[p].conv = c /\ procs'[p].kind = procs[p].kind
        /\ procs[p].kind = "prompt" => procs[p].carries
        /\ \A q \in Handoff!Slots : q # p => procs'[q] = procs[q]
    BY <1>7, FromFacts, ToFacts DEF JobWritten, Sensible, IsHook
  <2>2. ASSUME NEW q \in Handoff!Slots, procs'[q].conv = c, procs'[q].kind = "prompt" PROVE
               q = p
    BY <2>1, <2>2 DEF HookInv, IsHook
  <2>3. procs'[p].kind = "prompt" => JobCarries(c)'
    BY <1>7, <2>1, WrittenFacts DEF JobCarries
  <2>4. QED
    BY <2>2, <2>3 DEF HoldingInv
<1>8. ASSUME NEW p \in Handoff!Slots, WindowOpened(c, p) \/ NotOpened(c, p) PROVE
             HoldingInv(c)'
  BY <1>8, FromFacts, ToFacts, NewWindowFacts, FreeFacts
     DEF WindowOpened, Relaunch, NotOpened, SameDesktop, HoldingInv, Carried, JobCarries
<1>9. QED
  BY <1>1, <1>2, <1>3, <1>4, <1>5, <1>6, <1>7, <1>8 DEF Runs, ProcessSteps

LEMMA HeldInvKept ==
  ASSUME HandoffTypes, NEW c \in Conversations, deskNow' = deskNow, Runs(c), HeldInv(c),
         HoldingInv(c), HookInv(c), TypedInv(c)
  PROVE  HeldInv(c)'
<1>1. CASE Turned(c) \/ Closed(c)
  BY <1>1, SlotFacts
     DEF Turned, Closed, SameJob, SameWindows, SameLost, Sensible, HeldInv, Carried,
         JobCarries, IsHook
<1>2. ASSUME NEW p \in Handoff!Slots, Joins(c, p) PROVE HeldInv(c)'
  BY <1>2, JoinsFacts
     DEF SameDesktop, SameJob, SameWindows, SameLost, HeldInv, Carried, JobCarries
<1>3. ASSUME NEW p \in Handoff!Slots, LetBe(c, p) \/ Decided(c, p) \/ JobRefused(c, p) \/
               Forgetting(c, p) \/ NoJob(c, p)
      PROVE  HeldInv(c)'
  BY <1>3, FromFacts
     DEF LetBe, LetGo, Decided, JobRefused, Forgetting, NoJob, SameDesktop, SameJob,
         SameWindows, SameLost, HeldInv, Carried, JobCarries
<1>4. ASSUME NEW p \in Handoff!Slots, Marked(c, p) \/ OpenMarked(c, p) \/ TakenBack(c, p)
      PROVE  HeldInv(c)'
  BY <1>4, FromFacts
     DEF Marked, Writes, OpenMarked, TakenBack, LetGo, SameDesktop, SameJob, SameWindows,
         SameLost, HeldInv, Carried, JobCarries
<1>5. ASSUME NEW p \in Handoff!Slots, JobStarted(c, p) PROVE HeldInv(c)'
  BY <1>5, JobStartedFacts
     DEF HeldBack, SameJob, SameWindows, SameLost, HeldInv, HoldingInv, Carried, JobCarries,
         HookInv, TypedInv
<1>6. ASSUME NEW p \in Handoff!Slots, JobWritten(c, p) \/ JobRead(c, p) \/ JobFailed(c, p)
      PROVE  HeldInv(c)'
  BY <1>6, FromFacts
     DEF JobWritten, JobRead, Entry, JobFailed, HeldBack, SameDesktop, SameJob, SameWindows,
         SameLost, HeldInv, Carried, JobCarries, HookInv, TypedInv
<1>7. ASSUME NEW p \in Handoff!Slots, WindowOpened(c, p) \/ NotOpened(c, p) PROVE
             HeldInv(c)'
  BY <1>7, FromFacts, NewWindowFacts
     DEF WindowOpened, Relaunch, NotOpened, SameDesktop, HeldInv, Carried, JobCarries
<1>8. QED
  BY <1>1, <1>2, <1>3, <1>4, <1>5, <1>6, <1>7 DEF Runs, ProcessSteps

-----------------------------------------------------------------------------
(* The whole.                                                              *)

LEMMA GoodRuns ==
  ASSUME HandoffTypes, NEW c \in Conversations, deskNow' = deskNow, Runs(c), Good(c) PROVE
         Good(c)'
<1>1. StampInv(c)' /\ HookInv(c)' /\ OneInv(c)' /\ MarkInv(c)' /\ JobInv(c)'
  BY StampInvKept, HookInvKept, OneInvKept, MarkInvKept, JobInvKept DEF Good
<1>2. BackInv(c)' /\ OpenedInv(c)' /\ WindowNumbers(c)' /\ MarkedInv(c)' /\ BegunInv(c)'
  BY BackInvKept, OpenedInvKept, WindowNumbersKept, MarkedInvKept, BegunInvKept DEF Good
<1>3. AskedInv(c)' /\ AloneInv(c)' /\ Apart(c)'
  BY AskedInvKept, AloneInvKept, ApartKept DEF Good
<1>4. TypedInv(c)' /\ HeldInv(c)' /\ HoldingInv(c)'
  BY TypedInvKept, HeldInvKept, HoldingInvKept DEF Good
<1>5. QED
  BY <1>1, <1>2, <1>3, <1>4 DEF Good

HandoffInv == HandoffTypes /\ \A c \in Conversations : Good(c)

LEMMA HandoffKept == HandoffInv /\ [Handoff!Next]_(Handoff!vars) => HandoffInv'
<1> SUFFICES ASSUME HandoffInv, [Handoff!Next]_(Handoff!vars) PROVE HandoffInv'
  OBVIOUS
<1>1. HandoffTypes /\ (\A c \in Conversations : Good(c) /\ WindowNumbers(c))
  BY DEF HandoffInv, Good
<1>2. HandoffTypes' /\ HandoffStep
  BY <1>1, TypesKept, EachStep
<1>3. ASSUME NEW c \in Conversations, StepOf(c), NEW d \in Conversations PROVE Good(d)'
  <2>1. CASE d # c
    BY <1>1, <1>3, <2>1, GoodUndisturbed DEF StepOf
  <2>2. CASE d = c
    <3>1. CASE Runs(c)
      BY <1>1, <1>3, <2>2, <3>1, GoodRuns DEF StepOf
    <3>2. CASE \E w \in deskWindows[c] : WindowMoved(c, w)
      BY <1>1, <1>3, <2>2, <3>2, GoodMoved DEF StepOf
    <3>3. QED
      BY <1>3, <3>1, <3>2 DEF StepOf, Acts
  <2>3. QED
    BY <2>1, <2>2
<1>4. CASE Ticked
  BY <1>1, <1>2, <1>4, GoodTicked DEF HandoffInv
<1>5. CASE \A d \in Conversations : Undisturbed(d)
  BY <1>1, <1>2, <1>5, GoodUndisturbed DEF HandoffInv
<1>6. QED
  BY <1>2, <1>3, <1>4, <1>5 DEF HandoffStep, HandoffInv

LEMMA HandoffInit == Handoff!Init => HandoffInv
<1> SUFFICES ASSUME Handoff!Init PROVE HandoffInv
  OBVIOUS
<1>1. /\ deskNow = 0 /\ \A p \in Handoff!Slots : procs[p] = Handoff!Free
      /\ \A c \in Conversations :
            /\ deskClaude[c] = "idle" /\ message[c] = "none"
            /\ deskRecord[c] = None /\ job[c] = None /\ deskWindows[c] = {} /\ begun[c] = 0
  BY DEF Handoff!Init
<1>2. HandoffTypes
  BY FreeIsProc, HandoffAssumption
     DEF Handoff!Init, HandoffTypes, FileTypes, DeskTypes, ProcTypes, WindowTypes,
         HistoryTypes, Handoff!Records
<1>3. \A c \in Conversations, p \in Handoff!Slots : procs[p].conv # c
  BY <1>1, FreeFacts
<1>4. ASSUME NEW c \in Conversations PROVE Good(c)
  BY <1>1, <1>3
     DEF Good, StampInv, HookInv, OneInv, MarkInv, JobInv, BackInv, OpenedInv,
         WindowNumbers, MarkedInv, AskedInv, AloneInv, BegunInv, TypedInv, HeldInv,
         HoldingInv, Apart, Handing, Asking, Alone, Handoff!Recent
<1>5. QED
  BY <1>2, <1>4 DEF HandoffInv

LEMMA HandoffSafe == HandoffInv => Handoff!Inv
<1> SUFFICES ASSUME HandoffInv PROVE Handoff!Inv
  OBVIOUS
<1>1. HandoffTypes /\ (\A c \in Conversations : Good(c))
  BY DEF HandoffInv
<1>2. Handoff!TypeOK
  <2>1. \A c \in Conversations : turns[c] \in 0..MaxTurns[c]
    BY <1>1, HandoffAssumption DEF HandoffTypes, DeskTypes
  <2>2. procs \in [Handoff!Slots -> Process]
    BY <1>1 DEF HandoffTypes, ProcTypes, Proc
  <2>3. QED
    BY <1>1, <2>1, <2>2
       DEF Handoff!TypeOK, HandoffTypes, FileTypes, DeskTypes, WindowTypes, Jobs, Process
<1>3. Handoff!OneWindow
  BY <1>1 DEF Handoff!OneWindow, Good, Apart, Opened, Clean
<1>4. Handoff!HeldMessageArrives
  BY <1>1
     DEF Handoff!HeldMessageArrives, Good, HeldInv, Carried, JobCarries, Handoff!Conv,
         Handoff!At
<1>5. Handoff!HeldBackForAWindow
  <2> SUFFICES ASSUME NEW c \in Conversations, Handoff!Recent(deskRecord, c)
               PROVE  \/ \E w \in deskWindows[c] : deskNow - w.at < Quiet
                      \/ \E p \in Handoff!Slots : Handoff!Conv(p) = c /\ procs[p].at # "free"
                      \/ gaps[c] \cap {"killed", "writtenOver", "unwritten", "overlap"} # {}
    BY DEF Handoff!HeldBackForAWindow
  <2>1. CASE ~Clean(c) \/ "killed" \in gaps[c]
    BY <2>1 DEF Clean
  <2>2. CASE \E w \in deskWindows[c] : w.at >= deskRecord[c].time
    BY <1>1, <2>2, ConvFacts DEF Handoff!Recent
  <2>3. CASE \E p \in Handoff!Slots : Answers(p, c)
    BY <2>3 DEF Answers, Handing, Handoff!Conv
  <2>4. QED
    BY <1>1, <2>1, <2>2, <2>3 DEF Good, BackInv
<1>6. QED
  BY <1>2, <1>3, <1>4, <1>5 DEF Handoff!Inv

\* A conversation is carried on in one window at a time, unless a person asks for
\* another or the file of handovers could not tell; a message held back is on its
\* way to a window or known to be lost; and nothing is held back for a window that
\* nobody opened.
THEOREM HandoffArrives == Handoff!Spec => []ArrivesInv
BY HandoffInit, HandoffKept, HandoffSafe, PTL DEF ArrivesInv, Handoff!Spec

-----------------------------------------------------------------------------
(* Least and greatest of natural numbers. *)

LEMMA Least ==
    ASSUME NEW T \in SUBSET Nat, T # {}
    PROVE  \E x \in T : \A y \in T : x <= y
<1> DEFINE R == {ss \in Nat \X Nat : ss[1] < ss[2]}
<1>1. IsWellFoundedOn(R, Nat)
  BY NatLessThanWellFounded DEF OpToRel
<1>2. \E x \in T : \A y \in T : ~ (<<y, x>> \in R)
  <2> HIDE DEF R
  <2>1. QED
    BY <1>1, WFMin
<1>3. PICK x \in T : \A y \in T : ~ (<<y, x>> \in R)
  BY <1>2
<1>4. ASSUME NEW y \in T PROVE x <= y
  <2>1. ~(y < x) /\ x \in Nat /\ y \in Nat
    BY <1>3
  <2>2. QED
    BY <2>1
<1>5. QED
  BY <1>4

LEMMA Greatest ==
    ASSUME NEW top \in Nat, NEW T \in SUBSET (0..top), T # {}
    PROVE  \E x \in T : \A y \in T : y <= x
<1> DEFINE Bounding == {k \in Nat : \A y \in T : y <= k}
<1>1. top \in Bounding
  OBVIOUS
<1>2. PICK k \in Bounding : \A j \in Bounding : k <= j
  BY <1>1, Least
<1>3. k \in T
  <2> SUFFICES ASSUME k \notin T PROVE FALSE
    OBVIOUS
  <2>1. k \in Nat /\ \A y \in T : y \in Nat /\ y <= k /\ y # k
    OBVIOUS
  <2>2. k # 0
    <3>1. PICK y \in T : TRUE
      OBVIOUS
    <3>2. QED
      BY <2>1, <3>1
  <2>3. k - 1 \in Nat /\ \A y \in T : y <= k - 1
    BY <2>1, <2>2
  <2>4. k - 1 \in Bounding
    BY <2>3
  <2>5. QED
    BY <1>2, <2>1, <2>4
<1>4. QED
  BY <1>3

-----------------------------------------------------------------------------
(* ConfirmCap: what an answer is taken to say.                             *)

Resets == Confirm!ModelSet \cup {None, "fiveHour", "sevenDay", "refusal"}
Hows == {"room", "answer", "unverified", "unanswered", "refusal"}
Said == [limited : BOOLEAN, model : Confirm!ModelSet \cup {None}, resets : Resets, how : Hows]

LEMMA ModelFacts ==
  ASSUME NEW S \in SUBSET (DOMAIN Models), S # {}
  PROVE  \E i \in S : Confirm!FirstOf(S) = Models[i]
<1>1. S \in SUBSET Nat
  BY ConfirmAssumption
<1>2. PICK i \in S : \A j \in S : i <= j
  BY <1>1, Least
<1>3. QED
  BY <1>2 DEF Confirm!FirstOf

LEMMA SpentFacts ==
  ASSUME NEW o, Confirm!SpentModels(o) # {}
  PROVE  /\ Confirm!FirstOf(Confirm!SpentModels(o)) \in Confirm!ModelSet
         /\ o.models[Confirm!FirstOf(Confirm!SpentModels(o))] = "spent"
<1>1. Confirm!SpentModels(o) \in SUBSET (DOMAIN Models)
  BY DEF Confirm!SpentModels
<1>2. PICK i \in Confirm!SpentModels(o) : Confirm!FirstOf(Confirm!SpentModels(o)) = Models[i]
  BY <1>1, ModelFacts
<1>3. QED
  BY <1>2 DEF Confirm!SpentModels, Confirm!ModelSet

\* The model a limit is taken to be of is one that is spent.
LEMMA LimitedIsSpent ==
  ASSUME NEW o, NEW text, Confirm!LimitedModel(o, text) # None
  PROVE  /\ Confirm!LimitedModel(o, text) \in Confirm!ModelSet
         /\ o.models[Confirm!LimitedModel(o, text)] = "spent"
<1>1. CASE /\ Confirm!NamedListed(o, text) # {}
           /\ o.models[Confirm!FirstOf(Confirm!NamedListed(o, text))] = "spent"
  <2>1. Confirm!NamedListed(o, text) \in SUBSET (DOMAIN Models)
    BY DEF Confirm!NamedListed
  <2>2. PICK i \in Confirm!NamedListed(o, text) :
           Confirm!FirstOf(Confirm!NamedListed(o, text)) = Models[i]
    BY <1>1, <2>1, ModelFacts
  <2>3. QED
    BY <1>1, <2>1, <2>2 DEF Confirm!LimitedModel, Confirm!ModelSet
<1>2. CASE ~(/\ Confirm!NamedListed(o, text) # {}
             /\ o.models[Confirm!FirstOf(Confirm!NamedListed(o, text))] = "spent")
  <2>1. /\ Confirm!SpentModels(o) # {}
        /\ Confirm!LimitedModel(o, text) = Confirm!FirstOf(Confirm!SpentModels(o))
    BY <1>2 DEF Confirm!LimitedModel
  <2>2. QED
    BY <2>1, SpentFacts
<1>3. QED
  BY <1>1, <1>2

LEMMA SaysOf ==
  ASSUME NEW o, NEW text, NEW running, NEW d, d = Confirm!FromProbe(o, text, running)
  PROVE  /\ d \in Said /\ d.how # "refusal"
         /\ d.limited => IF d.model = None
               THEN ~o.credits /\ (IF d.resets = "fiveHour" THEN Confirm!FiveHour(o)
                                   ELSE o.sevenDay) = "spent"
               ELSE o.models[d.model] = "spent" /\ running \in {None, d.model}
<1> DEFINE model == IF Confirm!LimitedModel(o, text) # None THEN Confirm!LimitedModel(o, text)
                    ELSE IF Confirm!SpentModels(o) # {}
                         THEN Confirm!FirstOf(Confirm!SpentModels(o)) ELSE None
<1>1. CASE Confirm!Verdict(o, text) # "limited"
  BY <1>1 DEF Confirm!FromProbe, Confirm!No, Said, Resets, Hows
<1>2. CASE Confirm!Verdict(o, text) = "limited" /\ Confirm!SpentWindow(o) # None
  BY <1>2, ConfirmAssumption
     DEF Confirm!FromProbe, Confirm!SpentWindow, Said, Resets, Hows
<1>3. CASE Confirm!Verdict(o, text) = "limited" /\ Confirm!SpentWindow(o) = None
  <2>1. model # None => model \in Confirm!ModelSet /\ o.models[model] = "spent"
    BY LimitedIsSpent, SpentFacts
  <2>2. d = IF model = None \/ (running # None /\ model # running) THEN Confirm!No("unverified")
            ELSE [limited |-> TRUE, model |-> model, resets |-> model, how |-> "answer"]
    BY <1>3 DEF Confirm!FromProbe
  <2> HIDE DEF model
  <2>3. CASE model = None \/ (running # None /\ model # running)
    BY <2>2, <2>3 DEF Confirm!No, Said, Resets, Hows
  <2>4. CASE ~(model = None \/ (running # None /\ model # running))
    BY <2>1, <2>2, <2>4, ConfirmAssumption DEF Said, Resets, Hows
  <2>5. QED
    BY <2>3, <2>4
<1>4. QED
  BY <1>1, <1>2, <1>3

\* The other way: what stops the session is said to be a limit.
LEMMA SaidOfSpent ==
  ASSUME NEW o \in Confirm!Answer, NEW text \in SUBSET Confirm!ModelSet,
         NEW running \in Confirm!ModelSet \cup {None},
         \/ ~o.credits /\ Confirm!AccountOut(o)
         \/ /\ running # None /\ o.models[running] = "spent" /\ text \subseteq {running}
            /\ text # {} \/ Cardinality(Confirm!SpentModels(o)) = 1
  PROVE  Confirm!FromProbe(o, text, running).limited
<1>1. CASE ~o.credits /\ Confirm!AccountOut(o)
  <2>1. Confirm!Verdict(o, text) = "limited" /\ Confirm!SpentWindow(o) # None
    BY <1>1, ConfirmAssumption DEF Confirm!Verdict, Confirm!AccountOut, Confirm!SpentWindow
  <2>2. QED
    BY <2>1 DEF Confirm!FromProbe
<1>2. CASE Confirm!SpentWindow(o) # None
  <2>1. Confirm!Verdict(o, text) = "limited"
    BY <1>2 DEF Confirm!Verdict, Confirm!AccountOut, Confirm!SpentWindow
  <2>2. QED
    BY <1>2, <2>1 DEF Confirm!FromProbe
<1>3. CASE /\ running # None /\ o.models[running] = "spent" /\ text \subseteq {running}
           /\ text # {} \/ Cardinality(Confirm!SpentModels(o)) = 1
           /\ Confirm!SpentWindow(o) = None
  <2>1. PICK r \in DOMAIN Models : Models[r] = running
    BY <1>3 DEF Confirm!ModelSet
  <2>2. r \in Confirm!SpentModels(o) /\ Confirm!SpentModels(o) \in SUBSET (DOMAIN Models)
    BY <1>3, <2>1 DEF Confirm!SpentModels
  <2>3. Confirm!Verdict(o, text) = "limited"
    BY <2>2 DEF Confirm!Verdict
  <2>4. CASE text = {running}
    <3>1. Confirm!NamedListed(o, text) \in SUBSET (DOMAIN Models)
      BY DEF Confirm!NamedListed
    <3>2. r \in Confirm!NamedListed(o, text)
      BY <1>3, <2>1, <2>4, ConfirmAssumption DEF Confirm!NamedListed
    <3>3. PICK i \in Confirm!NamedListed(o, text) :
             Confirm!FirstOf(Confirm!NamedListed(o, text)) = Models[i]
      BY <3>1, <3>2, ModelFacts
    <3>4. Models[i] = running
      BY <2>4, <3>3 DEF Confirm!NamedListed
    <3>5. Confirm!LimitedModel(o, text) = running
      BY <1>3, <3>2, <3>3, <3>4 DEF Confirm!LimitedModel
    <3>6. QED
      BY <1>3, <2>3, <3>5 DEF Confirm!FromProbe
  <2>5. CASE text = {} /\ Cardinality(Confirm!SpentModels(o)) = 1
    <3>1. IsFiniteSet(Confirm!SpentModels(o))
      <4>1. IsFiniteSet(DOMAIN Models)
        BY ConfirmAssumption, FS_Interval
      <4>2. QED
        BY <2>2, <4>1, FS_Subset
    <3>2. PICK x : Confirm!SpentModels(o) = {x}
      BY <2>5, <3>1, FS_Singleton
    <3>3. Confirm!FirstOf(Confirm!SpentModels(o)) = running
      BY <2>1, <2>2, <3>2, ModelFacts
    <3>4. Confirm!LimitedModel(o, text) \in {None, running}
      BY <2>2, <2>5, <3>3 DEF Confirm!LimitedModel, Confirm!NamedListed
    <3>5. QED
      BY <1>3, <2>2, <2>3, <3>3, <3>4 DEF Confirm!FromProbe
  <2>6. QED
    BY <1>3, <2>4, <2>5
<1>4. QED
  BY <1>1, <1>2, <1>3

-----------------------------------------------------------------------------
(* ConfirmCap: a check.                                                    *)

Verdicts == [limited : BOOLEAN, model : Confirm!ModelSet \cup {None}, resets : Resets,
             how : Hows, owner : Accounts \cup {None}]

CheckTypes ==
    /\ login \in Confirm!People \cup {None} /\ identity \in Confirm!People \cup {None}
    /\ found \in Confirm!People \cup {None}
    /\ phase \in {"idle", "first", "waiting", "second", "decided"}
    /\ clock \in Nat /\ retryAfter \in Nat
    /\ answer # None => answer \in Confirm!Answer
    /\ IF phase = "decided" THEN decision \in Verdicts ELSE decision = None /\ answer = None

\* No later than the ask it waits for is given up.
ClockInv ==
    /\ phase \in {"idle", "decided"} => clock = 0
    /\ phase = "first" => clock <= Timeout
    /\ phase \in {"waiting", "second"} => retryAfter <= BackOffWait
    /\ phase = "waiting" => clock <= retryAfter
    /\ phase = "second" => clock <= retryAfter + SecondAsk

\* Unless the session is signed in meanwhile, its login is whose it was found to be.
FoundInv ==
    ~crossed /\ phase # "idle" =>
        /\ asked = IF checkHeadless \/ found = None THEN Believed ELSE found
        /\ ~checkHeadless /\ phase # "decided" => login = found

CheckInv ==
    /\ CheckTypes /\ ClockInv /\ FoundInv
    /\ Confirm!ConfirmedIsSpent /\ Confirm!SpentIsConfirmed /\ Confirm!OwnerWasAsked

LEMMA DecidedRightly ==
  ASSUME CheckInv, phase \in {"first", "second"}, NEW d \in Said, Confirm!Decides(d),
         crossed' = crossed, found' = found, asked' = asked, UNCHANGED Confirm!folder,
         checkHeadless' = checkHeadless, answer' # None => answer' \in Confirm!Answer,
         Confirm!ConfirmedIsSpent', Confirm!SpentIsConfirmed'
  PROVE  CheckInv'
<1>1. /\ phase' = "decided" /\ clock' = 0 /\ retryAfter' = 0
      /\ decision'.owner = IF d.limited THEN Confirm!Owner ELSE None
  BY DEF Confirm!Decides
<1>2. Confirm!Owner \in Accounts \cup {None}
  BY ConfirmAssumption DEF Confirm!Owner
<1>3. decision' \in Verdicts
  BY <1>2 DEF Confirm!Decides, Said, Verdicts
<1>4. CheckTypes'
  BY <1>1, <1>3 DEF CheckInv, CheckTypes, Confirm!folder
<1>5. ClockInv' /\ FoundInv'
  BY <1>1 DEF CheckInv, ClockInv, FoundInv
<1>6. Confirm!OwnerWasAsked'
  BY <1>1, ConfirmAssumption
     DEF CheckInv, CheckTypes, FoundInv, Confirm!OwnerWasAsked, Confirm!Owner, Confirm!People
<1>7. QED
  BY <1>4, <1>5, <1>6 DEF CheckInv

LEMMA UnansweredKept ==
  ASSUME CheckInv, phase \in {"first", "second"}, Confirm!DecidesUnanswered,
         crossed' = crossed, found' = found, asked' = asked, UNCHANGED Confirm!folder,
         checkHeadless' = checkHeadless
  PROVE  CheckInv'
<1> DEFINE d == Confirm!Unanswered(proof')
<1>1. proof' \in {None} \cup [proves : BOOLEAN, model : Confirm!ModelSet \cup {None}]
  BY ConfirmAssumption DEF Confirm!DecidesUnanswered, Confirm!ModelSet
<1>2. d \in Said /\ (d.limited => d.how = "refusal" /\ proof'.proves)
  BY <1>1 DEF Confirm!Unanswered, Confirm!No, Said, Resets, Hows
<1>3. Confirm!Decides(d) /\ answer' = None
  BY DEF Confirm!DecidesUnanswered, CheckInv, CheckTypes
<1>4. decision'.limited = d.limited /\ decision'.how = d.how
  BY <1>3 DEF Confirm!Decides
<1>5. Confirm!ConfirmedIsSpent' /\ Confirm!SpentIsConfirmed'
  BY <1>2, <1>3, <1>4 DEF Confirm!ConfirmedIsSpent, Confirm!SpentIsConfirmed
<1> HIDE DEF d
<1>6. QED
  BY <1>2, <1>3, <1>5, DecidedRightly

LEMMA AnswersKept ==
  ASSUME CheckInv, phase \in {"first", "second"}, NEW o \in Confirm!ComingAnswers,
         NEW text \in SUBSET Confirm!ModelSet, NEW running \in Confirm!ModelSet \cup {None},
         Confirm!Answers(o, text, running)
  PROVE  CheckInv'
<1> DEFINE d == Confirm!FromProbe(o, text, running)
<1>1. /\ answer' = o /\ names' = text /\ modelInUse' = running /\ Confirm!Decides(d)
      /\ crossed' = crossed /\ found' = found /\ asked' = asked /\ UNCHANGED Confirm!folder
      /\ checkHeadless' = checkHeadless
  BY DEF Confirm!Answers
<1>2. o \in Confirm!Answer
  BY DEF Confirm!ComingAnswers
<1> HIDE DEF d
<1>3. /\ decision'.limited = d.limited /\ decision'.how = d.how /\ decision'.model = d.model
      /\ decision'.resets = d.resets
  BY <1>1 DEF Confirm!Decides
<1>4. d \in Said /\ Confirm!ConfirmedIsSpent'
  <2>1. /\ d \in Said /\ d.how # "refusal"
        /\ d.limited => IF d.model = None
              THEN ~o.credits /\ (IF d.resets = "fiveHour" THEN Confirm!FiveHour(o)
                                  ELSE o.sevenDay) = "spent"
              ELSE o.models[d.model] = "spent" /\ running \in {None, d.model}
    BY SaysOf DEF d
  <2> SUFFICES ASSUME decision'.limited PROVE Confirm!ConfirmedIsSpent'
    BY <2>1 DEF Confirm!ConfirmedIsSpent
  <2>2. d.limited /\ d.how # "refusal"
    BY <1>3, <2>1
  <2>3. QED
    BY <1>1, <1>3, <2>1, <2>2 DEF Confirm!ConfirmedIsSpent, Confirm!FiveHour
<1>5. Confirm!SpentIsConfirmed'
  <2>1. /\ \/ ~o.credits /\ Confirm!AccountOut(o)
           \/ /\ running # None /\ o.models[running] = "spent" /\ text \subseteq {running}
              /\ text # {} \/ Cardinality(Confirm!SpentModels(o)) = 1
        => d.limited
    BY <1>2, SaidOfSpent DEF d
  <2>2. Confirm!Cardinality(Confirm!SpentModels(o)) = Cardinality(Confirm!SpentModels(o))
    BY DEF Confirm!Cardinality, Cardinality
  <2>3. answer' = o /\ names' = text /\ modelInUse' = running /\ decision'.limited = d.limited
    BY <1>1, <1>3
  <2>4. QED
    BY <2>1, <2>2, <2>3
       DEF Confirm!SpentIsConfirmed, Confirm!AccountOut, Confirm!FiveHour, Confirm!SpentModels
<1>6. QED
  BY <1>1, <1>2, <1>4, <1>5, DecidedRightly

LEMMA CheckKept == CheckInv /\ [Confirm!Next]_(Confirm!vars) => CheckInv'
<1> SUFFICES ASSUME CheckInv, [Confirm!Next]_(Confirm!vars) PROVE CheckInv'
  OBVIOUS
<1> USE ConfirmAssumption DEF CheckInv, CheckTypes, ClockInv, FoundInv
<1>1. ASSUME Confirm!Starts PROVE CheckInv'
  <2>1. CheckTypes' /\ ClockInv'
    BY <1>1 DEF Confirm!Starts, Confirm!folder
  <2>2. FoundInv'
    BY <1>1 DEF Confirm!Starts, Confirm!given, Confirm!folder, Confirm!AskedOf
  <2>3. phase' # "decided"
    BY <1>1 DEF Confirm!Starts
  <2>4. QED
    BY <2>1, <2>2, <2>3
       DEF Confirm!ConfirmedIsSpent, Confirm!SpentIsConfirmed, Confirm!OwnerWasAsked
<1>2. ASSUME Confirm!NoAnswer PROVE CheckInv'
  BY <1>2, UnansweredKept DEF Confirm!NoAnswer
<1>3. ASSUME Confirm!AsksAgain PROVE CheckInv'
  BY <1>3
     DEF Confirm!AsksAgain, Confirm!given, Confirm!folder, Confirm!times, Confirm!AskedOf,
         Confirm!ConfirmedIsSpent, Confirm!SpentIsConfirmed, Confirm!OwnerWasAsked
<1>4. ASSUME Confirm!Tick PROVE CheckInv'
  BY <1>4
     DEF Confirm!Tick, Confirm!given, Confirm!folder, Confirm!GivenUpAt,
         Confirm!ConfirmedIsSpent, Confirm!SpentIsConfirmed, Confirm!OwnerWasAsked
<1>5. ASSUME Confirm!IdentityFollows PROVE CheckInv'
  BY <1>5
     DEF Confirm!IdentityFollows, Confirm!given, Confirm!times,
         Confirm!ConfirmedIsSpent, Confirm!SpentIsConfirmed, Confirm!OwnerWasAsked
<1>6. ASSUME phase \in {"first", "second"},
             \E o \in Confirm!ComingAnswers, text \in SUBSET Confirm!ModelSet,
                running \in Confirm!ModelSet \cup {None} : Confirm!Answers(o, text, running)
      PROVE  CheckInv'
  BY <1>6, AnswersKept
<1>7. ASSUME NEW wait \in 1..(BackOffWait + 1), Confirm!BacksOff(wait) PROVE CheckInv'
  <2>1. CASE Confirm!DecidesUnanswered
    BY <1>7, <2>1, UnansweredKept DEF Confirm!BacksOff
  <2>2. CASE ~Confirm!DecidesUnanswered
    BY <1>7, <2>2
       DEF Confirm!BacksOff, Confirm!folder, Confirm!ConfirmedIsSpent, Confirm!SpentIsConfirmed,
           Confirm!OwnerWasAsked
  <2>3. QED
    BY <2>1, <2>2
<1>8. ASSUME NEW who \in Confirm!People \cup {None}, Confirm!SignsIn(who) PROVE CheckInv'
  BY <1>8
     DEF Confirm!SignsIn, Confirm!given, Confirm!times, Confirm!ConfirmedIsSpent,
         Confirm!SpentIsConfirmed, Confirm!OwnerWasAsked
<1>9. CASE UNCHANGED Confirm!vars
  BY <1>9
     DEF Confirm!vars, Confirm!ConfirmedIsSpent, Confirm!SpentIsConfirmed, Confirm!OwnerWasAsked,
         Confirm!AccountOut, Confirm!FiveHour, Confirm!SpentModels
<1>10. QED
  BY <1>1, <1>2, <1>3, <1>4, <1>5, <1>6, <1>7, <1>8, <1>9 DEF Confirm!Next

LEMMA CheckInit == Confirm!Init => CheckInv
BY ConfirmAssumption
   DEF Confirm!Init, CheckInv, CheckTypes, ClockInv, FoundInv, Confirm!ConfirmedIsSpent,
       Confirm!SpentIsConfirmed, Confirm!OwnerWasAsked, Confirm!People

LEMMA CheckSafe == CheckInv => Confirm!Inv
<1> SUFFICES ASSUME CheckInv PROVE Confirm!Inv
  OBVIOUS
<1>1. None \notin Verdicts
  BY ConfirmAssumption DEF Verdicts, Resets, Hows
<1>2. Confirm!TypeOK
  BY <1>1 DEF CheckInv, CheckTypes, Confirm!TypeOK
<1>3. Confirm!WithinBudget
  BY ConfirmAssumption DEF CheckInv, CheckTypes, ClockInv, Confirm!WithinBudget
<1>4. QED
  BY <1>2, <1>3 DEF CheckInv, Confirm!Inv

-----------------------------------------------------------------------------
(* RefusedTurn: the lines there are, and what a step does to them.          *)

RLines == [n : Nat, what : {"prompt", "refusal", "sidechain"}, at : Nat,
           by : {"claude", "other"}, login : Nat, turn : Nat]

ReaderTypes ==
    /\ now \in 1..MaxTime /\ headless \in BOOLEAN /\ startsNew \in BOOLEAN /\ first \in BOOLEAN
    /\ claude \in [on : Conversations, turn : Nat, sub : Nat]
    /\ other = None \/ other \in [on : Conversations, here : BOOLEAN]
    /\ record \in [Conversations -> Seq(RLines)] /\ subRecord \in [Conversations -> Seq(RLines)]
    /\ half \in [Conversations -> RLines \cup {None}]
    /\ following \in Conversations \cup {None} /\ (first <=> following = None)
    /\ main \in [offset : Nat, rest : BOOLEAN] \cup {None} /\ sub \in Nat
    /\ promptAt \in 0..now /\ handed \in [1..(MaxLines + 1) -> Nat]

\* When each login was put in the folder: the first before anything.
PutInv ==
    /\ put \in Seq(Nat) /\ Len(put) \in 1..MaxLogins /\ put[1] = 0
    /\ \A k \in 1..Len(put) : put[k] <= now /\ (k > 1 => put[k] > 0)
    /\ \A k, l \in 1..Len(put) : k <= l => put[k] <= put[l]

AllLines == UNION {Refused!LinesOf(c) \cup ({half[c]} \ {None}) : c \in Conversations}

\* A line half written is a refusal Claude writes where it is.
HalfInv == \A c \in Conversations :
    half[c] # None => c = claude.on /\ half[c].what = "refusal" /\ half[c].by = "claude"

\* The lines are numbered as they are written, and there is room for them.
CountInv ==
    /\ IsFiniteSet(AllLines) /\ Cardinality(AllLines) <= MaxLines + 1
    /\ Cardinality(AllLines) <= MaxLines \/ ~startsNew
    /\ \A e \in AllLines : e.n \in 1..Cardinality(AllLines)

\* A line is in one place.
MainApart == \A c, d \in Conversations : \A i \in 1..Len(record[c]), j \in 1..Len(record[d]) :
    record[c][i].n = record[d][j].n => c = d /\ i = j
SubApart == \A c, d \in Conversations : \A i \in 1..Len(subRecord[c]), j \in 1..Len(subRecord[d]) :
    subRecord[c][i].n = subRecord[d][j].n => c = d /\ i = j
BothApart == \A c, d \in Conversations : \A i \in 1..Len(record[c]), j \in 1..Len(subRecord[d]) :
    record[c][i].n # subRecord[d][j].n
HalfApart == \A c, d \in Conversations : half[d] # None =>
    /\ \A i \in 1..Len(record[c]) : record[c][i].n # half[d].n
    /\ \A i \in 1..Len(subRecord[c]) : subRecord[c][i].n # half[d].n
PlaceInv == MainApart /\ SubApart /\ BothApart /\ HalfApart

\* A subagent's record has no more lines than were written.
SubInv == \A c \in Conversations : \A j \in 1..Len(subRecord[c]) : subRecord[c][j].n >= j

\* The reader is within the records it follows.
WhereInv ==
    /\ following = None => main = None /\ sub = 0
    /\ following # None => sub <= Len(subRecord[following])
    /\ main # None => main.offset \in 1..Refused!Size(following)

\* What a line says of Claude's: the login it was sent on, and the turn it is of.
SaidInv == \A e \in AllLines :
    /\ e.at <= now
    /\ e.by = "other" => other # None
    /\ e.by = "claude" /\ e.what # "prompt" /\ e.at > 0 =>
         /\ e.login \in 1..Len(put)
         /\ \E sent \in e.turn..e.at :
              /\ sent + AnswersIn >= e.at
              /\ e.login < Len(put) => sent < put[e.login + 1] + Kept

\* A turn is of the last prompt typed before its refusal.
TurnInv ==
    /\ claude.turn <= now /\ claude.sub <= now
    /\ \A x \in AllLines : x.what = "prompt" /\ x.by = "claude" =>
         /\ claude.turn > 0 => x.at <= claude.turn
         /\ \A e \in AllLines : e.what = "refusal" /\ e.by = "claude" =>
                e.at < x.at \/ e.turn >= x.at
PromptReadInv ==
    promptAt > 0 => \E x \in AllLines : x.what = "prompt" /\ x.at = promptAt

\* A line handed on was whole, and the reader is past it wherever it is.
OnceInv == \A k \in 1..(MaxLines + 1) :
    /\ handed[k] <= 1
    /\ first \/ k > Cardinality(AllLines) => handed[k] = 0
HalfHanded == \A c \in Conversations : half[c] # None => handed[half[c].n] = 0
MainHanded == \A c \in Conversations : \A i \in 1..Len(record[c]) :
    handed[record[c][i].n] > 0 =>
      /\ record[c][i].what # "prompt"
      /\ c = following => main # None /\ 2 * i <= main.offset
SubHanded == \A c \in Conversations : \A j \in 1..Len(subRecord[c]) :
    handed[subRecord[c][j].n] > 0 =>
      /\ Refused!Size(c) > 0
      /\ subRecord[c][j].what # "prompt"
      /\ c = following => j <= sub
HandedInv == OnceInv /\ HalfHanded /\ MainHanded /\ SubHanded

\* What a conversation resumed had is behind the reader.
ResumedInv == ~startsNew =>
    LET c == CHOOSE d \in Conversations : TRUE IN
    /\ Len(record[c]) > 0 /\ record[c][1].n = 1 /\ handed[1] = 0
    /\ following = c => main # None /\ main.offset >= 2

\* A refusal read to its end was handed on, and one read from its middle is of the past.
WasHanded(c) == \A i \in 1..Len(record[c]) :
    LET e == record[c][i] IN
    2 * i <= main.offset /\ e.what = "refusal" /\ e.n \notin past /\ ~Refused!Ignores(e) =>
        handed[e.n] = 1
MiddlePast(c) == ~main.rest =>
    /\ \A i \in 1..Len(record[c]) : 2 * i = main.offset + 1 => record[c][i].n \in past
    /\ half[c] # None /\ main.offset = Refused!Size(c) => half[c].n \in past
ReadInv == \A c \in Conversations : c = following /\ main # None => WasHanded(c) /\ MiddlePast(c)

RefusedInv ==
    /\ ReaderTypes /\ PutInv /\ HalfInv /\ CountInv /\ PlaceInv /\ SubInv /\ WhereInv
    /\ SaidInv /\ TurnInv /\ PromptReadInv /\ HandedInv /\ ResumedInv /\ ReadInv

MainGrows(c, e) ==
    /\ half[c] = None /\ record' = [record EXCEPT ![c] = Append(@, e)]
    /\ half' = half /\ subRecord' = subRecord
SubGrows(c, e) ==
    subRecord' = [subRecord EXCEPT ![c] = Append(@, e)] /\ record' = record /\ half' = half
HalfGrows(c, e) ==
    /\ half[c] = None /\ half' = [half EXCEPT ![c] = e]
    /\ record' = record /\ subRecord' = subRecord

SameFollower == UNCHANGED <<startsNew, first, following, main, sub, promptAt, handed, past>>
\* A line is written.
NewLine(e) ==
    /\ e \in RLines /\ e.n = Refused!Written + 1 /\ e.at = now /\ Refused!Room
    /\ now' = now /\ put' = put /\ windows' = windows /\ other' = other /\ headless' = headless
    /\ SameFollower
PromptedAs(e) ==
    /\ NewLine(e) /\ MainGrows(claude.on, e) /\ e.what = "prompt" /\ e.by = "claude"
    /\ claude.turn = 0 /\ claude' = [claude EXCEPT !.turn = now]
    /\ \A c \in Conversations : \A x \in Refused!LinesOf(c) : x.by = "claude" => x.at < now
RefusedAs(e) ==
    /\ NewLine(e) /\ HalfGrows(claude.on, e) /\ e.what = "refusal" /\ e.by = "claude"
    /\ claude.turn > 0 /\ e.turn = claude.turn /\ e.login \in Refused!SentOn(claude.turn)
    /\ claude' = [claude EXCEPT !.turn = 0]
SubRefusedAs(e) ==
    /\ NewLine(e) /\ SubGrows(claude.on, e) /\ e.what = "sidechain" /\ e.by = "claude"
    /\ claude.sub > 0 /\ e.turn = claude.sub /\ e.login \in Refused!SentOn(claude.sub)
    /\ claude' = [claude EXCEPT !.sub = 0]
OtherAs(e) ==
    /\ NewLine(e) /\ other # None /\ MainGrows(other.on, e) /\ e.by = "other" /\ claude' = claude
EndedAs(c) ==
    /\ half[c] # None /\ record' = [record EXCEPT ![c] = Append(@, half[c])]
    /\ half' = [half EXCEPT ![c] = None] /\ subRecord' = subRecord
    /\ now' = now /\ put' = put /\ windows' = windows /\ claude' = claude /\ other' = other
    /\ headless' = headless /\ SameFollower
\* No line is written, or read.
NoLine ==
    /\ UNCHANGED <<record, half, subRecord, headless>> /\ SameFollower
    /\ now' \in {now, now + 1} /\ now' <= MaxTime
    /\ put' \in {put, Append(put, now)} /\ Len(put') <= MaxLogins /\ windows \subseteq windows'
    /\ claude' \in [on : Conversations, turn : Nat, sub : Nat]
    /\ claude'.turn \in {0, claude.turn} /\ claude'.sub \in {0, claude.turn, claude.sub}
    /\ claude'.on # claude.on => half[claude.on] = None
    /\ other' = None \/ other' \in [on : Conversations, here : BOOLEAN]
    /\ other # None => other' # None
ReadAs ==
    /\ UNCHANGED <<now, put, windows, claude, other, record, half, subRecord, headless, startsNew>>
    /\ IF claude.on = following THEN Refused!ReadsOn ELSE Refused!TurnsTo(claude.on)

LEMMA RefusedStep ==
  ASSUME ReaderTypes, Len(put) \in 1..MaxLogins, put \in Seq(Nat), Refused!Written \in Nat, [Refused!Next]_(Refused!vars)
  PROVE  \/ \E e \in RLines : PromptedAs(e) \/ RefusedAs(e) \/ SubRefusedAs(e) \/ OtherAs(e)
         \/ \E c \in Conversations : EndedAs(c)
         \/ NoLine
         \/ ReadAs
<1> USE DEF Refused!claudes, Refused!files, Refused!followers, SameFollower
<1>a. now \in Nat /\ claude.turn \in Nat /\ claude.sub \in Nat /\ Refused!Written \in Nat
  BY RefusedAssumption DEF ReaderTypes
<1>d. Len(put) <= MaxLogins /\ now <= MaxTime /\ now + 1 \in Nat
  BY RefusedAssumption DEF ReaderTypes
<1>b. \A l \in 1..MaxLogins : l \in Nat
  BY RefusedAssumption
<1>1. ASSUME Refused!Prompted PROVE \E e \in RLines : PromptedAs(e)
  <2> DEFINE e == Refused!Line("prompt", "claude", 0, now)
  <2>1. /\ e \in RLines /\ e.n = Refused!Written + 1 /\ e.at = now /\ e.what = "prompt"
        /\ e.by = "claude"
    BY <1>a DEF Refused!Line, RLines
  <2> HIDE DEF e
  <2>2. MainGrows(claude.on, e)
    BY <1>1 DEF Refused!Prompted, MainGrows, e
  <2>3. NewLine(e)
    BY <1>1, <2>1 DEF Refused!Prompted, NewLine
  <2>4. PromptedAs(e)
    BY <1>1, <2>1, <2>2, <2>3 DEF Refused!Prompted, PromptedAs
  <2>5. QED
    BY <2>1, <2>4
<1>2. ASSUME NEW l \in 1..MaxLogins, Refused!Refused(l) PROVE \E e \in RLines : RefusedAs(e)
  <2> DEFINE e == Refused!Line("refusal", "claude", l, claude.turn)
  <2>0. l \in Nat
    BY <1>b
  <2>1. /\ e \in RLines /\ e.n = Refused!Written + 1 /\ e.at = now /\ e.what = "refusal"
        /\ e.by = "claude" /\ e.login = l /\ e.turn = claude.turn
    BY <1>a, <2>0 DEF Refused!Line, RLines
  <2> HIDE DEF e
  <2>2. HalfGrows(claude.on, e)
    BY <1>2 DEF Refused!Refused, HalfGrows, e
  <2>3. NewLine(e)
    BY <1>2, <2>1 DEF Refused!Refused, NewLine
  <2>4. RefusedAs(e)
    BY <1>2, <2>1, <2>2, <2>3 DEF Refused!Refused, RefusedAs
  <2>5. QED
    BY <2>1, <2>4
<1>3. ASSUME NEW l \in 1..MaxLogins, Refused!SubagentRefused(l)
      PROVE  \E e \in RLines : SubRefusedAs(e)
  <2> DEFINE e == Refused!Line("sidechain", "claude", l, claude.sub)
  <2>0. l \in Nat
    BY <1>b
  <2>1. /\ e \in RLines /\ e.n = Refused!Written + 1 /\ e.at = now /\ e.what = "sidechain"
        /\ e.by = "claude" /\ e.login = l /\ e.turn = claude.sub
    BY <1>a, <2>0 DEF Refused!Line, RLines
  <2> HIDE DEF e
  <2>2. SubGrows(claude.on, e)
    BY <1>3 DEF Refused!SubagentRefused, SubGrows, e
  <2>3. NewLine(e)
    BY <1>3, <2>1 DEF Refused!SubagentRefused, NewLine
  <2>4. SubRefusedAs(e)
    BY <1>3, <2>1, <2>2, <2>3 DEF Refused!SubagentRefused, SubRefusedAs
  <2>5. QED
    BY <2>1, <2>4
<1>4. ASSUME NEW what \in {"prompt", "refusal"}, Refused!OtherWrites(what)
      PROVE  \E e \in RLines : OtherAs(e)
  <2> DEFINE e == Refused!Line(what, "other", 0, now)
  <2>0. what \in {"prompt", "refusal", "sidechain"} /\ 0 \in Nat
    OBVIOUS
  <2>1. e \in RLines /\ e.n = Refused!Written + 1 /\ e.at = now /\ e.by = "other"
    BY <1>a, <2>0 DEF Refused!Line, RLines
  <2> HIDE DEF e
  <2>2. MainGrows(other.on, e)
    BY <1>4 DEF Refused!OtherWrites, MainGrows, e
  <2>3. NewLine(e)
    BY <1>4, <2>1 DEF Refused!OtherWrites, NewLine
  <2>4. OtherAs(e)
    BY <1>4, <2>1, <2>2, <2>3 DEF Refused!OtherWrites, OtherAs
  <2>5. QED
    BY <2>1, <2>4
<1>5. ASSUME NEW c \in Conversations, Refused!LineEnds(c) PROVE EndedAs(c)
  BY <1>5 DEF Refused!LineEnds, EndedAs
<1>6. ASSUME Refused!SubagentStarts \/ Refused!TurnEnds PROVE NoLine
  <2>1. CASE Refused!SubagentStarts
    BY <1>d, <2>1 DEF Refused!SubagentStarts, NoLine, ReaderTypes
  <2>2. CASE Refused!TurnEnds
    BY <1>d, <2>2 DEF Refused!TurnEnds, NoLine, ReaderTypes
  <2>3. QED
    BY <1>6, <2>1, <2>2
<1>7. ASSUME NEW c \in Conversations, Refused!Elsewhere(c) PROVE NoLine
  BY <1>7, <1>d DEF Refused!Elsewhere, NoLine, ReaderTypes
<1>8. ASSUME Refused!OtherLeaves PROVE NoLine
  BY <1>8, <1>d, RefusedAssumption DEF Refused!OtherLeaves, NoLine, ReaderTypes
<1>9. ASSUME Refused!Moves \/ Refused!VisitBegins \/ Refused!VisitEnds PROVE NoLine
  <2>1. Refused!Puts /\ UNCHANGED <<now, headless, claude, other>> /\ windows \subseteq windows'
    BY <1>9 DEF Refused!Moves, Refused!VisitBegins, Refused!VisitEnds
  <2>2. UNCHANGED <<record, half, subRecord>> /\ SameFollower
    BY <1>9 DEF Refused!Moves, Refused!VisitBegins, Refused!VisitEnds
  <2>3. put' = Append(put, now) /\ Len(put') <= MaxLogins
    <3>1. Len(put) < MaxLogins /\ put' = Append(put, now)
      BY <2>1 DEF Refused!Puts, Refused!login
    <3>2. Len(Append(put, now)) = Len(put) + 1
      BY <1>a, AppendProperties
    <3>3. QED
      BY <1>d, <3>1, <3>2, RefusedAssumption
  <2>4. QED
    BY <1>d, <2>1, <2>2, <2>3 DEF NoLine, ReaderTypes
<1>10. ASSUME Refused!Tick PROVE NoLine
  BY <1>10, <1>d, RefusedAssumption DEF Refused!Tick, NoLine, ReaderTypes
<1>11. ASSUME Refused!Poll PROVE ReadAs
  BY <1>11 DEF Refused!Poll, ReadAs
<1>12. ASSUME UNCHANGED Refused!vars PROVE NoLine
  BY <1>12, <1>d DEF Refused!vars, NoLine, ReaderTypes
<1>13. QED
  BY <1>1, <1>2, <1>3, <1>4, <1>5, <1>6, <1>7, <1>8, <1>9, <1>10, <1>11, <1>12 DEF Refused!Next

-----------------------------------------------------------------------------
\* A line of a record.
At(rec, c, x) == \E i \in 1..Len(rec[c]) : x = rec[c][i]

LEMMA ALinesPlace ==
  ASSUME ReaderTypes, NEW x
  PROVE  x \in AllLines <=>
           \E c \in Conversations :
             \/ At(record, c, x)
             \/ At(subRecord, c, x)
             \/ half[c] # None /\ x = half[c]
<1>1. ASSUME NEW c \in Conversations
      PROVE  DOMAIN record[c] = 1..Len(record[c]) /\ DOMAIN subRecord[c] = 1..Len(subRecord[c])
  BY DEF ReaderTypes
<1>2. QED
  BY <1>1 DEF AllLines, Refused!LinesOf, Refused!Elements, At

LEMMA LinesTyped ==
  ASSUME ReaderTypes
  PROVE  AllLines \subseteq RLines
<1>1. ASSUME NEW x \in AllLines PROVE x \in RLines
  <2>1. PICK c \in Conversations :
          \/ At(record, c, x)
          \/ At(subRecord, c, x)
          \/ half[c] # None /\ x = half[c]
    BY ALinesPlace
  <2>2. record[c] \in Seq(RLines) /\ subRecord[c] \in Seq(RLines) /\ half[c] \in RLines \cup {None}
    BY DEF ReaderTypes
  <2>3. QED
    BY <2>1, <2>2, ElementOfSeq DEF At
<1>2. QED
  BY <1>1

\* One line more at the end of a conversation's record.
GrownAt(rec, rec1, c, e) ==
    /\ rec1 \in [Conversations -> Seq(RLines)]
    /\ Len(rec1[c]) = Len(rec[c]) + 1 /\ rec1[c][Len(rec[c]) + 1] = e
    /\ \A i \in 1..Len(rec[c]) : rec1[c][i] = rec[c][i]
    /\ \A d \in Conversations \ {c} : rec1[d] = rec[d]

LEMMA Grown ==
  ASSUME NEW rec \in [Conversations -> Seq(RLines)], NEW c \in Conversations, NEW e \in RLines
  PROVE  GrownAt(rec, [rec EXCEPT ![c] = Append(@, e)], c, e)
<1>1. rec[c] \in Seq(RLines)
  OBVIOUS
<1>2. /\ Append(rec[c], e) \in Seq(RLines) /\ Len(Append(rec[c], e)) = Len(rec[c]) + 1
      /\ Append(rec[c], e)[Len(rec[c]) + 1] = e
      /\ \A i \in 1..Len(rec[c]) : Append(rec[c], e)[i] = rec[c][i]
  BY <1>1, AppendProperties
<1>3. QED
  BY <1>2 DEF GrownAt

\* A conversation's records have lengths.
LEMMA Lengths ==
  ASSUME ReaderTypes, NEW c \in Conversations
  PROVE  /\ Len(record[c]) \in Nat /\ Len(subRecord[c]) \in Nat
         /\ \A i \in 1..Len(record[c]) : record[c][i] \in RLines
         /\ \A j \in 1..Len(subRecord[c]) : subRecord[c][j] \in RLines
<1>1. record[c] \in Seq(RLines) /\ subRecord[c] \in Seq(RLines)
  BY DEF ReaderTypes
<1>2. QED
  BY <1>1, ElementOfSeq, LenProperties

\* What each step does to the lines there are.
LEMMA LinesAfter ==
  ASSUME ReaderTypes, ReaderTypes'
  PROVE  /\ \A e \in RLines, c \in Conversations :
              MainGrows(c, e) \/ SubGrows(c, e) \/ HalfGrows(c, e) =>
                AllLines' = AllLines \cup {e}
         /\ \A c \in Conversations : EndedAs(c) => AllLines' = AllLines
         /\ UNCHANGED <<record, half, subRecord>> => AllLines' = AllLines
<1> USE DEF GrownAt
<1>p. ASSUME NEW x
      PROVE  x \in AllLines' <=>
           \E c \in Conversations :
             \/ At(record', c, x)
             \/ At(subRecord', c, x)
             \/ half'[c] # None /\ x = half'[c]
  <2>1. ASSUME NEW c \in Conversations
        PROVE  /\ DOMAIN record'[c] = 1..Len(record'[c])
               /\ DOMAIN subRecord'[c] = 1..Len(subRecord'[c])
    BY DEF ReaderTypes
  <2>2. QED
    BY <2>1 DEF AllLines, Refused!LinesOf, Refused!Elements, At
<1>1. ASSUME NEW e \in RLines, NEW c \in Conversations, MainGrows(c, e)
      PROVE  AllLines' = AllLines \cup {e}
  <2>1. GrownAt(record, record', c, e) /\ half' = half /\ subRecord' = subRecord
    BY <1>1, Grown, SMTT(30) DEF MainGrows, ReaderTypes
  <2>2. \A d \in Conversations : Len(record[d]) \in Nat
    BY Lengths
  <2>3. ASSUME NEW x PROVE x \in AllLines' <=> x \in AllLines \cup {e}
    <3>1. ASSUME NEW d \in Conversations
          PROVE  At(record', d, x) <=> At(record, d, x) \/ (d = c /\ x = e)
      <4>1. CASE d = c
        BY <2>1, <2>2, <4>1 DEF At
      <4>2. CASE d # c
        BY <2>1, <4>2 DEF At
      <4>3. QED
        BY <4>1, <4>2
    <3>2. QED
      BY <1>p, <2>1, <3>1, ALinesPlace
  <2>4. QED
    BY <2>3
<1>2. ASSUME NEW e \in RLines, NEW c \in Conversations, SubGrows(c, e)
      PROVE  AllLines' = AllLines \cup {e}
  <2>1. GrownAt(subRecord, subRecord', c, e) /\ half' = half /\ record' = record
    BY <1>2, Grown, SMTT(30) DEF SubGrows, ReaderTypes
  <2>2. \A d \in Conversations : Len(subRecord[d]) \in Nat
    BY Lengths
  <2>3. ASSUME NEW x PROVE x \in AllLines' <=> x \in AllLines \cup {e}
    <3>1. ASSUME NEW d \in Conversations
          PROVE  At(subRecord', d, x) <=> At(subRecord, d, x) \/ (d = c /\ x = e)
      <4>1. CASE d = c
        BY <2>1, <2>2, <4>1 DEF At
      <4>2. CASE d # c
        BY <2>1, <4>2 DEF At
      <4>3. QED
        BY <4>1, <4>2
    <3>2. QED
      BY <1>p, <2>1, <3>1, ALinesPlace
  <2>4. QED
    BY <2>3
<1>3. ASSUME NEW e \in RLines, NEW c \in Conversations, HalfGrows(c, e)
      PROVE  AllLines' = AllLines \cup {e}
  <2>1. /\ half' = [half EXCEPT ![c] = e] /\ half[c] = None /\ e # None
        /\ record' = record /\ subRecord' = subRecord
    BY <1>3, RefusedAssumption DEF HalfGrows, RLines
  <2>2. ASSUME NEW x PROVE x \in AllLines' <=> x \in AllLines \cup {e}
    <3>1. ASSUME NEW d \in Conversations
          PROVE  (half'[d] # None /\ x = half'[d]) <=>
                   (half[d] # None /\ x = half[d]) \/ (d = c /\ x = e)
      BY <2>1 DEF ReaderTypes
    <3>2. QED
      BY <1>p, <2>1, <3>1, ALinesPlace
  <2>3. QED
    BY <2>2
<1>4. ASSUME NEW c \in Conversations, EndedAs(c) PROVE AllLines' = AllLines
  <2>1. /\ half[c] # None /\ half[c] \in RLines /\ half' = [half EXCEPT ![c] = None]
        /\ GrownAt(record, record', c, half[c]) /\ subRecord' = subRecord
    <3>1. half[c] \in RLines
      BY <1>4 DEF EndedAs, ReaderTypes
    <3>2. QED
      BY <1>4, <3>1, Grown DEF EndedAs, ReaderTypes
  <2>2. \A d \in Conversations : Len(record[d]) \in Nat
    BY Lengths
  <2>3. ASSUME NEW x PROVE x \in AllLines' <=> x \in AllLines
    <3>1. ASSUME NEW d \in Conversations
          PROVE  At(record', d, x) <=> At(record, d, x) \/ (d = c /\ x = half[c])
      <4>1. CASE d = c
        BY <2>1, <2>2, <4>1, SMTT(30) DEF At
      <4>2. CASE d # c
        BY <2>1, <4>2 DEF At
      <4>3. QED
        BY <4>1, <4>2
    <3>2. ASSUME NEW d \in Conversations
          PROVE  (half[d] # None /\ x = half[d]) <=>
                   (half'[d] # None /\ x = half'[d]) \/ (d = c /\ x = half[c])
      BY <2>1 DEF ReaderTypes
    <3>3. QED
      BY <1>p, <2>1, <3>1, <3>2, ALinesPlace
  <2>4. QED
    BY <2>3
<1>5. ASSUME UNCHANGED <<record, half, subRecord>> PROVE AllLines' = AllLines
  BY <1>5 DEF AllLines, Refused!LinesOf, Refused!Elements
<1>6. QED
  BY <1>1, <1>2, <1>3, <1>4, <1>5

-----------------------------------------------------------------------------
\* How many lines were written.
LEMMA WrittenIs ==
  ASSUME CountInv
  PROVE  Refused!Written = Cardinality(AllLines) /\ Cardinality(AllLines) \in Nat
<1>1. Refused!Written = Cardinality(AllLines)
  BY DEF Refused!Written, Refused!Cardinality, Cardinality, AllLines
<1>2. QED
  BY <1>1, FS_CardinalityType DEF CountInv

\* What a step does to the lines, in short.
AddsLine(e) == NewLine(e) /\ AllLines' = AllLines \cup {e}
LEMMA StepLines ==
  ASSUME ReaderTypes, ReaderTypes', CountInv, Len(put) \in 1..MaxLogins, put \in Seq(Nat),
         [Refused!Next]_(Refused!vars)
  PROVE  \/ \E e \in RLines : /\ AddsLine(e)
                              /\ PromptedAs(e) \/ RefusedAs(e) \/ SubRefusedAs(e) \/ OtherAs(e)
         \/ AllLines' = AllLines /\ \E c \in Conversations : EndedAs(c)
         \/ AllLines' = AllLines /\ NoLine
         \/ AllLines' = AllLines /\ ReadAs
<1>1. CASE \E e \in RLines : PromptedAs(e) \/ RefusedAs(e) \/ SubRefusedAs(e) \/ OtherAs(e)
  <2>1. PICK e \in RLines : PromptedAs(e) \/ RefusedAs(e) \/ SubRefusedAs(e) \/ OtherAs(e)
    BY <1>1
  <2>2. claude.on \in Conversations /\ (other # None => other.on \in Conversations)
    BY DEF ReaderTypes
  <2>3. \/ MainGrows(claude.on, e) \/ HalfGrows(claude.on, e) \/ SubGrows(claude.on, e)
        \/ other # None /\ MainGrows(other.on, e)
    BY <2>1 DEF PromptedAs, RefusedAs, SubRefusedAs, OtherAs
  <2>4. AllLines' = AllLines \cup {e}
    BY <2>2, <2>3, LinesAfter
  <2>5. NewLine(e)
    BY <2>1 DEF PromptedAs, RefusedAs, SubRefusedAs, OtherAs
  <2>6. QED
    BY <2>1, <2>4, <2>5 DEF AddsLine
<1>2. CASE \E c \in Conversations : EndedAs(c)
  BY <1>2, LinesAfter
<1>3. CASE NoLine
  BY <1>3, LinesAfter DEF NoLine
<1>4. CASE ReadAs
  BY <1>4, LinesAfter DEF ReadAs
<1>5. QED
  BY <1>1, <1>2, <1>3, <1>4, RefusedStep, WrittenIs

LEMMA CountKept ==
  ASSUME ReaderTypes, ReaderTypes', CountInv, Len(put) \in 1..MaxLogins, put \in Seq(Nat),
         [Refused!Next]_(Refused!vars)
  PROVE  CountInv'
<1>1. ASSUME NEW e \in RLines, AddsLine(e) PROVE CountInv'
  <2>1. /\ e.n = Cardinality(AllLines) + 1 /\ Cardinality(AllLines) \in Nat
        /\ Cardinality(AllLines) <= MaxLines
        /\ Cardinality(AllLines) < MaxLines \/ ~startsNew
        /\ AllLines' = AllLines \cup {e} /\ startsNew' = startsNew
    <3>1. e.n = Refused!Written + 1 /\ Refused!Room /\ startsNew' = startsNew
      BY <1>1 DEF AddsLine, NewLine, SameFollower
    <3>2. Refused!Written = Cardinality(AllLines) /\ Cardinality(AllLines) \in Nat
      BY WrittenIs
    <3>3. Cardinality(AllLines) < MaxLines + (IF startsNew THEN 0 ELSE 1)
      BY <3>1, <3>2 DEF Refused!Room
    <3>4. QED
      BY <1>1, <3>1, <3>2, <3>3, RefusedAssumption DEF AddsLine
  <2>2. e \notin AllLines
    BY <2>1 DEF CountInv
  <2>3. IsFiniteSet(AllLines') /\ Cardinality(AllLines') = Cardinality(AllLines) + 1
    BY <2>1, <2>2, FS_AddElement DEF CountInv
  <2>4. \A x \in AllLines : x.n \in 1..Cardinality(AllLines)
    BY DEF CountInv
  <2>5. \A x \in AllLines' : x.n \in 1..Cardinality(AllLines')
    BY <2>1, <2>3, <2>4
  <2>6. MaxLines \in Nat
    BY RefusedAssumption
  <2>7. QED
    <3>2. Cardinality(AllLines') <= MaxLines + 1 /\ (Cardinality(AllLines') <= MaxLines \/ ~startsNew')
      BY <2>1, <2>3, <2>6
    <3>3. QED
      BY <2>3, <2>5, <3>2 DEF CountInv
<1>2. ASSUME AllLines' = AllLines, startsNew' = startsNew PROVE CountInv'
  BY <1>2 DEF CountInv
<1>3. QED
  BY <1>1, <1>2, StepLines DEF NoLine, ReadAs, EndedAs, SameFollower

-----------------------------------------------------------------------------
\* What a poll does.
Tails == [offset : Nat, rest : BOOLEAN]
Told(c, tail, s, k) ==
    \E e \in Refused!Gains(c, tail, s) : e.n = k /\ e.what # "prompt" /\ ~Refused!Ignores(e)
PromptRead ==
    /\ promptAt' \in 0..now
    /\ promptAt' = promptAt \/ \E x \in AllLines : x.what = "prompt" /\ x.at = promptAt'
Took(c, tail, s) ==
    /\ tail \in Tails /\ s \in Nat /\ Refused!Size(c) > 0
    /\ main' \in Tails /\ main'.offset = Refused!Size(c)
    /\ main'.rest = IF Refused!Size(c) = tail.offset THEN tail.rest ELSE half[c] # None
    /\ sub' = Len(subRecord[c])
    /\ handed' \in [1..(MaxLines + 1) -> Nat]
    /\ \A k \in 1..(MaxLines + 1) :
           handed'[k] = IF Told(c, tail, s, k) THEN handed[k] + 1 ELSE handed[k]
    /\ PromptRead
AtTop == [offset |-> 0, rest |-> FALSE]
ReadOnAs(c) ==
    /\ following = c /\ following' = c /\ first' = first /\ past' = past
    /\ \/ main = None /\ main' = None /\ Refused!Size(c) = 0
          /\ sub' = sub /\ handed' = handed /\ promptAt' = promptAt
       \/ main = None /\ Took(c, AtTop, sub)
       \/ main # None /\ Took(c, main, sub)
WholeAs(c) ==
    /\ first /\ startsNew /\ following' = c /\ first' = FALSE /\ past' = past
    /\ \/ Refused!Size(c) = 0 /\ main' = None /\ sub' = 0 /\ handed' = handed /\ promptAt' = promptAt
       \/ Took(c, AtTop, 0)
FromEndAs(c) ==
    /\ following # c /\ ~(first /\ startsNew) /\ following' = c /\ first' = FALSE
    /\ handed' = handed /\ promptAt' = promptAt
    /\ \/ Refused!Size(c) = 0 /\ main' = None /\ sub' = 0
       \/ /\ Refused!Size(c) > 0 /\ sub' = Len(subRecord[c])
          /\ main' \in Tails /\ main'.offset = Refused!Size(c) /\ ~main'.rest
    /\ \A i \in 1..Len(record[c]) : record[c][i].n \in past'
    /\ half[c] # None => half[c].n \in past'

LEMMA Sizes ==
  ASSUME ReaderTypes, NEW c \in Conversations
  PROVE  /\ Refused!Size(c) \in Nat
         /\ half[c] = None => Refused!Size(c) = 2 * Len(record[c])
         /\ half[c] # None => Refused!Size(c) = 2 * Len(record[c]) + 1
<1>1. Len(record[c]) \in Nat
  BY Lengths
<1>2. half[c] = None => Refused!Size(c) = 2 * Len(record[c])
  BY <1>1 DEF Refused!Size
<1>3. half[c] # None => Refused!Size(c) = 2 * Len(record[c]) + 1
  BY DEF Refused!Size
<1>4. QED
  BY <1>1, <1>2, <1>3

LEMMA GainsAre ==
  ASSUME ReaderTypes, NEW c \in Conversations, NEW tail, NEW s, NEW e
  PROVE  e \in Refused!Gains(c, tail, s) <=>
           \/ \E i \in 1..Len(record[c]) :
                /\ e = record[c][i] /\ 2 * i > tail.offset
                /\ 2 * (i - 1) >= tail.offset \/ tail.rest
           \/ \E j \in 1..Len(subRecord[c]) : e = subRecord[c][j] /\ j > s
<1>1. DOMAIN record[c] = 1..Len(record[c]) /\ DOMAIN subRecord[c] = 1..Len(subRecord[c])
  BY DEF ReaderTypes
<1>2. QED
  BY <1>1 DEF Refused!Gains, Refused!NewLines

LEMMA ReadsTook ==
  ASSUME ReaderTypes, SaidInv, NEW c \in Conversations, NEW tail \in Tails, NEW s \in Nat,
         Refused!Size(c) > 0, Refused!Reads(c, tail, s)
  PROVE  Took(c, tail, s)
<1>0. tail # None
  BY RefusedAssumption DEF Tails
<1>1. /\ main' = Refused!ReadTo(c, tail) /\ sub' = Len(subRecord[c])
      /\ Refused!HandsOn(Refused!Gains(c, tail, s))
  BY <1>0 DEF Refused!Reads
<1>2. /\ main' \in Tails /\ main'.offset = Refused!Size(c)
      /\ main'.rest = IF Refused!Size(c) = tail.offset THEN tail.rest ELSE half[c] # None
  BY <1>1, Sizes DEF Refused!ReadTo, Tails
<1>3. /\ handed' \in [1..(MaxLines + 1) -> Nat]
      /\ \A k \in 1..(MaxLines + 1) :
           handed'[k] = IF Told(c, tail, s, k) THEN handed[k] + 1 ELSE handed[k]
  <2>1. handed \in [1..(MaxLines + 1) -> Nat]
    BY DEF ReaderTypes
  <2>2. handed' = [k \in 1..(MaxLines + 1) |->
                     IF Told(c, tail, s, k) THEN handed[k] + 1 ELSE handed[k]]
    BY <1>1, <2>1 DEF Refused!HandsOn, Told
  <2>3. QED
    BY <2>1, <2>2
<1>4. PromptRead
  <2> DEFINE at == {e.at : e \in {x \in Refused!Gains(c, tail, s) : x.what = "prompt"}}
             T == at \cup {promptAt}
  <2>1. promptAt' = CHOOSE t \in T : \A u \in T : u <= t
    BY <1>1 DEF Refused!HandsOn
  <2>2. ASSUME NEW e \in Refused!Gains(c, tail, s) PROVE e \in AllLines /\ e.at \in 0..now
    <3>1. At(record, c, e) \/ At(subRecord, c, e)
      BY GainsAre DEF At
    <3>2. e \in AllLines
      BY <3>1, ALinesPlace
    <3>3. e.at \in Nat /\ e.at <= now
      BY <3>2, LinesTyped DEF SaidInv, RLines
    <3>4. QED
      BY <3>2, <3>3, RefusedAssumption DEF ReaderTypes
  <2>3. now \in Nat /\ promptAt \in 0..now
    BY RefusedAssumption DEF ReaderTypes
  <2>4. T \in SUBSET (0..now) /\ T # {}
    BY <2>2, <2>3
  <2> HIDE DEF T
  <2>5. \E t \in T : \A u \in T : u <= t
    BY <2>3, <2>4, Greatest
  <2>6. promptAt' \in T
    BY <2>1, <2>5
  <2> USE DEF T
  <2>7. QED
    BY <2>2, <2>4, <2>6 DEF PromptRead
<1>5. QED
  BY <1>1, <1>2, <1>3, <1>4 DEF Took

LEMMA ReadKinds ==
  ASSUME ReaderTypes, WhereInv, SaidInv, ReadAs
  PROVE  /\ claude.on \in Conversations
         /\ ReadOnAs(claude.on) \/ WholeAs(claude.on) \/ FromEndAs(claude.on)
<1> DEFINE c == claude.on
<1>0. c \in Conversations /\ c # None /\ c = claude.on
  BY RefusedAssumption DEF ReaderTypes
<1> SUFFICES ReadOnAs(c) \/ WholeAs(c) \/ FromEndAs(c)
  BY <1>0
<1> HIDE DEF c
<1>1. Refused!Size(c) \in Nat
  BY <1>0, Sizes
<1>2. AtTop \in Tails /\ AtTop # None /\ 0 \in Nat /\ sub \in Nat
  <2>1. AtTop \in Tails
    BY DEF AtTop, Tails
  <2>2. QED
    BY <2>1, RefusedAssumption DEF Tails, ReaderTypes
<1>3. Refused!Top(c) = IF Refused!Size(c) = 0 THEN None ELSE AtTop
  BY DEF Refused!Top, AtTop
<1>4. CASE following = c
  <2>1. Refused!ReadsOn
    BY <1>0, <1>4 DEF ReadAs
  <2>2. first' = first /\ following' = following /\ past' = past
    BY <2>1 DEF Refused!ReadsOn
  <2>3. Refused!Reads(c, IF main = None THEN Refused!Top(c) ELSE main, sub)
    BY <1>4, <2>1 DEF Refused!ReadsOn
  <2>4. CASE main = None /\ Refused!Size(c) = 0
    BY <1>3, <1>4, <2>2, <2>3, <2>4 DEF Refused!Reads, ReadOnAs
  <2>5. CASE main = None /\ Refused!Size(c) # 0
    <3>1. Refused!Reads(c, AtTop, sub)
      BY <1>3, <2>3, <2>5
    <3>2. Took(c, AtTop, sub)
      BY <1>0, <1>1, <1>2, <2>5, <3>1, ReadsTook
    <3>3. QED
      BY <1>4, <2>2, <2>5, <3>2 DEF ReadOnAs
  <2>6. CASE main # None
    <3>1. main \in Tails
      BY <2>6 DEF ReaderTypes, Tails
    <3>2. CASE Refused!Size(c) > 0
      <4>1. Took(c, main, sub)
        BY <1>0, <1>2, <2>3, <2>6, <3>1, <3>2, ReadsTook
      <4>2. QED
        BY <1>4, <2>2, <2>6, <4>1 DEF ReadOnAs
    <3>3. Refused!Size(c) > 0
      BY <1>1, <1>4, <2>6, <3>1 DEF WhereInv, Tails
    <3>4. QED
      BY <3>2, <3>3
  <2>7. QED
    BY <1>0, <2>4, <2>5, <2>6
<1>5. CASE following # c
  <2>1. Refused!TurnsTo(c)
    BY <1>0, <1>5 DEF ReadAs
  <2>2. following' = c /\ first' = FALSE
    BY <2>1 DEF Refused!TurnsTo
  <2>3. CASE first /\ startsNew
    <3>1. Refused!Reads(c, Refused!Top(c), 0) /\ past' = past
      BY <2>1, <2>3 DEF Refused!TurnsTo
    <3>2. CASE Refused!Size(c) = 0
      BY <1>3, <2>2, <2>3, <3>1, <3>2 DEF Refused!Reads, WholeAs
    <3>3. CASE Refused!Size(c) # 0
      <4>1. Took(c, AtTop, 0)
        BY <1>0, <1>1, <1>2, <1>3, <3>1, <3>3, ReadsTook
      <4>2. QED
        BY <2>2, <2>3, <3>1, <4>1 DEF WholeAs
    <3>4. QED
      BY <1>0, <3>2, <3>3
  <2>4. CASE ~(first /\ startsNew)
    <3>1. /\ main' = IF Refused!Size(c) = 0 THEN None ELSE [offset |-> Refused!Size(c), rest |-> FALSE]
          /\ sub' = IF Refused!Size(c) = 0 THEN 0 ELSE Len(subRecord[c])
          /\ past' = {e.n : e \in Refused!LinesOf(c) \cup ({half[c]} \ {None})}
          /\ handed' = handed /\ promptAt' = promptAt
      BY <2>1, <2>4 DEF Refused!TurnsTo
    <3>2. half[c] # None => half[c].n \in past'
      BY <3>1
    <3>3. \A i \in 1..Len(record[c]) : record[c][i].n \in past'
      <4>1. DOMAIN record[c] = 1..Len(record[c])
        BY <1>0 DEF ReaderTypes
      <4>2. \A i \in 1..Len(record[c]) : record[c][i] \in Refused!LinesOf(c)
        BY <4>1 DEF Refused!LinesOf, Refused!Elements
      <4>3. QED
        BY <3>1, <4>2
    <3>4. CASE Refused!Size(c) = 0
      BY <1>5, <2>2, <2>4, <3>1, <3>2, <3>3, <3>4 DEF FromEndAs
    <3>5. CASE Refused!Size(c) # 0
      <4>1. main' = [offset |-> Refused!Size(c), rest |-> FALSE]
        BY <3>1, <3>5
      <4>2. main' \in Tails /\ main'.offset = Refused!Size(c) /\ ~main'.rest
        BY <1>1, <4>1 DEF Tails
      <4>3. QED
        BY <1>1, <1>5, <2>2, <2>4, <3>1, <3>2, <3>3, <3>5, <4>2 DEF FromEndAs
    <3>6. QED
      BY <1>0, <3>4, <3>5
  <2>5. QED
    BY <2>3, <2>4
<1>6. QED
  BY <1>4, <1>5

-----------------------------------------------------------------------------
\* What the reader keeps has its types.
LEMMA ReadTypes ==
  ASSUME ReaderTypes, WhereInv, SaidInv, ReadAs
  PROVE  /\ first' \in BOOLEAN /\ following' \in Conversations \cup {None}
         /\ first' <=> following' = None
         /\ main' \in Tails \cup {None} /\ sub' \in Nat /\ promptAt' \in 0..now'
         /\ handed' \in [1..(MaxLines + 1) -> Nat]
<1>1. claude.on \in Conversations /\ claude.on # None /\ now' = now /\ None \notin Conversations
  BY RefusedAssumption DEF ReaderTypes, ReadAs
<1>2. Len(subRecord[claude.on]) \in Nat
  BY <1>1, Lengths
<1>3. /\ first \in BOOLEAN /\ (first <=> following = None) /\ promptAt \in 0..now /\ sub \in Nat
      /\ handed \in [1..(MaxLines + 1) -> Nat]
  BY DEF ReaderTypes
<1>4. CASE ReadOnAs(claude.on)
  BY <1>1, <1>2, <1>3, <1>4 DEF ReadOnAs, Took, PromptRead
<1>5. CASE WholeAs(claude.on)
  <2>1. first' = FALSE /\ following' = claude.on
    BY <1>5 DEF WholeAs
  <2>2. /\ main' \in Tails \cup {None} /\ sub' \in Nat /\ promptAt' \in 0..now'
        /\ handed' \in [1..(MaxLines + 1) -> Nat]
    BY <1>1, <1>2, <1>3, <1>5 DEF WholeAs, Took, PromptRead
  <2>3. QED
    BY <1>1, <2>1, <2>2
<1>6. CASE FromEndAs(claude.on)
  <2>1. first' = FALSE /\ following' = claude.on
    BY <1>6 DEF FromEndAs
  <2>2. /\ main' \in Tails \cup {None} /\ sub' \in Nat /\ promptAt' \in 0..now'
        /\ handed' \in [1..(MaxLines + 1) -> Nat]
    BY <1>1, <1>2, <1>3, <1>6 DEF FromEndAs
  <2>3. QED
    BY <1>1, <2>1, <2>2
<1>7. QED
  BY <1>4, <1>5, <1>6, ReadKinds

LEMMA ReaderTypesKept ==
  ASSUME ReaderTypes, CountInv, WhereInv, SaidInv, Len(put) \in 1..MaxLogins, put \in Seq(Nat),
         [Refused!Next]_(Refused!vars)
  PROVE  ReaderTypes'
<1>1. /\ now \in Nat /\ now \in 1..MaxTime /\ MaxTime \in Nat
      /\ claude \in [on : Conversations, turn : Nat, sub : Nat]
      /\ claude.on \in Conversations /\ (other # None => other.on \in Conversations)
  BY RefusedAssumption DEF ReaderTypes
<1>2. /\ record \in [Conversations -> Seq(RLines)] /\ subRecord \in [Conversations -> Seq(RLines)]
      /\ half \in [Conversations -> RLines \cup {None}]
  BY DEF ReaderTypes
<1>3. ASSUME NEW c \in Conversations, NEW e \in RLines
      PROVE  /\ [record EXCEPT ![c] = Append(@, e)] \in [Conversations -> Seq(RLines)]
             /\ [subRecord EXCEPT ![c] = Append(@, e)] \in [Conversations -> Seq(RLines)]
             /\ [half EXCEPT ![c] = e] \in [Conversations -> RLines \cup {None}]
             /\ [half EXCEPT ![c] = None] \in [Conversations -> RLines \cup {None}]
  <2>1. record[c] \in Seq(RLines) /\ subRecord[c] \in Seq(RLines)
    BY <1>2
  <2>2. Append(record[c], e) \in Seq(RLines) /\ Append(subRecord[c], e) \in Seq(RLines)
    BY <2>1, AppendProperties
  <2>3. QED
    BY <1>2, <2>2
<1>4. ASSUME NEW e \in RLines, PromptedAs(e) \/ RefusedAs(e) \/ SubRefusedAs(e) \/ OtherAs(e)
      PROVE  ReaderTypes'
  <2>1. NewLine(e)
    BY <1>4 DEF PromptedAs, RefusedAs, SubRefusedAs, OtherAs
  <2>2. claude' \in [on : Conversations, turn : Nat, sub : Nat]
    BY <1>1, <1>4 DEF PromptedAs, RefusedAs, SubRefusedAs, OtherAs
  <2>3. \E c \in Conversations : MainGrows(c, e) \/ HalfGrows(c, e) \/ SubGrows(c, e)
    BY <1>1, <1>4 DEF PromptedAs, RefusedAs, SubRefusedAs, OtherAs
  <2>4. /\ record' \in [Conversations -> Seq(RLines)] /\ subRecord' \in [Conversations -> Seq(RLines)]
        /\ half' \in [Conversations -> RLines \cup {None}]
    <3>1. PICK c \in Conversations : MainGrows(c, e) \/ HalfGrows(c, e) \/ SubGrows(c, e)
      BY <2>3
    <3>2. CASE MainGrows(c, e)
      BY <1>2, <1>3, <3>2 DEF MainGrows
    <3>3. CASE HalfGrows(c, e)
      BY <1>2, <1>3, <3>3 DEF HalfGrows
    <3>4. CASE SubGrows(c, e)
      BY <1>2, <1>3, <3>4 DEF SubGrows
    <3>5. QED
      BY <3>1, <3>2, <3>3, <3>4
  <2>5. QED
    BY <2>1, <2>2, <2>4 DEF NewLine, SameFollower, ReaderTypes
<1>5. ASSUME NEW c \in Conversations, EndedAs(c) PROVE ReaderTypes'
  <2>1. half[c] \in RLines
    BY <1>2, <1>5 DEF EndedAs
  <2>2. record' \in [Conversations -> Seq(RLines)] /\ half' \in [Conversations -> RLines \cup {None}]
    BY <1>3, <1>5, <2>1 DEF EndedAs
  <2>3. QED
    BY <1>5, <2>2 DEF EndedAs, SameFollower, ReaderTypes
<1>6. ASSUME NoLine PROVE ReaderTypes'
  <2>1. now' \in 1..MaxTime /\ promptAt' \in 0..now'
    BY <1>1, <1>6 DEF NoLine, SameFollower, ReaderTypes
  <2>2. QED
    BY <1>6, <2>1 DEF NoLine, SameFollower, ReaderTypes
<1>7. ASSUME ReadAs PROVE ReaderTypes'
  BY <1>7, ReadTypes DEF ReadAs, ReaderTypes, Tails
<1>8. QED
  BY <1>4, <1>5, <1>6, <1>7, RefusedStep, WrittenIs

LEMMA PutKept ==
  ASSUME ReaderTypes, PutInv, CountInv, [Refused!Next]_(Refused!vars)
  PROVE  PutInv'
<1>1. now \in Nat /\ now > 0
  BY RefusedAssumption DEF ReaderTypes
<1>2. put \in Seq(Nat) /\ Len(put) \in Nat /\ Len(put) > 0 /\ Len(put) \in 1..MaxLogins
  BY DEF PutInv
<1>3. /\ put' = put \/ (put' = Append(put, now) /\ Len(put') <= MaxLogins)
      /\ now' = now \/ now' = now + 1
  BY <1>2, RefusedStep, WrittenIs DEF PromptedAs, RefusedAs, SubRefusedAs, OtherAs, NewLine,
     EndedAs, NoLine, ReadAs
<1>4. \A k \in 1..Len(put) : put[k] \in Nat
  BY <1>2, ElementOfSeq
<1>5. CASE put' = put
  BY <1>1, <1>2, <1>3, <1>4, <1>5 DEF PutInv
<1>6. CASE put' = Append(put, now) /\ Len(put') <= MaxLogins
  <2>1. /\ put' \in Seq(Nat) /\ Len(put') = Len(put) + 1 /\ put'[Len(put) + 1] = now
        /\ \A k \in 1..Len(put) : put'[k] = put[k]
    BY <1>1, <1>2, <1>6, AppendProperties
  <2>2. Len(put') \in 1..MaxLogins /\ put'[1] = 0
    BY <1>2, <1>6, <2>1 DEF PutInv
  <2>3. ASSUME NEW k \in 1..Len(put') PROVE put'[k] <= now' /\ (k > 1 => put'[k] > 0)
    <3>1. CASE k = Len(put) + 1
      BY <1>1, <1>3, <2>1, <3>1
    <3>2. CASE k \in 1..Len(put)
      <4>1. put'[k] = put[k] /\ put[k] <= now /\ (k > 1 => put[k] > 0)
        BY <2>1, <3>2 DEF PutInv
      <4>2. QED
        BY <1>1, <1>3, <1>4, <3>2, <4>1
    <3>3. QED
      BY <1>2, <2>1, <3>1, <3>2
  <2>4. ASSUME NEW k \in 1..Len(put'), NEW l \in 1..Len(put'), k <= l PROVE put'[k] <= put'[l]
    <3>1. CASE l = Len(put) + 1
      <4>1. put'[k] <= now
        BY <1>1, <1>2, <2>1, SMTT(30) DEF PutInv
      <4>2. QED
        BY <2>1, <3>1, <4>1
    <3>2. CASE l \in 1..Len(put)
      <4>1. k \in 1..Len(put)
        BY <1>2, <2>4, <3>2
      <4>2. QED
        BY <2>1, <2>4, <3>2, <4>1 DEF PutInv
    <3>3. QED
      BY <1>2, <2>1, <3>1, <3>2
  <2>5. QED
    BY <2>1, <2>2, <2>3, <2>4 DEF PutInv
<1>7. QED
  BY <1>3, <1>5, <1>6

-----------------------------------------------------------------------------
\* A line half written is Claude's, where it is.
LEMMA HalfKept ==
  ASSUME ReaderTypes, CountInv, HalfInv, Len(put) \in 1..MaxLogins, put \in Seq(Nat),
         [Refused!Next]_(Refused!vars)
  PROVE  HalfInv'
<1>1. /\ claude \in [on : Conversations, turn : Nat, sub : Nat]
      /\ half \in [Conversations -> RLines \cup {None}]
  BY DEF ReaderTypes
<1> SUFFICES ASSUME NEW c \in Conversations, half'[c] # None
             PROVE  c = claude'.on /\ half'[c].what = "refusal" /\ half'[c].by = "claude"
  BY DEF HalfInv
<1>2. ASSUME half'[c] = half[c], claude'.on = claude.on
      PROVE  c = claude'.on /\ half'[c].what = "refusal" /\ half'[c].by = "claude"
  BY <1>2 DEF HalfInv
<1>3. ASSUME NEW e \in RLines, PromptedAs(e) \/ SubRefusedAs(e) \/ OtherAs(e)
      PROVE  half' = half /\ claude'.on = claude.on
  BY <1>1, <1>3 DEF PromptedAs, SubRefusedAs, OtherAs, MainGrows, SubGrows
<1>4. ASSUME NEW e \in RLines, RefusedAs(e)
      PROVE  c = claude'.on /\ half'[c].what = "refusal" /\ half'[c].by = "claude"
  <2>1. /\ half' = [half EXCEPT ![claude.on] = e] /\ e.what = "refusal" /\ e.by = "claude"
        /\ claude'.on = claude.on
    BY <1>1, <1>4 DEF RefusedAs, HalfGrows
  <2>2. CASE c = claude.on
    BY <1>1, <2>1, <2>2
  <2>3. CASE c # claude.on
    BY <1>1, <1>2, <2>1, <2>3
  <2>4. QED
    BY <2>2, <2>3
<1>5. ASSUME NEW d \in Conversations, EndedAs(d) PROVE half'[c] = half[c] /\ claude'.on = claude.on
  BY <1>1, <1>5 DEF EndedAs
<1>6. ASSUME NoLine
      PROVE  c = claude'.on /\ half'[c].what = "refusal" /\ half'[c].by = "claude"
  <2>1. half' = half /\ (claude'.on # claude.on => half[claude.on] = None)
    BY <1>6 DEF NoLine
  <2>2. QED
    BY <2>1 DEF HalfInv
<1>7. ASSUME ReadAs PROVE half' = half /\ claude'.on = claude.on
  BY <1>7 DEF ReadAs
<1>8. QED
  BY <1>2, <1>3, <1>4, <1>5, <1>6, <1>7, RefusedStep, WrittenIs

\* A line ends up in one place.
LEMMA OnePlace ==
  ASSUME ReaderTypes, CountInv, NEW c \in Conversations
  PROVE  /\ \A i \in 1..Len(record[c]) : record[c][i].n \in 1..Cardinality(AllLines)
         /\ \A j \in 1..Len(subRecord[c]) : subRecord[c][j].n \in 1..Cardinality(AllLines)
         /\ half[c] # None => half[c].n \in 1..Cardinality(AllLines)
<1>1. /\ \A i \in 1..Len(record[c]) : record[c][i] \in AllLines
      /\ \A j \in 1..Len(subRecord[c]) : subRecord[c][j] \in AllLines
      /\ half[c] # None => half[c] \in AllLines
  BY ALinesPlace DEF At
<1>2. QED
  BY <1>1 DEF CountInv

\* What a step does to the records, one conversation's at most.
LEMMA Places ==
  ASSUME ReaderTypes, CountInv, HalfInv, Len(put) \in 1..MaxLogins, put \in Seq(Nat),
         [Refused!Next]_(Refused!vars)
  PROVE  \/ UNCHANGED <<record, half, subRecord>>
         \/ \E c \in Conversations, e \in RLines :
              /\ GrownAt(record, record', c, e) /\ subRecord' = subRecord /\ SameFollower
              /\ \/ half[c] = None /\ half' = half /\ e.n = Cardinality(AllLines) + 1
                 \/ half[c] = e /\ half' = [half EXCEPT ![c] = None]
         \/ \E c \in Conversations, e \in RLines :
              /\ GrownAt(subRecord, subRecord', c, e) /\ record' = record /\ half' = half
              /\ e.n = Cardinality(AllLines) + 1 /\ SameFollower
         \/ \E c \in Conversations, e \in RLines :
              /\ half[c] = None /\ half' = [half EXCEPT ![c] = e] /\ e.n = Cardinality(AllLines) + 1
              /\ record' = record /\ subRecord' = subRecord /\ SameFollower
<1>1. /\ record \in [Conversations -> Seq(RLines)] /\ subRecord \in [Conversations -> Seq(RLines)]
      /\ half \in [Conversations -> RLines \cup {None}]
      /\ claude.on \in Conversations /\ (other # None => other.on \in Conversations)
  BY DEF ReaderTypes
<1>2. ASSUME NEW e \in RLines, PromptedAs(e) \/ RefusedAs(e) \/ SubRefusedAs(e) \/ OtherAs(e)
      PROVE  /\ e.n = Cardinality(AllLines) + 1 /\ SameFollower
             /\ \E c \in Conversations : MainGrows(c, e) \/ HalfGrows(c, e) \/ SubGrows(c, e)
  <2>1. NewLine(e)
    BY <1>2 DEF PromptedAs, RefusedAs, SubRefusedAs, OtherAs
  <2>2. \E c \in Conversations : MainGrows(c, e) \/ HalfGrows(c, e) \/ SubGrows(c, e)
    BY <1>1, <1>2 DEF PromptedAs, RefusedAs, SubRefusedAs, OtherAs
  <2>3. QED
    BY <2>1, <2>2, WrittenIs DEF NewLine
<1>3. ASSUME NEW e \in RLines, NEW c \in Conversations
      PROVE  /\ MainGrows(c, e) => /\ GrownAt(record, record', c, e) /\ subRecord' = subRecord
                                   /\ half[c] = None /\ half' = half
             /\ SubGrows(c, e) => /\ GrownAt(subRecord, subRecord', c, e)
                                  /\ record' = record /\ half' = half
             /\ HalfGrows(c, e) => /\ half[c] = None /\ half' = [half EXCEPT ![c] = e]
                                   /\ record' = record /\ subRecord' = subRecord
  <2>1. ASSUME MainGrows(c, e)
        PROVE  /\ GrownAt(record, record', c, e) /\ subRecord' = subRecord
               /\ half[c] = None /\ half' = half
    BY <1>1, <2>1, Grown DEF MainGrows
  <2>2. ASSUME SubGrows(c, e)
        PROVE  GrownAt(subRecord, subRecord', c, e) /\ record' = record /\ half' = half
    BY <1>1, <2>2, Grown DEF SubGrows
  <2>3. QED
    BY <2>1, <2>2 DEF HalfGrows
<1>4. CASE \E e \in RLines : PromptedAs(e) \/ RefusedAs(e) \/ SubRefusedAs(e) \/ OtherAs(e)
  <2>1. PICK e \in RLines : PromptedAs(e) \/ RefusedAs(e) \/ SubRefusedAs(e) \/ OtherAs(e)
    BY <1>4
  <2>2. PICK c \in Conversations : MainGrows(c, e) \/ HalfGrows(c, e) \/ SubGrows(c, e)
    BY <1>2, <2>1
  <2>3. e.n = Cardinality(AllLines) + 1 /\ SameFollower
    BY <1>2, <2>1
  <2>4. CASE MainGrows(c, e)
    BY <1>3, <2>3, <2>4
  <2>5. CASE SubGrows(c, e)
    BY <1>3, <2>3, <2>5
  <2>6. CASE HalfGrows(c, e)
    BY <1>3, <2>3, <2>6
  <2>7. QED
    BY <2>2, <2>4, <2>5, <2>6
<1>5. ASSUME NEW c \in Conversations, EndedAs(c)
      PROVE  /\ half[c] \in RLines /\ GrownAt(record, record', c, half[c]) /\ SameFollower
             /\ half' = [half EXCEPT ![c] = None] /\ subRecord' = subRecord
  <2>1. half[c] \in RLines
    BY <1>1, <1>5 DEF EndedAs
  <2>2. QED
    BY <1>1, <1>5, <2>1, Grown DEF EndedAs
<1>6. CASE \E c \in Conversations : EndedAs(c)
  BY <1>5, <1>6
<1>7. NoLine \/ ReadAs => UNCHANGED <<record, half, subRecord>>
  BY DEF NoLine, ReadAs
<1>8. QED
  BY <1>4, <1>6, <1>7, RefusedStep, WrittenIs

LEMMA PlaceKept ==
  ASSUME ReaderTypes, CountInv, HalfInv, PlaceInv, Len(put) \in 1..MaxLogins, put \in Seq(Nat),
         [Refused!Next]_(Refused!vars)
  PROVE  PlaceInv'
<1> DEFINE K == Cardinality(AllLines)
<1>0. K \in Nat
  BY WrittenIs
<1>1. /\ record \in [Conversations -> Seq(RLines)] /\ subRecord \in [Conversations -> Seq(RLines)]
      /\ half \in [Conversations -> RLines \cup {None}]
  BY DEF ReaderTypes
<1>2. ASSUME NEW c \in Conversations
      PROVE  /\ \A i \in 1..Len(record[c]) : record[c][i].n # K + 1
             /\ \A j \in 1..Len(subRecord[c]) : subRecord[c][j].n # K + 1
             /\ half[c] # None => half[c].n # K + 1
  BY <1>0, OnePlace
<1> HIDE DEF K
<1>3. CASE UNCHANGED <<record, half, subRecord>>
  BY <1>3 DEF PlaceInv, MainApart, SubApart, BothApart, HalfApart
<1>4. ASSUME NEW c \in Conversations, NEW e \in RLines,
             GrownAt(record, record', c, e), subRecord' = subRecord,
             \/ half' = half /\ e.n = K + 1
             \/ half[c] = e /\ half' = [half EXCEPT ![c] = None]
      PROVE  PlaceInv'
  <2>1. ASSUME NEW d \in Conversations, NEW i \in 1..Len(record'[d])
        PROVE  \/ i \in 1..Len(record[d]) /\ record'[d][i] = record[d][i]
               \/ d = c /\ i = Len(record[c]) + 1 /\ record'[d][i] = e
    <3>1. Len(record[c]) \in Nat
      BY Lengths
    <3>2. CASE d = c
      BY <1>4, <3>1, <3>2 DEF GrownAt
    <3>3. CASE d # c
      BY <1>4, <3>3 DEF GrownAt
    <3>4. QED
      BY <3>2, <3>3
  <2>2. e # None
    BY RefusedAssumption DEF RLines
  <2>3. ASSUME NEW d \in Conversations
        PROVE  /\ \A i \in 1..Len(record[d]) : record[d][i].n # e.n
               /\ \A j \in 1..Len(subRecord[d]) : subRecord[d][j].n # e.n
    BY <1>2, <1>4, <2>2 DEF PlaceInv, HalfApart
  <2>4. ASSUME NEW d \in Conversations, half'[d] # None
        PROVE  half[d] # None /\ half'[d] = half[d] /\ half'[d].n # e.n
    <3>1. CASE half' = half /\ e.n = K + 1
      BY <1>2, <2>4, <3>1
    <3>2. CASE half[c] = e /\ half' = [half EXCEPT ![c] = None]
      <4>1. d # c /\ half[d] # None /\ half[c] # None
        BY <1>1, <2>2, <2>4, <3>2
      <4>2. QED
        BY <4>1 DEF HalfInv
    <3>3. QED
      BY <1>4, <3>1, <3>2
  <2>5. MainApart'
    <3> SUFFICES ASSUME NEW x \in Conversations, NEW y \in Conversations,
                        NEW i \in 1..Len(record'[x]), NEW j \in 1..Len(record'[y])
                 PROVE  record'[x][i].n = record'[y][j].n => x = y /\ i = j
      BY DEF MainApart
    <3>1. \/ i \in 1..Len(record[x]) /\ record'[x][i] = record[x][i]
          \/ x = c /\ i = Len(record[c]) + 1 /\ record'[x][i] = e
      BY <2>1
    <3>2. \/ j \in 1..Len(record[y]) /\ record'[y][j] = record[y][j]
          \/ y = c /\ j = Len(record[c]) + 1 /\ record'[y][j] = e
      BY <2>1
    <3>3. /\ \A k \in 1..Len(record[x]) : record[x][k].n # e.n
          /\ \A k \in 1..Len(record[y]) : record[y][k].n # e.n
      BY <2>3
    <3>4. CASE i \in 1..Len(record[x]) /\ record'[x][i] = record[x][i]
      <4>1. CASE j \in 1..Len(record[y]) /\ record'[y][j] = record[y][j]
        BY <3>4, <4>1 DEF PlaceInv, MainApart
      <4>2. CASE y = c /\ j = Len(record[c]) + 1 /\ record'[y][j] = e
        BY <3>3, <3>4, <4>2
      <4>3. QED
        BY <3>2, <4>1, <4>2
    <3>5. CASE x = c /\ i = Len(record[c]) + 1 /\ record'[x][i] = e
      <4>1. CASE j \in 1..Len(record[y]) /\ record'[y][j] = record[y][j]
        BY <3>3, <3>5, <4>1
      <4>2. CASE y = c /\ j = Len(record[c]) + 1 /\ record'[y][j] = e
        BY <3>5, <4>2
      <4>3. QED
        BY <3>2, <4>1, <4>2
    <3>6. QED
      BY <3>1, <3>4, <3>5
  <2>6. SubApart'
    BY <1>4 DEF PlaceInv, SubApart
  <2>7. BothApart'
    <3> SUFFICES ASSUME NEW x \in Conversations, NEW y \in Conversations,
                        NEW i \in 1..Len(record'[x]), NEW j \in 1..Len(subRecord'[y])
                 PROVE  record'[x][i].n # subRecord'[y][j].n
      BY DEF BothApart
    <3>1. \/ i \in 1..Len(record[x]) /\ record'[x][i] = record[x][i]
          \/ x = c /\ i = Len(record[c]) + 1 /\ record'[x][i] = e
      BY <2>1
    <3>2. CASE i \in 1..Len(record[x]) /\ record'[x][i] = record[x][i]
      BY <1>4, <3>2 DEF PlaceInv, BothApart
    <3>3. CASE x = c /\ i = Len(record[c]) + 1 /\ record'[x][i] = e
      BY <1>4, <2>3, <3>3
    <3>4. QED
      BY <3>1, <3>2, <3>3
  <2>8. HalfApart'
    <3> SUFFICES ASSUME NEW x \in Conversations, NEW y \in Conversations, half'[y] # None
                 PROVE  /\ \A i \in 1..Len(record'[x]) : record'[x][i].n # half'[y].n
                        /\ \A i \in 1..Len(subRecord'[x]) : subRecord'[x][i].n # half'[y].n
      BY DEF HalfApart
    <3>1. half[y] # None /\ half'[y] = half[y] /\ half'[y].n # e.n
      BY <2>4
    <3>2. ASSUME NEW i \in 1..Len(record'[x]) PROVE record'[x][i].n # half'[y].n
      <4>1. \/ i \in 1..Len(record[x]) /\ record'[x][i] = record[x][i]
            \/ x = c /\ i = Len(record[c]) + 1 /\ record'[x][i] = e
        BY <2>1
      <4>2. CASE i \in 1..Len(record[x]) /\ record'[x][i] = record[x][i]
        BY <3>1, <4>2 DEF PlaceInv, HalfApart
      <4>3. CASE x = c /\ i = Len(record[c]) + 1 /\ record'[x][i] = e
        BY <3>1, <4>3
      <4>4. QED
        BY <4>1, <4>2, <4>3
    <3>3. \A i \in 1..Len(subRecord'[x]) : subRecord'[x][i].n # half'[y].n
      BY <1>4, <3>1 DEF PlaceInv, HalfApart
    <3>4. QED
      BY <3>2, <3>3
  <2>9. QED
    BY <2>5, <2>6, <2>7, <2>8 DEF PlaceInv
<1>5. ASSUME NEW c \in Conversations, NEW e \in RLines,
             GrownAt(subRecord, subRecord', c, e), record' = record, half' = half, e.n = K + 1
      PROVE  PlaceInv'
  <2>1. ASSUME NEW d \in Conversations, NEW i \in 1..Len(subRecord'[d])
        PROVE  \/ i \in 1..Len(subRecord[d]) /\ subRecord'[d][i] = subRecord[d][i]
               \/ d = c /\ i = Len(subRecord[c]) + 1 /\ subRecord'[d][i] = e
    <3>1. Len(subRecord[c]) \in Nat
      BY Lengths
    <3>2. CASE d = c
      BY <1>5, <3>1, <3>2 DEF GrownAt
    <3>3. CASE d # c
      BY <1>5, <3>3 DEF GrownAt
    <3>4. QED
      BY <3>2, <3>3
  <2>2. SubApart'
    <3> SUFFICES ASSUME NEW x \in Conversations, NEW y \in Conversations,
                        NEW i \in 1..Len(subRecord'[x]), NEW j \in 1..Len(subRecord'[y])
                 PROVE  subRecord'[x][i].n = subRecord'[y][j].n => x = y /\ i = j
      BY DEF SubApart
    <3>1. \/ i \in 1..Len(subRecord[x]) /\ subRecord'[x][i] = subRecord[x][i]
          \/ x = c /\ i = Len(subRecord[c]) + 1 /\ subRecord'[x][i] = e
      BY <2>1
    <3>2. \/ j \in 1..Len(subRecord[y]) /\ subRecord'[y][j] = subRecord[y][j]
          \/ y = c /\ j = Len(subRecord[c]) + 1 /\ subRecord'[y][j] = e
      BY <2>1
    <3>3. /\ \A k \in 1..Len(subRecord[x]) : subRecord[x][k].n # e.n
          /\ \A k \in 1..Len(subRecord[y]) : subRecord[y][k].n # e.n
      BY <1>2, <1>5
    <3>4. CASE i \in 1..Len(subRecord[x]) /\ subRecord'[x][i] = subRecord[x][i]
      <4>1. CASE j \in 1..Len(subRecord[y]) /\ subRecord'[y][j] = subRecord[y][j]
        BY <3>4, <4>1, SMTT(30) DEF PlaceInv, SubApart
      <4>2. CASE y = c /\ j = Len(subRecord[c]) + 1 /\ subRecord'[y][j] = e
        BY <3>3, <3>4, <4>2
      <4>3. QED
        BY <3>2, <4>1, <4>2
    <3>5. CASE x = c /\ i = Len(subRecord[c]) + 1 /\ subRecord'[x][i] = e
      <4>1. CASE j \in 1..Len(subRecord[y]) /\ subRecord'[y][j] = subRecord[y][j]
        BY <3>3, <3>5, <4>1
      <4>2. CASE y = c /\ j = Len(subRecord[c]) + 1 /\ subRecord'[y][j] = e
        BY <3>5, <4>2
      <4>3. QED
        BY <3>2, <4>1, <4>2
    <3>6. QED
      BY <3>1, <3>4, <3>5
  <2>3. MainApart'
    BY <1>5 DEF PlaceInv, MainApart
  <2>4. BothApart'
    <3> SUFFICES ASSUME NEW x \in Conversations, NEW y \in Conversations,
                        NEW i \in 1..Len(record'[x]), NEW j \in 1..Len(subRecord'[y])
                 PROVE  record'[x][i].n # subRecord'[y][j].n
      BY DEF BothApart
    <3>1. \/ j \in 1..Len(subRecord[y]) /\ subRecord'[y][j] = subRecord[y][j]
          \/ y = c /\ j = Len(subRecord[c]) + 1 /\ subRecord'[y][j] = e
      BY <2>1
    <3>2. CASE j \in 1..Len(subRecord[y]) /\ subRecord'[y][j] = subRecord[y][j]
      BY <1>5, <3>2 DEF PlaceInv, BothApart
    <3>3. CASE y = c /\ j = Len(subRecord[c]) + 1 /\ subRecord'[y][j] = e
      BY <1>2, <1>5, <3>3
    <3>4. QED
      BY <3>1, <3>2, <3>3
  <2>5. HalfApart'
    <3> SUFFICES ASSUME NEW x \in Conversations, NEW y \in Conversations, half'[y] # None
                 PROVE  /\ \A i \in 1..Len(record'[x]) : record'[x][i].n # half'[y].n
                        /\ \A i \in 1..Len(subRecord'[x]) : subRecord'[x][i].n # half'[y].n
      BY DEF HalfApart
    <3>1. half[y] # None /\ half'[y] = half[y] /\ half'[y].n # e.n
      BY <1>2, <1>5
    <3>2. ASSUME NEW i \in 1..Len(subRecord'[x]) PROVE subRecord'[x][i].n # half'[y].n
      <4>1. \/ i \in 1..Len(subRecord[x]) /\ subRecord'[x][i] = subRecord[x][i]
            \/ x = c /\ i = Len(subRecord[c]) + 1 /\ subRecord'[x][i] = e
        BY <2>1
      <4>2. CASE i \in 1..Len(subRecord[x]) /\ subRecord'[x][i] = subRecord[x][i]
        BY <3>1, <4>2 DEF PlaceInv, HalfApart
      <4>3. CASE x = c /\ i = Len(subRecord[c]) + 1 /\ subRecord'[x][i] = e
        BY <3>1, <4>3
      <4>4. QED
        BY <4>1, <4>2, <4>3
    <3>3. \A i \in 1..Len(record'[x]) : record'[x][i].n # half'[y].n
      BY <1>5, <3>1 DEF PlaceInv, HalfApart
    <3>4. QED
      BY <3>2, <3>3
  <2>6. QED
    BY <2>2, <2>3, <2>4, <2>5 DEF PlaceInv
<1>6. ASSUME NEW c \in Conversations, NEW e \in RLines, half' = [half EXCEPT ![c] = e],
             e.n = K + 1, record' = record, subRecord' = subRecord
      PROVE  PlaceInv'
  <2>1. ASSUME NEW d \in Conversations, half'[d] # None
        PROVE  half'[d].n = K + 1 \/ (half[d] # None /\ half'[d] = half[d])
    BY <1>1, <1>6, <2>1
  <2>2. HalfApart'
    BY <1>2, <1>6, <2>1 DEF PlaceInv, HalfApart
  <2>3. QED
    <3>1. MainApart' /\ SubApart'
      BY <1>6 DEF PlaceInv, MainApart, SubApart
    <3>2. BothApart'
      BY <1>6 DEF PlaceInv, BothApart
    <3>3. QED
      BY <2>2, <3>1, <3>2 DEF PlaceInv
<1>7. QED
  BY <1>3, <1>4, <1>5, <1>6, Places DEF K

LEMMA SubLength ==
  ASSUME ReaderTypes, CountInv, SubInv, NEW c \in Conversations
  PROVE  Len(subRecord[c]) <= Cardinality(AllLines)
<1>0. Cardinality(AllLines) \in Nat
  BY WrittenIs
<1>1. Len(subRecord[c]) \in Nat
  BY Lengths
<1>2. CASE Len(subRecord[c]) = 0
  BY <1>0, <1>2
<1>3. CASE Len(subRecord[c]) > 0
  <2>1. Len(subRecord[c]) \in 1..Len(subRecord[c])
    BY <1>1, <1>3
  <2>2. /\ subRecord[c][Len(subRecord[c])].n >= Len(subRecord[c])
        /\ subRecord[c][Len(subRecord[c])].n \in 1..Cardinality(AllLines)
    BY <2>1, OnePlace DEF SubInv
  <2>3. QED
    BY <1>0, <1>1, <2>2
<1>4. QED
  BY <1>1, <1>2, <1>3

LEMMA SubKept ==
  ASSUME ReaderTypes, CountInv, HalfInv, SubInv, Len(put) \in 1..MaxLogins, put \in Seq(Nat),
         [Refused!Next]_(Refused!vars)
  PROVE  SubInv'
<1>1. Cardinality(AllLines) \in Nat
  BY WrittenIs
<1>2. ASSUME NEW c \in Conversations PROVE Len(subRecord[c]) <= Cardinality(AllLines)
  BY SubLength
<1>3. CASE subRecord' = subRecord
  BY <1>3 DEF SubInv
<1>4. ASSUME NEW c \in Conversations, NEW e \in RLines,
             GrownAt(subRecord, subRecord', c, e), e.n = Cardinality(AllLines) + 1
      PROVE  SubInv'
  <2>1. ASSUME NEW d \in Conversations, NEW i \in 1..Len(subRecord'[d])
        PROVE  subRecord'[d][i].n >= i
    <3>2. Len(subRecord[c]) \in Nat
      BY Lengths
    <3>1. \/ i \in 1..Len(subRecord[d]) /\ subRecord'[d][i] = subRecord[d][i]
          \/ d = c /\ i = Len(subRecord[c]) + 1 /\ subRecord'[d][i] = e
      <4>1. CASE d = c
        BY <1>4, <3>2, <4>1 DEF GrownAt
      <4>2. CASE d # c
        BY <1>4, <4>2 DEF GrownAt
      <4>3. QED
        BY <4>1, <4>2
    <3>3. CASE i \in 1..Len(subRecord[d]) /\ subRecord'[d][i] = subRecord[d][i]
      BY <3>3 DEF SubInv
    <3>4. CASE d = c /\ i = Len(subRecord[c]) + 1 /\ subRecord'[d][i] = e
      BY <1>1, <1>2, <1>4, <3>2, <3>4
    <3>5. QED
      BY <3>1, <3>3, <3>4
  <2>2. QED
    BY <2>1 DEF SubInv
<1>5. QED
  BY <1>3, <1>4, Places

\* A record, and a subagent's, only grow.
LEMMA RecordsGrow ==
  ASSUME ReaderTypes, ReaderTypes', CountInv, HalfInv, Len(put) \in 1..MaxLogins, put \in Seq(Nat),
         [Refused!Next]_(Refused!vars), NEW c \in Conversations
  PROVE  /\ Len(record[c]) <= Len(record'[c]) /\ Len(subRecord[c]) <= Len(subRecord'[c])
         /\ Refused!Size(c) <= Refused!Size(c)' /\ Refused!Size(c)' \in Nat
         /\ half'[c] = None => Refused!Size(c)' = 2 * Len(record'[c])
         /\ half'[c] # None => Refused!Size(c)' = 2 * Len(record'[c]) + 1
<1>1. /\ Len(record[c]) \in Nat /\ Len(subRecord[c]) \in Nat
      /\ half[c] = None => Refused!Size(c) = 2 * Len(record[c])
      /\ half[c] # None => Refused!Size(c) = 2 * Len(record[c]) + 1
  BY Lengths, Sizes
<1>2. Len(record'[c]) \in Nat /\ Len(subRecord'[c]) \in Nat
  <2>1. record'[c] \in Seq(RLines) /\ subRecord'[c] \in Seq(RLines)
    BY DEF ReaderTypes
  <2>2. QED
    BY <2>1
<1>3. half'[c] = None => Refused!Size(c)' = 2 * Len(record'[c])
  BY <1>2 DEF Refused!Size
<1>4. half'[c] # None => Refused!Size(c)' = 2 * Len(record'[c]) + 1
  BY DEF Refused!Size
<1>5. half \in [Conversations -> RLines \cup {None}]
  BY DEF ReaderTypes
<1> DEFINE GrownOnce ==
      \/ /\ record'[c] = record[c] /\ half'[c] = half[c]
         /\ subRecord'[c] = subRecord[c] \/ Len(subRecord'[c]) = Len(subRecord[c]) + 1
      \/ Len(record'[c]) = Len(record[c]) + 1 /\ subRecord'[c] = subRecord[c]
      \/ record'[c] = record[c] /\ half[c] = None /\ subRecord'[c] = subRecord[c]
<1>6. GrownOnce
  <2>1. CASE UNCHANGED <<record, half, subRecord>>
    BY <2>1
  <2>2. ASSUME NEW d \in Conversations, NEW e \in RLines,
               GrownAt(record, record', d, e), subRecord' = subRecord,
               half' = half \/ half' = [half EXCEPT ![d] = None]
        PROVE  GrownOnce
    <3>1. CASE c = d
      BY <2>2, <3>1 DEF GrownAt
    <3>2. CASE c # d
      BY <1>5, <2>2, <3>2 DEF GrownAt
    <3>3. QED
      BY <3>1, <3>2
  <2>3. ASSUME NEW d \in Conversations, NEW e \in RLines,
               GrownAt(subRecord, subRecord', d, e), record' = record, half' = half
        PROVE  GrownOnce
    BY <2>3 DEF GrownAt
  <2>4. ASSUME NEW d \in Conversations, NEW e \in RLines, half[d] = None,
               half' = [half EXCEPT ![d] = e], record' = record, subRecord' = subRecord
        PROVE  GrownOnce
    BY <1>5, <2>4
  <2>5. QED
    BY <2>1, <2>2, <2>3, <2>4, Places
<1>7. QED
  BY <1>1, <1>2, <1>3, <1>4, <1>6, SMTT(30)

LEMMA FollowerStep ==
  ASSUME ReaderTypes, CountInv, Len(put) \in 1..MaxLogins, put \in Seq(Nat),
         [Refused!Next]_(Refused!vars)
  PROVE  SameFollower \/ ReadAs
<1>1. ASSUME NEW e \in RLines, PromptedAs(e) \/ RefusedAs(e) \/ SubRefusedAs(e) \/ OtherAs(e)
      PROVE  SameFollower
  BY <1>1 DEF PromptedAs, RefusedAs, SubRefusedAs, OtherAs, NewLine
<1>2. ASSUME NEW c \in Conversations, EndedAs(c) PROVE SameFollower
  BY <1>2 DEF EndedAs
<1>3. NoLine => SameFollower
  BY DEF NoLine
<1>4. QED
  BY <1>1, <1>2, <1>3, RefusedStep, WrittenIs

\* The reader stays within the records.
LEMMA WhereKept ==
  ASSUME ReaderTypes, ReaderTypes', CountInv, HalfInv, WhereInv, SaidInv,
         Len(put) \in 1..MaxLogins, put \in Seq(Nat), [Refused!Next]_(Refused!vars)
  PROVE  WhereInv'
<1>1. ASSUME SameFollower PROVE WhereInv'
  <2>1. following' = following /\ main' = main /\ sub' = sub
    BY <1>1 DEF SameFollower
  <2>2. CASE following = None
    BY <2>1, <2>2 DEF WhereInv
  <2>3. CASE following # None
    <3>1. PICK c \in Conversations : c = following
      BY <2>3 DEF ReaderTypes
    <3>2. /\ Refused!Size(c) <= Refused!Size(c)' /\ Refused!Size(c)' \in Nat
          /\ Len(subRecord[c]) <= Len(subRecord'[c])
      BY <3>1, RecordsGrow
    <3>3. Refused!Size(c) \in Nat /\ Len(subRecord[c]) \in Nat /\ sub \in Nat
      BY <3>1, Sizes, Lengths DEF ReaderTypes
    <3>4. Len(subRecord'[c]) \in Nat
      <4>1. subRecord'[c] \in Seq(RLines)
        BY DEF ReaderTypes
      <4>2. QED
        BY <4>1
    <3>5. sub' <= Len(subRecord'[c])
      BY <2>1, <2>3, <3>1, <3>2, <3>3, <3>4 DEF WhereInv
    <3>6. main' # None => main'.offset \in 1..Refused!Size(c)'
      <4>1. main # None => main.offset \in 1..Refused!Size(c)
        BY <3>1 DEF WhereInv
      <4>2. QED
        BY <2>1, <3>2, <3>3, <4>1
    <3>7. following' = c
      BY <2>1, <3>1
    <3>8. Refused!Size(c)' = Refused!Size(following)'
      BY <3>7 DEF Refused!Size
    <3>9. QED
      BY <2>1, <2>3, <3>1, <3>5, <3>6, <3>7, <3>8 DEF WhereInv
  <2>4. QED
    BY <2>2, <2>3
<1>2. ASSUME ReadAs PROVE WhereInv'
  <2>1. PICK c \in Conversations : c = claude.on /\ c # None
    BY RefusedAssumption DEF ReaderTypes
  <2>2. UNCHANGED <<record, half, subRecord>>
    BY <1>2 DEF ReadAs
  <2>3. Refused!Size(c) \in Nat /\ Len(subRecord[c]) \in Nat
    BY Sizes, Lengths
  <2>4. ReadOnAs(c) \/ WholeAs(c) \/ FromEndAs(c)
    BY <1>2, <2>1, ReadKinds
  <2>5. following' = c
    BY <2>4 DEF ReadOnAs, WholeAs, FromEndAs
  <2>6. main' = None \/ (main'.offset = Refused!Size(c) /\ Refused!Size(c) > 0)
    BY <2>4 DEF ReadOnAs, WholeAs, FromEndAs, Took
  <2>7. sub' <= Len(subRecord[c])
    <3>1. CASE ReadOnAs(c)
      BY <2>1, <2>3, <3>1 DEF ReadOnAs, Took, WhereInv
    <3>2. CASE WholeAs(c)
      BY <2>3, <3>2 DEF WholeAs, Took
    <3>3. CASE FromEndAs(c)
      BY <2>3, <3>3 DEF FromEndAs
    <3>4. QED
      BY <2>4, <3>1, <3>2, <3>3
  <2>8. Refused!Size(following)' = Refused!Size(c)
    BY <2>2, <2>5 DEF Refused!Size
  <2>9. QED
    BY <2>1, <2>2, <2>3, <2>5, <2>6, <2>7, <2>8 DEF WhereInv
<1>3. QED
  BY <1>1, <1>2, FollowerStep

\* What a line says stays so.
LEMMA SaidKept ==
  ASSUME ReaderTypes, ReaderTypes', CountInv, PutInv, SaidInv, [Refused!Next]_(Refused!vars)
  PROVE  SaidInv'
<1>1. /\ now \in Nat /\ Kept \in Nat /\ Kept > 0 /\ AnswersIn \in Nat
      /\ put \in Seq(Nat) /\ Len(put) \in Nat /\ Len(put) \in 1..MaxLogins
  BY RefusedAssumption DEF ReaderTypes, PutInv
<1>2. /\ now' = now \/ now' = now + 1
      /\ put' = put \/ put' = Append(put, now)
      /\ other # None => other' # None
  BY <1>1, RefusedStep, WrittenIs DEF PromptedAs, RefusedAs, SubRefusedAs, OtherAs, NewLine,
     EndedAs, NoLine, ReadAs
<1>3. Len(put) <= Len(put') /\ \A k \in 1..Len(put) : put'[k] = put[k] /\ put[k] \in Nat
  <2>1. CASE put' = put
    BY <1>1, <2>1
  <2>2. CASE put' = Append(put, now)
    BY <1>1, <2>2, AppendProperties
  <2>3. QED
    BY <1>2, <2>1, <2>2
<1>4. Len(put') \in Nat /\ (Len(put') > Len(put) =>
         Len(put') = Len(put) + 1 /\ put'[Len(put) + 1] = now)
  <2>1. CASE put' = put
    BY <1>1, <2>1
  <2>2. CASE put' = Append(put, now)
    BY <1>1, <2>2, AppendProperties
  <2>3. QED
    BY <1>2, <2>1, <2>2
<1>5. ASSUME NEW e \in AllLines
      PROVE  /\ e.at <= now' /\ (e.by = "other" => other' # None)
             /\ e.by = "claude" /\ e.what # "prompt" /\ e.at > 0 =>
                  /\ e.login \in 1..Len(put')
                  /\ \E sent \in e.turn..e.at :
                       /\ sent + AnswersIn >= e.at
                       /\ e.login < Len(put') => sent < put'[e.login + 1] + Kept
  <2>1. e \in RLines /\ e.at \in Nat /\ e.turn \in Nat
    BY LinesTyped DEF RLines
  <2>2. e.at <= now /\ (e.by = "other" => other # None)
    BY DEF SaidInv
  <2>3. e.at <= now' /\ (e.by = "other" => other' # None)
    BY <1>1, <1>2, <2>1, <2>2
  <2>4. ASSUME e.by = "claude", e.what # "prompt", e.at > 0
        PROVE  /\ e.login \in 1..Len(put')
               /\ \E sent \in e.turn..e.at :
                    /\ sent + AnswersIn >= e.at
                    /\ e.login < Len(put') => sent < put'[e.login + 1] + Kept
    <3>1. PICK sent \in e.turn..e.at :
            /\ sent + AnswersIn >= e.at
            /\ e.login < Len(put) => sent < put[e.login + 1] + Kept
      BY <2>4 DEF SaidInv
    <3>2. e.login \in 1..Len(put)
      BY <2>4 DEF SaidInv
    <3>3. sent \in Nat
      BY <2>1
    <3>4. ASSUME e.login < Len(put') PROVE sent < put'[e.login + 1] + Kept
      <4>1. CASE e.login < Len(put)
        <5>1. e.login + 1 \in 1..Len(put)
          BY <1>1, <3>2, <4>1
        <5>2. QED
          BY <1>3, <3>1, <4>1, <5>1
      <4>2. CASE e.login = Len(put)
        <5>1. put'[e.login + 1] = now
          BY <1>1, <1>4, <3>4, <4>2
        <5>2. QED
          BY <1>1, <2>1, <2>2, <3>3, <5>1
      <4>3. QED
        BY <1>1, <3>2, <4>1, <4>2
    <3>5. e.login \in 1..Len(put')
      BY <1>1, <1>3, <1>4, <3>2
    <3>6. QED
      BY <3>1, <3>4, <3>5
  <2>5. QED
    BY <2>3, <2>4
<1>6. ASSUME NEW e \in RLines, AddsLine(e),
             PromptedAs(e) \/ RefusedAs(e) \/ SubRefusedAs(e) \/ OtherAs(e)
      PROVE  /\ e.at <= now' /\ (e.by = "other" => other' # None)
             /\ e.by = "claude" /\ e.what # "prompt" /\ e.at > 0 =>
                  /\ e.login \in 1..Len(put')
                  /\ \E sent \in e.turn..e.at :
                       /\ sent + AnswersIn >= e.at
                       /\ e.login < Len(put') => sent < put'[e.login + 1] + Kept
  <2>1. e.at = now /\ now' = now /\ put' = put /\ other' = other
    BY <1>6 DEF AddsLine, NewLine
  <2>2. e.by = "other" => other # None
    BY <1>6 DEF PromptedAs, RefusedAs, SubRefusedAs, OtherAs
  <2>3. e.by = "claude" /\ e.what # "prompt" => e.login \in Refused!SentOn(e.turn)
    BY <1>6 DEF PromptedAs, RefusedAs, SubRefusedAs, OtherAs
  <2>4. ASSUME e.login \in Refused!SentOn(e.turn)
        PROVE  /\ e.login \in 1..Len(put)
               /\ \E sent \in e.turn..e.at :
                    /\ sent + AnswersIn >= e.at
                    /\ e.login < Len(put) => sent < put[e.login + 1] + Kept
    BY <1>1, <2>1, <2>4 DEF Refused!SentOn, Refused!login
  <2>5. e.at <= now'
    BY <1>1, <2>1
  <2>6. QED
    BY <2>1, <2>2, <2>3, <2>4, <2>5
<1>7. ASSUME NEW x \in AllLines'
      PROVE  \/ x \in AllLines
             \/ /\ x \in RLines /\ AddsLine(x)
                /\ PromptedAs(x) \/ RefusedAs(x) \/ SubRefusedAs(x) \/ OtherAs(x)
  BY <1>1, <1>7, StepLines DEF AddsLine
<1>8. QED
  BY <1>5, <1>6, <1>7 DEF SaidInv

\* A turn stays the last prompt's.
LEMMA TurnKept ==
  ASSUME ReaderTypes, ReaderTypes', CountInv, HalfInv, SaidInv, TurnInv,
         Len(put) \in 1..MaxLogins, put \in Seq(Nat), [Refused!Next]_(Refused!vars)
  PROVE  TurnInv'
<1>1. /\ now \in Nat /\ claude \in [on : Conversations, turn : Nat, sub : Nat]
      /\ claude.turn <= now /\ claude.sub <= now
  BY RefusedAssumption DEF ReaderTypes, TurnInv
<1>2. ASSUME NEW x \in AllLines PROVE x.at \in Nat /\ x.turn \in Nat /\ x.at <= now
  BY LinesTyped DEF RLines, SaidInv
<1>3. ASSUME AllLines' = AllLines, now' \in Nat, now' >= now, claude'.turn \in {0, claude.turn},
             claude'.sub \in {0, claude.turn, claude.sub}
      PROVE  TurnInv'
  <2>1. claude'.turn <= now' /\ claude'.sub <= now'
    BY <1>1, <1>3
  <2>2. ASSUME NEW x \in AllLines, x.what = "prompt", x.by = "claude"
        PROVE  /\ claude'.turn > 0 => x.at <= claude'.turn
               /\ \A e \in AllLines : e.what = "refusal" /\ e.by = "claude" =>
                      e.at < x.at \/ e.turn >= x.at
    BY <1>3, <2>2 DEF TurnInv
  <2>3. QED
    BY <1>3, <2>1, <2>2 DEF TurnInv
<1>4. ASSUME NEW e \in RLines, AddsLine(e), PromptedAs(e) PROVE TurnInv'
  <2>1. /\ AllLines' = AllLines \cup {e} /\ e.at = now /\ now' = now /\ e.what = "prompt"
        /\ claude' = [claude EXCEPT !.turn = now]
    BY <1>4 DEF AddsLine, NewLine, PromptedAs
  <2>2. claude'.turn = now /\ claude'.sub = claude.sub
    BY <1>1, <2>1
  <2>3. ASSUME NEW r \in AllLines, r.by = "claude" PROVE r.at < now
    <3>1. half[claude.on] = None
      BY <1>4 DEF PromptedAs, MainGrows
    <3>2. \A c \in Conversations : half[c] = None
      BY <3>1 DEF HalfInv
    <3>3. \E c \in Conversations : r \in Refused!LinesOf(c)
      BY <3>2 DEF AllLines
    <3>4. QED
      BY <1>4, <2>3, <3>3 DEF PromptedAs
  <2>4. ASSUME NEW x \in AllLines', x.what = "prompt", x.by = "claude",
               NEW r \in AllLines', r.what = "refusal", r.by = "claude"
        PROVE  r.at < x.at \/ r.turn >= x.at
    <3>1. r \in AllLines
      BY <2>1, <2>4
    <3>2. CASE x = e
      BY <2>1, <2>3, <2>4, <3>1, <3>2
    <3>3. CASE x \in AllLines
      BY <2>4, <3>1, <3>3 DEF TurnInv
    <3>4. QED
      BY <2>1, <3>2, <3>3
  <2>5. ASSUME NEW x \in AllLines' PROVE x.at <= claude'.turn
    BY <1>1, <1>2, <2>1, <2>2
  <2>6. claude'.turn <= now' /\ claude'.sub <= now'
    BY <1>1, <2>1, <2>2
  <2>7. QED
    BY <2>4, <2>5, <2>6 DEF TurnInv
<1>5. ASSUME NEW e \in RLines, AddsLine(e), RefusedAs(e) PROVE TurnInv'
  <2>1. /\ AllLines' = AllLines \cup {e} /\ now' = now /\ e.what = "refusal"
        /\ e.turn = claude.turn /\ claude.turn > 0
        /\ claude' = [claude EXCEPT !.turn = 0]
    BY <1>5 DEF AddsLine, NewLine, RefusedAs
  <2>2. claude'.turn = 0 /\ claude'.sub = claude.sub
    BY <1>1, <2>1
  <2>3. ASSUME NEW x \in AllLines', x.what = "prompt", x.by = "claude",
               NEW r \in AllLines', r.what = "refusal", r.by = "claude"
        PROVE  r.at < x.at \/ r.turn >= x.at
    <3>1. x \in AllLines
      BY <2>1, <2>3
    <3>2. CASE r = e
      <4>1. x.at <= claude.turn
        BY <2>1, <2>3, <3>1 DEF TurnInv
      <4>2. QED
        BY <1>1, <1>2, <2>1, <3>1, <3>2, <4>1
    <3>3. CASE r \in AllLines
      BY <2>3, <3>1, <3>3 DEF TurnInv
    <3>4. QED
      BY <2>1, <3>2, <3>3
  <2>4. claude'.turn <= now' /\ claude'.sub <= now' /\ ~(claude'.turn > 0)
    BY <1>1, <2>1, <2>2
  <2>5. QED
    BY <2>3, <2>4 DEF TurnInv
<1>6. ASSUME NEW e \in RLines, AddsLine(e), SubRefusedAs(e) \/ OtherAs(e) PROVE TurnInv'
  <2>1. /\ AllLines' = AllLines \cup {e} /\ now' = now
        /\ ~(e.what \in {"prompt", "refusal"} /\ e.by = "claude")
        /\ claude'.turn = claude.turn /\ claude'.sub \in {0, claude.sub}
    BY <1>1, <1>6 DEF AddsLine, NewLine, SubRefusedAs, OtherAs
  <2>2. ASSUME NEW x \in AllLines', x.what = "prompt", x.by = "claude"
        PROVE  /\ x \in AllLines
               /\ \A r \in AllLines' : r.what = "refusal" /\ r.by = "claude" => r \in AllLines
    BY <2>1, <2>2
  <2>3. claude'.turn <= now' /\ claude'.sub <= now'
    BY <1>1, <2>1
  <2>4. QED
    BY <2>1, <2>2, <2>3 DEF TurnInv
<1>7. ASSUME NEW c \in Conversations, EndedAs(c), AllLines' = AllLines PROVE TurnInv'
  BY <1>1, <1>3, <1>7 DEF EndedAs
<1>8. ASSUME NoLine, AllLines' = AllLines PROVE TurnInv'
  BY <1>1, <1>3, <1>8 DEF NoLine
<1>9. ASSUME ReadAs, AllLines' = AllLines PROVE TurnInv'
  BY <1>1, <1>3, <1>9 DEF ReadAs
<1>10. QED
  BY <1>4, <1>5, <1>6, <1>7, <1>8, <1>9, StepLines

\* When a prompt was last typed is when one was.
LEMMA PromptReadKept ==
  ASSUME ReaderTypes, ReaderTypes', CountInv, WhereInv, SaidInv, PromptReadInv,
         Len(put) \in 1..MaxLogins, put \in Seq(Nat), [Refused!Next]_(Refused!vars)
  PROVE  PromptReadInv'
<1>1. AllLines \subseteq AllLines'
  BY StepLines DEF AddsLine
<1>2. promptAt' = promptAt \/ \E x \in AllLines : x.what = "prompt" /\ x.at = promptAt'
  <2>1. CASE SameFollower
    BY <2>1 DEF SameFollower
  <2>2. CASE ReadAs
    BY <2>2, ReadKinds DEF ReadOnAs, WholeAs, FromEndAs, Took, PromptRead
  <2>3. QED
    BY <2>1, <2>2, FollowerStep
<1>3. QED
  BY <1>1, <1>2 DEF PromptReadInv

-----------------------------------------------------------------------------
\* The lines a poll hands on: whole ones of the record read.
LEMMA ToldLines ==
  ASSUME ReaderTypes, CountInv, PlaceInv, NEW c \in Conversations, NEW tail, NEW s, NEW k,
         Told(c, tail, s, k)
  PROVE  /\ k \in 1..Cardinality(AllLines)
         /\ \A d \in Conversations : half[d] # None => half[d].n # k
         /\ \A d \in Conversations : \A i \in 1..Len(record[d]) : record[d][i].n = k =>
              /\ d = c /\ 2 * i > tail.offset /\ record[d][i].what # "prompt"
              /\ 2 * (i - 1) >= tail.offset \/ tail.rest
         /\ \A d \in Conversations : \A j \in 1..Len(subRecord[d]) : subRecord[d][j].n = k =>
              d = c /\ j > s /\ subRecord[d][j].what # "prompt"
<1>1. PICK e \in Refused!Gains(c, tail, s) : e.n = k /\ e.what # "prompt"
  BY DEF Told
<1>2. CASE \E i \in 1..Len(record[c]) : /\ e = record[c][i] /\ 2 * i > tail.offset
                                        /\ 2 * (i - 1) >= tail.offset \/ tail.rest
  <2>1. PICK i \in 1..Len(record[c]) : /\ e = record[c][i] /\ 2 * i > tail.offset
                                       /\ 2 * (i - 1) >= tail.offset \/ tail.rest
    BY <1>2
  <2>2. k \in 1..Cardinality(AllLines)
    BY <1>1, <2>1, OnePlace
  <2>3. ASSUME NEW d \in Conversations, half[d] # None PROVE half[d].n # k
    BY <1>1, <2>1, <2>3 DEF PlaceInv, HalfApart
  <2>4. ASSUME NEW d \in Conversations, NEW j \in 1..Len(record[d]), record[d][j].n = k
        PROVE  d = c /\ j = i
    BY <1>1, <2>1, <2>4 DEF PlaceInv, MainApart
  <2>5. ASSUME NEW d \in Conversations, NEW j \in 1..Len(subRecord[d]), subRecord[d][j].n = k
        PROVE  FALSE
    BY <1>1, <2>1, <2>5 DEF PlaceInv, BothApart
  <2>6. QED
    BY <1>1, <2>1, <2>2, <2>3, <2>4, <2>5
<1>3. CASE \E j \in 1..Len(subRecord[c]) : e = subRecord[c][j] /\ j > s
  <2>1. PICK j \in 1..Len(subRecord[c]) : e = subRecord[c][j] /\ j > s
    BY <1>3
  <2>2. k \in 1..Cardinality(AllLines)
    BY <1>1, <2>1, OnePlace
  <2>3. ASSUME NEW d \in Conversations, half[d] # None PROVE half[d].n # k
    BY <1>1, <2>1, <2>3 DEF PlaceInv, HalfApart
  <2>4. ASSUME NEW d \in Conversations, NEW i \in 1..Len(record[d]), record[d][i].n = k
        PROVE  FALSE
    BY <1>1, <2>1, <2>4 DEF PlaceInv, BothApart
  <2>5. ASSUME NEW d \in Conversations, NEW i \in 1..Len(subRecord[d]), subRecord[d][i].n = k
        PROVE  d = c /\ i = j
    BY <1>1, <2>1, <2>5 DEF PlaceInv, SubApart
  <2>6. QED
    BY <1>1, <2>1, <2>2, <2>3, <2>4, <2>5
<1>4. QED
  BY <1>1, <1>2, <1>3, GainsAre

\* What a poll reads is handed on for the first time.
LEMMA TookHands ==
  ASSUME ReaderTypes, CountInv, PlaceInv, HandedInv, NEW c \in Conversations, NEW tail, NEW s,
         Took(c, tail, s), following' = c, first' = FALSE, ~first \/ following = None,
         UNCHANGED <<record, half, subRecord>>, main' # None,
         \A k \in 1..(MaxLines + 1) : Told(c, tail, s, k) => handed[k] = 0
  PROVE  HandedInv'
<1>1. /\ handed \in [1..(MaxLines + 1) -> Nat] /\ MaxLines \in Nat
      /\ Cardinality(AllLines) \in Nat /\ Cardinality(AllLines) <= MaxLines + 1
  BY RefusedAssumption, WrittenIs DEF ReaderTypes, CountInv
<1>2. ASSUME NEW k \in 1..(MaxLines + 1)
      PROVE  /\ ~Told(c, tail, s, k) => handed'[k] = handed[k]
             /\ Told(c, tail, s, k) => handed'[k] = 1
  BY <1>1 DEF Took
<1>3. ASSUME NEW k \in 1..Cardinality(AllLines) PROVE k \in 1..(MaxLines + 1) /\ handed[k] \in Nat
  BY <1>1
<1>4. AllLines' = AllLines
  BY DEF AllLines, Refused!LinesOf, Refused!Elements
<1>5. OnceInv'
  <2>1. ASSUME NEW k \in 1..(MaxLines + 1)
        PROVE  handed'[k] <= 1 /\ (k > Cardinality(AllLines) => handed'[k] = 0)
    <3>1. handed[k] <= 1 /\ (k > Cardinality(AllLines) => handed[k] = 0)
      BY DEF HandedInv, OnceInv
    <3>2. CASE Told(c, tail, s, k)
      BY <1>1, <1>2, <3>2, ToldLines
    <3>3. CASE ~Told(c, tail, s, k)
      BY <1>2, <3>1, <3>3
    <3>4. QED
      BY <3>2, <3>3
  <2>2. QED
    BY <1>4, <2>1 DEF OnceInv
<1>6. HalfHanded'
  <2>1. ASSUME NEW d \in Conversations, half[d] # None PROVE handed'[half[d].n] = 0
    <3>1. half[d].n \in 1..(MaxLines + 1) /\ handed[half[d].n] = 0
      BY <1>3, <2>1, OnePlace DEF HandedInv, HalfHanded
    <3>2. ~Told(c, tail, s, half[d].n)
      BY <2>1, ToldLines
    <3>3. QED
      BY <1>2, <3>1, <3>2
  <2>2. QED
    BY <2>1 DEF HalfHanded
<1>7. MainHanded'
  <2>1. ASSUME NEW d \in Conversations, NEW i \in 1..Len(record[d]), handed'[record[d][i].n] > 0
        PROVE  record[d][i].what # "prompt"
    <3>1. record[d][i].n \in 1..(MaxLines + 1)
      BY <1>3, OnePlace
    <3>2. CASE Told(c, tail, s, record[d][i].n)
      BY <3>2, ToldLines
    <3>3. CASE ~Told(c, tail, s, record[d][i].n)
      BY <1>2, <2>1, <3>1, <3>3 DEF HandedInv, MainHanded
    <3>4. QED
      BY <3>2, <3>3
  <2>2. ASSUME NEW i \in 1..Len(record[c]) PROVE 2 * i <= main'.offset
    BY Sizes, Lengths DEF Took
  <2>3. QED
    BY <2>1, <2>2 DEF MainHanded
<1>8. SubHanded'
  <2>1. ASSUME NEW d \in Conversations, NEW j \in 1..Len(subRecord[d]),
               handed'[subRecord[d][j].n] > 0
        PROVE  Refused!Size(d) > 0 /\ subRecord[d][j].what # "prompt"
    <3>1. subRecord[d][j].n \in 1..(MaxLines + 1)
      BY <1>3, OnePlace
    <3>2. CASE Told(c, tail, s, subRecord[d][j].n)
      BY <3>2, ToldLines DEF Took
    <3>3. CASE ~Told(c, tail, s, subRecord[d][j].n)
      BY <1>2, <2>1, <3>1, <3>3 DEF HandedInv, SubHanded
    <3>4. QED
      BY <3>2, <3>3
  <2>2. ASSUME NEW j \in 1..Len(subRecord[c]) PROVE j <= sub'
    BY Lengths DEF Took
  <2>3. ASSUME NEW d PROVE Refused!Size(d)' = Refused!Size(d)
    BY DEF Refused!Size
  <2>4. QED
    BY <2>1, <2>2, <2>3 DEF SubHanded
<1>9. QED
  BY <1>5, <1>6, <1>7, <1>8 DEF HandedInv

\* A step that reads nothing hands nothing on.
LEMMA GrowthHands ==
  ASSUME ReaderTypes, ReaderTypes', CountInv, CountInv', HalfInv, HandedInv,
         Len(put) \in 1..MaxLogins, put \in Seq(Nat), [Refused!Next]_(Refused!vars), SameFollower
  PROVE  HandedInv'
<1>1. handed' = handed /\ first' = first /\ following' = following /\ main' = main /\ sub' = sub
  BY DEF SameFollower
<1>2. /\ MaxLines \in Nat /\ Cardinality(AllLines) \in Nat /\ Cardinality(AllLines) <= MaxLines + 1
  BY RefusedAssumption, WrittenIs DEF CountInv
<1>3. Cardinality(AllLines') \in Nat /\ Cardinality(AllLines) <= Cardinality(AllLines')
  <2>1. AllLines \subseteq AllLines' /\ IsFiniteSet(AllLines')
    BY StepLines DEF AddsLine, CountInv
  <2>2. QED
    BY <2>1, FS_Subset, FS_CardinalityType
<1>4. OnceInv'
  <2>1. ASSUME NEW k \in 1..(MaxLines + 1)
        PROVE  handed[k] <= 1 /\ (first \/ k > Cardinality(AllLines') => handed[k] = 0)
    BY <1>2, <1>3 DEF HandedInv, OnceInv
  <2>2. QED
    BY <1>1, <2>1 DEF OnceInv
<1>5. ASSUME NEW e \in AllLines', e.n = Cardinality(AllLines) + 1 PROVE handed[e.n] = 0
  <2>1. Cardinality(AllLines') <= MaxLines + 1 /\ e.n \in 1..Cardinality(AllLines')
    BY DEF CountInv
  <2>2. e.n \in 1..(MaxLines + 1) /\ e.n > Cardinality(AllLines)
    BY <1>2, <1>3, <1>5, <2>1
  <2>3. QED
    BY <2>2 DEF HandedInv, OnceInv
<1>6. ASSUME NEW d \in Conversations
      PROVE  /\ \A i \in 1..Len(record'[d]) : record'[d][i] \in AllLines'
             /\ \A j \in 1..Len(subRecord'[d]) : subRecord'[d][j] \in AllLines'
             /\ half'[d] # None => half'[d] \in AllLines'
  <2>1. /\ DOMAIN record'[d] = 1..Len(record'[d]) /\ DOMAIN subRecord'[d] = 1..Len(subRecord'[d])
    BY DEF ReaderTypes
  <2>2. QED
    BY <2>1 DEF AllLines, Refused!LinesOf, Refused!Elements
<1>7. /\ half \in [Conversations -> RLines \cup {None}]
  BY DEF ReaderTypes
<1>8. HalfHanded'
  <2>1. ASSUME NEW d \in Conversations, half'[d] # None PROVE handed[half'[d].n] = 0
    <3>1. half'[d] = half[d] \/ half'[d].n = Cardinality(AllLines) + 1
      <4>1. ASSUME NEW c \in Conversations, half' = [half EXCEPT ![c] = None] PROVE half'[d] = half[d]
        BY <1>7, <2>1, <4>1
      <4>2. ASSUME NEW c \in Conversations, NEW e \in RLines, half' = [half EXCEPT ![c] = e],
                   e.n = Cardinality(AllLines) + 1
            PROVE  half'[d] = half[d] \/ half'[d].n = Cardinality(AllLines) + 1
        BY <1>7, <4>2
      <4>3. QED
        BY <4>1, <4>2, Places
    <3>2. CASE half'[d] = half[d]
      BY <2>1, <3>2 DEF HandedInv, HalfHanded
    <3>3. CASE half'[d].n = Cardinality(AllLines) + 1
      BY <1>5, <1>6, <2>1, <3>3
    <3>4. QED
      BY <3>1, <3>2, <3>3
  <2>2. QED
    BY <1>1, <2>1 DEF HalfHanded
<1>9. ASSUME NEW d \in Conversations, NEW i \in 1..Len(record'[d])
      PROVE  \/ i \in 1..Len(record[d]) /\ record'[d][i] = record[d][i]
             \/ handed[record'[d][i].n] = 0
  <2>1. CASE record' = record
    BY <2>1
  <2>2. ASSUME NEW c \in Conversations, NEW e \in RLines, GrownAt(record, record', c, e),
               half[c] = e \/ e.n = Cardinality(AllLines) + 1
        PROVE  \/ i \in 1..Len(record[d]) /\ record'[d][i] = record[d][i]
               \/ handed[record'[d][i].n] = 0
    <3>1. \/ i \in 1..Len(record[d]) /\ record'[d][i] = record[d][i]
          \/ record'[d][i] = e
      <4>1. Len(record[c]) \in Nat
        BY Lengths
      <4>2. CASE d = c
        BY <2>2, <4>1, <4>2 DEF GrownAt
      <4>3. CASE d # c
        BY <2>2, <4>3 DEF GrownAt
      <4>4. QED
        BY <4>2, <4>3
    <3>2. CASE record'[d][i] = e /\ half[c] = e
      <4>1. half[c] # None
        BY <2>2, <3>2, RefusedAssumption DEF RLines
      <4>2. QED
        BY <3>2, <4>1 DEF HandedInv, HalfHanded
    <3>3. CASE record'[d][i] = e /\ e.n = Cardinality(AllLines) + 1
      BY <1>5, <1>6, <3>3
    <3>4. QED
      BY <2>2, <3>1, <3>2, <3>3
  <2>3. QED
    BY <2>1, <2>2, Places
<1>10. MainHanded'
  <2>1. ASSUME NEW d \in Conversations, NEW i \in 1..Len(record'[d]), handed[record'[d][i].n] > 0
        PROVE  record'[d][i].what # "prompt" /\ (d = following => main # None /\ 2 * i <= main.offset)
    <3>1. i \in 1..Len(record[d]) /\ record'[d][i] = record[d][i]
      BY <1>9, <2>1
    <3>2. QED
      BY <2>1, <3>1 DEF HandedInv, MainHanded
  <2>2. QED
    BY <1>1, <2>1 DEF MainHanded
<1>11. ASSUME NEW d \in Conversations, NEW j \in 1..Len(subRecord'[d])
       PROVE  \/ j \in 1..Len(subRecord[d]) /\ subRecord'[d][j] = subRecord[d][j]
              \/ handed[subRecord'[d][j].n] = 0
  <2>1. CASE subRecord' = subRecord
    BY <2>1
  <2>2. ASSUME NEW c \in Conversations, NEW e \in RLines, GrownAt(subRecord, subRecord', c, e),
               e.n = Cardinality(AllLines) + 1
        PROVE  \/ j \in 1..Len(subRecord[d]) /\ subRecord'[d][j] = subRecord[d][j]
               \/ handed[subRecord'[d][j].n] = 0
    <3>1. \/ j \in 1..Len(subRecord[d]) /\ subRecord'[d][j] = subRecord[d][j]
          \/ subRecord'[d][j] = e
      <4>1. Len(subRecord[c]) \in Nat
        BY Lengths
      <4>2. CASE d = c
        BY <2>2, <4>1, <4>2 DEF GrownAt
      <4>3. CASE d # c
        BY <2>2, <4>3 DEF GrownAt
      <4>4. QED
        BY <4>2, <4>3
    <3>2. CASE subRecord'[d][j] = e
      BY <1>5, <1>6, <2>2, <3>2
    <3>3. QED
      BY <3>1, <3>2
  <2>3. QED
    BY <2>1, <2>2, Places
<1>12. SubHanded'
  <2>1. ASSUME NEW d \in Conversations, NEW j \in 1..Len(subRecord'[d]),
               handed[subRecord'[d][j].n] > 0
        PROVE  /\ Refused!Size(d)' > 0 /\ subRecord'[d][j].what # "prompt"
               /\ d = following => j <= sub
    <3>1. j \in 1..Len(subRecord[d]) /\ subRecord'[d][j] = subRecord[d][j]
      BY <1>11, <2>1
    <3>2. /\ Refused!Size(d) > 0 /\ subRecord[d][j].what # "prompt" /\ (d = following => j <= sub)
      BY <2>1, <3>1 DEF HandedInv, SubHanded
    <3>3. Refused!Size(d) \in Nat /\ Refused!Size(d)' \in Nat /\ Refused!Size(d) <= Refused!Size(d)'
      BY RecordsGrow, Sizes
    <3>4. QED
      BY <3>1, <3>2, <3>3
  <2>2. QED
    BY <1>1, <2>1 DEF SubHanded
<1>13. QED
  BY <1>4, <1>8, <1>10, <1>12 DEF HandedInv

\* What a poll reads was not handed on before.
LEMMA FreshTold ==
  ASSUME ReaderTypes, HandedInv, NEW c \in Conversations, following = c, NEW tail,
         NEW k \in 1..(MaxLines + 1), Told(c, tail, sub, k), main = None \/ (main # None /\ tail = main)
  PROVE  handed[k] = 0
<1>1. PICK e \in Refused!Gains(c, tail, sub) : e.n = k
  BY DEF Told
<1>2. handed[k] \in Nat
  BY DEF ReaderTypes
<1>3. CASE \E i \in 1..Len(record[c]) : e = record[c][i] /\ 2 * i > tail.offset
  <2>1. PICK i \in 1..Len(record[c]) : e = record[c][i] /\ 2 * i > tail.offset
    BY <1>3
  <2>2. ~(main # None /\ 2 * i <= main.offset)
    <3>1. CASE main = None
      BY <3>1
    <3>2. CASE main # None
      <4>1. main.offset \in Nat /\ main = tail
        BY <3>2 DEF ReaderTypes
      <4>2. QED
        BY <2>1, <4>1
    <3>3. QED
      BY <3>1, <3>2
  <2>3. ~(handed[k] > 0)
    BY <1>1, <2>1, <2>2 DEF HandedInv, MainHanded
  <2>4. QED
    BY <1>2, <2>3
<1>4. CASE \E j \in 1..Len(subRecord[c]) : e = subRecord[c][j] /\ j > sub
  <2>1. PICK j \in 1..Len(subRecord[c]) : e = subRecord[c][j] /\ j > sub
    BY <1>4
  <2>2. ~(j <= sub)
    BY <2>1 DEF ReaderTypes
  <2>3. ~(handed[k] > 0)
    BY <1>1, <2>1, <2>2 DEF HandedInv, SubHanded
  <2>4. QED
    BY <1>2, <2>3
<1>5. QED
  BY <1>1, <1>3, <1>4, GainsAre

LEMMA HandedKept ==
  ASSUME ReaderTypes, ReaderTypes', CountInv, CountInv', HalfInv, PlaceInv, WhereInv, SaidInv,
         HandedInv, Len(put) \in 1..MaxLogins, put \in Seq(Nat), [Refused!Next]_(Refused!vars)
  PROVE  HandedInv'
<1>1. CASE SameFollower
  BY <1>1, GrowthHands
<1>2. CASE ReadAs
  <2>1. PICK c \in Conversations : c = claude.on /\ c # None
    BY RefusedAssumption DEF ReaderTypes
  <2>2. UNCHANGED <<record, half, subRecord>>
    BY <1>2 DEF ReadAs
  <2>3. ReadOnAs(c) \/ WholeAs(c) \/ FromEndAs(c)
    BY <1>2, <2>1, ReadKinds
  <2>4. /\ Refused!Size(c) \in Nat /\ Len(record[c]) \in Nat /\ Len(subRecord[c]) \in Nat
        /\ 2 * Len(record[c]) <= Refused!Size(c)
    BY Sizes, Lengths
  <2>5. AllLines' = AllLines
    BY <2>2 DEF AllLines, Refused!LinesOf, Refused!Elements
  <2>6. (first <=> following = None) /\ None \notin Tails
    BY RefusedAssumption DEF ReaderTypes, Tails
  <2>7. ASSUME NEW d \in Conversations PROVE Refused!Size(d)' = Refused!Size(d)
    BY <2>2 DEF Refused!Size
  <2>8. ASSUME NEW k \in 1..(MaxLines + 1), first PROVE handed[k] = 0
    BY <2>8 DEF HandedInv, OnceInv
  <2>9. CASE ReadOnAs(c)
    <3>1. CASE /\ main' = main /\ sub' = sub /\ handed' = handed
      <4>1. first' = first /\ following' = following
        BY <2>9 DEF ReadOnAs
      <4>2. OnceInv' /\ HalfHanded' /\ MainHanded'
        BY <2>2, <2>5, <3>1, <4>1 DEF HandedInv, OnceInv, HalfHanded, MainHanded
      <4>3. SubHanded'
        BY <2>2, <2>7, <3>1, <4>1 DEF HandedInv, SubHanded
      <4>4. QED
        BY <4>2, <4>3 DEF HandedInv
    <3>2. ASSUME NEW tail, Took(c, tail, sub), main = None \/ (main # None /\ tail = main)
          PROVE  HandedInv'
      <4>1. following = c /\ following' = c /\ first' = FALSE /\ ~first
        BY <2>1, <2>6, <2>9 DEF ReadOnAs, ReaderTypes
      <4>2. main' # None
        BY <2>6, <3>2 DEF Took
      <4>3. \A k \in 1..(MaxLines + 1) : Told(c, tail, sub, k) => handed[k] = 0
        BY <3>2, <4>1, FreshTold
      <4>4. QED
        BY <2>2, <3>2, <4>1, <4>2, <4>3, TookHands
    <3>3. QED
      BY <2>9, <3>1, <3>2 DEF ReadOnAs
  <2>10. ASSUME handed' = handed, following' = c, first' = FALSE,
                \/ Refused!Size(c) = 0 /\ main' = None
                \/ /\ Refused!Size(c) > 0 /\ sub' = Len(subRecord[c])
                   /\ main' # None /\ main'.offset = Refused!Size(c)
         PROVE  HandedInv'
    <3>1. OnceInv' /\ HalfHanded'
      BY <2>2, <2>5, <2>10 DEF HandedInv, OnceInv, HalfHanded
    <3>2. MainHanded'
      <4>1. ASSUME NEW i \in 1..Len(record[c]) PROVE main' # None /\ 2 * i <= main'.offset
        BY <2>4, <2>10
      <4>2. QED
        BY <2>2, <2>10, <4>1 DEF HandedInv, MainHanded
    <3>3. SubHanded'
      <4>1. ASSUME NEW j \in 1..Len(subRecord[c]), Refused!Size(c) > 0 PROVE j <= sub'
        BY <2>4, <2>10, <4>1
      <4>2. QED
        BY <2>2, <2>7, <2>10, <4>1 DEF HandedInv, SubHanded
    <3>4. QED
      BY <3>1, <3>2, <3>3 DEF HandedInv
  <2>11. CASE WholeAs(c)
    <3>1. CASE Refused!Size(c) = 0 /\ main' = None /\ handed' = handed
      BY <2>10, <2>11, <3>1 DEF WholeAs
    <3>2. CASE Took(c, AtTop, 0)
      <4>1. following' = c /\ first' = FALSE /\ first /\ following = None
        BY <2>6, <2>11 DEF WholeAs
      <4>2. main' # None
        BY <2>6, <3>2 DEF Took
      <4>3. QED
        BY <2>2, <2>8, <3>2, <4>1, <4>2, TookHands
    <3>3. QED
      BY <2>11, <3>1, <3>2 DEF WholeAs
  <2>12. CASE FromEndAs(c)
    BY <2>6, <2>10, <2>12 DEF FromEndAs
  <2>13. QED
    BY <2>3, <2>9, <2>11, <2>12
<1>3. QED
  BY <1>1, <1>2, FollowerStep

-----------------------------------------------------------------------------
\* What a conversation had when it was resumed stays behind the reader.
LEMMA ResumedKept ==
  ASSUME ReaderTypes, ReaderTypes', CountInv, HalfInv, PlaceInv, WhereInv, SaidInv, ResumedInv,
         Len(put) \in 1..MaxLogins, put \in Seq(Nat), [Refused!Next]_(Refused!vars)
  PROVE  ResumedInv'
<1> DEFINE c0 == CHOOSE d \in Conversations : TRUE
<1>0. PICK f : f = c0 /\ f \in Conversations
  BY RefusedAssumption
<1> HIDE DEF c0
<1>1. startsNew' = startsNew
  BY FollowerStep DEF SameFollower, ReadAs
<1> SUFFICES ASSUME ~startsNew
             PROVE  /\ Len(record'[f]) > 0 /\ record'[f][1].n = 1 /\ handed'[1] = 0
                    /\ following' = f => main' # None /\ main'.offset >= 2
  BY <1>0, <1>1 DEF ResumedInv, c0
<1>2. /\ Len(record[f]) > 0 /\ record[f][1].n = 1 /\ handed[1] = 0
      /\ following = f => main # None /\ main.offset >= 2
  BY <1>0 DEF ResumedInv, c0
<1>3. Len(record[f]) \in Nat /\ 1 \in 1..Len(record[f])
  BY <1>0, <1>2, Lengths
<1>4. CASE SameFollower
  <2>1. Len(record'[f]) > 0 /\ record'[f][1] = record[f][1]
    <3>1. CASE record' = record
      BY <1>2, <3>1
    <3>2. ASSUME NEW c \in Conversations, NEW e \in RLines, GrownAt(record, record', c, e)
          PROVE  Len(record'[f]) > 0 /\ record'[f][1] = record[f][1]
      <4>1. CASE c = f
        BY <1>3, <3>2, <4>1 DEF GrownAt
      <4>2. CASE c # f
        BY <1>0, <1>2, <3>2, <4>2 DEF GrownAt
      <4>3. QED
        BY <4>1, <4>2
    <3>3. QED
      BY <3>1, <3>2, Places
  <2>2. QED
    BY <1>2, <1>4, <2>1 DEF SameFollower
<1>5. CASE ReadAs
  <2>1. PICK c \in Conversations : c = claude.on /\ c # None
    BY RefusedAssumption DEF ReaderTypes
  <2>2. record' = record
    BY <1>5 DEF ReadAs
  <2>3. ReadOnAs(c) \/ WholeAs(c) \/ FromEndAs(c)
    BY <1>5, <2>1, ReadKinds
  <2>4. Refused!Size(f) >= 2
    BY <1>0, <1>3, Sizes
  <2>5. handed \in [1..(MaxLines + 1) -> Nat] /\ 1 \in 1..(MaxLines + 1)
    <3>1. MaxLines \in Nat
      BY RefusedAssumption
    <3>2. 1 \in 1..(MaxLines + 1)
      BY <3>1
    <3>3. QED
      BY <3>2 DEF ReaderTypes
  <2>6. ASSUME NEW tail \in Tails, NEW s, Took(c, tail, s), c = f => tail.offset >= 2
        PROVE  handed'[1] = 0
    <3>1. ~Told(c, tail, s, 1)
      <4>1. SUFFICES ASSUME Told(c, tail, s, 1) PROVE FALSE
        OBVIOUS
      <4>2. f = c /\ 2 * 1 > tail.offset
        BY <1>0, <1>2, <1>3, <4>1, ToldLines
      <4>3. tail.offset \in Nat
        BY DEF Tails
      <4>4. QED
        BY <2>6, <4>2, <4>3
    <3>2. QED
      BY <1>2, <2>5, <2>6, <3>1 DEF Took
  <2>7. CASE ReadOnAs(c)
    <3>1. following = c /\ following' = c
      BY <2>7 DEF ReadOnAs
    <3>2. CASE main = None /\ main' = None /\ Refused!Size(c) = 0 /\ handed' = handed
      BY <1>2, <2>2, <2>4, <3>1, <3>2
    <3>3. CASE main = None /\ Took(c, AtTop, sub)
      <4>1. c # f
        BY <1>2, <3>1, <3>3
      <4>2. handed'[1] = 0
        BY <2>6, <3>3, <4>1 DEF Took
      <4>3. QED
        BY <1>2, <2>2, <3>1, <4>1, <4>2
    <3>4. CASE main # None /\ Took(c, main, sub)
      <4>1. handed'[1] = 0
        BY <1>2, <2>6, <3>1, <3>4 DEF Took
      <4>2. main'.offset = Refused!Size(c) /\ main' # None
        BY <3>4, RefusedAssumption DEF Took, Tails
      <4>3. QED
        BY <1>2, <2>2, <2>4, <3>1, <4>1, <4>2
    <3>5. QED
      BY <2>7, <3>2, <3>3, <3>4 DEF ReadOnAs
  <2>8. ~WholeAs(c)
    BY DEF WholeAs
  <2>9. CASE FromEndAs(c)
    <3>1. following' = c /\ handed' = handed
      BY <2>9 DEF FromEndAs
    <3>2. c = f => main' # None /\ main'.offset >= 2
      BY <2>4, <2>9, RefusedAssumption DEF FromEndAs, Tails
    <3>3. QED
      BY <1>2, <2>2, <3>1, <3>2
  <2>10. QED
    BY <2>3, <2>7, <2>8, <2>9
<1>6. QED
  BY <1>4, <1>5, FollowerStep

\* A visit that is over stays so.
LEMMA VisitsKept ==
  ASSUME ReaderTypes, CountInv, Len(put) \in 1..MaxLogins, put \in Seq(Nat),
         [Refused!Next]_(Refused!vars)
  PROVE  windows \subseteq windows'
BY RefusedStep, WrittenIs DEF PromptedAs, RefusedAs, SubRefusedAs, OtherAs, NewLine, EndedAs, NoLine,
   ReadAs

\* What was read stays handed on.
LEMMA ReadKept ==
  ASSUME ReaderTypes, ReaderTypes', CountInv, HalfInv, PlaceInv, WhereInv, SaidInv, HandedInv,
         ReadInv, Len(put) \in 1..MaxLogins, put \in Seq(Nat), [Refused!Next]_(Refused!vars)
  PROVE  ReadInv'
<1> SUFFICES ASSUME NEW c \in Conversations, c = following', main' # None
             PROVE  WasHanded(c)' /\ MiddlePast(c)'
  BY DEF ReadInv
<1>1. /\ Refused!Size(c) \in Nat /\ Len(record[c]) \in Nat
      /\ half[c] = None => Refused!Size(c) = 2 * Len(record[c])
      /\ half[c] # None => Refused!Size(c) = 2 * Len(record[c]) + 1
      /\ half \in [Conversations -> RLines \cup {None}]
  BY Sizes, Lengths DEF ReaderTypes
<1>2. CASE SameFollower
  <2>1. /\ main' = main /\ handed' = handed /\ past' = past /\ c = following /\ main # None
    BY <1>2 DEF SameFollower
  <2>2. WasHanded(c) /\ MiddlePast(c) /\ main.offset \in 1..Refused!Size(c)
    BY <2>1 DEF ReadInv, WhereInv
  <2>3. main.offset \in Nat /\ main.offset <= Refused!Size(c)
    BY <1>1, <2>2
  <2>4. ASSUME NEW i \in 1..Len(record'[c])
        PROVE  \/ i \in 1..Len(record[c]) /\ record'[c][i] = record[c][i]
               \/ /\ i = Len(record[c]) + 1
                  /\ half[c] = None \/ record'[c][i] = half[c]
    <3>1. CASE record' = record
      BY <3>1
    <3>2. ASSUME NEW d \in Conversations, NEW e \in RLines, GrownAt(record, record', d, e),
                 half[d] = None \/ half[d] = e
          PROVE  \/ i \in 1..Len(record[c]) /\ record'[c][i] = record[c][i]
                 \/ /\ i = Len(record[c]) + 1
                    /\ half[c] = None \/ record'[c][i] = half[c]
      <4>1. CASE c = d
        BY <1>1, <3>2, <4>1 DEF GrownAt
      <4>2. CASE c # d
        BY <3>2, <4>2 DEF GrownAt
      <4>3. QED
        BY <4>1, <4>2
    <3>3. QED
      BY <3>1, <3>2, Places
  <2>5. WasHanded(c)'
    <3>1. ASSUME NEW i \in 1..Len(record'[c]), 2 * i <= main.offset,
                 record'[c][i].what = "refusal", record'[c][i].n \notin past,
                 ~Refused!Ignores(record[c][i])'
          PROVE  handed[record'[c][i].n] = 1
      <4>1. i \in 1..Len(record[c]) /\ record'[c][i] = record[c][i]
        <5>1. main.offset < 2 * (Len(record[c]) + 1)
          BY <1>1, <2>3
        <5>2. i # Len(record[c]) + 1
          BY <1>1, <2>3, <3>1, <5>1
        <5>3. QED
          BY <2>4, <5>2
      <4>2. ~Refused!Ignores(record[c][i])
        BY <3>1, <4>1, VisitsKept DEF Refused!Ignores
      <4>3. QED
        BY <2>2, <3>1, <4>1, <4>2 DEF WasHanded
    <3>2. QED
      BY <2>1, <3>1 DEF WasHanded
  <2>6. MiddlePast(c)'
    <3>1. SUFFICES ASSUME ~main.rest
                   PROVE  /\ \A i \in 1..Len(record'[c]) :
                               2 * i = main.offset + 1 => record'[c][i].n \in past
                          /\ half'[c] # None /\ main.offset = Refused!Size(c)' =>
                               half'[c].n \in past
      BY <2>1 DEF MiddlePast
    <3>2. ASSUME NEW i \in 1..Len(record'[c]), 2 * i = main.offset + 1
          PROVE  record'[c][i].n \in past
      <4>1. CASE i \in 1..Len(record[c]) /\ record'[c][i] = record[c][i]
        BY <2>2, <3>1, <3>2, <4>1 DEF MiddlePast
      <4>2. CASE i = Len(record[c]) + 1 /\ half[c] = None
        BY <1>1, <2>3, <3>2, <4>2
      <4>3. CASE i = Len(record[c]) + 1 /\ half[c] # None /\ record'[c][i] = half[c]
        <5>1. main.offset = Refused!Size(c)
          BY <1>1, <2>3, <3>2, <4>3
        <5>2. QED
          BY <2>2, <3>1, <4>3, <5>1 DEF MiddlePast
      <4>4. QED
        BY <2>4, <4>1, <4>2, <4>3
    <3>3. ASSUME half'[c] # None, main.offset = Refused!Size(c)' PROVE half'[c].n \in past
      <4>1. Refused!Size(c)' = 2 * Len(record'[c]) + 1 /\ Refused!Size(c) <= Refused!Size(c)'
        BY <3>3, RecordsGrow
      <4>2. Len(record'[c]) \in Nat /\ Len(record[c]) <= Len(record'[c])
        <5>1. record'[c] \in Seq(RLines)
          BY DEF ReaderTypes
        <5>2. QED
          BY <5>1, RecordsGrow
      <4>3. half[c] # None /\ main.offset = Refused!Size(c) /\ Len(record'[c]) = Len(record[c])
        <5>1. Refused!Size(c) = 2 * Len(record'[c]) + 1 /\ main.offset = Refused!Size(c)
          BY <1>1, <2>3, <3>3, <4>1, <4>2
        <5>2. half[c] # None
          BY <1>1, <4>2, <5>1
        <5>3. QED
          BY <1>1, <4>2, <5>1, <5>2
      <4>4. half'[c] = half[c]
        <5>1. ASSUME NEW d \in Conversations, half' = [half EXCEPT ![d] = None] PROVE half'[c] = half[c]
          BY <1>1, <3>3, <5>1
        <5>2. ASSUME NEW d \in Conversations, NEW e \in RLines, half[d] = None,
                     half' = [half EXCEPT ![d] = e]
              PROVE  half'[c] = half[c]
          BY <1>1, <4>3, <5>2
        <5>3. QED
          BY <5>1, <5>2, Places
      <4>5. QED
        BY <2>2, <3>1, <4>3, <4>4 DEF MiddlePast
    <3>4. QED
      BY <3>2, <3>3
  <2>7. QED
    BY <2>5, <2>6
<1>3. CASE ReadAs
  <2>1. c = claude.on /\ windows' = windows /\ UNCHANGED <<record, half, subRecord>>
    BY <1>3, ReadKinds DEF ReadAs, ReadOnAs, WholeAs, FromEndAs
  <2>2. ReadOnAs(c) \/ WholeAs(c) \/ FromEndAs(c)
    BY <1>3, <2>1, ReadKinds
  <2>3. Refused!Size(c)' = Refused!Size(c) /\ \A e : Refused!Ignores(e)' = Refused!Ignores(e)
    BY <2>1 DEF Refused!Size, Refused!Ignores
  <2>4. handed \in [1..(MaxLines + 1) -> Nat] /\ \A i \in 1..Len(record[c]) :
          record[c][i].n \in 1..(MaxLines + 1)
    <3>1. MaxLines \in Nat /\ Cardinality(AllLines) \in Nat /\ Cardinality(AllLines) <= MaxLines + 1
      BY RefusedAssumption, WrittenIs DEF CountInv
    <3>2. \A k \in 1..Cardinality(AllLines) : k \in 1..(MaxLines + 1)
      BY <3>1
    <3>3. QED
      BY <3>2, OnePlace DEF ReaderTypes
  <2>5. ASSUME NEW tail \in Tails, NEW s, Took(c, tail, s), past' = past,
               \A k \in 1..(MaxLines + 1) : Told(c, tail, s, k) => handed[k] = 0,
               \/ tail.offset = 0
               \/ tail = main /\ main # None /\ c = following
        PROVE  WasHanded(c)' /\ MiddlePast(c)'
    <3>1. /\ tail.offset \in Nat /\ main'.offset = Refused!Size(c) /\ Refused!Size(c) > 0
          /\ main'.rest = IF Refused!Size(c) = tail.offset THEN tail.rest ELSE half[c] # None
      BY <2>5 DEF Took, Tails
    <3>2. tail.offset # 0 => WasHanded(c) /\ MiddlePast(c) /\ tail = main
      BY <2>5 DEF ReadInv
    <3>3. ASSUME NEW i \in 1..Len(record[c]), record[c][i].what = "refusal",
                 record[c][i].n \notin past, ~Refused!Ignores(record[c][i])
          PROVE  handed'[record[c][i].n] = 1
      <4>1. CASE 2 * i <= tail.offset
        <5>1. handed[record[c][i].n] = 1
          BY <3>1, <3>2, <3>3, <4>1, SMTT(30) DEF WasHanded
        <5>2. ~Told(c, tail, s, record[c][i].n)
          BY <2>4, <2>5, <5>1
        <5>3. QED
          BY <2>4, <2>5, <5>1, <5>2 DEF Took
      <4>2. CASE 2 * i > tail.offset /\ (2 * (i - 1) >= tail.offset \/ tail.rest)
        <5>1. record[c][i] \in Refused!Gains(c, tail, s)
          BY <4>2, GainsAre
        <5>2. Told(c, tail, s, record[c][i].n)
          BY <3>3, <5>1 DEF Told
        <5>3. QED
          BY <2>4, <2>5, <5>2 DEF Took
      <4>3. CASE 2 * i > tail.offset /\ 2 * (i - 1) < tail.offset /\ ~tail.rest
        <5>1. 2 * i = tail.offset + 1 /\ tail.offset # 0
          BY <3>1, <4>3
        <5>2. record[c][i].n \in past
          BY <3>2, <4>3, <5>1 DEF MiddlePast
        <5>3. QED
          BY <3>3, <5>2
      <4>4. QED
        BY <3>1, <4>1, <4>2, <4>3
    <3>4. WasHanded(c)'
      BY <2>1, <2>3, <2>5, <3>3 DEF WasHanded
    <3>5. ASSUME ~main'.rest, half[c] # None PROVE half[c].n \in past
      <4>1. Refused!Size(c) = tail.offset /\ ~tail.rest
        BY <3>1, <3>5
      <4>2. QED
        BY <3>1, <3>2, <3>5, <4>1 DEF MiddlePast
    <3>6. ASSUME NEW i \in 1..Len(record[c]) PROVE 2 * i # main'.offset + 1
      BY <1>1, <3>1
    <3>7. MiddlePast(c)'
      BY <2>1, <2>3, <2>5, <3>5, <3>6 DEF MiddlePast
    <3>8. QED
      BY <3>4, <3>7
  <2>6. AtTop \in Tails /\ AtTop.offset = 0
    BY DEF AtTop, Tails
  <2>7. CASE ReadOnAs(c)
    <3>1. following = c /\ past' = past
      BY <2>7 DEF ReadOnAs
    <3>2. CASE main = None /\ Took(c, AtTop, sub)
      BY <2>5, <2>6, <3>1, <3>2, FreshTold
    <3>3. CASE main # None /\ Took(c, main, sub)
      <4>1. main \in Tails
        BY <3>3 DEF Took
      <4>2. QED
        BY <2>5, <3>1, <3>3, <4>1, FreshTold
    <3>4. QED
      BY <2>7, <3>2, <3>3 DEF ReadOnAs
  <2>8. CASE WholeAs(c)
    <3>1. past' = past /\ \A k \in 1..(MaxLines + 1) : handed[k] = 0
      BY <2>8 DEF WholeAs, HandedInv, OnceInv
    <3>2. Took(c, AtTop, 0)
      BY <2>8 DEF WholeAs
    <3>3. QED
      BY <2>5, <2>6, <3>1, <3>2
  <2>9. CASE FromEndAs(c)
    <3>1. /\ \A i \in 1..Len(record[c]) : record[c][i].n \in past'
          /\ half[c] # None => half[c].n \in past'
      BY <2>9 DEF FromEndAs
    <3>2. QED
      BY <2>1, <3>1 DEF WasHanded, MiddlePast
  <2>10. QED
    BY <2>2, <2>7, <2>8, <2>9
<1>4. QED
  BY <1>2, <1>3, FollowerStep

-----------------------------------------------------------------------------
LEMMA RefusedKept == RefusedInv /\ [Refused!Next]_(Refused!vars) => RefusedInv'
<1> SUFFICES ASSUME RefusedInv, [Refused!Next]_(Refused!vars) PROVE RefusedInv'
  OBVIOUS
<1>1. /\ ReaderTypes /\ PutInv /\ HalfInv /\ CountInv /\ PlaceInv /\ SubInv /\ WhereInv
      /\ SaidInv /\ TurnInv /\ PromptReadInv /\ HandedInv /\ ResumedInv /\ ReadInv
      /\ Len(put) \in 1..MaxLogins /\ put \in Seq(Nat)
  BY DEF RefusedInv, PutInv
<1>2. ReaderTypes'
  BY <1>1, ReaderTypesKept
<1>3. PutInv' /\ HalfInv' /\ CountInv' /\ PlaceInv' /\ SubInv'
  BY <1>1, <1>2, PutKept, HalfKept, CountKept, PlaceKept, SubKept
<1>4. WhereInv' /\ SaidInv' /\ TurnInv' /\ PromptReadInv'
  BY <1>1, <1>2, WhereKept, SaidKept, TurnKept, PromptReadKept
<1>5. HandedInv' /\ ResumedInv' /\ ReadInv'
  BY <1>1, <1>2, <1>3, HandedKept, ResumedKept, ReadKept
<1>6. QED
  BY <1>2, <1>3, <1>4, <1>5 DEF RefusedInv

LEMMA RefusedInit == Refused!Init => RefusedInv
<1> SUFFICES ASSUME Refused!Init PROVE RefusedInv
  OBVIOUS
<1> DEFINE c0 == CHOOSE d \in Conversations : TRUE
           resumed == [n |-> 1, what |-> "refusal", at |-> 0, by |-> "claude", login |-> 1, turn |-> 0]
<1>0. PICK f : f = c0 /\ f \in Conversations
  BY RefusedAssumption
<1>1. /\ now = 1 /\ put = <<0>> /\ headless \in BOOLEAN /\ startsNew \in BOOLEAN /\ first = TRUE
      /\ other \in {None, [on |-> f, here |-> TRUE]}
      /\ claude = [on |-> f, turn |-> IF headless THEN 1 ELSE 0, sub |-> 0]
      /\ record = [d \in Conversations |-> IF d = f /\ ~startsNew THEN <<resumed>> ELSE <<>>]
      /\ half = [c \in Conversations |-> None] /\ subRecord = [c \in Conversations |-> <<>>]
      /\ following = None /\ main = None /\ sub = 0 /\ promptAt = 0
      /\ handed = [k \in 1..(MaxLines + 1) |-> 0]
  BY <1>0 DEF Refused!Init
<1>2. resumed \in RLines /\ resumed.n = 1 /\ resumed.at = 0 /\ resumed.by = "claude" /\ resumed.what = "refusal"
  BY DEF RLines
<1> HIDE DEF c0, resumed
<1>3. /\ MaxTime \in Nat /\ MaxTime > 0 /\ MaxLogins \in Nat /\ MaxLogins > 0 /\ MaxLines \in Nat
      /\ None \notin Conversations
  BY RefusedAssumption
<1>4. ASSUME NEW d \in Conversations
      PROVE  /\ record[d] = IF d = f /\ ~startsNew THEN <<resumed>> ELSE <<>>
             /\ subRecord[d] = <<>> /\ half[d] = None
  BY <1>1
<1>5. <<resumed>> \in Seq(RLines) /\ <<>> \in Seq(RLines) /\ Len(<<resumed>>) = 1 /\ <<resumed>>[1] = resumed
  BY <1>2
<1>6. ReaderTypes
  <2>1. now \in 1..MaxTime /\ promptAt \in 0..now /\ sub \in Nat
    BY <1>1, <1>3
  <2>2. claude \in [on : Conversations, turn : Nat, sub : Nat]
    BY <1>0, <1>1
  <2>3. other = None \/ other \in [on : Conversations, here : BOOLEAN]
    <3>1. [on |-> f, here |-> TRUE] \in [on : Conversations, here : BOOLEAN]
      BY <1>0
    <3>2. other = None \/ other = [on |-> f, here |-> TRUE]
      BY <1>1
    <3>3. QED
      BY <3>1, <3>2
  <2>4. /\ record \in [Conversations -> Seq(RLines)] /\ subRecord \in [Conversations -> Seq(RLines)]
        /\ half \in [Conversations -> RLines \cup {None}]
    BY <1>1, <1>5
  <2>5. handed \in [1..(MaxLines + 1) -> Nat]
    BY <1>1
  <2>6. QED
    BY <1>1, <2>1, <2>2, <2>3, <2>4, <2>5 DEF ReaderTypes
<1>7. PutInv
  <2>1. put \in Seq(Nat) /\ Len(put) = 1 /\ put[1] = 0
    BY <1>1
  <2>2. QED
    BY <1>1, <1>3, <2>1 DEF PutInv
<1>8. ASSUME NEW d \in Conversations
      PROVE  /\ Len(subRecord[d]) = 0
             /\ Len(record[d]) = IF d = f /\ ~startsNew THEN 1 ELSE 0
             /\ d = f /\ ~startsNew => record[d][1] = resumed
  <2>1. Len(<<>>) = 0
    OBVIOUS
  <2>2. CASE d = f /\ ~startsNew
    BY <1>4, <1>5, <2>1, <2>2
  <2>3. CASE ~(d = f /\ ~startsNew)
    BY <1>4, <2>1, <2>3
  <2>4. QED
    BY <2>2, <2>3
<1>9. AllLines = IF startsNew THEN {} ELSE {resumed}
  <2>1. ASSUME NEW x
        PROVE  x \in AllLines <=> ~startsNew /\ x = resumed
    <3>1. \A d \in Conversations : At(record, d, x) <=> d = f /\ ~startsNew /\ x = resumed
      BY <1>8 DEF At
    <3>2. \A d \in Conversations : ~At(subRecord, d, x) /\ half[d] = None
      BY <1>4, <1>8 DEF At
    <3>3. QED
      BY <1>0, <1>6, <3>1, <3>2, ALinesPlace
  <2>2. QED
    BY <1>1, <2>1
<1>10. HalfInv
  BY <1>4 DEF HalfInv
<1>11. CountInv
  <2>1. IsFiniteSet({}) /\ Cardinality({}) = 0 /\ IsFiniteSet({resumed}) /\ Cardinality({resumed}) = 1
    BY FS_EmptySet, FS_Singleton
  <2>2. CASE startsNew
    BY <1>3, <1>9, <2>1, <2>2 DEF CountInv
  <2>3. CASE ~startsNew
    <3>1. AllLines = {resumed} /\ Cardinality(AllLines) = 1 /\ IsFiniteSet(AllLines)
      BY <1>9, <2>1, <2>3
    <3>2. \A x \in AllLines : x.n \in 1..1
      BY <1>2, <3>1
    <3>3. QED
      BY <1>3, <2>3, <3>1, <3>2 DEF CountInv
  <2>4. QED
    BY <2>2, <2>3
<1>12. PlaceInv
  <2>1. MainApart
    BY <1>8 DEF MainApart
  <2>2. SubApart /\ BothApart
    BY <1>8 DEF SubApart, BothApart
  <2>3. HalfApart
    BY <1>4 DEF HalfApart
  <2>4. QED
    BY <2>1, <2>2, <2>3 DEF PlaceInv
<1>13. SubInv
  BY <1>8 DEF SubInv
<1>14. WhereInv
  BY <1>1 DEF WhereInv
<1>15. SaidInv
  BY <1>1, <1>2, <1>9 DEF SaidInv
<1>16. TurnInv
  <2>1. claude.turn <= now /\ claude.sub <= now
    BY <1>1
  <2>2. QED
    BY <1>2, <1>9, <2>1 DEF TurnInv
<1>17. PromptReadInv
  BY <1>1 DEF PromptReadInv
<1>18. HandedInv
  <2>1. \A k \in 1..(MaxLines + 1) : handed[k] = 0
    BY <1>1
  <2>2. OnceInv
    BY <2>1 DEF OnceInv
  <2>3. HalfHanded /\ SubHanded
    BY <1>4, <1>8 DEF HalfHanded, SubHanded
  <2>4. MainHanded
    <3>1. 1 \in 1..(MaxLines + 1)
      BY <1>3
    <3>2. ASSUME NEW d \in Conversations, NEW i \in 1..Len(record[d]) PROVE handed[record[d][i].n] = 0
      <4>1. i = 1 /\ d = f /\ ~startsNew
        BY <1>8, <3>2
      <4>2. QED
        BY <1>2, <1>8, <2>1, <3>1, <4>1
    <3>3. QED
      BY <3>2 DEF MainHanded
  <2>5. QED
    BY <2>2, <2>3, <2>4 DEF HandedInv
<1>19. ResumedInv
  <2>1. ASSUME ~startsNew
        PROVE  Len(record[f]) > 0 /\ record[f][1].n = 1 /\ handed[1] = 0 /\ following # f
    <3>1. 1 \in 1..(MaxLines + 1)
      BY <1>3
    <3>2. QED
      BY <1>0, <1>1, <1>2, <1>3, <1>8, <2>1, <3>1
  <2>2. QED
    BY <1>0, <2>1 DEF ResumedInv, c0
<1>20. ReadInv
  BY <1>1 DEF ReadInv
<1>21. QED
  BY <1>6, <1>7, <1>10, <1>11, <1>12, <1>13, <1>14, <1>15, <1>16, <1>17, <1>18, <1>19, <1>20
     DEF RefusedInv

\* A refusal taken for proof was sent on the login in the folder.
LEMMA ProofIsOwn ==
  ASSUME RefusedInv, NEW c \in Conversations, NEW e \in Refused!LinesOf(c), Refused!Proves(e, c)
  PROVE  \/ e.by = "claude" /\ e.login = Refused!login
         \/ ~headless /\ other # None /\ ~Refused!OtherHere(c)
         \/ e.what = "sidechain" /\ e.turn < Refused!TypedAt
<1>0. /\ ReaderTypes /\ PutInv /\ CountInv /\ SaidInv /\ TurnInv /\ PromptReadInv /\ HandedInv
  BY DEF RefusedInv
<1>1. /\ handed[e.n] > 0 /\ e.at > 0 /\ e.at >= Refused!TypedAt /\ ~Refused!OldLogin(e)
      /\ ~Refused!OtherHere(c) /\ (headless => e.by = "claude")
  BY DEF Refused!Proves
<1>2. e \in AllLines /\ e \in RLines
  <2>1. e \in AllLines
    BY DEF AllLines
  <2>2. QED
    BY <1>0, <2>1, LinesTyped
<1>3. /\ e.at \in Nat /\ e.turn \in Nat /\ e.login \in Nat /\ e.by \in {"claude", "other"}
      /\ e.what \in {"prompt", "refusal", "sidechain"}
  BY <1>2 DEF RLines
<1>4. /\ now \in Nat /\ promptAt \in Nat /\ Kept \in Nat /\ AnswersIn \in Nat /\ Kept > 0
      /\ Len(put) \in Nat /\ Len(put) > 0 /\ put \in Seq(Nat) /\ headless \in BOOLEAN
  BY <1>0, RefusedAssumption DEF ReaderTypes, PutInv
<1>5. CASE e.by = "other"
  BY <1>0, <1>1, <1>2, <1>5 DEF SaidInv
<1>6. CASE e.by = "claude" /\ e.login # Len(put)
  <2>1. e.what # "prompt"
    <3>1. \/ \E i \in 1..Len(record[c]) : e = record[c][i]
          \/ \E j \in 1..Len(subRecord[c]) : e = subRecord[c][j]
      <4>1. DOMAIN record[c] = 1..Len(record[c]) /\ DOMAIN subRecord[c] = 1..Len(subRecord[c])
        BY <1>0 DEF ReaderTypes
      <4>2. QED
        BY <4>1 DEF Refused!LinesOf, Refused!Elements
    <3>2. QED
      BY <1>0, <1>1, <3>1 DEF HandedInv, MainHanded, SubHanded
  <2>2. PICK sent \in e.turn..e.at :
          /\ sent + AnswersIn >= e.at
          /\ e.login < Len(put) => sent < put[e.login + 1] + Kept
    BY <1>0, <1>1, <1>2, <1>6, <2>1 DEF SaidInv
  <2>3. e.login \in 1..Len(put)
    BY <1>0, <1>1, <1>2, <1>6, <2>1 DEF SaidInv
  <2>4. e.login < Len(put) /\ e.login + 1 \in 1..Len(put) /\ Len(put) \in 1..Len(put) /\ Len(put) > 1
    BY <1>3, <1>4, <1>6, <2>3
  <2>5. /\ put[e.login + 1] <= put[Len(put)] /\ put[Len(put)] > 0
    BY <1>0, <1>4, <2>4 DEF PutInv
  <2>6. put[e.login + 1] \in Nat /\ put[Len(put)] \in Nat /\ sent \in Nat
    BY <1>3, <1>4, <2>4, ElementOfSeq
  <2>7. sent < put[Len(put)] + Kept /\ e.turn <= sent /\ e.turn < put[Len(put)] + Kept
    BY <1>3, <1>4, <2>2, <2>4, <2>5, <2>6
  <2>8. Refused!TypedAt >= put[Len(put)] + Kept
    <3>1. Refused!loginChangedAt = put[Len(put)]
      BY DEF Refused!loginChangedAt, Refused!login
    <3>2. e.at < put[Len(put)] + Kept + AnswersIn
      <4>1. sent + AnswersIn < put[Len(put)] + Kept + AnswersIn
        BY <1>4, <2>6, <2>7
      <4>2. sent + AnswersIn >= e.at
        BY <2>2
      <4>3. put[Len(put)] + Kept + AnswersIn \in Nat /\ sent + AnswersIn \in Nat
        BY <1>4, <2>6
      <4>4. QED
        BY <1>3, <4>1, <4>2, <4>3
    <3>3. ~(Refused!TypedAt < put[Len(put)] + Kept)
      BY <1>1, <2>5, <3>1, <3>2 DEF Refused!OldLogin
    <3>4. Refused!TypedAt \in Nat
      BY <1>4 DEF Refused!TypedAt
    <3>5. QED
      BY <1>4, <2>6, <3>3, <3>4
  <2>9. ~headless /\ Refused!TypedAt = promptAt /\ promptAt > 0
    BY <1>4, <2>6, <2>8 DEF Refused!TypedAt
  <2>10. e.turn < promptAt
    BY <1>3, <1>4, <2>6, <2>7, <2>8, <2>9
  <2>11. CASE other # None
    BY <1>1, <2>9, <2>11
  <2>12. CASE other = None
    <3>1. PICK x \in AllLines : x.what = "prompt" /\ x.at = promptAt
      BY <1>0, <2>9 DEF PromptReadInv
    <3>2. x.by = "claude"
      BY <1>0, <2>12, <3>1, LinesTyped DEF SaidInv, RLines
    <3>3. e.what # "refusal"
      <4>1. ~(e.at < x.at) /\ ~(e.turn >= x.at)
        BY <1>1, <1>3, <1>4, <2>9, <2>10, <3>1
      <4>2. QED
        BY <1>0, <1>2, <1>6, <3>1, <3>2, <4>1 DEF TurnInv
    <3>4. QED
      BY <1>3, <2>1, <2>9, <2>10, <3>3
  <2>13. QED
    BY <2>11, <2>12
<1>7. QED
  BY <1>3, <1>5, <1>6 DEF Refused!login

LEMMA RefusedSafe == RefusedInv => Refused!Inv
<1> SUFFICES ASSUME RefusedInv PROVE Refused!Inv
  OBVIOUS
<1>0. /\ ReaderTypes /\ PutInv /\ CountInv /\ SubInv /\ WhereInv /\ HandedInv /\ ResumedInv /\ ReadInv
  BY DEF RefusedInv
<1>1. Refused!TypeOK
  <2>1. now \in 1..MaxTime /\ now \in Nat /\ promptAt \in 0..now
    BY <1>0, RefusedAssumption DEF ReaderTypes
  <2>2. Refused!login \in 1..MaxLogins
    BY <1>0 DEF Refused!login, PutInv
  <2>3. \A l \in DOMAIN put : put[l] \in 0..now
    <3>1. put \in Seq(Nat) /\ DOMAIN put = 1..Len(put)
      BY <1>0 DEF PutInv
    <3>2. \A l \in 1..Len(put) : put[l] \in Nat /\ put[l] <= now
      BY <1>0, <3>1, ElementOfSeq DEF PutInv
    <3>3. QED
      BY <2>1, <3>1, <3>2
  <2>4. other # None => other.on \in Conversations /\ other.here \in BOOLEAN
    BY <1>0 DEF ReaderTypes
  <2>5. main # None => main.offset \in 0..Refused!Size(following) /\ main.rest \in BOOLEAN
    <3>1. ASSUME main # None PROVE Refused!Size(following) \in Nat
      BY <1>0, <3>1, Sizes DEF WhereInv, ReaderTypes
    <3>2. QED
      BY <1>0, <3>1 DEF WhereInv, ReaderTypes
  <2>6. sub \in 0..MaxLines + 1
    <3>1. MaxLines \in Nat /\ sub \in Nat /\ Cardinality(AllLines) \in Nat
          /\ Cardinality(AllLines) <= MaxLines + 1
      BY <1>0, RefusedAssumption, WrittenIs DEF CountInv, ReaderTypes
    <3>2. CASE following = None
      BY <1>0, <3>1, <3>2 DEF WhereInv
    <3>3. CASE following # None
      <4>1. /\ sub <= Len(subRecord[following]) /\ Len(subRecord[following]) \in Nat
            /\ Len(subRecord[following]) <= Cardinality(AllLines)
        BY <1>0, <3>3, SubLength, Lengths DEF WhereInv, ReaderTypes
      <4>2. QED
        BY <3>1, <4>1
    <3>4. QED
      BY <3>2, <3>3
  <2>7. following \in Conversations \cup {None}
    BY <1>0 DEF ReaderTypes
  <2>8. QED
    BY <2>1, <2>2, <2>3, <2>4, <2>5, <2>6, <2>7 DEF Refused!TypeOK
<1>2. Refused!ProvesOwnLogin
  BY ProofIsOwn DEF Refused!ProvesOwnLogin
<1>3. Refused!HandedOnce
  <2>1. DOMAIN handed = 1..(MaxLines + 1)
    BY <1>0 DEF ReaderTypes
  <2>2. \A k \in DOMAIN handed : handed[k] <= 1
    BY <1>0, <2>1 DEF HandedInv, OnceInv
  <2>3. ~startsNew => handed[1] = 0
    BY <1>0 DEF ResumedInv
  <2>4. ASSUME following # None, main # None, NEW i \in DOMAIN record[following],
               2 * i <= main.offset, record[following][i].what = "refusal",
               record[following][i].n \notin past, ~Refused!Ignores(record[following][i])
        PROVE  handed[record[following][i].n] = 1
    <3>1. following \in Conversations
      BY <1>0, <2>4 DEF ReaderTypes
    <3>2. DOMAIN record[following] = 1..Len(record[following])
      BY <1>0, <3>1 DEF ReaderTypes
    <3>3. QED
      BY <1>0, <2>4, <3>1, <3>2 DEF ReadInv, WasHanded
  <2>5. QED
    BY <2>2, <2>3, <2>4 DEF Refused!HandedOnce
<1>4. QED
  BY <1>1, <1>2, <1>3 DEF Refused!Inv

\* A refusal in the record is proof of the login it was sent with, and is handed on
\* once; and a limit is confirmed where what the endpoint answered of the account asked
\* says it is spent, and there only, within the time a session gives the check.
THEOREM LimitsAreProven == Refused!Spec /\ Confirm!Spec => []EvidenceInv
<1>1. Refused!Spec => []Refused!Inv
  BY RefusedInit, RefusedKept, RefusedSafe, PTL DEF Refused!Spec
<1>2. Confirm!Spec => []Confirm!Inv
  BY CheckInit, CheckKept, CheckSafe, PTL DEF Confirm!Spec
<1>3. QED
  BY <1>1, <1>2, PTL DEF EvidenceInv

=============================================================================
