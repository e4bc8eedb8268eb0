---------------------------- MODULE LedgerProofs ----------------------------
(***************************************************************************)
(* Proofs about the ledger, for any number of processes and changes.  No   *)
(* writer loses another's change: a write the lock vouches for only ever   *)
(* appends to the file.  A process's own changes keep their order in what  *)
(* it reads, and count there from the moment its calls return.  About the  *)
(* event log, for any processes and lines: what a compaction has moved is  *)
(* nowhere read twice, and what it has yet to move is nowhere missing. And *)
(* about requests run beside each other, for any accounts, models, lists   *)
(* to fall back on and limits: what they record stands until it is over,   *)
(* and none gives up while anything is left to run on.                     *)
(***************************************************************************)
EXTENDS MCRecords, Sequences, FiniteSetTheorems, SequenceTheorems, WellFoundedInduction,
        TLAPS

\* A writer that is vouched for holds the lock within its longest hold, and
\* what it read is still what the file holds.
Vouched(p) == pc[p] \in {"reading", "writing"} /\ p \notin excused
WriterInv ==
    /\ \A p \in Procs : Vouched(p) => p \in holding \ lapsed
    /\ \A p \in Procs : Vouched(p) /\ pc[p] = "writing" => copy[p] = file
    /\ \A p, q \in holding \ lapsed : p = q

LInv == TypeOK /\ WriterInv

-----------------------------------------------------------------------------
(* Sequences *)

LEMMA PrefixOfAppend ==
    ASSUME NEW S, NEW s \in Seq(S), NEW t \in Seq(S)
    PROVE  IsPrefix(s, s \o t)
<1>1. Len(s \o t) = Len(s) + Len(t)
  OBVIOUS
<1>2. SubSeq(s, 1, Len(s)) = SubSeq(s \o t, 1, Len(s))
  OBVIOUS
<1>3. QED
  BY <1>1, <1>2 DEF IsPrefix

LEMMA PrefixOfSelf ==
    ASSUME NEW S, NEW s \in Seq(S)
    PROVE  IsPrefix(s, s)
  BY DEF IsPrefix

LEMMA ElementsOfSeq ==
    ASSUME NEW S, NEW s \in Seq(S)
    PROVE  ToSet(s) \subseteq S
  BY DEF ToSet

-----------------------------------------------------------------------------
(* Types *)

LEMMA TypeInit == Init => TypeOK
  BY LedgerAssumption DEF Init, TypeOK, PC, Lock!Init

LEMMA TypeStep == TypeOK /\ [Next]_vars => TypeOK'
<1> SUFFICES ASSUME TypeOK, [Next]_vars
             PROVE  TypeOK'
  OBVIOUS
<1> USE LedgerAssumption DEF TypeOK, PC, Goes, Running
<1>1. ASSUME NEW p \in Procs, Makes(p)
      PROVE  NewChange(p) \in Changes /\ made' \in [Procs -> 0..MaxChanges]
  BY <1>1 DEF Makes, NewChange, Changes
<1>2. ASSUME NEW p \in Procs, NEW from \in PC, Enters(p, from)
      PROVE  /\ pc' \in [Procs -> PC] /\ holding' \subseteq Procs
             /\ lapsed' \subseteq holding' /\ excused' \subseteq Procs
             /\ UNCHANGED <<file, exiting, taken, copy, reported, erased>>
  BY <1>2 DEF Enters, Lock!Acquire
<1>3. ASSUME NEW p \in Procs, UpdateLedger(p) PROVE TypeOK'
  BY <1>1, <1>3 DEF UpdateLedger
<1>4. ASSUME NEW p \in Procs, UpdateAsyncNow(p) PROVE TypeOK'
  BY <1>1, <1>2, <1>4 DEF UpdateAsyncNow
<1>5. ASSUME NEW p \in Procs, UpdateAsyncLater(p) PROVE TypeOK'
  BY <1>1, <1>5 DEF UpdateAsyncLater
<1>6. ASSUME NEW p \in Procs, BlockedEnters(p) PROVE TypeOK'
  BY <1>2, <1>6 DEF BlockedEnters
<1>7. ASSUME NEW p \in Procs, WaitEnters(p) PROVE TypeOK'
  BY <1>2, <1>7 DEF WaitEnters
<1>8. ASSUME NEW p \in Procs, FlushEnters(p) PROVE TypeOK'
  BY <1>2, <1>8 DEF FlushEnters
<1>9. ASSUME NEW p \in Procs, Reads(p) PROVE TypeOK'
  BY <1>9 DEF Reads
<1>10. ASSUME NEW p \in Procs
       PROVE  Batch(p) \in Seq(Changes) /\ Result(p) \in Seq(Changes)
  BY DEF Batch, Result
<1>11. ASSUME NEW p \in Procs, NEW said, said \subseteq Changes, Ends(p, said)
       PROVE  /\ pc' \in [Procs -> PC] /\ reported' \subseteq Changes
              /\ change' \in [Procs -> Seq(Changes)] /\ taken' \in [Procs -> Seq(Changes)]
              /\ copy' \in [Procs -> Seq(Changes)] /\ holding' \subseteq Procs
              /\ lapsed' \subseteq holding' /\ excused' \subseteq Procs
              /\ UNCHANGED <<exiting, made, pending, waits>>
  BY <1>11 DEF Ends, Lock!LetGo
<1>12. ASSUME NEW p \in Procs, Writes(p) PROVE TypeOK'
  <2>1. ToSet(file) \subseteq Changes /\ ToSet(Batch(p)) \subseteq Changes
    BY <1>10, ElementsOfSeq
  <2>2. file' \in Seq(Changes) /\ erased' \subseteq Changes
    BY <1>10, <1>12, <2>1 DEF Writes
  <2>3. QED
    BY <1>11, <1>12, <2>1, <2>2 DEF Writes
<1>13. ASSUME NEW p \in Procs, WriteFails(p) PROVE TypeOK'
  <2>1. ToSet(Batch(p)) \subseteq Changes
    BY <1>10, ElementsOfSeq
  <2>2. QED
    BY <1>11, <1>13, <2>1 DEF WriteFails
<1>14. ASSUME NEW p \in Procs, Exits(p) \/ StartsExit(p) PROVE TypeOK'
  BY <1>14 DEF Exits, StartsExit
<1>15. ASSUME NEW p \in Procs, Overruns(p) PROVE TypeOK'
  BY <1>15 DEF Overruns, Lock!Lapse
<1>16. ASSUME NEW p \in Procs, Dies(p) PROVE TypeOK'
  BY <1>16 DEF Dies, Lock!LetGo
<1>17. CASE UNCHANGED vars
  BY <1>17 DEF vars
<1>18. QED
  BY <1>3, <1>4, <1>5, <1>6, <1>7, <1>8, <1>9, <1>12, <1>13, <1>14, <1>15, <1>16, <1>17
  DEF Next, Progress

\* Every variable keeps its shape.
THEOREM TypeCorrect == Spec => []TypeOK
  BY TypeInit, TypeStep, PTL DEF Spec

-----------------------------------------------------------------------------
(* Writers *)

LEMMA WriterInit == Init => WriterInv
  BY DEF Init, WriterInv, Vouched, Lock!Init

LEMMA WriterStep == LInv /\ [Next]_vars => WriterInv'
<1> SUFFICES ASSUME LInv, [Next]_vars
             PROVE  WriterInv'
  OBVIOUS
<1> USE DEF LInv, TypeOK, WriterInv, Vouched, Goes
<1>1. ASSUME NEW p \in Procs, NEW from \in {"idle", "blocked"}, Enters(p, from)
      PROVE  WriterInv'
  BY <1>1 DEF Enters, Lock!Acquire
<1>2. ASSUME NEW p \in Procs,
             UpdateAsyncNow(p) \/ BlockedEnters(p) \/ WaitEnters(p) \/ FlushEnters(p)
      PROVE  WriterInv'
  BY <1>1, <1>2 DEF UpdateAsyncNow, BlockedEnters, WaitEnters, FlushEnters
<1>3. ASSUME NEW p \in Procs,
             UpdateLedger(p) \/ UpdateAsyncLater(p) \/ Exits(p) \/ StartsExit(p)
      PROVE  WriterInv'
  BY <1>3 DEF UpdateLedger, UpdateAsyncLater, Exits, StartsExit
<1>4. ASSUME NEW p \in Procs, Reads(p)
      PROVE  WriterInv'
  BY <1>4 DEF Reads
\* The end of a write: whoever is vouched for then was before, and is another.
<1>5. ASSUME NEW p \in Procs, NEW said, Ends(p, said)
      PROVE  /\ \A q \in Procs : Vouched(q)' => Vouched(q) /\ q # p
             /\ holding' = holding \ {p} /\ lapsed' = lapsed \ {p}
  BY <1>5 DEF Ends, Lock!LetGo
<1>6. ASSUME NEW p \in Procs, NEW said, Ends(p, said), pc[p] = "writing"
      PROVE  WriterInv'
  <2>1. \A q \in Procs : Vouched(q)' => q \in holding' \ lapsed'
    BY <1>5, <1>6
  <2>2. \A q \in Procs : Vouched(q)' => pc'[q] # "writing"
    BY <1>6 DEF Ends, Lock!LetGo
  <2>3. QED
    BY <1>5, <1>6, <2>1, <2>2
<1>7. ASSUME NEW p \in Procs, Writes(p) \/ WriteFails(p)
      PROVE  WriterInv'
  BY <1>6, <1>7 DEF Writes, WriteFails, Ends
<1>8. ASSUME NEW p \in Procs, Overruns(p)
      PROVE  WriterInv'
  BY <1>8 DEF Overruns, Lock!Lapse
<1>9. ASSUME NEW p \in Procs, Dies(p)
      PROVE  WriterInv'
  BY <1>9 DEF Dies, Lock!LetGo
<1>10. CASE UNCHANGED vars
  BY <1>10 DEF vars
<1>11. QED
  BY <1>2, <1>3, <1>4, <1>7, <1>8, <1>9, <1>10 DEF Next, Progress

LEMMA Invariant == Spec => []LInv
<1>1. Init => LInv
  BY TypeInit, WriterInit DEF LInv
<1>2. LInv /\ [Next]_vars => LInv'
  BY TypeStep, WriterStep DEF LInv
<1>3. QED
  BY <1>1, <1>2, PTL DEF Spec

\* The ledger loses nothing, however many processes write it.
THEOREM LosesNothing == Spec => NothingLost
<1> DEFINE Step == \A p \in Procs :
            pc[p] = "writing" /\ pc'[p] = "idle" /\ p \notin excused => IsPrefix(file, file')
<1>1. LInv /\ [Next]_vars => [Step]_file
  <2> SUFFICES ASSUME LInv, [Next]_vars, file' # file,
                      NEW p \in Procs, pc[p] = "writing", pc'[p] = "idle", p \notin excused
               PROVE  IsPrefix(file, file')
    OBVIOUS
  <2> USE DEF LInv, TypeOK
  <2>1. PICK q \in Procs : Writes(q)
    BY DEF Next, Progress, vars, UpdateLedger, UpdateAsyncNow, UpdateAsyncLater, BlockedEnters,
       WaitEnters, FlushEnters, Enters, Reads, Exits, StartsExit, WriteFails, Overruns, Dies
  <2>2. q = p
    BY <2>1 DEF Writes, Ends, Goes
  <2>3. copy[p] = file
    BY DEF WriterInv, Vouched
  <2>4. file' = file \o Batch(p)
    BY <2>1, <2>2, <2>3 DEF Writes, Result
  <2>5. Batch(p) \in Seq(Changes)
    BY DEF Batch
  <2>6. QED
    BY <2>4, <2>5, PrefixOfAppend
<1>2. QED
  BY <1>1, Invariant, PTL DEF Spec, NothingLost

-----------------------------------------------------------------------------
(* A process's own changes *)

\* What a process has made and not written yet, the oldest first.
Due(p) == taken[p] \o pending[p] \o change[p]

\* Where it is, by where the process is in a write.
PlaceInv ==
    \A p \in Procs :
        /\ pc[p] \in {"idle", "gone"} => change[p] = <<>>
        /\ pc[p] \in {"idle", "gone", "blocked", "reading"} => taken[p] = <<>>
        /\ pc[p] = "writing" => pending[p] = <<>>

\* The changes of a ledger stand in the order their makers made them.
Sorted(s) ==
    \A i, j \in DOMAIN s : i < j /\ s[i][1] = s[j][1] => s[i][2] < s[j][2]

\* Of one maker, those of s were made before those of t.
Before(s, t) ==
    \A i \in DOMAIN s, j \in DOMAIN t : s[i][1] = t[j][1] => s[i][2] < t[j][2]

\* Each change of s is one of the first upto[q] of its maker q.
Among(s, upto) == \A i \in DOMAIN s : s[i][2] <= upto[s[i][1]]

\* A ledger, the file or what somebody read of it, is in order, and holds
\* nothing of a process that comes after what the process has yet to write.
InOrder(s) == Sorted(s) /\ Among(s, made) /\ \A p \in Procs : Before(s, Due(p))
OrderInv ==
    /\ \A p \in Procs : Sorted(Due(p)) /\ Among(Due(p), made)
    /\ \A p \in Procs : \A i \in DOMAIN Due(p) : Due(p)[i][1] = p
    /\ InOrder(file)
    /\ \A p \in Procs : InOrder(copy[p])

\* Wherever a process is, each of its changes is somewhere.
AccountInv ==
    \A p \in Procs : \A k \in 1..made[p] :
        <<p, k>> \in ToSet(file) \cup ToSet(Due(p)) \cup reported \cup erased

CInv == TypeOK /\ PlaceInv /\ OrderInv /\ AccountInv

LEMMA DueType ==
    ASSUME TypeOK, NEW p \in Procs
    PROVE  Due(p) \in Seq(Changes)
  BY DEF Due, TypeOK

LEMMA SortedTogether ==
    ASSUME NEW s \in Seq(Changes), NEW t \in Seq(Changes),
           Sorted(s), Sorted(t), Before(s, t)
    PROVE  Sorted(s \o t)
<1> SUFFICES ASSUME NEW i \in 1..Len(s \o t), NEW j \in 1..Len(s \o t), i < j,
                    (s \o t)[i][1] = (s \o t)[j][1]
             PROVE  (s \o t)[i][2] < (s \o t)[j][2]
  BY DEF Sorted
<1>1. Len(s \o t) = Len(s) + Len(t) /\ Len(s) \in Nat /\ Len(t) \in Nat
  OBVIOUS
<1>2. CASE j <= Len(s)
  BY <1>1, <1>2 DEF Sorted
<1>3. CASE i > Len(s)
  <2>1. /\ i - Len(s) \in DOMAIN t /\ j - Len(s) \in DOMAIN t
        /\ (s \o t)[i] = t[i - Len(s)] /\ (s \o t)[j] = t[j - Len(s)]
    BY <1>1, <1>3
  <2>2. QED
    BY <1>1, <1>3, <2>1 DEF Sorted
<1>4. CASE i <= Len(s) /\ j > Len(s)
  <2>1. /\ i \in DOMAIN s /\ j - Len(s) \in DOMAIN t
        /\ (s \o t)[i] = s[i] /\ (s \o t)[j] = t[j - Len(s)]
    BY <1>1, <1>4
  <2>2. QED
    BY <2>1 DEF Before
<1>5. QED
  BY <1>1, <1>2, <1>3, <1>4

LEMMA ElementsOfBoth ==
    ASSUME NEW S, NEW s \in Seq(S), NEW t \in Seq(S)
    PROVE  ToSet(s \o t) = ToSet(s) \cup ToSet(t)
<1>1. \A i \in DOMAIN (s \o t) :
         \/ i \in DOMAIN s /\ (s \o t)[i] = s[i]
         \/ i - Len(s) \in DOMAIN t /\ (s \o t)[i] = t[i - Len(s)]
  OBVIOUS
<1>2. \A i \in DOMAIN s : i \in DOMAIN (s \o t) /\ (s \o t)[i] = s[i]
  OBVIOUS
<1>3. \A i \in DOMAIN t : i + Len(s) \in DOMAIN (s \o t) /\ (s \o t)[i + Len(s)] = t[i]
  OBVIOUS
<1>4. ToSet(s \o t) \subseteq ToSet(s) \cup ToSet(t)
  BY <1>1 DEF ToSet
<1>5. ToSet(s) \subseteq ToSet(s \o t) /\ ToSet(t) \subseteq ToSet(s \o t)
  BY <1>2, <1>3 DEF ToSet
<1>6. QED
  BY <1>4, <1>5

\* Nothing made so far comes after a change made now.
LEMMA NewIsLast ==
    ASSUME TypeOK, NEW s \in Seq(Changes), Among(s, made), NEW p \in Procs, Makes(p)
    PROVE  Before(s, <<NewChange(p)>>)
<1> SUFFICES ASSUME NEW i \in DOMAIN s, s[i][1] = p
             PROVE  s[i][2] < made[p] + 1
  BY DEF Before, NewChange
<1>1. s[i] \in Procs \X (1..MaxChanges)
  BY DEF Changes
<1>2. s[i][2] \in Nat /\ made[p] \in Nat
  BY <1>1, LedgerAssumption DEF TypeOK
<1>3. QED
  BY <1>2 DEF Among

\* Of one maker, what comes before each of two comes before both.
LEMMA BeforeBoth ==
    ASSUME NEW s \in Seq(Changes), NEW t \in Seq(Changes), NEW u \in Seq(Changes),
           Before(s, t), Before(s, u)
    PROVE  Before(s, t \o u)
<1>1. \A i \in DOMAIN (t \o u) :
         \/ i \in DOMAIN t /\ (t \o u)[i] = t[i]
         \/ i - Len(t) \in DOMAIN u /\ (t \o u)[i] = u[i - Len(t)]
  OBVIOUS
<1>2. QED
  BY <1>1 DEF Before

LEMMA BothBefore ==
    ASSUME NEW s \in Seq(Changes), NEW t \in Seq(Changes), NEW u \in Seq(Changes),
           Before(s, u), Before(t, u)
    PROVE  Before(s \o t, u)
<1>1. \A i \in DOMAIN (s \o t) :
         \/ i \in DOMAIN s /\ (s \o t)[i] = s[i]
         \/ i - Len(s) \in DOMAIN t /\ (s \o t)[i] = t[i - Len(s)]
  OBVIOUS
<1>2. QED
  BY <1>1 DEF Before

LEMMA AmongBoth ==
    ASSUME NEW upto, NEW s \in Seq(Changes), NEW t \in Seq(Changes), Among(s, upto), Among(t, upto)
    PROVE  Among(s \o t, upto)
<1>1. \A i \in DOMAIN (s \o t) :
         \/ i \in DOMAIN s /\ (s \o t)[i] = s[i]
         \/ i - Len(s) \in DOMAIN t /\ (s \o t)[i] = t[i - Len(s)]
  OBVIOUS
<1>2. QED
  BY <1>1 DEF Among

-----------------------------------------------------------------------------
(* The three things a step may do with changes *)

\* A process makes one.
NewStep(p) ==
    /\ Makes(p)
    /\ Due(p)' = Due(p) \o <<NewChange(p)>>
    /\ \A q \in Procs \ {p} : Due(q)' = Due(q)
    /\ UNCHANGED <<file, copy, reported, erased>>

\* None is made or written: at most the file is read.
QuietStep ==
    /\ \A q \in Procs : Due(q)' = Due(q) /\ copy'[q] \in {copy[q], file}
    /\ UNCHANGED <<made, file, reported, erased>>

\* A write ends.
WriteStep(p) ==
    /\ \/ file' = file /\ ToSet(Due(p)) \subseteq reported'
       \/ file' = copy[p] \o Due(p)
    /\ ToSet(file) \subseteq ToSet(file') \cup erased'
    /\ reported \subseteq reported' /\ erased \subseteq erased'
    /\ Due(p)' = <<>>
    /\ \A q \in Procs \ {p} : Due(q)' = Due(q)
    /\ \A q \in Procs : copy'[q] \in {copy[q], <<>>}
    /\ made' = made

LEMMA Steps ==
    ASSUME TypeOK, PlaceInv, [Next]_vars
    PROVE  PlaceInv' /\ (QuietStep \/ \E p \in Procs : NewStep(p) \/ WriteStep(p))
<1> USE DEF TypeOK, Goes, Running
<1>1. ASSUME NEW p \in Procs, NEW from \in {"idle", "blocked"}, Enters(p, from)
      PROVE  /\ \A q \in Procs \ {p} : pc'[q] = pc[q]
             /\ pc[p] = from /\ pc'[p] = "reading"
             /\ UNCHANGED <<file, taken, copy, reported, erased>>
  BY <1>1 DEF Enters
<1>2. ASSUME NEW p \in Procs, UpdateLedger(p) \/ UpdateAsyncNow(p)
      PROVE  PlaceInv' /\ NewStep(p)
  <2>1. /\ pc[p] = "idle" /\ Makes(p) /\ pc'[p] \in {"blocked", "reading"}
        /\ \A q \in Procs \ {p} : pc'[q] = pc[q]
        /\ change' = [change EXCEPT ![p] = <<NewChange(p)>>]
        /\ UNCHANGED <<pending, file, taken, copy, reported, erased>>
    BY <1>1, <1>2 DEF UpdateLedger, UpdateAsyncNow
  <2>2. change[p] = <<>> /\ taken[p] = <<>> /\ <<NewChange(p)>> \in Seq(Changes)
    BY <2>1, LedgerAssumption DEF PlaceInv, Makes, NewChange, Changes
  <2>3. Due(p)' = Due(p) \o <<NewChange(p)>>
    BY <2>1, <2>2 DEF Due
  <2>4. \A q \in Procs \ {p} : Due(q)' = Due(q)
    BY <2>1 DEF Due
  <2>5. QED
    BY <2>1, <2>2, <2>3, <2>4 DEF PlaceInv, NewStep
<1>3. ASSUME NEW p \in Procs, UpdateAsyncLater(p)
      PROVE  PlaceInv' /\ NewStep(p)
  <2>1. /\ pc[p] = "idle" /\ Makes(p) /\ pc' = pc
        /\ pending' = [pending EXCEPT ![p] = Append(@, NewChange(p))]
        /\ UNCHANGED <<change, file, taken, copy, reported, erased>>
    BY <1>3 DEF UpdateAsyncLater
  <2>2. change[p] = <<>> /\ taken[p] = <<>> /\ NewChange(p) \in Changes
    BY <2>1, LedgerAssumption DEF PlaceInv, Makes, NewChange, Changes
  <2>3. Due(p)' = Due(p) \o <<NewChange(p)>>
    BY <2>1, <2>2 DEF Due
  <2>4. \A q \in Procs \ {p} : Due(q)' = Due(q)
    BY <2>1 DEF Due
  <2>5. QED
    BY <2>1, <2>2, <2>3, <2>4 DEF PlaceInv, NewStep
<1>4. ASSUME NEW p \in Procs, BlockedEnters(p) \/ WaitEnters(p) \/ FlushEnters(p)
      PROVE  PlaceInv' /\ QuietStep
  <2>1. /\ pc[p] \in {"idle", "blocked"} /\ pc'[p] = "reading"
        /\ \A q \in Procs \ {p} : pc'[q] = pc[q]
        /\ UNCHANGED <<made, change, pending, file, taken, copy, reported, erased>>
    BY <1>1, <1>4 DEF BlockedEnters, WaitEnters, FlushEnters
  <2>2. QED
    BY <2>1 DEF PlaceInv, QuietStep, Due
<1>5. ASSUME NEW p \in Procs, Reads(p)
      PROVE  PlaceInv' /\ QuietStep
  <2>1. Due(p)' = Due(p)
    <3>1. taken[p] = <<>> /\ taken'[p] = pending[p] /\ pending'[p] = <<>> /\ change'[p] = change[p]
      BY <1>5 DEF Reads, PlaceInv
    <3>2. pending[p] \in Seq(Changes)
      OBVIOUS
    <3>3. QED
      BY <3>1, <3>2 DEF Due
  <2>2. \A q \in Procs \ {p} : Due(q)' = Due(q)
    BY <1>5 DEF Reads, Due
  <2>3. QED
    BY <1>5, <2>1, <2>2 DEF Reads, PlaceInv, QuietStep
<1>6. ASSUME NEW p \in Procs, StartsExit(p) \/ Exits(p) \/ Overruns(p) \/ Dies(p)
      PROVE  PlaceInv' /\ QuietStep
  <2>1. UNCHANGED <<made, change, pending, file, taken, copy, reported, erased>>
    BY <1>6 DEF StartsExit, Exits, Overruns, Dies
  <2>2. PlaceInv'
    BY <1>6, <2>1 DEF StartsExit, Exits, Overruns, Dies, PlaceInv
  <2>3. QED
    BY <2>1, <2>2 DEF QuietStep, Due
<1>7. ASSUME NEW p \in Procs, NEW said, Ends(p, said)
      PROVE  /\ PlaceInv' /\ pending[p] = <<>> /\ Batch(p) = Due(p)
             /\ Due(p)' = <<>> /\ \A q \in Procs \ {p} : Due(q)' = Due(q)
             /\ \A q \in Procs : copy'[q] \in {copy[q], <<>>}
             /\ made' = made /\ reported' = reported \cup said
  <2>1. pending[p] = <<>> /\ PlaceInv'
    BY <1>7 DEF Ends, PlaceInv
  <2>2. Batch(p) = Due(p)
    BY <2>1 DEF Batch, Due
  <2>3. Due(p)' = <<>>
    BY <1>7, <2>1 DEF Ends, Due
  <2>4. \A q \in Procs \ {p} : Due(q)' = Due(q)
    BY <1>7 DEF Ends, Due
  <2>5. QED
    BY <1>7, <2>1, <2>2, <2>3, <2>4 DEF Ends
<1>8. ASSUME NEW p \in Procs, Writes(p)
      PROVE  PlaceInv' /\ WriteStep(p)
  <2>1. /\ file' = Result(p) /\ erased' = erased \cup (ToSet(file) \ ToSet(Result(p)))
        /\ Ends(p, ToSet(Batch(p)) \cap Throwing)
    BY <1>8 DEF Writes
  <2>2. \/ file' = copy[p] \o Due(p)
        \/ file' = file /\ ToSet(Due(p)) \subseteq reported'
    <3>1. Batch(p) = Due(p)
      BY <1>7, <2>1
    <3>2. CASE ToSet(Batch(p)) \subseteq Throwing
      <4>1. reported' = reported \cup (ToSet(Batch(p)) \cap Throwing)
        BY <2>1 DEF Ends
      <4>2. QED
        BY <2>1, <3>1, <3>2, <4>1 DEF Result
    <3>3. CASE ~(ToSet(Batch(p)) \subseteq Throwing)
      BY <2>1, <3>1, <3>3 DEF Result
    <3>4. QED
      BY <3>2, <3>3
  <2>3. QED
    BY <1>7, <2>1, <2>2 DEF WriteStep
<1>9. ASSUME NEW p \in Procs, WriteFails(p)
      PROVE  PlaceInv' /\ WriteStep(p)
  <2>1. Ends(p, ToSet(Batch(p))) /\ file' = file /\ erased' = erased
    BY <1>9 DEF WriteFails
  <2>2. QED
    BY <1>7, <2>1 DEF WriteStep
<1>10. CASE UNCHANGED vars
  BY <1>10 DEF vars, PlaceInv, QuietStep, Due
<1>11. QED
  BY <1>2, <1>3, <1>4, <1>5, <1>6, <1>8, <1>9, <1>10 DEF Next, Progress

-----------------------------------------------------------------------------
(* Order and account *)

LEMMA OrderNew ==
    ASSUME CInv, TypeOK', NEW p \in Procs, NewStep(p)
    PROVE  OrderInv'
<1> DEFINE new == <<NewChange(p)>>
<1>1. /\ new \in Seq(Changes) /\ Sorted(new) /\ Among(new, made')
      /\ Len(new) = 1 /\ new[1] = <<p, made[p] + 1>>
  BY LedgerAssumption
  DEF CInv, TypeOK, NewStep, Makes, NewChange, Changes, Sorted, Among
<1>2. ASSUME NEW s \in Seq(Changes), Among(s, made)
      PROVE  Among(s, made') /\ Before(s, new)
  <2>1. \A i \in DOMAIN s : s[i] \in Procs \X (1..MaxChanges)
    BY DEF Changes
  <2>2. \A i \in DOMAIN s : s[i][1] \in Procs /\ s[i][2] \in Nat
    BY <2>1, LedgerAssumption
  <2>3. \A r \in Procs : made[r] \in Nat /\ made'[r] \in Nat /\ made[r] <= made'[r]
    <3>1. made' = [made EXCEPT ![p] = made[p] + 1] /\ made \in [Procs -> 0..MaxChanges]
      BY DEF NewStep, Makes, CInv, TypeOK
    <3>2. \A r \in Procs : made[r] \in Nat
      BY <3>1, LedgerAssumption
    <3>3. \A r \in Procs : made'[r] = IF r = p THEN made[r] + 1 ELSE made[r]
      BY <3>1
    <3>4. QED
      BY <3>2, <3>3
  <2>4. Among(s, made')
    BY <1>2, <2>2, <2>3 DEF Among
  <2>5. QED
    BY <1>2, <2>4, NewIsLast DEF CInv, NewStep
<1>3. \A q \in Procs : Due(q) \in Seq(Changes)
  BY DueType DEF CInv
<1>4. ASSUME NEW s \in Seq(Changes), InOrder(s)
      PROVE  Sorted(s) /\ Among(s, made') /\ \A q \in Procs : Before(s, Due(q)')
  BY <1>1, <1>2, <1>3, <1>4, BeforeBoth DEF InOrder, NewStep
<1>5. /\ Sorted(Due(p)') /\ Among(Due(p)', made')
      /\ \A i \in DOMAIN Due(p)' : Due(p)'[i][1] = p
  <2>1. Sorted(Due(p)) /\ Among(Due(p), made) /\ \A i \in DOMAIN Due(p) : Due(p)[i][1] = p
    BY DEF CInv, OrderInv
  <2>2. Sorted(Due(p) \o new) /\ Among(Due(p) \o new, made')
    BY <1>1, <1>2, <1>3, <2>1, SortedTogether, AmongBoth
  <2>3. \A i \in DOMAIN (Due(p) \o new) :
           \/ i \in DOMAIN Due(p) /\ (Due(p) \o new)[i] = Due(p)[i]
           \/ (Due(p) \o new)[i] = new[1]
    BY <1>1, <1>3
  <2>4. QED
    BY <1>1, <2>1, <2>2, <2>3 DEF NewStep
<1>6. \A q \in Procs \ {p} : /\ Sorted(Due(q)') /\ Among(Due(q)', made')
                            /\ \A i \in DOMAIN Due(q)' : Due(q)'[i][1] = q
  BY <1>2, <1>3 DEF CInv, OrderInv, NewStep
<1>7. InOrder(file)' /\ \A q \in Procs : InOrder(copy[q])'
  <2>1. file' = file /\ copy' = copy /\ file \in Seq(Changes)
        /\ \A q \in Procs : copy[q] \in Seq(Changes)
    BY DEF NewStep, CInv, TypeOK
  <2>2. InOrder(file) /\ \A q \in Procs : InOrder(copy[q])
    BY DEF CInv, OrderInv
  <2>3. QED
    BY <1>4, <2>1, <2>2 DEF InOrder
<1>8. QED
  BY <1>5, <1>6, <1>7 DEF OrderInv

LEMMA OrderQuiet ==
    ASSUME CInv, QuietStep
    PROVE  OrderInv'
  BY DEF CInv, OrderInv, InOrder, QuietStep

LEMMA OrderWrite ==
    ASSUME CInv, NEW p \in Procs, WriteStep(p)
    PROVE  OrderInv'
<1>1. \A q \in Procs : Due(q) \in Seq(Changes) /\ copy[q] \in Seq(Changes)
  BY DueType DEF CInv, TypeOK
<1>2. \A q \in Procs : Due(q)' \in {Due(q), <<>>}
  BY DEF WriteStep
<1>3. Sorted(<<>>) /\ Among(<<>>, made) /\ \A q \in Procs : Before(<<>>, Due(q))
  BY DEF Sorted, Among, Before
<1>4. ASSUME NEW s, InOrder(s)
      PROVE  Sorted(s) /\ Among(s, made') /\ \A q \in Procs : Before(s, Due(q)')
  BY <1>2, <1>4 DEF InOrder, Before, WriteStep
<1>5. \A q \in Procs : /\ Sorted(Due(q)') /\ Among(Due(q)', made')
                      /\ \A i \in DOMAIN Due(q)' : Due(q)'[i][1] = q
  BY <1>2, <1>3 DEF CInv, OrderInv, WriteStep
<1>6. ASSUME NEW q \in Procs
      PROVE  InOrder(copy[q])'
  <2>1. copy'[q] \in {copy[q], <<>>} /\ InOrder(copy[q]) /\ InOrder(<<>>)
    BY <1>3 DEF WriteStep, CInv, OrderInv, InOrder
  <2>2. QED
    BY <1>4, <2>1 DEF InOrder
<1>7. InOrder(file)'
  <2>1. CASE file' = file
    BY <1>4, <2>1 DEF CInv, OrderInv, InOrder
  <2>2. CASE file' = copy[p] \o Due(p)
    <3>1. InOrder(copy[p]) /\ Sorted(Due(p)) /\ Among(Due(p), made)
          /\ \A i \in DOMAIN Due(p) : Due(p)[i][1] = p
      BY DEF CInv, OrderInv
    <3>2. Sorted(copy[p] \o Due(p)) /\ Among(copy[p] \o Due(p), made)
      BY <1>1, <3>1, SortedTogether, AmongBoth DEF InOrder
    <3>3. ASSUME NEW q \in Procs \ {p}
          PROVE  Before(copy[p] \o Due(p), Due(q))
      <4>1. Before(Due(p), Due(q))
        BY <3>1, <3>3 DEF Before, CInv, OrderInv
      <4>2. QED
        BY <1>1, <3>1, <4>1, BothBefore DEF InOrder
    <3>4. \A q \in Procs : Before(copy[p] \o Due(p), Due(q)')
      BY <3>3 DEF WriteStep, Before
    <3>5. QED
      BY <2>2, <3>2, <3>4 DEF InOrder, WriteStep
  <2>3. QED
    BY <2>1, <2>2 DEF WriteStep
<1>8. QED
  BY <1>5, <1>6, <1>7 DEF OrderInv

LEMMA AccountStep ==
    ASSUME CInv, QuietStep \/ \E p \in Procs : NewStep(p) \/ WriteStep(p)
    PROVE  AccountInv'
<1> SUFFICES ASSUME NEW q \in Procs, NEW k \in 1..made'[q]
             PROVE  <<q, k>> \in ToSet(file') \cup ToSet(Due(q)') \cup reported' \cup erased'
  BY DEF AccountInv
<1>1. \A r \in Procs : Due(r) \in Seq(Changes) /\ copy[r] \in Seq(Changes)
  BY DueType DEF CInv, TypeOK
<1>2. CASE QuietStep
  BY <1>2 DEF QuietStep, CInv, AccountInv
<1>3. ASSUME NEW p \in Procs, NewStep(p)
      PROVE  <<q, k>> \in ToSet(file') \cup ToSet(Due(q)') \cup reported' \cup erased'
  <2>1. CASE q = p
    <3>1. made'[p] = made[p] + 1 /\ made[p] \in Nat /\ <<NewChange(p)>> \in Seq(Changes)
      BY <1>3, LedgerAssumption, SMTT(30) DEF NewStep, Makes, NewChange, Changes, CInv, TypeOK
    <3>2. ToSet(Due(p)') = ToSet(Due(p)) \cup ToSet(<<NewChange(p)>>)
      BY <1>1, <1>3, <3>1, ElementsOfBoth DEF NewStep
    <3>3. ToSet(<<NewChange(p)>>) = {<<p, made[p] + 1>>}
      BY DEF ToSet, NewChange
    <3>4. k \in 1..made[p] \/ k = made[p] + 1
      BY <2>1, <3>1
    <3>5. QED
      BY <1>3, <2>1, <3>2, <3>3, <3>4 DEF NewStep, CInv, AccountInv
  <2>2. CASE q # p
    BY <1>3, <2>2 DEF NewStep, Makes, CInv, TypeOK, AccountInv
  <2>3. QED
    BY <2>1, <2>2
<1>4. ASSUME NEW p \in Procs, WriteStep(p)
      PROVE  <<q, k>> \in ToSet(file') \cup ToSet(Due(q)') \cup reported' \cup erased'
  <2>1. <<q, k>> \in ToSet(file) \cup ToSet(Due(q)) \cup reported \cup erased
    BY <1>4 DEF WriteStep, CInv, AccountInv
  <2>2. CASE <<q, k>> \in ToSet(Due(p)) /\ q = p
    <3>1. ToSet(copy[p] \o Due(p)) = ToSet(copy[p]) \cup ToSet(Due(p))
      BY <1>1, ElementsOfBoth
    <3>2. QED
      BY <1>4, <2>2, <3>1 DEF WriteStep
  <2>3. CASE q # p \/ <<q, k>> \notin ToSet(Due(p))
    BY <1>4, <2>1, <2>3 DEF WriteStep
  <2>4. QED
    BY <2>2, <2>3
<1>5. QED
  BY <1>2, <1>3, <1>4

LEMMA ChangesStep == CInv /\ [Next]_vars => CInv'
<1> SUFFICES ASSUME CInv, [Next]_vars
             PROVE  CInv'
  OBVIOUS
<1>1. TypeOK'
  BY TypeStep DEF CInv
<1>2. PlaceInv' /\ (QuietStep \/ \E p \in Procs : NewStep(p) \/ WriteStep(p))
  BY Steps DEF CInv
<1>3. OrderInv'
  BY <1>1, <1>2, OrderNew, OrderQuiet, OrderWrite
<1>4. AccountInv'
  BY <1>2, AccountStep
<1>5. QED
  BY <1>1, <1>2, <1>3, <1>4 DEF CInv

\* A process's own changes count for it from the moment its calls return, in
\* the order it made them, whoever else writes the ledger and whatever fails.
THEOREM OwnChanges == Spec => []Inv
<1>1. Init => CInv
  <2> SUFFICES ASSUME Init PROVE CInv
    OBVIOUS
  <2>1. \A p \in Procs : Due(p) = <<>>
    BY DEF Init, Due
  <2>2. QED
    BY <2>1, TypeInit
    DEF Init, CInv, PlaceInv, OrderInv, InOrder, AccountInv, Sorted, Before, Among
<1>2. CInv => Inv
  <2> SUFFICES ASSUME CInv PROVE Inv
    OBVIOUS
  <2> USE DEF CInv
  <2>1. ASSUME NEW p \in Procs, pc[p] = "idle"
        PROVE  Due(p) = pending[p]
    BY <2>1 DEF Due, PlaceInv, TypeOK
  <2>2. OwnChangesCount
    <3> SUFFICES ASSUME NEW p \in Procs, pc[p] = "idle", NEW k \in 1..made[p]
                 PROVE  <<p, k>> \in ToSet(View(p)) \cup reported \cup erased
      BY DEF OwnChangesCount
    <3>1. ToSet(View(p)) = ToSet(file) \cup ToSet(pending[p])
      BY ElementsOfBoth DEF View, TypeOK
    <3>2. QED
      BY <2>1, <3>1 DEF AccountInv
  <2>3. OrderKept
    <3> SUFFICES ASSUME NEW p \in Procs
                 PROVE  Sorted(View(p))
      BY DEF OrderKept, Sorted
    <3>1. file \in Seq(Changes) /\ pending[p] \in Seq(Changes) /\ taken[p] \in Seq(Changes)
          /\ change[p] \in Seq(Changes) /\ Sorted(file) /\ Before(file, Due(p)) /\ Sorted(Due(p))
      BY DEF TypeOK, OrderInv, InOrder
    <3>2. ASSUME NEW t \in Seq(Changes), NEW u \in Seq(Changes), NEW v \in Seq(Changes),
                 Sorted(t \o u \o v), Before(file, t \o u \o v)
          PROVE  Sorted(u) /\ Before(file, u)
      <4>1. t \o u \in Seq(Changes) /\ Len(t) \in Nat /\ Len(t \o u) = Len(t) + Len(u)
            /\ Len(t \o u \o v) = Len(t) + Len(u) + Len(v)
        OBVIOUS
      <4>2. \A i \in DOMAIN u : i + Len(t) \in DOMAIN (t \o u) /\ (t \o u)[i + Len(t)] = u[i]
        OBVIOUS
      <4>3. \A i \in DOMAIN (t \o u) :
               i \in DOMAIN (t \o u \o v) /\ (t \o u \o v)[i] = (t \o u)[i]
        BY <4>1
      <4>4. \A i \in DOMAIN u : /\ i \in Int /\ i + Len(t) \in DOMAIN (t \o u \o v)
                               /\ (t \o u \o v)[i + Len(t)] = u[i]
        BY <4>2, <4>3
      <4> DEFINE w == t \o u \o v
      <4> HIDE DEF w
      <4>5. Sorted(u)
        <5>1. ASSUME NEW i \in DOMAIN u, NEW j \in DOMAIN u, i < j
              PROVE  i + Len(t) < j + Len(t)
          BY <4>1, <4>4, <5>1
        <5>2. QED
          BY <3>2, <4>4, <5>1 DEF Sorted, w
      <4>6. Before(file, u)
        BY <3>2, <4>4 DEF Before, w
      <4>7. QED
        BY <4>5, <4>6
    <3>3. Sorted(pending[p]) /\ Before(file, pending[p])
      BY <3>1, <3>2 DEF Due
    <3>4. QED
      BY <3>1, <3>3, SortedTogether DEF View
  <2>4. QED
    BY <2>2, <2>3 DEF Inv
<1>3. QED
  BY <1>1, <1>2, ChangesStep, PTL DEF Spec

-----------------------------------------------------------------------------
(* The event log *)

\* Lines each of a process come in the order it logged them, each once.
Ordered(s) ==
    \A i, j \in DOMAIN s : i < j /\ s[i][1] = s[j][1] => s[i][2] < s[j][2]

\* What a process is writing comes before what it has queued, and is there.
OwnLines(p) ==
    /\ logPc[p] = "writing" => todo[p] # <<>>
    /\ Ordered(todo[p]) /\ Ordered(queued[p])
    /\ \A i \in DOMAIN todo[p] : todo[p][i][1] = p /\ todo[p][i][2] <= logMade[p]
    /\ \A i \in DOMAIN queued[p] : queued[p][i][1] = p /\ queued[p][i][2] <= logMade[p]
    /\ \A i \in DOMAIN todo[p], j \in DOMAIN queued[p] : todo[p][i][2] < queued[p][j][2]

\* What is written comes before what its process has still to write.
WrittenFirst(w) ==
    /\ w[2] <= logMade[w[1]]
    /\ \A i \in DOMAIN todo[w[1]] : w[2] < todo[w[1]][i][2]
    /\ \A i \in DOMAIN queued[w[1]] : w[2] < queued[w[1]][i][2]

LineInv == (\A p \in Procs : OwnLines(p)) /\ (\A w \in written : WrittenFirst(w))

\* A compaction the lock vouches for is the only one, and finds the files as it
\* left them.
CompactInv ==
    /\ \A p, q \in logHolding : p = q
    /\ ~spoiled => \A p \in logHolding \ logOverran :
          /\ logPc[p] \in {"absorbing", "absorbing left"} =>
                parked # Absent /\ readIn[p] = [parked |-> parked, archive |-> archive.lines]
          /\ logPc[p] \in {"removing", "removing left"} =>
                parked # Absent /\ archive.absorbed = parked
          /\ logPc[p] = "parking" => parked = Absent

\* The lines kept are those written, and what the archive last took in is in it.
KeptInv ==
    ~spoiled =>
        /\ Ordered(Log!Kept) /\ Log!ToSet(Log!Kept) = written
        /\ Log!ToSet(archive.absorbed) \subseteq Log!ToSet(archive.lines)

\* A file somebody has open is not there only once it was removed.
FdInv == \A p \in Procs : fd[p] = "parked" => parked # Absent

\* What a read under way has still to find is in the pieces it has still to read.
ReaderInv ==
    ~spoiled =>
        /\ reader.at = "parked" =>
              reader.had \subseteq
                 reader.found \cup Log!ToSet(Log!Parked) \cup Log!ToSet(live)
        /\ reader.at = "live" => reader.had \subseteq reader.found \cup Log!ToSet(live)
        /\ reader.at = "over" => reader.had \subseteq reader.found

EInv == Log!TypeOK /\ FdInv /\ LineInv /\ CompactInv /\ KeptInv /\ ReaderInv

-----------------------------------------------------------------------------

LEMMA KeptTypes ==
    ASSUME Log!TypeOK
    PROVE  /\ archive.lines \in Seq(Log!Lines) /\ archive.absorbed \in Seq(Log!Lines)
           /\ live \in Seq(Log!Lines) /\ Log!Parked \in Seq(Log!Lines)
           /\ Log!Kept \in Seq(Log!Lines)
<1>1. /\ archive.lines \in Seq(Log!Lines) /\ archive.absorbed \in Seq(Log!Lines)
      /\ live \in Seq(Log!Lines) /\ Log!Parked \in Seq(Log!Lines)
  BY DEF Log!TypeOK, Log!Parked
<1>2. (IF Log!Parked = archive.absorbed THEN <<>> ELSE Log!Parked) \in Seq(Log!Lines)
  BY <1>1
<1>3. QED
  BY <1>1, <1>2 DEF Log!Kept

\* A line after all others of its process keeps the order.
LEMMA OrderedAppend ==
    ASSUME NEW S, NEW s \in Seq(S), NEW line, Ordered(s),
           \A i \in DOMAIN s : s[i][1] = line[1] => s[i][2] < line[2]
    PROVE  /\ Ordered(Append(s, line))
           /\ Log!ToSet(Append(s, line)) = Log!ToSet(s) \cup {line}
<1>1. Append(s, line) \in Seq(S \cup {line})
  <2>1. s \in Seq(S \cup {line})
    BY SeqMonotonic
  <2>2. QED
    BY <2>1
<1>2. /\ DOMAIN Append(s, line) = 1..Len(s) + 1 /\ DOMAIN s = 1..Len(s) /\ Len(s) \in Nat
      /\ \A i \in 1..Len(s) : Append(s, line)[i] = s[i]
      /\ Append(s, line)[Len(s) + 1] = line
  OBVIOUS
<1>3. Ordered(Append(s, line))
  BY <1>2 DEF Ordered
<1>4. Log!ToSet(Append(s, line)) = Log!ToSet(s) \cup {line}
  BY <1>2 DEF Log!ToSet
<1>5. QED
  BY <1>3, <1>4

LEMMA OrderedTail ==
    ASSUME NEW S, NEW s \in Seq(S), s # <<>>, Ordered(s)
    PROVE  /\ Ordered(Tail(s)) /\ Tail(s) \in Seq(S) /\ Head(s) = s[1]
           /\ \A i \in DOMAIN Tail(s) : i + 1 \in DOMAIN s /\ Tail(s)[i] = s[i + 1]
           /\ \A i \in DOMAIN Tail(s) : Tail(s)[i][1] = Head(s)[1] => Head(s)[2] < Tail(s)[i][2]
<1>1. /\ Tail(s) \in Seq(S) /\ Head(s) = s[1] /\ DOMAIN s = 1..Len(s) /\ Len(s) \in Nat /\ Len(s) # 0
      /\ DOMAIN Tail(s) = 1..Len(s) - 1
      /\ \A i \in 1..Len(s) - 1 : Tail(s)[i] = s[i + 1]
  BY HeadTailProperties
<1>2. QED
  BY <1>1, SMTT(30) DEF Ordered

\* Of lines in order none is twice: what follows is not in what was before.
LEMMA OrderedApart ==
    ASSUME NEW s \in Seq(Log!Lines), NEW t \in Seq(Log!Lines), Ordered(s \o t), t # <<>>
    PROVE  \E x \in Log!ToSet(t) : x \notin Log!ToSet(s)
<1>1. /\ Len(s \o t) = Len(s) + Len(t) /\ DOMAIN (s \o t) = 1..Len(s) + Len(t)
      /\ Len(s) \in Nat /\ Len(t) \in Nat /\ Len(t) # 0
      /\ DOMAIN s = 1..Len(s) /\ DOMAIN t = 1..Len(t)
  OBVIOUS
<1>2. \A i \in 1..Len(s) : (s \o t)[i] = s[i]
  OBVIOUS
<1>3. (s \o t)[Len(s) + 1] = t[1]
  BY <1>1
<1>4. t[1] \in Log!ToSet(t)
  BY <1>1 DEF Log!ToSet
<1>5. ASSUME NEW i \in 1..Len(s), s[i] = t[1] PROVE FALSE
  <2>1. (s \o t)[i][2] < (s \o t)[Len(s) + 1][2]
    BY <1>1, <1>2, <1>3, <1>5, SMTT(30) DEF Ordered
  <2>2. t[1][2] < t[1][2]
    BY <2>1, <1>2, <1>3, <1>5
  <2>3. t[1][2] \in Nat
    BY <1>1 DEF Log!Lines
  <2>4. QED
    BY <2>2, <2>3
<1>6. QED
  BY <1>1, <1>4, <1>5 DEF Log!ToSet

-----------------------------------------------------------------------------

LEMMA LogInit == Log!Init => EInv
<1> SUFFICES ASSUME Log!Init PROVE EInv
  OBVIOUS
<1>1. Log!TypeOK
  <2>1. <<>> \in Seq(Log!Lines) /\ 0 \in 0..MaxLines /\ 0 \in 0..MaxAstray
    BY LogAssumption
  <2>2. Log!NothingRead \in [parked : Seq(Log!Lines), archive : Seq(Log!Lines)]
    BY <2>1 DEF Log!NothingRead
  <2>3. archive \in [lines : Seq(Log!Lines), absorbed : Seq(Log!Lines)]
    BY <2>1 DEF Log!Init
  <2>4. QED
    BY <2>1, <2>2, <2>3 DEF Log!Init, Log!TypeOK, Log!PC
<1>2. /\ Log!Kept = <<>> /\ archive.lines = <<>> /\ archive.absorbed = <<>>
      /\ DOMAIN Log!Kept = {} /\ DOMAIN archive.lines = {} /\ DOMAIN archive.absorbed = {}
  <2>1. <<>> \in Seq(Log!Lines) /\ <<>> \o <<>> \o <<>> = <<>>
    OBVIOUS
  <2>2. QED
    BY <2>1 DEF Log!Init, Log!Kept, Log!Parked
<1>3. \A p \in Procs : /\ todo[p] = <<>> /\ queued[p] = <<>> /\ logPc[p] = "idle"
                       /\ DOMAIN todo[p] = {} /\ DOMAIN queued[p] = {}
  BY DEF Log!Init
<1>8. FdInv
  BY DEF Log!Init, FdInv
<1>4. LineInv
  BY <1>3 DEF Log!Init, LineInv, OwnLines, Ordered
<1>5. CompactInv
  BY DEF Log!Init, CompactInv
<1>6. KeptInv
  BY <1>2 DEF Log!Init, KeptInv, Ordered, Log!ToSet
<1>7. ReaderInv
  BY DEF Log!Init, ReaderInv
<1>9. QED
  BY <1>1, <1>4, <1>5, <1>6, <1>7, <1>8 DEF EInv

LEMMA LogTypes == EInv /\ [Log!Next]_(Log!vars) => Log!TypeOK'
<1> SUFFICES ASSUME EInv, [Log!Next]_(Log!vars) PROVE Log!TypeOK'
  OBVIOUS
<1> USE LogAssumption DEF Log!files, Log!lock, Log!history
<1> DEFINE Files == /\ live \in Seq(Log!Lines) /\ parked \in Seq(Log!Lines) \cup {Absent}
                    /\ archive \in [lines : Seq(Log!Lines), absorbed : Seq(Log!Lines)]
           Holds == /\ logHolding \subseteq Procs /\ logOverran \subseteq logHolding
                    /\ astray \in 0..MaxAstray
           Phases == /\ logPc \in [Procs -> Log!PC]
                     /\ fd \in [Procs -> {"none", "live", "parked", "removed"}]
           Queues == /\ logMade \in [Procs -> 0..MaxLines]
                     /\ queued \in [Procs -> Seq(Log!Lines)] /\ todo \in [Procs -> Seq(Log!Lines)]
           Copies == readIn \in [Procs -> [parked : Seq(Log!Lines), archive : Seq(Log!Lines)]]
           Past == written \subseteq Log!Lines /\ spoiled \in BOOLEAN
<1>0. Log!TypeOK /\ Files /\ Holds /\ Phases /\ Queues /\ Copies /\ Past
  BY DEF EInv, Log!TypeOK
<1> DEFINE Fine == Files /\ Holds /\ Phases /\ Queues /\ Copies /\ Past
           Record == [at : {"archive", "parked", "live", "over", "short"},
                      found : SUBSET Log!Lines, had : SUBSET Log!Lines]
<1>r. reader' \in Record
  <2>1. reader \in Record /\ Log!Short \in Record
    BY <1>0 DEF Log!TypeOK, Log!Short
  <2>2. CASE Log!readEvents
    <3>1. \A line \in Seq(Log!Lines) : Log!ToSet(line) \subseteq Log!Lines
      BY DEF Log!ToSet
    <3>2. /\ Log!ToSet(archive.lines) \subseteq Log!Lines /\ Log!ToSet(live) \subseteq Log!Lines
          /\ Log!ToSet(Log!Parked) \subseteq Log!Lines
      BY <1>0, <3>1, KeptTypes
    <3>3. CASE Log!ReadsArchive
      BY <1>0, <3>2, <3>3 DEF Log!ReadsArchive
    <3>4. CASE Log!ReadsParked
      BY <2>1, <3>2, <3>4 DEF Log!ReadsParked
    <3>5. CASE Log!ReadsLive
      BY <2>1, <3>2, <3>5 DEF Log!ReadsLive
    <3>6. QED
      BY <2>1, <2>2, <3>3, <3>4, <3>5 DEF Log!readEvents, Log!CannotRead
  <2>3. CASE \E p \in Procs : Log!Parks(p) \/ Log!Removes(p)
    BY <2>1, <2>3 DEF Log!Parks, Log!Removes, Log!Misses
  <2>4. QED
    BY <2>1, <2>2, <2>3 DEF Log!Next, Log!vars
<1>a. SUFFICES Fine'
  BY <1>r DEF Log!TypeOK
<1>c. Log!NothingRead \in [parked : Seq(Log!Lines), archive : Seq(Log!Lines)] /\ <<>> \in Seq(Log!Lines)
  BY DEF Log!NothingRead
<1>1. ASSUME NEW p \in Procs, Log!Takes(p) \/ Log!GoesPast(p) PROVE Holds'
  BY <1>0, <1>1 DEF Log!Takes, Log!GoesPast
<1>b. ASSUME NEW p \in Procs, Log!LetsGo(p), UNCHANGED astray PROVE Holds'
  BY <1>0, <1>b DEF Log!LetsGo
<1>2. ASSUME NEW p \in Procs, Log!Logs(p) PROVE Fine'
  <2>0. UNCHANGED <<live, parked, archive, fd, readIn, written, spoiled>>
    BY <1>2 DEF Log!Logs
  <2>1. logMade' \in [Procs -> 0..MaxLines] /\ <<p, logMade'[p]>> \in Log!Lines
    BY <1>0, <1>2 DEF Log!Logs, Log!Lines
  <2>2. CASE UNCHANGED <<logHolding, logOverran, logPc, todo, astray>>
             /\ queued' = [queued EXCEPT ![p] = Append(@, <<p, logMade'[p]>>)]
    <3>1. Append(queued[p], <<p, logMade'[p]>>) \in Seq(Log!Lines)
      BY <1>0, <2>1
    <3>2. Queues' /\ Holds' /\ Phases'
      BY <1>0, <2>0, <2>1, <2>2, <3>1
    <3>3. Files' /\ Copies' /\ Past'
      BY <1>0, <2>0
    <3>4. QED
      BY <3>2, <3>3
  <2>3. CASE Log!StartsWriting(p, <<<<p, logMade'[p]>>>>) /\ UNCHANGED queued
    <3>1. <<<<p, logMade'[p]>>>> \in Seq(Log!Lines)
      BY <2>1
    <3>2. Queues' /\ Phases'
      BY <1>0, <2>0, <2>1, <2>3, <3>1 DEF Log!StartsWriting, Log!PC
    <3>3. Holds'
      BY <1>1, <2>3 DEF Log!StartsWriting
    <3>4. Files' /\ Copies' /\ Past'
      BY <1>0, <2>0
    <3>5. QED
      BY <3>2, <3>3, <3>4
  <2>4. QED
    BY <1>2, <2>2, <2>3 DEF Log!Logs
<1>3. ASSUME NEW p \in Procs, Log!Drains(p) PROVE Fine'
  <2>0. UNCHANGED <<live, parked, archive, fd, readIn, written, spoiled, logMade>>
        /\ Log!StartsWriting(p, queued[p]) /\ queued' = [queued EXCEPT ![p] = <<>>]
    BY <1>3 DEF Log!Drains
  <2>1. queued[p] \in Seq(Log!Lines) /\ <<>> \in Seq(Log!Lines)
    BY <1>0
  <2>2. Queues' /\ Phases'
    BY <1>0, <2>0, <2>1 DEF Log!StartsWriting, Log!PC
  <2>3. Holds'
    BY <1>1, <2>0 DEF Log!StartsWriting
  <2>4. Files' /\ Copies' /\ Past'
    BY <1>0, <2>0
  <2>5. QED
    BY <2>2, <2>3, <2>4
<1>4. ASSUME NEW p \in Procs, Log!Opens(p) PROVE Fine'
  BY <1>0, <1>4 DEF Log!Opens
<1>5. ASSUME NEW p \in Procs, Log!NextLine(p), todo[p] # <<>>, UNCHANGED <<logMade, queued>>
      PROVE  Phases' /\ Queues' /\ Head(todo[p]) \in Log!Lines
  <2>1. todo[p] \in Seq(Log!Lines)
    BY <1>0
  <2>2. Head(todo[p]) \in Log!Lines /\ Tail(todo[p]) \in Seq(Log!Lines)
    BY <2>1, <1>5
  <2>3. "over" \in Log!PC
    BY DEF Log!PC
  <2>4. QED
    BY <1>0, <1>5, <2>2, <2>3 DEF Log!NextLine
<1>6. ASSUME NEW p \in Procs, Log!Writes(p) PROVE Fine'
  <2>0. /\ Log!NextLine(p) /\ UNCHANGED <<archive, logHolding, logOverran, logMade, queued, readIn, astray>>
        /\ todo[p] # <<>> /\ fd[p] # "none"
        /\ live' = IF fd[p] = "live" THEN Append(live, Head(todo[p])) ELSE live
        /\ parked' = IF fd[p] = "parked" THEN Append(parked, Head(todo[p])) ELSE parked
        /\ written' = written \cup {Head(todo[p])} /\ spoiled' = (spoiled \/ fd[p] # "live")
    BY <1>6 DEF EInv, LineInv, OwnLines, Log!Writes
  <2>1. Phases' /\ Queues' /\ Head(todo[p]) \in Log!Lines
    BY <1>5, <2>0
  <2>2. fd[p] = "parked" => parked \in Seq(Log!Lines)
    BY <1>0, <1>6 DEF EInv, FdInv
  <2>3. Files' /\ Past'
    BY <1>0, <2>0, <2>1, <2>2
  <2>4. Holds' /\ Copies'
    BY <1>0, <2>0
  <2>5. QED
    BY <2>1, <2>3, <2>4
<1>7. ASSUME NEW p \in Procs, Log!WriteFails(p) PROVE Fine'
  <2>0. /\ Log!NextLine(p) /\ todo[p] # <<>>
        /\ UNCHANGED <<live, parked, archive, logHolding, logOverran, logMade, queued, readIn,
                       astray, written, spoiled>>
    BY <1>7 DEF EInv, LineInv, OwnLines, Log!WriteFails
  <2>1. Phases' /\ Queues'
    BY <1>5, <2>0
  <2>2. QED
    BY <1>0, <2>0, <2>1
<1>8. ASSUME NEW p \in Procs, Log!Written(p) PROVE Fine'
  BY <1>0, <1>8, <1>b DEF Log!Written, Log!PC
<1>9. ASSUME NEW p \in Procs, Log!Trims(p) PROVE Fine'
  <2>1. Holds'
    BY <1>0, <1>1, <1>9 DEF Log!Trims
  <2>2. QED
    BY <1>0, <1>9, <2>1 DEF Log!Trims, Log!PC
<1>10. ASSUME NEW p \in Procs, Log!Reads(p) PROVE Fine'
  BY <1>0, <1>10 DEF Log!Reads, Log!PC
<1>11. ASSUME NEW p \in Procs, Log!Parks(p) PROVE Fine'
  <2>0. /\ parked' = live /\ live' = <<>> /\ fd' = Log!Moved("live", "parked")
        /\ readIn' = [readIn EXCEPT ![p] = [parked |-> live, archive |-> archive.lines]]
        /\ logPc' = [logPc EXCEPT ![p] = "absorbing"]
        /\ spoiled' = (spoiled \/ ~Log!Vouched(p))
        /\ UNCHANGED <<archive, logHolding, logOverran, logMade, queued, todo, astray, written>>
    BY <1>11 DEF Log!Parks
  <2>1. Files' /\ Copies'
    BY <1>0, <2>0
  <2>2. Phases'
    BY <1>0, <2>0 DEF Log!Moved, Log!PC
  <2>3. Holds' /\ Queues' /\ Past'
    BY <1>0, <2>0
  <2>4. QED
    BY <2>1, <2>2, <2>3
<1>12. ASSUME NEW p \in Procs, Log!FindsItShort(p) PROVE Fine'
  BY <1>0, <1>12, <1>b DEF Log!FindsItShort, Log!StopsTrimming, Log!PC
<1>13. ASSUME NEW p \in Procs, Log!Absorbs(p) PROVE Fine'
  <2>0. /\ archive' = IF archive.absorbed = readIn[p].parked THEN archive
                      ELSE [lines |-> readIn[p].archive \o readIn[p].parked,
                            absorbed |-> readIn[p].parked]
        /\ readIn' = [readIn EXCEPT ![p] = Log!NothingRead]
        /\ logPc' = [logPc EXCEPT ![p] = IF @ = "absorbing" THEN "removing" ELSE "removing left"]
        /\ spoiled' = (spoiled \/ ~Log!Vouched(p))
        /\ UNCHANGED <<live, parked, logHolding, logOverran, logMade, queued, todo, fd, astray, written>>
    BY <1>13 DEF Log!Absorbs
  <2>1. readIn[p].archive \o readIn[p].parked \in Seq(Log!Lines) /\ readIn[p].parked \in Seq(Log!Lines)
    BY <1>0
  <2>2. archive' \in [lines : Seq(Log!Lines), absorbed : Seq(Log!Lines)]
    BY <1>0, <2>0, <2>1
  <2>3. Files' /\ Copies'
    BY <1>0, <1>c, <2>0, <2>2
  <2>4. Phases' /\ Holds' /\ Queues' /\ Past'
    BY <1>0, <2>0 DEF Log!PC
  <2>5. QED
    BY <2>3, <2>4
<1>14. ASSUME NEW p \in Procs, Log!Removes(p) PROVE Fine'
  <2>1. Holds' /\ Phases'
    BY <1>0, <1>14, <1>b DEF Log!Removes, Log!StopsTrimming, Log!Moved, Log!PC
  <2>2. Files' /\ Copies' /\ Queues' /\ Past'
    BY <1>0, <1>14 DEF Log!Removes
  <2>3. QED
    BY <2>1, <2>2
<1>15. ASSUME NEW p \in Procs, Log!TrimFails(p) PROVE Fine'
  <2>1. Holds' /\ Phases'
    BY <1>0, <1>15, <1>b DEF Log!TrimFails, Log!StopsTrimming, Log!PC
  <2>2. Files' /\ Copies' /\ Queues' /\ Past'
    BY <1>0, <1>c, <1>15 DEF Log!TrimFails
  <2>3. QED
    BY <2>1, <2>2
<1>16. ASSUME NEW p \in Procs, Log!Overruns(p) PROVE Fine'
  BY <1>0, <1>16 DEF Log!Overruns
<1>17. ASSUME NEW p \in Procs, Log!Dies(p) PROVE Fine'
  <2>1. Holds' /\ Phases'
    BY <1>0, <1>17, <1>b DEF Log!Dies, Log!PC
  <2>2. Copies' /\ Queues'
    BY <1>0, <1>c, <1>17 DEF Log!Dies
  <2>3. Files' /\ Past'
    BY <1>0, <1>17 DEF Log!Dies
  <2>4. QED
    BY <2>1, <2>2, <2>3
<1>18. CASE UNCHANGED Log!vars \/ Log!readEvents
  BY <1>0, <1>18 DEF Log!vars, Log!readEvents
<1>19. QED
  BY <1>2, <1>3, <1>4, <1>6, <1>7, <1>8, <1>9, <1>10, <1>11, <1>12, <1>13, <1>14, <1>15,
     <1>16, <1>17, <1>18 DEF Log!Next

LEMMA FdStep == EInv /\ [Log!Next]_(Log!vars) => FdInv'
<1> SUFFICES ASSUME EInv, [Log!Next]_(Log!vars) PROVE FdInv'
  OBVIOUS
<1>0. Log!TypeOK /\ FdInv /\ Log!TypeOK'
  BY LogTypes DEF EInv
<1>1. ASSUME parked' = parked, \A q \in Procs : fd'[q] = "parked" => fd[q] = "parked" PROVE FdInv'
  BY <1>0, <1>1 DEF FdInv
<1> USE DEF Log!files, Log!lock, Log!history
<1>2. ASSUME NEW p \in Procs, Log!Writes(p) PROVE FdInv'
  <2>1. /\ fd' = [fd EXCEPT ![p] = "none"] /\ fd \in [Procs -> {"none", "live", "parked", "removed"}]
        /\ parked' = IF fd[p] = "parked" THEN Append(parked, Head(todo[p])) ELSE parked
    BY <1>0, <1>2 DEF Log!Writes, Log!NextLine, Log!TypeOK
  <2>2. CASE fd[p] # "parked"
    BY <1>1, <2>1, <2>2
  <2>3. CASE fd[p] = "parked"
    <3>1. parked \in Seq(Log!Lines) /\ todo[p] \in Seq(Log!Lines) /\ todo[p] # <<>>
      BY <1>0, <1>2, <2>3 DEF FdInv, Log!TypeOK, EInv, LineInv, OwnLines, Log!Writes
    <3>2. Append(parked, Head(todo[p])) \in Seq(Log!Lines)
      BY <3>1
    <3>3. parked' # Absent
      BY <2>1, <2>3, <3>2, LogAssumption DEF Log!Lines
    <3>4. QED
      BY <3>3 DEF FdInv
  <2>4. QED
    BY <2>2, <2>3
<1>3. ASSUME NEW p \in Procs, Log!Parks(p) PROVE FdInv'
  <2>1. parked' # Absent
    BY <1>0, <1>3, LogAssumption DEF Log!Parks, Log!TypeOK, Log!Lines
  <2>2. QED
    BY <2>1 DEF FdInv
<1>4. ASSUME NEW p \in Procs, Log!Removes(p) PROVE FdInv'
  BY <1>0, <1>4 DEF Log!Removes, Log!Moved, FdInv, Log!TypeOK
<1>5. ASSUME NEW p \in Procs, Log!Opens(p) \/ Log!WriteFails(p) \/ Log!Dies(p) PROVE FdInv'
  BY <1>0, <1>1, <1>5 DEF Log!Opens, Log!WriteFails, Log!NextLine, Log!Dies, Log!TypeOK
<1>6. ASSUME NEW p \in Procs, Log!Logs(p) \/ Log!Drains(p) \/ Log!Written(p) \/ Log!Trims(p)
                              \/ Log!Reads(p) \/ Log!FindsItShort(p)
      PROVE  FdInv'
  BY <1>1, <1>6 DEF Log!Logs, Log!Drains, Log!Written, Log!Trims, Log!Reads, Log!FindsItShort
<1>7. ASSUME NEW p \in Procs, Log!Absorbs(p) \/ Log!TrimFails(p) \/ Log!Overruns(p) PROVE FdInv'
  BY <1>1, <1>7 DEF Log!Absorbs, Log!TrimFails, Log!Overruns
<1>8. CASE UNCHANGED Log!vars \/ Log!readEvents
  BY <1>1, <1>8 DEF Log!vars, Log!readEvents
<1>9. QED
  BY <1>2, <1>3, <1>4, <1>5, <1>6, <1>7, <1>8 DEF Log!Next

\* Only what one process did to its own lines is to be looked at.
LEMMA LineChange ==
    ASSUME LineInv, NEW p \in Procs, OwnLines(p)',
           \A q \in Procs \ {p} : /\ logPc'[q] = logPc[q] /\ todo'[q] = todo[q]
                                  /\ queued'[q] = queued[q] /\ logMade'[q] = logMade[q],
           written' \subseteq Log!Lines,
           \A w \in written' : w \in written \/ w[1] = p,
           \A w \in written' : w[1] = p => WrittenFirst(w)'
    PROVE  LineInv'
<1>1. \A q \in Procs \ {p} : OwnLines(q)'
  BY DEF LineInv, OwnLines
<1>2. ASSUME NEW w \in written', w[1] # p PROVE WrittenFirst(w)'
  <2>1. w \in written /\ w[1] \in Procs
    BY <1>2 DEF Log!Lines
  <2>2. WrittenFirst(w)
    BY <2>1 DEF LineInv
  <2>3. QED
    BY <1>2, <2>1, <2>2 DEF WrittenFirst
<1>3. QED
  BY <1>1, <1>2 DEF LineInv

LEMMA LineStep == EInv /\ [Log!Next]_(Log!vars) => LineInv'
<1> SUFFICES ASSUME EInv, [Log!Next]_(Log!vars) PROVE LineInv'
  OBVIOUS
<1> USE DEF Log!files, Log!lock, Log!history
<1>0. Log!TypeOK /\ LineInv /\ Log!TypeOK'
  BY LogTypes DEF EInv
<1>a. /\ logPc \in [Procs -> Log!PC] /\ logMade \in [Procs -> 0..MaxLines] /\ MaxLines \in Nat
      /\ queued \in [Procs -> Seq(Log!Lines)] /\ todo \in [Procs -> Seq(Log!Lines)]
      /\ written \subseteq Log!Lines /\ written' \subseteq Log!Lines
      /\ \A p \in Procs : OwnLines(p)
      /\ \A w \in written : WrittenFirst(w)
      /\ \A line \in Log!Lines : line[1] \in Procs /\ line[2] \in Nat
  <2>1. \A line \in Log!Lines : line[1] \in Procs /\ line[2] \in Nat
    BY LogAssumption DEF Log!Lines
  <2>2. (\A p \in Procs : OwnLines(p)) /\ (\A w \in written : WrittenFirst(w))
    BY <1>0 DEF LineInv
  <2>3. QED
    BY <1>0, <2>1, <2>2, LogAssumption DEF Log!TypeOK
<1>1. ASSUME UNCHANGED <<logMade, queued, todo, written>>,
             \A p \in Procs : logPc'[p] = "writing" => logPc[p] = "writing"
      PROVE  LineInv'
  BY <1>0, <1>1 DEF LineInv, OwnLines, WrittenFirst
<1>2. ASSUME NEW p \in Procs, Log!Logs(p) PROVE LineInv'
  <2> DEFINE new == <<p, logMade[p] + 1>>
  <2>1. /\ logMade' = [logMade EXCEPT ![p] = @ + 1] /\ logPc[p] = "idle" /\ written' = written
        /\ logMade'[p] = logMade[p] + 1 /\ new[1] = p /\ new[2] = logMade[p] + 1
    BY <1>2, <1>a DEF Log!Logs
  <2>2. \A w \in written : w[1] = p => w[2] < new[2] /\ w[2] \in Nat
    BY <1>a, <2>1 DEF WrittenFirst
  <2>3. CASE /\ queued' = [queued EXCEPT ![p] = Append(@, <<p, logMade'[p]>>)]
             /\ UNCHANGED <<logPc, todo>>
    <3>1. queued'[p] = Append(queued[p], new) /\ queued[p] \in Seq(Log!Lines) /\ todo[p] \in Seq(Log!Lines)
      BY <1>a, <2>1, <2>3
    <3>2. /\ DOMAIN queued'[p] = 1..Len(queued[p]) + 1 /\ DOMAIN queued[p] = 1..Len(queued[p])
          /\ Len(queued[p]) \in Nat
          /\ \A i \in 1..Len(queued[p]) : queued'[p][i] = queued[p][i]
          /\ queued'[p][Len(queued[p]) + 1] = new
      BY <3>1
    <3>3. /\ \A i \in DOMAIN queued[p] : queued[p][i][1] = p /\ queued[p][i][2] \in Nat
                 /\ queued[p][i][2] <= logMade[p]
          /\ \A i \in DOMAIN todo[p] : todo[p][i][1] = p /\ todo[p][i][2] \in Nat
                 /\ todo[p][i][2] <= logMade[p]
      BY <1>a, <3>1 DEF OwnLines
    <3>4. Ordered(Append(queued[p], new))
      <4>1. \A i \in DOMAIN queued[p] : queued[p][i][1] = new[1] => queued[p][i][2] < new[2]
        BY <3>3, <2>1, <1>a
      <4>2. Ordered(queued[p])
        BY <1>a DEF OwnLines
      <4>3. QED
        BY <3>1, <4>1, <4>2, OrderedAppend
    <3>5. OwnLines(p)'
      <4>1. todo'[p] = todo[p] /\ logPc'[p] = logPc[p] /\ OwnLines(p)
        BY <2>3, <1>a
      <4>2. \A i \in DOMAIN queued'[p] : queued'[p][i][1] = p /\ queued'[p][i][2] <= logMade'[p]
        <5>1. logMade[p] \in Nat /\ new[1] = p /\ new[2] = logMade'[p] /\ logMade'[p] = logMade[p] + 1
          BY <2>1, <1>a
        <5> HIDE DEF new
        <5>2. ASSUME NEW i \in 1..Len(queued[p])
              PROVE  queued'[p][i][1] = p /\ queued'[p][i][2] <= logMade'[p]
          BY <5>1, <3>2, <3>3, SMTT(30)
        <5>3. QED
          BY <5>1, <5>2, <3>2, SMTT(30)
      <4>3. \A i \in DOMAIN todo[p], j \in DOMAIN queued'[p] : todo[p][i][2] < queued'[p][j][2]
        <5>1. logMade[p] \in Nat /\ new[2] = logMade[p] + 1
          BY <2>1, <1>a
        <5> HIDE DEF new
        <5>2. \A i \in DOMAIN todo[p] : todo[p][i][2] < new[2]
          BY <5>1, <3>3
        <5>3. \A i \in DOMAIN todo[p], j \in 1..Len(queued[p]) : todo[p][i][2] < queued'[p][j][2]
          BY <3>2, <4>1 DEF OwnLines
        <5>4. QED
          BY <5>2, <5>3, <3>2
      <4>4. \A i \in DOMAIN todo[p] : todo[p][i][1] = p /\ todo[p][i][2] <= logMade'[p]
        BY <3>3, <2>1, <1>a
      <4>5. QED
        BY <3>1, <3>4, <4>1, <4>2, <4>3, <4>4 DEF OwnLines
    <3>6. ASSUME NEW w \in written', w[1] = p PROVE WrittenFirst(w)'
      <4>1. WrittenFirst(w) /\ w[2] < new[2] /\ w[2] \in Nat /\ w[2] <= logMade'[p] /\ todo'[p] = todo[p]
        BY <1>a, <2>1, <2>2, <2>3, <3>6
      <4>2. \A i \in DOMAIN queued'[p] : w[2] < queued'[p][i][2]
        BY <4>1, <3>2, <3>6, <2>1 DEF WrittenFirst
      <4>3. QED
        BY <4>1, <4>2, <3>6 DEF WrittenFirst
    <3>7. QED
      BY <1>a, <1>0, <2>1, <2>3, <3>5, <3>6, LineChange
  <2>4. CASE Log!StartsWriting(p, <<<<p, logMade'[p]>>>>) /\ queued[p] = <<>> /\ UNCHANGED queued
    <3>1. /\ todo' = [todo EXCEPT ![p] = <<new>>] /\ logPc' = [logPc EXCEPT ![p] = "writing"]
          /\ todo'[p] = <<new>> /\ DOMAIN todo'[p] = {1} /\ todo'[p][1] = new
          /\ queued'[p] = <<>> /\ DOMAIN queued'[p] = {}
      BY <1>a, <2>1, <2>4 DEF Log!StartsWriting
    <3>2. OwnLines(p)'
      BY <3>1, <2>1, <1>a DEF OwnLines, Ordered
    <3>3. ASSUME NEW w \in written', w[1] = p PROVE WrittenFirst(w)'
      BY <3>1, <3>3, <2>1, <2>2, <1>a DEF WrittenFirst
    <3>4. QED
      BY <1>a, <1>0, <2>1, <2>4, <3>1, <3>2, <3>3, LineChange
  <2>5. QED
    BY <1>2, <2>3, <2>4 DEF Log!Logs
<1>3. ASSUME NEW p \in Procs, Log!Drains(p) PROVE LineInv'
  <2>1. /\ queued[p] # <<>> /\ UNCHANGED <<logMade, written>>
        /\ queued' = [queued EXCEPT ![p] = <<>>] /\ todo' = [todo EXCEPT ![p] = queued[p]]
        /\ logPc' = [logPc EXCEPT ![p] = "writing"]
    BY <1>3 DEF Log!Drains, Log!StartsWriting
  <2>2. /\ queued'[p] = <<>> /\ DOMAIN queued'[p] = {} /\ todo'[p] = queued[p] /\ OwnLines(p)
    BY <1>a, <2>1
  <2>3. OwnLines(p)'
    BY <2>1, <2>2 DEF OwnLines, Ordered
  <2>4. ASSUME NEW w \in written', w[1] = p PROVE WrittenFirst(w)'
    BY <2>1, <2>2, <2>4, <1>a DEF WrittenFirst
  <2>5. QED
    BY <1>a, <1>0, <2>1, <2>3, <2>4, LineChange
<1>4. ASSUME NEW p \in Procs, Log!NextLine(p), logPc[p] = "writing", UNCHANGED <<logMade, queued>>,
             written' \subseteq written \cup {Head(todo[p])}
      PROVE  LineInv'
  <2>1. /\ todo[p] # <<>> /\ todo[p] \in Seq(Log!Lines) /\ OwnLines(p) /\ todo'[p] = Tail(todo[p])
        /\ Ordered(todo[p])
    BY <1>4, <1>a DEF OwnLines, Log!NextLine
  <2>2. /\ Ordered(Tail(todo[p])) /\ Tail(todo[p]) \in Seq(Log!Lines) /\ Head(todo[p]) = todo[p][1]
        /\ \A i \in DOMAIN Tail(todo[p]) : i + 1 \in DOMAIN todo[p] /\ Tail(todo[p])[i] = todo[p][i + 1]
        /\ \A i \in DOMAIN Tail(todo[p]) :
              Tail(todo[p])[i][1] = Head(todo[p])[1] => Head(todo[p])[2] < Tail(todo[p])[i][2]
    BY <2>1, OrderedTail
  <2>3. /\ Len(todo[p]) \in Nat /\ Len(todo[p]) # 0 /\ DOMAIN todo[p] = 1..Len(todo[p])
        /\ Len(todo[p]) # 1 => Tail(todo[p]) # <<>>
    <3>1. Len(todo[p]) \in Nat /\ Len(todo[p]) # 0 /\ DOMAIN todo[p] = 1..Len(todo[p])
      BY <2>1
    <3>2. Len(Tail(todo[p])) = Len(todo[p]) - 1
      BY <2>1, HeadTailProperties
    <3>3. ASSUME Len(todo[p]) # 1, Tail(todo[p]) = <<>> PROVE FALSE
      <4>1. Len(Tail(todo[p])) = 0
        BY <3>3, EmptySeq, Zenon
      <4>2. QED
        BY <3>1, <3>2, <3>3, <4>1
    <3>4. QED
      BY <3>1, <3>3
  <2>4. logPc'[p] = IF Len(todo[p]) = 1 THEN "over" ELSE "writing"
    BY <1>4, <1>a DEF Log!NextLine
  <2>5. OwnLines(p)'
    <3>1. \A i \in DOMAIN todo'[p] : i + 1 \in DOMAIN todo[p] /\ todo'[p][i] = todo[p][i + 1]
      BY <2>1, <2>2
    <3>2. logPc'[p] = "writing" => todo'[p] # <<>>
      BY <2>1, <2>3, <2>4
    <3>3. QED
      BY <1>4, <2>1, <2>2, <3>1, <3>2 DEF OwnLines
  <2>6. /\ Head(todo[p])[1] = p /\ Head(todo[p])[2] <= logMade[p] /\ 1 \in DOMAIN todo[p]
        /\ \A j \in DOMAIN queued[p] : Head(todo[p])[2] < queued[p][j][2]
    BY <2>1, <2>2, <2>3 DEF OwnLines
  <2>7. ASSUME NEW w \in written', w[1] = p PROVE WrittenFirst(w)'
    <3>1. CASE w \in written
      <4>1. WrittenFirst(w)
        BY <3>1, <1>a
      <4>2. QED
        BY <4>1, <2>1, <2>2, <1>4, <2>7 DEF WrittenFirst
    <3>2. CASE w = Head(todo[p])
      <4>1. \A i \in DOMAIN Tail(todo[p]) : Tail(todo[p])[i][1] = p
        BY <2>1, <2>2 DEF OwnLines
      <4>2. QED
        BY <3>2, <4>1, <2>1, <2>2, <2>6, <1>4 DEF WrittenFirst
    <3>3. QED
      BY <1>4, <3>1, <3>2
  <2>8. \A w \in written' : w \in written \/ w[1] = p
    BY <1>4, <2>6
  <2>9. QED
    BY <1>a, <1>0, <1>4, <2>5, <2>7, <2>8, LineChange DEF Log!NextLine
<1>5. ASSUME NEW p \in Procs, Log!Writes(p) \/ Log!WriteFails(p) PROVE LineInv'
  BY <1>4, <1>5 DEF Log!Writes, Log!WriteFails
<1>6. ASSUME NEW p \in Procs, \/ Log!Opens(p) \/ Log!Written(p) \/ Log!Trims(p) \/ Log!Reads(p)
                              \/ Log!FindsItShort(p)
      PROVE  LineInv'
  BY <1>a, <1>1, <1>6 DEF Log!Opens, Log!Written, Log!Trims, Log!Reads, Log!FindsItShort,
      Log!StopsTrimming
<1>7. ASSUME NEW p \in Procs, \/ Log!Parks(p) \/ Log!Absorbs(p) \/ Log!Removes(p)
                              \/ Log!TrimFails(p) \/ Log!Overruns(p)
      PROVE  LineInv'
  BY <1>a, <1>1, <1>7 DEF Log!Parks, Log!Absorbs, Log!Removes, Log!TrimFails, Log!Overruns,
      Log!StopsTrimming
<1>8. ASSUME NEW p \in Procs, Log!Dies(p) PROVE LineInv'
  <2>1. /\ todo' = [todo EXCEPT ![p] = <<>>] /\ queued' = [queued EXCEPT ![p] = <<>>]
        /\ logPc' = [logPc EXCEPT ![p] = "gone"] /\ UNCHANGED <<logMade, written>>
    BY <1>8 DEF Log!Dies
  <2>2. /\ todo'[p] = <<>> /\ queued'[p] = <<>> /\ DOMAIN todo'[p] = {} /\ DOMAIN queued'[p] = {}
        /\ logPc'[p] = "gone"
    BY <1>a, <2>1
  <2>3. OwnLines(p)'
    BY <2>2 DEF OwnLines, Ordered
  <2>4. ASSUME NEW w \in written', w[1] = p PROVE WrittenFirst(w)'
    BY <2>1, <2>2, <2>4, <1>a DEF WrittenFirst
  <2>5. QED
    BY <1>a, <1>0, <2>1, <2>3, <2>4, LineChange
<1>9. CASE UNCHANGED Log!vars \/ Log!readEvents
  BY <1>1, <1>9 DEF Log!vars, Log!readEvents
<1>10. QED
  BY <1>2, <1>3, <1>5, <1>6, <1>7, <1>8, <1>9 DEF Log!Next

LEMMA CompactStep == EInv /\ [Log!Next]_(Log!vars) => CompactInv'
<1> SUFFICES ASSUME EInv, [Log!Next]_(Log!vars) PROVE CompactInv'
  OBVIOUS
<1> USE DEF Log!files, Log!lock, Log!history
<1>0. /\ logPc \in [Procs -> Log!PC] /\ logHolding \subseteq Procs /\ logOverran \subseteq logHolding
      /\ readIn \in [Procs -> [parked : Seq(Log!Lines), archive : Seq(Log!Lines)]]
      /\ CompactInv
  BY DEF EInv, Log!TypeOK
\* What is asked of one process, and what leaves it as it was.
<1> DEFINE Good(p) ==
          /\ logPc[p] \in {"absorbing", "absorbing left"} =>
                parked # Absent /\ readIn[p] = [parked |-> parked, archive |-> archive.lines]
          /\ logPc[p] \in {"removing", "removing left"} =>
                parked # Absent /\ archive.absorbed = parked
          /\ logPc[p] = "parking" => parked = Absent
<1>1. ASSUME logHolding' \subseteq logHolding, logHolding' \ logOverran' \subseteq logHolding \ logOverran,
             spoiled' = spoiled, UNCHANGED <<parked, archive>>,
             \A q \in logHolding' \ logOverran' :
                UNCHANGED <<logPc[q], readIn[q]>>
                \/ logPc'[q] \in {"idle", "writing", "over", "trimming", "sizing"}
      PROVE  CompactInv'
  BY <1>0, <1>1 DEF CompactInv
<1>2. ASSUME NEW p \in Procs, Log!Takes(p), UNCHANGED <<spoiled, parked, archive>>,
             logPc'[p] \in {"idle", "writing", "over", "trimming", "sizing"}
      PROVE  CompactInv'
  BY <1>0, <1>2 DEF CompactInv, Log!Takes
<1>3. ASSUME NEW p \in Procs, NEW lines, Log!StartsWriting(p, lines), logPc[p] = "idle",
             UNCHANGED <<spoiled, parked, archive, readIn>>
      PROVE  CompactInv'
  <2>1. logPc' = [logPc EXCEPT ![p] = "writing"] /\ logPc'[p] = "writing"
    BY <1>0, <1>3 DEF Log!StartsWriting
  <2>2. CASE Log!Takes(p)
    BY <1>2, <1>3, <2>1, <2>2
  <2>3. CASE Log!GoesPast(p)
    BY <1>0, <1>1, <1>3, <2>1, <2>3 DEF Log!GoesPast
  <2>4. QED
    BY <1>3, <2>2, <2>3 DEF Log!StartsWriting
<1>4. ASSUME NEW p \in Procs, Log!Logs(p) PROVE CompactInv'
  <2>1. CASE UNCHANGED <<logHolding, logOverran, logPc>>
    BY <1>1, <1>4, <2>1 DEF Log!Logs
  <2>2. QED
    BY <1>3, <1>4, <2>1 DEF Log!Logs
<1>5. ASSUME NEW p \in Procs, Log!Drains(p) PROVE CompactInv'
  BY <1>3, <1>5 DEF Log!Drains
<1>6. ASSUME NEW p \in Procs, Log!Opens(p) \/ Log!WriteFails(p) PROVE CompactInv'
  BY <1>0, <1>1, <1>6 DEF Log!Opens, Log!WriteFails, Log!NextLine
<1>7. ASSUME NEW p \in Procs, Log!Writes(p) PROVE CompactInv'
  <2>1. /\ UNCHANGED <<archive, logHolding, logOverran, readIn>>
        /\ fd[p] = "live" => parked' = parked
        /\ spoiled' = (spoiled \/ fd[p] # "live")
        /\ logPc' = [logPc EXCEPT ![p] = IF Len(todo[p]) = 1 THEN "over" ELSE @]
        /\ logPc[p] = "writing"
    BY <1>7 DEF Log!Writes, Log!NextLine
  <2>2. CASE fd[p] = "live"
    <3>1. spoiled' = spoiled
      BY <2>1, <2>2 DEF EInv, Log!TypeOK
    <3>2. QED
      BY <1>0, <1>1, <2>1, <2>2, <3>1
  <2>3. CASE fd[p] # "live"
    BY <1>0, <2>1, <2>3 DEF CompactInv
  <2>4. QED
    BY <2>2, <2>3
<1>8. ASSUME NEW p \in Procs, Log!Written(p) PROVE CompactInv'
  BY <1>0, <1>1, <1>8 DEF Log!Written, Log!LetsGo
<1>9. ASSUME NEW p \in Procs, Log!Trims(p) PROVE CompactInv'
  <2>1. CASE Log!Takes(p) /\ logPc' = [logPc EXCEPT ![p] = "sizing"]
    BY <1>0, <1>2, <1>9, <2>1 DEF Log!Trims
  <2>2. CASE UNCHANGED <<logHolding, logOverran>> /\ logPc' = [logPc EXCEPT ![p] = "idle"]
    BY <1>0, <1>1, <1>9, <2>2 DEF Log!Trims
  <2>3. QED
    BY <1>9, <2>1, <2>2 DEF Log!Trims
<1>10. ASSUME NEW p \in Procs, Log!Reads(p) PROVE CompactInv'
  <2>1. /\ parked # Absent /\ UNCHANGED <<parked, archive, logHolding, logOverran, spoiled>>
        /\ readIn' = [readIn EXCEPT ![p] = [parked |-> parked, archive |-> archive.lines]]
        /\ logPc' = [logPc EXCEPT ![p] = "absorbing left"]
    BY <1>10 DEF Log!Reads
  <2>2. QED
    BY <1>0, <2>1 DEF CompactInv
<1>11. ASSUME NEW p \in Procs, Log!Parks(p) PROVE CompactInv'
  <2>1. /\ parked' = live /\ UNCHANGED <<archive, logHolding, logOverran>>
        /\ readIn' = [readIn EXCEPT ![p] = [parked |-> live, archive |-> archive.lines]]
        /\ logPc' = [logPc EXCEPT ![p] = "absorbing"]
        /\ spoiled' = (spoiled \/ p \notin logHolding \ logOverran)
    BY <1>11 DEF Log!Parks, Log!Vouched
  <2>2. live # Absent
    BY LogAssumption DEF EInv, Log!TypeOK, Log!Lines
  <2>3. ASSUME ~spoiled', NEW q \in logHolding' \ logOverran' PROVE q = p
    BY <1>0, <2>1, <2>3 DEF CompactInv
  <2>4. Good(p)'
    BY <1>0, <2>1, <2>2
  <2>5. QED
    BY <1>0, <2>1, <2>3, <2>4 DEF CompactInv
<1>12. ASSUME NEW p \in Procs, Log!FindsItShort(p) PROVE CompactInv'
  BY <1>0, <1>1, <1>12 DEF Log!FindsItShort, Log!StopsTrimming, Log!LetsGo
<1>13. ASSUME NEW p \in Procs, Log!Absorbs(p) PROVE CompactInv'
  <2>1. /\ UNCHANGED <<parked, logHolding, logOverran>>
        /\ logPc[p] \in {"absorbing", "absorbing left"}
        /\ logPc'[p] \in {"removing", "removing left"}
        /\ spoiled' = (spoiled \/ p \notin logHolding \ logOverran)
        /\ archive'.absorbed = readIn[p].parked
    BY <1>0, <1>13 DEF Log!Absorbs, Log!Vouched
  <2>2. ASSUME ~spoiled', NEW q \in logHolding' \ logOverran' PROVE q = p
    BY <1>0, <2>1, <2>2 DEF CompactInv
  <2>3. ASSUME ~spoiled' PROVE Good(p)'
    <3>1. parked # Absent /\ readIn[p] = [parked |-> parked, archive |-> archive.lines]
      BY <1>0, <2>1, <2>3 DEF CompactInv
    <3>2. readIn[p].parked = parked
      <4>1. [parked |-> parked, archive |-> archive.lines].parked = parked
        OBVIOUS
      <4>2. QED
        BY <3>1, <4>1
    <3>3. parked' # Absent /\ archive'.absorbed = parked'
      BY <2>1, <3>1, <3>2, Zenon
    <3>4. QED
      BY <2>1, <3>3
  <2>4. QED
    BY <1>0, <2>1, <2>2, <2>3 DEF CompactInv
<1>14. ASSUME NEW p \in Procs, Log!Removes(p) PROVE CompactInv'
  <2>1. /\ parked' = Absent /\ archive' = archive
        /\ spoiled' = (spoiled \/ p \notin logHolding \ logOverran)
        /\ \/ Log!StopsTrimming(p)
           \/ logPc' = [logPc EXCEPT ![p] = "parking"] /\ UNCHANGED <<logHolding, logOverran>>
    BY <1>14 DEF Log!Removes, Log!Vouched
  <2>2. logHolding' \subseteq logHolding /\ logHolding' \ logOverran' \subseteq logHolding \ logOverran
    BY <2>1 DEF Log!StopsTrimming, Log!LetsGo
  <2>3. ASSUME ~spoiled', NEW q \in logHolding' \ logOverran' PROVE q = p
    BY <1>0, <2>1, <2>2, <2>3 DEF CompactInv
  <2>4. Good(p)'
    BY <1>0, <2>1 DEF Log!StopsTrimming
  <2>5. QED
    BY <1>0, <2>2, <2>3, <2>4 DEF CompactInv
<1>15. ASSUME NEW p \in Procs, Log!TrimFails(p) PROVE CompactInv'
  BY <1>0, <1>1, <1>15 DEF Log!TrimFails, Log!StopsTrimming, Log!LetsGo
<1>16. ASSUME NEW p \in Procs, Log!Overruns(p) PROVE CompactInv'
  BY <1>0, <1>1, <1>16 DEF Log!Overruns
<1>17. ASSUME NEW p \in Procs, Log!Dies(p) PROVE CompactInv'
  BY <1>0, <1>1, <1>17 DEF Log!Dies, Log!LetsGo
<1>18. CASE UNCHANGED Log!vars \/ Log!readEvents
  BY <1>0, <1>1, <1>18 DEF Log!vars, Log!readEvents
<1>19. QED
  BY <1>4, <1>5, <1>6, <1>7, <1>8, <1>9, <1>10, <1>11, <1>12, <1>13, <1>14, <1>15,
     <1>16, <1>17, <1>18 DEF Log!Next

-----------------------------------------------------------------------------

LEMMA SetOfBoth ==
    ASSUME NEW s \in Seq(Log!Lines), NEW t \in Seq(Log!Lines)
    PROVE  Log!ToSet(s \o t) = Log!ToSet(s) \cup Log!ToSet(t)
<1>1. /\ Len(s \o t) = Len(s) + Len(t) /\ DOMAIN (s \o t) = 1..Len(s) + Len(t)
      /\ Len(s) \in Nat /\ Len(t) \in Nat
      /\ DOMAIN s = 1..Len(s) /\ DOMAIN t = 1..Len(t)
      /\ \A i \in 1..Len(s) + Len(t) : (s \o t)[i] = IF i <= Len(s) THEN s[i] ELSE t[i - Len(s)]
  BY ConcatProperties
<1>2. ASSUME NEW i \in 1..Len(t) PROVE t[i] \in Log!ToSet(s \o t)
  <2>1. Len(s) + i \in 1..Len(s) + Len(t) /\ (s \o t)[Len(s) + i] = t[i]
    BY <1>1
  <2>2. QED
    BY <1>1, <2>1 DEF Log!ToSet
<1>3. ASSUME NEW i \in 1..Len(s) PROVE s[i] \in Log!ToSet(s \o t)
  <2>1. i \in 1..Len(s) + Len(t) /\ (s \o t)[i] = s[i]
    BY <1>1
  <2>2. QED
    BY <1>1, <2>1 DEF Log!ToSet
<1>4. ASSUME NEW i \in 1..Len(s) + Len(t) PROVE (s \o t)[i] \in Log!ToSet(s) \cup Log!ToSet(t)
  <2>1. CASE i <= Len(s)
    BY <1>1, <2>1 DEF Log!ToSet
  <2>2. CASE ~(i <= Len(s))
    <3>1. i - Len(s) \in 1..Len(t) /\ (s \o t)[i] = t[i - Len(s)]
      BY <1>1, <2>2
    <3>2. QED
      BY <1>1, <3>1 DEF Log!ToSet
  <2>3. QED
    BY <2>1, <2>2
<1>5. QED
  BY <1>1, <1>2, <1>3, <1>4 DEF Log!ToSet

\* What is kept when the parked file has been taken in, and when it has not.
LEMMA KeptIs ==
    ASSUME Log!TypeOK
    PROVE  /\ Log!Parked = archive.absorbed => Log!Kept = archive.lines \o live
           /\ Log!Parked # archive.absorbed => Log!Kept = (archive.lines \o Log!Parked) \o live
           /\ Log!Parked = <<>> => Log!Kept = archive.lines \o live
           /\ archive.lines \o live \in Seq(Log!Lines)
           /\ archive.lines \o Log!Parked \in Seq(Log!Lines)
<1>1. archive.lines \o <<>> = archive.lines
  BY KeptTypes, ConcatEmptySeq
<1>2. QED
  <2>1. /\ archive.lines \in Seq(Log!Lines) /\ live \in Seq(Log!Lines)
        /\ Log!Parked \in Seq(Log!Lines)
    BY KeptTypes
  <2>2. /\ archive.lines \o live \in Seq(Log!Lines)
        /\ archive.lines \o Log!Parked \in Seq(Log!Lines)
    BY <2>1, ConcatProperties
  <2>3. QED
    BY <2>2, <1>1 DEF Log!Kept

\* What is kept is in the three files.
LEMMA KeptIsThere ==
    ASSUME Log!TypeOK
    PROVE  /\ Log!ToSet(archive.lines \o Log!Parked \o live)
                = Log!ToSet(archive.lines) \cup Log!ToSet(Log!Parked) \cup Log!ToSet(live)
           /\ Log!ToSet(Log!Kept) \subseteq Log!ToSet(archive.lines \o Log!Parked \o live)
<1>1. /\ Log!ToSet(archive.lines \o live) = Log!ToSet(archive.lines) \cup Log!ToSet(live)
      /\ Log!ToSet((archive.lines \o Log!Parked) \o live)
            = (Log!ToSet(archive.lines) \cup Log!ToSet(Log!Parked)) \cup Log!ToSet(live)
  <2>1. /\ archive.lines \in Seq(Log!Lines) /\ live \in Seq(Log!Lines)
        /\ Log!Parked \in Seq(Log!Lines) /\ archive.lines \o Log!Parked \in Seq(Log!Lines)
    BY KeptTypes, KeptIs
  <2>2. QED
    BY <2>1, SetOfBoth
<1>2. QED
  BY <1>1, KeptIs

LEMMA KeptStep == EInv /\ [Log!Next]_(Log!vars) => KeptInv'
<1> SUFFICES ASSUME EInv, [Log!Next]_(Log!vars), ~spoiled' PROVE KeptInv'
  BY DEF KeptInv
<1> USE DEF Log!files, Log!lock, Log!history
<1>0. /\ Log!TypeOK /\ Log!TypeOK' /\ spoiled \in BOOLEAN /\ spoiled' \in BOOLEAN /\ CompactInv /\ KeptInv
      /\ logHolding \subseteq Procs
  BY LogTypes DEF EInv, Log!TypeOK
<1>1. ASSUME UNCHANGED <<live, parked, archive, written, spoiled>> PROVE KeptInv'
  <2>1. Log!Kept' = Log!Kept
    BY <1>1 DEF Log!Kept, Log!Parked
  <2>2. QED
    BY <1>0, <1>1, <2>1 DEF KeptInv, Log!ToSet, Ordered
<1>2. ASSUME NEW p \in Procs, Log!Writes(p) PROVE KeptInv'
  <2> DEFINE line == Head(todo[p])
  <2>1. /\ fd[p] = "live" /\ ~spoiled /\ live' = Append(live, line) /\ UNCHANGED <<parked, archive>>
        /\ written' = written \cup {line}
    BY <1>0, <1>2 DEF Log!Writes
  <2>2. todo[p] \in Seq(Log!Lines) /\ todo[p] # <<>> /\ 1 \in DOMAIN todo[p] /\ line = todo[p][1]
        /\ line \in Log!Lines
    <3>1. todo[p] \in Seq(Log!Lines) /\ todo[p] # <<>>
      BY <1>0, <1>2 DEF Log!TypeOK, EInv, LineInv, OwnLines, Log!Writes
    <3>2. QED
      BY <3>1
  <2> HIDE DEF line
  <2>3. line[1] = p /\ \A w \in written : w[1] = p => w[2] < line[2]
    BY <2>2 DEF EInv, LineInv, OwnLines, WrittenFirst
  <2>4. Log!Kept' = Append(Log!Kept, line)
    <3> DEFINE before == archive.lines \o (IF Log!Parked = archive.absorbed THEN <<>> ELSE Log!Parked)
    <3>1. before \in Seq(Log!Lines) /\ live \in Seq(Log!Lines)
      <4>1. (IF Log!Parked = archive.absorbed THEN <<>> ELSE Log!Parked) \in Seq(Log!Lines)
        BY <1>0, KeptTypes
      <4>2. QED
        BY <1>0, <4>1, KeptTypes
    <3>2. Log!Kept = before \o live /\ Log!Kept' = before \o Append(live, line)
      BY <2>1 DEF Log!Kept, Log!Parked
    <3> HIDE DEF before
    <3>3. before \o Append(live, line) = Append(before \o live, line)
      <4>1. Append(live, line) = live \o <<line>> /\ Append(before \o live, line) = (before \o live) \o <<line>>
            /\ <<line>> \in Seq(Log!Lines)
        BY <3>1, <2>2, AppendIsConcat, ConcatProperties
      <4>2. QED
        BY <4>1, <3>1, ConcatAssociative
    <3>4. QED
      BY <3>2, <3>3
  <2>5. Log!Kept \in Seq(Log!Lines) /\ Ordered(Log!Kept) /\ Log!ToSet(Log!Kept) = written
    BY <1>0, <2>1, KeptTypes DEF KeptInv
  <2>6. \A i \in DOMAIN Log!Kept : Log!Kept[i][1] = line[1] => Log!Kept[i][2] < line[2]
    BY <2>3, <2>5 DEF Log!ToSet
  <2>7. Ordered(Append(Log!Kept, line)) /\ Log!ToSet(Append(Log!Kept, line)) = written \cup {line}
    BY <2>5, <2>6, OrderedAppend
  <2>8. Log!ToSet(archive.absorbed) \subseteq Log!ToSet(archive.lines)
    BY <1>0, <2>1 DEF KeptInv
  <2>9. QED
    <3>1. Ordered(Log!Kept)' /\ Log!ToSet(Log!Kept)' = written'
      BY <2>1, <2>4, <2>7 DEF Ordered, Log!ToSet
    <3>2. (Log!ToSet(archive.absorbed) \subseteq Log!ToSet(archive.lines))'
      BY <2>1, <2>8 DEF Log!ToSet
    <3>3. QED
      BY <3>1, <3>2 DEF KeptInv
<1>3. ASSUME Log!Kept' = Log!Kept, ~spoiled, written' = written,
             Log!ToSet(archive.absorbed)' \subseteq Log!ToSet(archive.lines)'
      PROVE  KeptInv'
  BY <1>0, <1>3 DEF KeptInv, Ordered, Log!ToSet
<1>4. ASSUME NEW p \in Procs, Log!Parks(p) PROVE KeptInv'
  <2>1. /\ p \in logHolding \ logOverran /\ ~spoiled /\ parked' = live /\ live' = <<>>
        /\ UNCHANGED <<archive, written>> /\ (parked = Absent \/ logPc[p] = "parking")
    BY <1>0, <1>4 DEF Log!Parks, Log!Vouched
  <2>2. parked = Absent
    BY <1>0, <2>1 DEF CompactInv
  <2>3. live \in Seq(Log!Lines) /\ live # Absent
    BY <1>0, LogAssumption DEF Log!TypeOK, Log!Lines
  <2>4. Log!Parked = <<>> /\ Log!Parked' = live
    BY <2>1, <2>2, <2>3 DEF Log!Parked
  <2>5. Log!Kept = archive.lines \o live /\ archive.lines \in Seq(Log!Lines)
    BY <1>0, <2>4, KeptIs, KeptTypes
  <2>6. Log!Kept' = archive.lines \o (IF live = archive.absorbed THEN <<>> ELSE live) \o <<>>
    BY <2>1, <2>4 DEF Log!Kept
  <2>7. live = archive.absorbed => live = <<>>
    <3> SUFFICES ASSUME live = archive.absorbed, live # <<>> PROVE FALSE
      OBVIOUS
    <3>1. Ordered(archive.lines \o live)
      BY <1>0, <2>1, <2>5 DEF KeptInv
    <3>2. PICK x \in Log!ToSet(live) : x \notin Log!ToSet(archive.lines)
      BY <2>3, <2>5, <3>1, OrderedApart
    <3>3. QED
      BY <1>0, <2>1, <3>2 DEF KeptInv
  <2>8. Log!Kept' = Log!Kept
    <3>1. (IF live = archive.absorbed THEN <<>> ELSE live) = live
      BY <2>7
    <3>2. (archive.lines \o live) \o <<>> = archive.lines \o live
      BY <2>3, <2>5, ConcatProperties, ConcatEmptySeq
    <3>3. QED
      BY <2>5, <2>6, <3>1, <3>2
  <2>9. Log!ToSet(archive.absorbed)' \subseteq Log!ToSet(archive.lines)'
    BY <1>0, <2>1 DEF KeptInv, Log!ToSet
  <2>10. QED
    BY <1>3, <2>1, <2>8, <2>9
<1>5. ASSUME NEW p \in Procs, Log!Absorbs(p) PROVE KeptInv'
  <2>1. /\ p \in logHolding \ logOverran /\ ~spoiled /\ UNCHANGED <<live, parked, written>>
        /\ logPc[p] \in {"absorbing", "absorbing left"}
        /\ archive' = IF archive.absorbed = readIn[p].parked THEN archive
                      ELSE [lines |-> readIn[p].archive \o readIn[p].parked,
                            absorbed |-> readIn[p].parked]
    BY <1>0, <1>5 DEF Log!Absorbs, Log!Vouched
  <2>2. parked # Absent /\ readIn[p].parked = parked /\ readIn[p].archive = archive.lines
    <3>1. parked # Absent /\ readIn[p] = [parked |-> parked, archive |-> archive.lines]
      BY <1>0, <2>1 DEF CompactInv
    <3>2. /\ [parked |-> parked, archive |-> archive.lines].parked = parked
          /\ [parked |-> parked, archive |-> archive.lines].archive = archive.lines
      OBVIOUS
    <3>3. QED
      BY <3>1, <3>2
  <2>3. Log!Parked = parked /\ Log!Parked' = parked
    BY <2>1, <2>2 DEF Log!Parked
  <2>4. CASE archive.absorbed = parked
    <3>1. archive' = archive
      BY <2>1, <2>2, <2>4
    <3>2. spoiled' = spoiled
      BY <1>0, <2>1
    <3>3. QED
      BY <1>1, <2>1, <3>1, <3>2
  <2>5. CASE archive.absorbed # parked
    <3>1. archive'.lines = archive.lines \o parked /\ archive'.absorbed = parked
      BY <2>1, <2>2, <2>5
    <3>2. Log!Kept = (archive.lines \o parked) \o live
      BY <1>0, <2>3, <2>5, KeptIs
    <3>3. Log!Kept' = (archive.lines \o parked) \o <<>> \o live
      BY <2>1, <2>3, <3>1 DEF Log!Kept
    <3>4. parked \in Seq(Log!Lines) /\ archive.lines \in Seq(Log!Lines)
          /\ archive.lines \o parked \in Seq(Log!Lines)
      BY <1>0, <2>3, KeptTypes, KeptIs
    <3>5. (archive.lines \o parked) \o <<>> = archive.lines \o parked
      BY <3>4, ConcatEmptySeq
    <3>6. Log!Kept' = Log!Kept
      BY <3>2, <3>3, <3>5
    <3>7. Log!ToSet(parked) \subseteq Log!ToSet(archive.lines \o parked)
      BY <3>4, SetOfBoth
    <3>8. Log!ToSet(archive.absorbed)' \subseteq Log!ToSet(archive.lines)'
      <4>1. /\ Log!ToSet(archive.absorbed)' = Log!ToSet(parked)
            /\ Log!ToSet(archive.lines)' = Log!ToSet(archive.lines \o parked)
        BY <3>1, Zenon DEF Log!ToSet
      <4>2. QED
        BY <3>7, <4>1
    <3>9. QED
      BY <1>3, <2>1, <3>6, <3>8
  <2>6. QED
    BY <2>4, <2>5
<1>6. ASSUME NEW p \in Procs, Log!Removes(p) PROVE KeptInv'
  <2>1. /\ p \in logHolding \ logOverran /\ ~spoiled /\ UNCHANGED <<live, archive, written>>
        /\ logPc[p] \in {"removing", "removing left"} /\ parked' = Absent
    BY <1>0, <1>6 DEF Log!Removes, Log!Vouched
  <2>2. parked # Absent /\ archive.absorbed = parked
    BY <1>0, <2>1 DEF CompactInv
  <2>3. Log!Kept = archive.lines \o live
    BY <1>0, <2>2, KeptIs DEF Log!Parked
  <2>4. Log!Kept' = archive'.lines \o live'
    <3>1. Log!TypeOK' /\ Log!Parked' = <<>>
      BY <1>0, <2>1 DEF Log!Parked
    <3>2. Log!Kept' = archive'.lines \o <<>> \o live'
      BY <3>1 DEF Log!Kept
    <3>3. archive'.lines \in Seq(Log!Lines)
      BY <1>0 DEF Log!TypeOK
    <3>4. archive'.lines \o <<>> = archive'.lines
      BY <3>3, ConcatEmptySeq
    <3>5. QED
      BY <3>2, <3>4
  <2>5. Log!ToSet(archive.absorbed)' \subseteq Log!ToSet(archive.lines)'
    BY <1>0, <2>1 DEF KeptInv, Log!ToSet
  <2>6. QED
    BY <1>3, <2>1, <2>3, <2>4, <2>5
<1>7. ASSUME NEW p \in Procs, Log!Logs(p) \/ Log!Drains(p) \/ Log!Written(p) \/ Log!Trims(p)
                              \/ Log!Reads(p) \/ Log!FindsItShort(p)
      PROVE  KeptInv'
  BY <1>1, <1>7 DEF Log!Logs, Log!Drains, Log!Written, Log!Trims, Log!Reads, Log!FindsItShort
<1>8. ASSUME NEW p \in Procs, Log!Opens(p) \/ Log!WriteFails(p) \/ Log!Dies(p) \/ Log!TrimFails(p)
                              \/ Log!Overruns(p)
      PROVE  KeptInv'
  BY <1>1, <1>8 DEF Log!Opens, Log!WriteFails, Log!Dies, Log!TrimFails, Log!Overruns
<1>9. CASE UNCHANGED Log!vars \/ Log!readEvents
  BY <1>1, <1>9 DEF Log!vars, Log!readEvents
<1>10. QED
  BY <1>2, <1>4, <1>5, <1>6, <1>7, <1>8, <1>9 DEF Log!Next

\* Lines in order are as many as there are different ones.
LEMMA OrderedCount ==
    ASSUME NEW s \in Seq(Log!Lines), Ordered(s)
    PROVE  Len(s) = Log!Cardinality(Log!ToSet(s))
<1>1. Len(s) \in Nat /\ DOMAIN s = 1..Len(s) /\ \A i \in 1..Len(s) : s[i] \in Log!Lines
  OBVIOUS
<1>2. ASSUME NEW i \in 1..Len(s), NEW j \in 1..Len(s), s[i] = s[j], i < j PROVE FALSE
  <2>1. s[i][2] < s[i][2]
    BY <1>1, <1>2 DEF Ordered
  <2>2. s[i][2] \in Nat
    BY <1>1 DEF Log!Lines
  <2>3. QED
    BY <2>1, <2>2
<1>3. \A i, j \in 1..Len(s) : s[i] = s[j] => i = j
  BY <1>1, <1>2
<1>4. ExistsBijection(1..Len(s), Log!ToSet(s))
  <2>1. [i \in 1..Len(s) |-> s[i]] \in Bijection(1..Len(s), Log!ToSet(s))
    BY <1>1, <1>3 DEF Bijection, Injection, Surjection, IsInjective, Log!ToSet
  <2>2. QED
    BY <2>1 DEF ExistsBijection
<1>5. IsFiniteSet(1..Len(s)) /\ Cardinality(1..Len(s)) = Len(s)
  <2>1. 1 \in Int /\ Len(s) \in Int
    BY <1>1
  <2>2. QED
    <3>1. IsFiniteSet(1..Len(s)) /\ Cardinality(1..Len(s)) = IF 1 > Len(s) THEN 0 ELSE Len(s) - 1 + 1
      BY <2>1, FS_Interval
    <3>2. QED
      BY <1>1, <3>1
<1>6. Cardinality(Log!ToSet(s)) = Len(s)
  BY <1>4, <1>5, FS_Bijection
<1>7. QED
  BY <1>6 DEF Log!Cardinality, Cardinality

LEMMA ReaderStep == EInv /\ [Log!Next]_(Log!vars) => ReaderInv'
<1> SUFFICES ASSUME EInv, [Log!Next]_(Log!vars), ~spoiled' PROVE ReaderInv'
  BY DEF ReaderInv
<1> USE DEF Log!files, Log!lock, Log!history
<1>0. /\ Log!TypeOK /\ Log!TypeOK' /\ spoiled \in BOOLEAN /\ spoiled' \in BOOLEAN
      /\ CompactInv /\ KeptInv /\ ReaderInv /\ live \in Seq(Log!Lines)
  BY LogTypes DEF EInv, Log!TypeOK
<1>1. ASSUME UNCHANGED <<reader, live, parked>>, ~spoiled PROVE ReaderInv'
  BY <1>1, <1>0 DEF ReaderInv, Log!Parked, Log!ToSet
<1>2. ASSUME NEW p \in Procs, Log!Writes(p), reader' = reader PROVE ReaderInv'
  <2>1. fd[p] = "live" /\ ~spoiled /\ live' = Append(live, Head(todo[p])) /\ UNCHANGED parked
    BY <1>0, <1>2 DEF Log!Writes
  <2>2. /\ DOMAIN live = 1..Len(live) /\ DOMAIN live' = 1..Len(live) + 1 /\ Len(live) \in Nat
        /\ \A i \in 1..Len(live) : live'[i] = live[i]
    BY <1>0, <2>1
  <2>3. Log!ToSet(live) \subseteq Log!ToSet(live)' /\ Log!ToSet(Log!Parked)' = Log!ToSet(Log!Parked)
    BY <2>1, <2>2 DEF Log!ToSet, Log!Parked
  <2>4. QED
    BY <1>0, <1>2, <2>1, <2>3 DEF ReaderInv
<1>3. ASSUME NEW p \in Procs, Log!Parks(p) PROVE ReaderInv'
  <2>1. /\ p \in logHolding \ logOverran /\ ~spoiled /\ parked' = live
        /\ logPc[p] = "parking" \/ parked = Absent
        /\ reader' = IF reader.at = "live" THEN Log!Short ELSE reader
    BY <1>0, <1>3 DEF Log!Parks, Log!Vouched, Log!Misses, Log!TypeOK
  <2>2. ~spoiled /\ parked' = live /\ parked = Absent
    BY <1>0, <1>3, <2>1 DEF CompactInv, Log!Parks
  <2>3. live # Absent
    BY <1>0, LogAssumption DEF Log!Lines
  <2>4. Log!ToSet(Log!Parked) = {} /\ Log!ToSet(live) = Log!ToSet(Log!Parked)'
    <3>1. Log!Parked = <<>> /\ Log!Parked' = live
      BY <2>2, <2>3 DEF Log!Parked
    <3>2. QED
      BY <3>1 DEF Log!ToSet
  <2>5. CASE reader.at = "live"
    BY <2>1, <2>5 DEF ReaderInv, Log!Short
  <2>6. CASE reader.at # "live"
    BY <1>0, <2>1, <2>2, <2>4, <2>6 DEF ReaderInv
  <2>7. QED
    BY <2>5, <2>6
<1>4. ASSUME NEW p \in Procs, Log!Removes(p) PROVE ReaderInv'
  <2>1. /\ ~spoiled /\ live' = live
        /\ reader' = IF reader.at = "parked" THEN Log!Short ELSE reader
    BY <1>0, <1>4 DEF Log!Removes, Log!Misses
  <2>2. CASE reader.at = "parked"
    BY <2>1, <2>2 DEF ReaderInv, Log!Short
  <2>3. CASE reader.at # "parked"
    BY <1>0, <2>1, <2>3 DEF ReaderInv, Log!ToSet
  <2>4. QED
    BY <2>2, <2>3
<1>5. CASE Log!readEvents
  <2>1. UNCHANGED <<live, parked, archive, written, spoiled>>
    BY <1>5 DEF Log!readEvents
  <2>2. /\ Log!ToSet(live)' = Log!ToSet(live) /\ Log!ToSet(Log!Parked)' = Log!ToSet(Log!Parked)
    BY <2>1 DEF Log!ToSet, Log!Parked
  <2>3. CASE Log!ReadsArchive
    <3>1. written \subseteq Log!ToSet(archive.lines) \cup Log!ToSet(Log!Parked) \cup Log!ToSet(live)
      BY <1>0, <2>1, KeptIsThere DEF KeptInv
    <3>2. reader' = [at |-> "parked", found |-> Log!ToSet(archive.lines), had |-> written]
      BY <2>3 DEF Log!ReadsArchive
    <3>3. QED
      BY <2>2, <3>1, <3>2 DEF ReaderInv
  <2>4. reader \in [at : {"archive", "parked", "live", "over", "short"},
                    found : SUBSET Log!Lines, had : SUBSET Log!Lines]
    BY <1>0 DEF Log!TypeOK
  <2>5. CASE Log!ReadsParked
    <3>1. /\ reader'.at = "live" /\ reader'.had = reader.had
          /\ reader'.found = reader.found \cup Log!ToSet(Log!Parked)
      BY <2>4, <2>5 DEF Log!ReadsParked
    <3>2. reader.at = "parked" /\ ~spoiled
      BY <1>0, <2>1, <2>5 DEF Log!ReadsParked
    <3>3. QED
      BY <1>0, <2>2, <3>1, <3>2 DEF ReaderInv
  <2>6. CASE Log!ReadsLive
    <3>1. /\ reader'.at = "over" /\ reader'.had = reader.had
          /\ reader'.found = reader.found \cup Log!ToSet(live)
      BY <2>4, <2>6 DEF Log!ReadsLive
    <3>2. reader.at = "live" /\ ~spoiled
      BY <1>0, <2>1, <2>6 DEF Log!ReadsLive
    <3>3. QED
      BY <1>0, <3>1, <3>2 DEF ReaderInv
  <2>7. CASE Log!CannotRead
    BY <2>7 DEF ReaderInv, Log!CannotRead, Log!Short
  <2>8. QED
    BY <1>5, <2>3, <2>5, <2>6, <2>7 DEF Log!readEvents
<1>6. ASSUME NEW p \in Procs, Log!Logs(p) \/ Log!Drains(p) \/ Log!Written(p) \/ Log!Trims(p)
                              \/ Log!Reads(p) \/ Log!FindsItShort(p), reader' = reader
      PROVE  ReaderInv'
  BY <1>1, <1>6 DEF Log!Logs, Log!Drains, Log!Written, Log!Trims, Log!Reads, Log!FindsItShort
<1>7. ASSUME NEW p \in Procs, Log!Opens(p) \/ Log!WriteFails(p) \/ Log!Dies(p) \/ Log!TrimFails(p)
                              \/ Log!Overruns(p) \/ Log!Absorbs(p), reader' = reader
      PROVE  ReaderInv'
  <2>1. UNCHANGED <<live, parked>> /\ ~spoiled
    BY <1>0, <1>7 DEF Log!Opens, Log!WriteFails, Log!Dies, Log!TrimFails, Log!Overruns, Log!Absorbs
  <2>2. QED
    BY <1>1, <1>7, <2>1
<1>8. CASE UNCHANGED Log!vars
  BY <1>1, <1>8 DEF Log!vars
<1>9. QED
  BY <1>2, <1>3, <1>4, <1>5, <1>6, <1>7, <1>8 DEF Log!Next

LEMMA LogStep == EInv /\ [Log!Next]_(Log!vars) => EInv'
  BY LogTypes, FdStep, LineStep, CompactStep, KeptStep, ReaderStep DEF EInv

\* Every line written is kept, once but for a compaction under way, and each process's
\* in the order it logged them, whatever compactions were cut short, and a read no
\* compaction takes a piece from shows all that were written before it, unless a write
\* or a hold past the lock met a compaction.
THEOREM LinesAreKept == Log!Init /\ [][Log!Next]_(Log!vars) => []LogInv
<1>1. EInv => Log!Inv
  <2> SUFFICES ASSUME EInv PROVE Log!Inv
    OBVIOUS
  <2>1. Log!TypeOK
    BY DEF EInv
  <2>2. spoiled \/ /\ Log!Kept \in Seq(Log!Lines) /\ Ordered(Log!Kept)
                   /\ Log!ToSet(Log!Kept) = written
    BY <2>1, KeptTypes DEF EInv, KeptInv
  <2>3. Log!CountedOnce
    BY <2>2, OrderedCount DEF Log!CountedOnce
  <2>4. Log!WrittenIsKept /\ Log!ReadsShowAll
    BY <2>1, <2>2, KeptIsThere DEF Log!WrittenIsKept, Log!ReadsShowAll, EInv, ReaderInv
  <2>5. Log!ReadInOrder
    BY <2>2 DEF Log!ReadInOrder, Ordered
  <2>6. QED
    BY <2>1, <2>3, <2>4, <2>5 DEF Log!Inv
<1>2. QED
  BY LogInit, LogStep, <1>1, PTL DEF LogInv

-----------------------------------------------------------------------------
(* Requests run to their end *)

\* A run under way is on an account, since no later than now, and nothing has come of it.
UnderWay ==
    \A x \in Procs :
        /\ run[x].phase \in {"running", "checking"} => run[x].account \in Limits!Accounts
        /\ run[x].phase \in {"running", "checking"} => run[x].outcome = "none"
        /\ run[x].startedAt <= clock

\* What the ledger, a run's view of it or a run says is spent, somebody confirmed.
ToldInv ==
    /\ \A c \in caps : <<c.account, c.model>> \in told
    /\ \A x \in Procs : \A c \in run[x].ledger : <<c.account, c.model>> \in told
    /\ \A x \in Procs : run[x].spent \subseteq told

\* A run that has been let through would clear a limit of what it runs on met before.
Clears(x, s, c) ==
    /\ run[x].phase = "running" /\ run[x].served
    /\ run[x].account = s[1] /\ s[2] \in {None, run[x].model}
    /\ c.at < run[x].startedAt

\* A limit that stands is not over, and is on the file by itself, where no run under
\* way will take it for disproved.
StandingInv ==
    \A s \in standing :
        /\ limits[s] > clock
        /\ \E c \in caps : /\ c.account = s[1] /\ c.model = s[2]
                           /\ \A x \in Procs : ~Clears(x, s, c)

RunsIInv ==
    Limits!TypeOK /\ UnderWay /\ ToldInv /\ StandingInv /\ Limits!GivesUpHonestly

-----------------------------------------------------------------------------

LEMMA Least ==
    ASSUME NEW T \in SUBSET Nat, T # {}
    PROVE  \E x \in T : \A y \in T : x <= y
<1> DEFINE R == {ss \in Nat \X Nat : ss[1] < ss[2]}
<1>1. IsWellFoundedOn(R, Nat)
  BY NatLessThanWellFounded DEF OpToRel
<1>2. \E x \in T : \A y \in T : <<y, x>> \notin R
  <2> HIDE DEF R
  <2>1. QED
    BY <1>1, WFMin
<1>3. PICK x \in T : \A y \in T : <<y, x>> \notin R
  BY <1>2
<1>4. ASSUME NEW y \in T PROVE x <= y
  <2>1. <<y, x>> \in Nat \X Nat /\ ~(y < x)
    BY <1>3
  <2>2. x \in Nat /\ y \in Nat
    OBVIOUS
  <2>3. QED
    BY <2>1, <2>2
<1>5. QED
  BY <1>4

\* Of pairs of numbers there is a first.
LEMMA FirstOfBoth ==
    ASSUME NEW S, S # {}, NEW f \in [S -> Nat], NEW g \in [S -> Nat]
    PROVE  \E x \in S : \A y \in S : f[x] < f[y] \/ (f[x] = f[y] /\ g[x] <= g[y])
<1>1. PICK x1 \in S : \A y \in S : f[x1] <= f[y]
  <2>1. {f[y] : y \in S} \in SUBSET Nat /\ {f[y] : y \in S} # {}
    OBVIOUS
  <2>2. PICK k \in {f[y] : y \in S} : \A l \in {f[y] : y \in S} : k <= l
    BY <2>1, Least
  <2>3. QED
    BY <2>2
<1> DEFINE T == {y \in S : f[y] = f[x1]}
<1>2. PICK x2 \in T : \A y \in T : g[x2] <= g[y]
  <2>1. {g[y] : y \in T} \in SUBSET Nat /\ {g[y] : y \in T} # {}
    OBVIOUS
  <2>2. PICK k \in {g[y] : y \in T} : \A l \in {g[y] : y \in T} : k <= l
    BY <2>1, Least
  <2>3. QED
    BY <2>2
<1>3. \A y \in S : f[x2] < f[y] \/ (f[x2] = f[y] /\ g[x2] <= g[y])
  <2> TAKE y \in S
  <2>1. f[x1] \in Nat /\ f[y] \in Nat /\ f[x2] = f[x1] /\ f[x1] <= f[y]
    BY <1>1
  <2>2. CASE f[y] = f[x1]
    BY <1>2, <2>1, <2>2
  <2>3. CASE f[y] # f[x1]
    BY <2>1, <2>3
  <2>4. QED
    BY <2>2, <2>3
<1>4. QED
  BY <1>3

\* What a run's record holds.
LEMMA ARecord ==
    ASSUME NEW r \in Limits!RunRecord
    PROVE  /\ r.phase \in {"off", "running", "checking", "over"} /\ r.rotates \in BOOLEAN
           /\ r.pinned \in Limits!Accounts \cup {None}
           /\ r.ledger \in SUBSET Limits!CapRecord
           /\ r.spent \in SUBSET (Limits!Accounts \X Models)
           /\ r.modelInUse \in Limits!Scopes /\ r.model \in Limits!Scopes
           /\ r.attempt \in Nat /\ r.account \in Limits!Accounts \cup {None}
           /\ r.startedAt \in 0..MaxTime /\ r.served \in BOOLEAN
           /\ r.outcome \in {"none", "answered", "failed", "cannot run", "exhausted",
                             "all capped"}
  BY DEF Limits!RunRecord

LEMMA IdleIs == Limits!Idle \in Limits!RunRecord
<1>1. 0 \in 0..MaxTime
  BY RunsAssumption
<1>2. QED
  BY <1>1 DEF Limits!Idle, Limits!RunRecord, Limits!Scopes

\* What is in a list has a place in it.
LEMMA PlaceType ==
    ASSUME NEW list, DOMAIN list \subseteq Nat, NEW first, NEW x \in {first} \cup Limits!ToSet(list)
    PROVE  Limits!Place(x, first, list) \in Nat
<1>1. CASE x = first
  BY <1>1 DEF Limits!Place
<1>2. CASE x # first
  <2>1. {j \in DOMAIN list : list[j] = x} \in SUBSET Nat
    OBVIOUS
  <2>2. {j \in DOMAIN list : list[j] = x} # {}
    BY <1>2 DEF Limits!ToSet
  <2>3. \E k \in DOMAIN list : list[k] = x /\ \A j \in DOMAIN list : list[j] = x => k <= j
    BY <2>1, <2>2, Least
  <2>4. QED
    BY <1>2, <2>3 DEF Limits!Place
<1>3. QED
  BY <1>1, <1>2

LEMMA FirstIsOne ==
    ASSUME NEW S \in SUBSET Limits!Accounts, S # {}, NEW pinned
    PROVE  Limits!FirstOf(S, pinned) \in S
<1>1. \A y \in S : Limits!Place(y, pinned, Order) \in Nat
  BY PlaceType, RunsAssumption DEF Limits!Accounts
<1>2. [y \in S |-> Limits!Place(y, pinned, Order)] \in [S -> Nat]
  BY <1>1
<1>3. \E x \in S : \A y \in S :
         Limits!Place(x, pinned, Order) <= Limits!Place(y, pinned, Order)
  <2> DEFINE f == [y \in S |-> Limits!Place(y, pinned, Order)]
  <2>1. PICK x \in S : \A y \in S : f[x] < f[y] \/ (f[x] = f[y] /\ f[x] <= f[y])
    BY <1>2, FirstOfBoth
  <2>2. QED
    BY <1>1, <2>1
<1>4. QED
  BY <1>3 DEF Limits!FirstOf

LEMMA FirstPairIsOne ==
    ASSUME Limits!TypeOK, NEW r \in Limits!RunRecord, Limits!UsablePairs(r) # {}
    PROVE  Limits!FirstPair(r) \in Limits!UsablePairs(r)
<1> DEFINE P == Limits!UsablePairs(r)
           A(p) == Limits!Place(p[1], r.pinned, Order)
           M(p) == Limits!Place(p[2], r.modelInUse, preference)
<1>1. ASSUME NEW p \in P PROVE A(p) \in Nat /\ M(p) \in Nat
  <2>1. p[1] \in Limits!Accounts /\ p[2] \in {r.modelInUse} \cup Limits!ToSet(preference)
    BY DEF Limits!UsablePairs, Limits!Eligible, Limits!ModelChain, Limits!TypeOK
  <2>2. DOMAIN preference \subseteq Nat /\ DOMAIN Order \subseteq Nat
    BY RunsAssumption DEF Limits!TypeOK
  <2>3. QED
    BY <2>1, <2>2, PlaceType DEF Limits!Accounts
<1>2. [p \in P |-> A(p)] \in [P -> Nat] /\ [p \in P |-> M(p)] \in [P -> Nat]
  BY <1>1
<1>3. \E p \in P : \A q \in P : IF modelFirst THEN M(p) < M(q) \/ (M(p) = M(q) /\ A(p) <= A(q))
                                ELSE A(p) < A(q) \/ (A(p) = A(q) /\ M(p) <= M(q))
  <2> DEFINE f == [p \in P |-> A(p)]
             g == [p \in P |-> M(p)]
  <2>1. f \in [P -> Nat] /\ g \in [P -> Nat] /\ P # {}
    BY <1>2
  <2>2. PICK byA \in P : \A q \in P : f[byA] < f[q] \/ (f[byA] = f[q] /\ g[byA] <= g[q])
    <3> HIDE DEF P, f, g
    <3>1. QED
      BY <2>1, FirstOfBoth
  <2>3. PICK byM \in P : \A q \in P : g[byM] < g[q] \/ (g[byM] = g[q] /\ f[byM] <= f[q])
    <3> HIDE DEF P, f, g
    <3>1. QED
      BY <2>1, FirstOfBoth
  <2>4. QED
    <3> HIDE DEF P, A, M
    <3>1. QED
      BY <2>2, <2>3
<1>4. QED
  BY <1>3 DEF Limits!FirstPair

\* Where a run goes next.
LEMMA PlannedIs ==
    ASSUME Limits!TypeOK, NEW r \in Limits!RunRecord
    PROVE  \/ \E acc \in Limits!Accounts, mod \in Limits!Scopes :
                 Limits!Planned(r) = Limits!Launched(r, acc, mod)
           \/ Limits!Planned(r) = Limits!Over(r, "all capped")
           \/ Limits!Planned(r) = Limits!Over(r, "cannot run") /\ Limits!Eligible(r.ledger) = {}
           \/ Limits!Planned(r) = Limits!Over(r, "exhausted") /\ Limits!UsablePairs(r) = {}
<1>1. Limits!Eligible(r.ledger) \in SUBSET Limits!Accounts
  BY DEF Limits!Eligible, Limits!TypeOK
<1>2. CASE /\ r.attempt # Limits!MaxAttempts /\ Limits!Eligible(r.ledger) # {}
           /\ ~r.rotates \/ r.modelInUse = None
  <2>1. Limits!FirstOf(Limits!Eligible(r.ledger), r.pinned) \in Limits!Accounts
    BY <1>1, <1>2, FirstIsOne
  <2>2. r.model \in Limits!Scopes
    BY DEF Limits!RunRecord
  <2>3. QED
    BY <1>2, <2>1, <2>2 DEF Limits!Planned
<1>3. CASE /\ r.attempt # Limits!MaxAttempts /\ Limits!Eligible(r.ledger) # {}
           /\ r.rotates /\ r.modelInUse # None /\ Limits!UsablePairs(r) # {}
  <2>1. Limits!FirstPair(r) \in Limits!UsablePairs(r)
    BY <1>3, FirstPairIsOne
  <2>2. Limits!ModelChain(r) \subseteq Limits!Scopes
    <3>1. preference \in Seq(Models)
      BY RunsAssumption DEF Limits!TypeOK
    <3>2. \A k \in DOMAIN preference : preference[k] \in Models
      BY <3>1
    <3>3. r.modelInUse \in Limits!Scopes
      BY ARecord
    <3>4. Limits!ToSet(preference) \subseteq Models
      BY <3>2 DEF Limits!ToSet
    <3>5. QED
      BY <3>3, <3>4 DEF Limits!ModelChain, Limits!Scopes
  <2>3. Limits!FirstPair(r)[1] \in Limits!Accounts /\ Limits!FirstPair(r)[2] \in Limits!Scopes
    BY <1>1, <2>1, <2>2 DEF Limits!UsablePairs
  <2>4. QED
    BY <1>3, <2>3 DEF Limits!Planned
<1>4. QED
  BY <1>2, <1>3 DEF Limits!Planned

-----------------------------------------------------------------------------

LEMMA RunsInit == Limits!Init => RunsIInv
<1> SUFFICES ASSUME Limits!Init PROVE RunsIInv
  OBVIOUS
<1> USE RunsAssumption DEF Limits!Init
<1>2. Limits!TypeOK
  BY IdleIs DEF Limits!TypeOK, Limits!Times
<1>3. \A x \in Procs : /\ run[x].phase = "off" /\ run[x].startedAt = 0 /\ run[x].ledger = {}
                       /\ run[x].spent = {} /\ run[x].outcome = "none"
  BY DEF Limits!Idle
<1>4. UnderWay /\ ToldInv /\ StandingInv
  BY <1>3 DEF UnderWay, ToldInv, StandingInv
<1>5. Limits!GivesUpHonestly
  BY <1>3 DEF Limits!GivesUpHonestly
<1>6. QED
  BY <1>2, <1>4, <1>5 DEF RunsIInv

\* What a run is launched as, and what is left of one that is over.
LEMMA LaunchedIs ==
    ASSUME Limits!TypeOK, NEW r \in Limits!RunRecord, NEW acc \in Limits!Accounts,
           NEW mod \in Limits!Scopes, NEW l, l = Limits!Launched(r, acc, mod)
    PROVE  /\ l \in Limits!RunRecord /\ l.phase = "running" /\ l.account = acc
           /\ l.model = mod /\ l.startedAt = clock /\ l.ledger = r.ledger /\ l.spent = r.spent
           /\ l.outcome = r.outcome
           /\ l.served = ~Limits!Refuses(acc, Limits!ModelOf(mod))
<1> DEFINE served == ~Limits!Refuses(acc, Limits!ModelOf(mod))
           inUse == IF r.rotates THEN mod ELSE r.modelInUse
<1>1. l = [r EXCEPT !.phase = "running", !.account = acc, !.attempt = r.attempt + 1,
                    !.startedAt = clock, !.model = mod, !.served = served,
                    !.modelInUse = inUse]
  BY DEF Limits!Launched, Limits!RunRecord
<1>2. served \in BOOLEAN
  BY DEF Limits!Refuses
<1>3. inUse \in Limits!Scopes /\ r.attempt + 1 \in Nat
  <2>1. r.modelInUse \in Limits!Scopes /\ r.attempt \in Nat
    BY ARecord
  <2>2. QED
    BY <2>1
<1>8. clock \in 0..MaxTime
  BY DEF Limits!TypeOK
<1> HIDE DEF served, inUse
<1>4. l \in Limits!RunRecord
  BY <1>1, <1>2, <1>3, <1>8, ZenonT(40) DEF Limits!RunRecord
<1>5. /\ l.phase = "running" /\ l.account = acc /\ l.model = mod /\ l.startedAt = clock
      /\ l.ledger = r.ledger /\ l.spent = r.spent /\ l.outcome = r.outcome
  BY <1>1 DEF Limits!RunRecord
<1>6. l.served = served
  BY <1>1 DEF Limits!RunRecord
<1>7. QED
  BY <1>4, <1>5, <1>6 DEF served

\* How a run ends.
RunEnds == {"answered", "failed", "cannot run", "exhausted", "all capped"}

\* A launch that ended is over, however it ended.
LEMMA OverEnds ==
    ASSUME NEW r, NEW how PROVE Limits!Over(r, how).phase = "over"
BY DEF Limits!Over, Limits!Idle

LEMMA OverIs ==
    ASSUME NEW r \in Limits!RunRecord, NEW how \in RunEnds,
           NEW l, l = Limits!Over(r, how)
    PROVE  /\ l \in Limits!RunRecord /\ l.phase = "over" /\ l.account = None
           /\ l.startedAt = 0 /\ l.ledger = {} /\ l.spent = {} /\ l.outcome = how
           /\ l.modelInUse = r.modelInUse
<1> DEFINE i == Limits!Idle
<1>1. i \in Limits!RunRecord
  BY IdleIs
<1>2. /\ i.account = None /\ i.startedAt = 0 /\ i.ledger = {} /\ i.spent = {}
  BY DEF Limits!Idle
<1>3. r.modelInUse \in Limits!Scopes
  BY ARecord
<1> HIDE DEF i
<1> DEFINE o == [i EXCEPT !.phase = "over", !.outcome = how, !.modelInUse = r.modelInUse]
<1>4. o \in Limits!RunRecord
  BY <1>1, <1>3 DEF Limits!RunRecord, RunEnds
<1>5. /\ o.phase = "over" /\ o.outcome = how /\ o.modelInUse = r.modelInUse
      /\ o.account = i.account /\ o.startedAt = i.startedAt /\ o.ledger = i.ledger /\ o.spent = i.spent
  BY <1>1 DEF Limits!RunRecord
<1>6. l = o
  BY DEF Limits!Over, i
<1> HIDE DEF o
<1>7. QED
  BY <1>2, <1>4, <1>5, <1>6

-----------------------------------------------------------------------------

\* What a run that goes on is: launched, or over, with its reason when nothing is left.
GoesOn(r, l) ==
    \/ \E acc \in Limits!Accounts, mod \in Limits!Scopes : l = Limits!Launched(r, acc, mod)
    \/ l = Limits!Over(r, "all capped")
    \/ l = Limits!Over(r, "cannot run") /\ Limits!Eligible(r.ledger) = {}
    \/ l = Limits!Over(r, "exhausted") /\ Limits!UsablePairs(r) = {}

LEMMA GoesType ==
    ASSUME Limits!TypeOK, NEW r \in Limits!RunRecord, NEW l, GoesOn(r, l), r.outcome = "none"
    PROVE  /\ l \in Limits!RunRecord /\ l.startedAt <= clock
           /\ l.phase \in {"running", "checking"} => l.account \in Limits!Accounts
           /\ l.phase \in {"running", "checking"} => l.outcome = "none"
           /\ l.ledger \subseteq r.ledger /\ l.spent \subseteq r.spent
<1>1. clock \in Nat /\ clock <= clock /\ 0 <= clock
  BY RunsAssumption DEF Limits!TypeOK
<1>2. CASE \E acc \in Limits!Accounts, mod \in Limits!Scopes : l = Limits!Launched(r, acc, mod)
  BY <1>1, <1>2, LaunchedIs
<1>3. CASE \E how \in RunEnds : l = Limits!Over(r, how)
  <2>1. PICK how \in RunEnds : l = Limits!Over(r, how)
    BY <1>3
  <2>2. l.phase = "over"
    BY <2>1, OverEnds
  <2>3. l \in Limits!RunRecord /\ l.startedAt = 0 /\ l.ledger = {} /\ l.spent = {}
    BY <2>1, OverIs
  <2>4. QED
    BY <1>1, <2>2, <2>3
<1>4. QED
  BY <1>2, <1>3 DEF GoesOn, RunEnds

\* An active account is one of them.
LEMMA AdvanceType ==
    ASSUME Limits!TypeOK, UNCHANGED <<signedIn, clock>>,
           Limits!AdvanceActive(caps') \/ UNCHANGED active
    PROVE  active' \in Limits!Accounts \cup {None}
<1>1. CASE Limits!AdvanceActive(caps')
  <2> DEFINE ok == Limits!Eligible(caps')
  <2>1. ok \in SUBSET Limits!Accounts
    BY DEF Limits!Eligible, Limits!TypeOK
  <2>2. ok # {} => Limits!FirstOf(ok, None) \in Limits!Accounts
    BY <2>1, FirstIsOne
  <2>3. active \in Limits!Accounts \cup {None}
    BY DEF Limits!TypeOK
  <2>4. active' = IF active \in ok \/ ok = {} THEN active ELSE Limits!FirstOf(ok, None)
    BY <1>1 DEF Limits!AdvanceActive
  <2> HIDE DEF ok
  <2>5. QED
    BY <2>2, <2>3, <2>4
<1>2. CASE UNCHANGED active
  BY <1>2 DEF Limits!TypeOK
<1>3. QED
  BY <1>1, <1>2

LEMMA ProceedsAs ==
    ASSUME Limits!TypeOK, NEW x \in Procs, NEW r \in Limits!RunRecord, Limits!Proceeds(x, r),
           UNCHANGED <<signedIn, clock>>
    PROVE  /\ active' \in Limits!Accounts \cup {None}
           /\ \E l : GoesOn(r, l) /\ run' = [run EXCEPT ![x] = l]
<1>1. Limits!AdvanceActive(caps') \/ UNCHANGED active
  BY DEF Limits!Proceeds
<1>2. GoesOn(r, Limits!Planned(r))
  BY PlannedIs DEF GoesOn
<1>3. QED
  BY <1>1, <1>2, AdvanceType DEF Limits!Proceeds

LEMMA EndsAs ==
    ASSUME Limits!TypeOK, NEW x \in Procs, NEW r, NEW how \in {"answered", "failed"},
           Limits!Ends(x, r, how), UNCHANGED <<signedIn, clock>>
    PROVE  /\ active' \in Limits!Accounts \cup {None}
           /\ run' = [run EXCEPT ![x] = Limits!Over(Limits!Idle, how)]
<1>1. Limits!AdvanceActive(caps') \/ UNCHANGED active
  BY DEF Limits!Ends
<1>2. QED
  BY <1>1, AdvanceType DEF Limits!Ends

LEMMA StartsAs ==
    ASSUME Limits!TypeOK, NEW x \in Procs, Limits!Starts(x)
    PROVE  /\ active' \in Limits!Accounts \cup {None}
           /\ \E r \in Limits!RunRecord : \E l :
                 /\ r.ledger = caps /\ r.spent = {} /\ r.outcome = "none"
                 /\ GoesOn(r, l) /\ run' = [run EXCEPT ![x] = l]
<1>1. PICK rotates \in BOOLEAN, mod \in Limits!Scopes :
         Limits!Proceeds(x, [Limits!Idle EXCEPT !.rotates = rotates, !.ledger = caps,
                                !.modelInUse = mod, !.model = mod, !.pinned = active])
  BY DEF Limits!Starts
<1> DEFINE i == Limits!Idle
<1> DEFINE r == [i EXCEPT !.rotates = rotates, !.ledger = caps, !.modelInUse = mod,
                          !.model = mod, !.pinned = active]
<1>2. i \in Limits!RunRecord /\ i.spent = {} /\ i.outcome = "none"
  BY IdleIs DEF Limits!Idle
<1>3. Limits!Proceeds(x, r)
  BY <1>1
<1> HIDE DEF i
<1>4. r \in Limits!RunRecord
  BY <1>2 DEF Limits!RunRecord, Limits!TypeOK
<1>5. r.ledger = caps /\ r.spent = {} /\ r.outcome = "none"
  BY <1>2 DEF Limits!RunRecord
<1>6. UNCHANGED <<signedIn, clock>>
  BY DEF Limits!Starts, Limits!settings
<1> HIDE DEF r
<1>7. QED
  BY <1>3, <1>4, <1>5, <1>6, ProceedsAs

\* A limit confirmed is told, and recorded in the run's view and, unless the file
\* cannot be written, there.
Records(x, scope, cap, saved) ==
    /\ cap \in Limits!CapRecord
    /\ cap.account = run[x].account /\ cap.model = scope /\ cap.at = clock
    /\ told' = told \cup {<<run[x].account, scope>>}
    /\ caps' = IF saved THEN Limits!MarkCapped(caps, cap) ELSE caps
    /\ standing' = IF saved
                   THEN (standing \ (IF scope = None THEN {run[x].account} \X Models ELSE {}))
                        \cup {<<run[x].account, scope>>}
                   ELSE standing

LEMMA ConfirmedAs ==
    ASSUME Limits!TypeOK, UnderWay, NEW x \in Procs, NEW scope \in Limits!Scopes,
           Limits!Confirmed(x, scope)
    PROVE  /\ active' \in Limits!Accounts \cup {None}
           /\ UNCHANGED <<preference, modelFirst, signedIn, clock, limits, begun>>
           /\ run[x].account \in Limits!Accounts
           /\ limits[<<run[x].account, scope>>] > clock
           /\ \E cap : \E saved \in BOOLEAN : Records(x, scope, cap, saved) /\
                 \E r \in Limits!RunRecord : \E l :
                    /\ r.ledger \subseteq run[x].ledger \cup {cap}
                    /\ r.spent \subseteq run[x].spent \cup {<<run[x].account, scope>>}
                    /\ r.outcome = "none"
                    /\ GoesOn(r, l) \/ l = Limits!Over(Limits!Idle, "failed")
                    /\ run' = [run EXCEPT ![x] = l]
<1> DEFINE rx == run[x]
           s0 == <<rx.account, scope>>
<1>1. rx \in Limits!RunRecord /\ rx.account \in Limits!Accounts /\ rx.outcome = "none"
  BY DEF Limits!TypeOK, UnderWay, Limits!Confirmed
<1>2. limits[s0] > clock
  BY DEF Limits!Confirmed, Limits!Out
<1>3. UNCHANGED <<preference, modelFirst, signedIn, clock, limits, begun>>
  BY DEF Limits!Confirmed, Limits!settings
<1>4. PICK until \in {limits[s0], clock + Backoff}, saved \in BOOLEAN :
         LET cap == [account |-> rx.account, model |-> scope, until |-> until, at |-> clock] IN
         /\ caps' = IF saved THEN Limits!MarkCapped(caps, cap) ELSE caps
         /\ standing' = IF saved
                        THEN (standing \ (IF scope = None THEN {rx.account} \X Models ELSE {}))
                             \cup {s0}
                        ELSE standing
         /\ IF rx.rotates
            THEN Limits!Proceeds(x, [rx EXCEPT !.ledger = Limits!MarkCapped(@, cap),
                     !.spent = @ \cup ({s0} \cap (Limits!Accounts \X Models)),
                     !.modelInUse = IF @ = None THEN scope ELSE @])
            ELSE /\ run' = [run EXCEPT ![x] = Limits!Over(Limits!Idle, "failed")]
                 /\ IF saved THEN Limits!AdvanceActive(caps') ELSE UNCHANGED active
  BY DEF Limits!Confirmed
<1> DEFINE cap == [account |-> rx.account, model |-> scope, until |-> until, at |-> clock]
<1>5. until \in Limits!Times
  <2>1. s0 \in Limits!Accounts \X Limits!Scopes
    BY <1>1
  <2>2. limits[s0] \in Limits!Times
    BY <2>1 DEF Limits!TypeOK
  <2>3. clock + Backoff \in Limits!Times
    BY RunsAssumption DEF Limits!TypeOK, Limits!Times
  <2>4. QED
    BY <2>2, <2>3
<1>6. clock \in 0..MaxTime
  BY DEF Limits!TypeOK
<1>7. cap \in Limits!CapRecord
  BY <1>1, <1>5, <1>6 DEF Limits!CapRecord
<1>8. Records(x, scope, cap, saved)
  BY <1>4, <1>7 DEF Records, Limits!Confirmed
<1>9. CASE rx.rotates
  <2> DEFINE ledger == Limits!MarkCapped(rx.ledger, cap)
             spent == rx.spent \cup ({s0} \cap (Limits!Accounts \X Models))
             inUse == IF rx.modelInUse = None THEN scope ELSE rx.modelInUse
             r == [rx EXCEPT !.ledger = ledger, !.spent = spent, !.modelInUse = inUse]
  <2>1. Limits!Proceeds(x, r)
    BY <1>4, <1>9
  <2>2. rx.ledger \in SUBSET Limits!CapRecord /\ rx.modelInUse \in Limits!Scopes
    BY <1>1, ARecord
  <2>3. rx.spent \in SUBSET (Limits!Accounts \X Models)
    BY <1>1, ARecord
  <2>4. ledger \in SUBSET Limits!CapRecord /\ ledger \subseteq rx.ledger \cup {cap}
    BY <1>7, <2>2 DEF Limits!MarkCapped
  <2>5. spent \in SUBSET (Limits!Accounts \X Models) /\ spent \subseteq rx.spent \cup {s0}
    BY <2>3
  <2>6. inUse \in Limits!Scopes
    BY <2>2
  <2> HIDE DEF ledger, spent, inUse, rx
  <2>7. r \in Limits!RunRecord
    BY <1>1, <2>4, <2>5, <2>6 DEF Limits!RunRecord
  <2>8. r.ledger = ledger /\ r.spent = spent /\ r.outcome = "none"
    BY <1>1 DEF Limits!RunRecord
  <2> HIDE DEF r
  <2>9. active' \in Limits!Accounts \cup {None} /\ \E l : GoesOn(r, l) /\ run' = [run EXCEPT ![x] = l]
    BY <1>3, <2>1, <2>7, ProceedsAs
  <2>10. /\ r.ledger \subseteq run[x].ledger \cup {cap}
         /\ r.spent \subseteq run[x].spent \cup {<<run[x].account, scope>>}
    BY <2>4, <2>5, <2>8 DEF rx
  <2>11. run[x].account \in Limits!Accounts /\ limits[<<run[x].account, scope>>] > clock
    BY <1>1, <1>2 DEF rx
  <2>12. PICK l : GoesOn(r, l) /\ run' = [run EXCEPT ![x] = l]
    BY <2>9
  <2> HIDE DEF cap
  <2>13. QED
    BY <1>3, <1>8, <2>7, <2>8, <2>9, <2>10, <2>11, <2>12
<1>10. CASE ~rx.rotates
  <2>1. run' = [run EXCEPT ![x] = Limits!Over(Limits!Idle, "failed")]
    BY <1>4, <1>10
  <2>2. Limits!AdvanceActive(caps') \/ UNCHANGED active
    BY <1>4, <1>10
  <2>3. active' \in Limits!Accounts \cup {None}
    BY <1>3, <2>2, AdvanceType
  <2>4. /\ Limits!Idle.ledger = {} /\ Limits!Idle.spent = {}
        /\ Limits!Idle.outcome = "none"
    BY DEF Limits!Idle
  <2>5. QED
    BY <1>1, <1>2, <1>3, <1>8, <2>1, <2>3, <2>4, IdleIs
<1>11. QED
  BY <1>9, <1>10

-----------------------------------------------------------------------------

\* A run's record changed, and nothing else that the types are about.
LEMMA OneRunTypes ==
    ASSUME Limits!TypeOK, UnderWay, NEW x \in Procs, NEW l \in Limits!RunRecord,
           run' = [run EXCEPT ![x] = l], UNCHANGED clock,
           l.startedAt <= clock,
           l.phase \in {"running", "checking"} => l.account \in Limits!Accounts,
           l.phase \in {"running", "checking"} => l.outcome = "none"
    PROVE  run' \in [Procs -> Limits!RunRecord] /\ UnderWay'
<1>1. run \in [Procs -> Limits!RunRecord]
  BY DEF Limits!TypeOK
<1>2. \A y \in Procs : run'[y] = IF y = x THEN l ELSE run[y]
  BY <1>1
<1>3. QED
  BY <1>1, <1>2 DEF UnderWay

LEMMA OneRunTold ==
    ASSUME Limits!TypeOK, ToldInv, NEW x \in Procs, NEW l,
           run' = [run EXCEPT ![x] = l], told \subseteq told',
           \A c \in caps' : <<c.account, c.model>> \in told',
           \A c \in l.ledger : <<c.account, c.model>> \in told',
           l.spent \subseteq told'
    PROVE  ToldInv'
<1>1. \A y \in Procs : run'[y] = IF y = x THEN l ELSE run[y]
  BY DEF Limits!TypeOK
<1>2. QED
  BY <1>1 DEF ToldInv

LEMMA OverRunning ==
    ASSUME Limits!TypeOK, NEW how \in {"answered", "failed"}, NEW l,
           l = Limits!Over(Limits!Idle, how)
    PROVE  /\ l \in Limits!RunRecord /\ l.startedAt <= clock /\ l.phase = "over"
           /\ l.ledger = {} /\ l.spent = {} /\ l.outcome = how
<1>1. how \in RunEnds
  BY DEF RunEnds
<1>2. l \in Limits!RunRecord
  BY <1>1, IdleIs, OverIs
<1>3. l.phase = "over"
  BY DEF Limits!Over, Limits!Idle
<1>4. l.startedAt = 0
  BY DEF Limits!Over, Limits!Idle
<1>5. l.ledger = {} /\ l.spent = {}
  BY <1>1, IdleIs, OverIs
<1>6. l.outcome = how
  BY DEF Limits!Over, Limits!Idle
<1>7. 0 <= clock
  BY RunsAssumption DEF Limits!TypeOK
<1>8. QED
  BY <1>2, <1>3, <1>4, <1>5, <1>6, <1>7

LEMMA RunsTypes ==
    RunsIInv /\ [Limits!Next]_(Limits!vars) => Limits!TypeOK' /\ UnderWay' /\ ToldInv'
<1> DEFINE Fine == Limits!TypeOK' /\ UnderWay' /\ ToldInv'
<1> SUFFICES ASSUME RunsIInv, [Limits!Next]_(Limits!vars) PROVE Fine
  OBVIOUS
<1>0. Limits!TypeOK /\ UnderWay /\ ToldInv
  BY DEF RunsIInv
<1>1. CASE Limits!Ticks
  <2> DEFINE new(x) == [run[x] EXCEPT !.served =
                  \/ @
                  \/ /\ run[x].phase = "running"
                     /\ limits[<<run[x].account, None>>] <= clock'
                     /\ limits[<<run[x].account, Limits!ModelOf(run[x].model)>>] <= clock']
  <2>1. run' = [x \in Procs |-> new(x)]
    BY <1>1 DEF Limits!Ticks
  <2>2. ASSUME NEW x \in Procs
        PROVE  /\ new(x) \in Limits!RunRecord /\ new(x).phase = run[x].phase
               /\ new(x).account = run[x].account /\ new(x).startedAt = run[x].startedAt
               /\ new(x).ledger = run[x].ledger /\ new(x).spent = run[x].spent
               /\ new(x).outcome = run[x].outcome
    <3>1. run[x] \in Limits!RunRecord
      BY <1>0 DEF Limits!TypeOK
    <3>2. QED
      BY <3>1 DEF Limits!RunRecord
  <2> HIDE DEF new
  <2>3. run' \in [Procs -> Limits!RunRecord]
    BY <2>1, <2>2
  <2>4. clock' \in 0..MaxTime /\ clock \in Nat /\ clock' = clock + 1
    BY <1>0, <1>1, RunsAssumption DEF Limits!Ticks, Limits!TypeOK
  <2>5. standing' \subseteq standing
    BY <1>1 DEF Limits!Ticks
  <2>6. UNCHANGED <<preference, modelFirst, signedIn, limits, begun, caps, active, told>>
    BY <1>1 DEF Limits!Ticks, Limits!settings
  <2>7. Limits!TypeOK'
    BY <1>0, <2>3, <2>4, <2>5, <2>6 DEF Limits!TypeOK
  <2>8. ASSUME NEW x \in Procs PROVE run[x].startedAt \in Nat
    <3>1. run[x] \in Limits!RunRecord
      BY <1>0 DEF Limits!TypeOK
    <3>2. run[x].startedAt \in 0..MaxTime
      BY <3>1, ARecord
    <3>3. QED
      BY <3>2
  <2>9. UnderWay'
    BY <1>0, <2>1, <2>2, <2>4, <2>8 DEF UnderWay
  <2>10. ToldInv'
    BY <1>0, <2>1, <2>2, <2>6 DEF ToldInv
  <2>11. QED
    BY <2>7, <2>9, <2>10
<1>2. ASSUME NEW acc \in Limits!Accounts, NEW scope \in Limits!Scopes, Limits!Begins(acc, scope)
      PROVE  Fine
  <2>1. PICK end \in (clock + 1)..(MaxTime + 1) : limits' = [limits EXCEPT ![<<acc, scope>>] = end]
    BY <1>2 DEF Limits!Begins
  <2>2. end \in Limits!Times /\ begun' \in 0..MaxLimits
    BY <1>0, <1>2, RunsAssumption DEF Limits!Begins, Limits!TypeOK, Limits!Times
  <2>3. limits' \in [Limits!Accounts \X Limits!Scopes -> Limits!Times]
    BY <1>0, <2>1, <2>2 DEF Limits!TypeOK
  <2>4. UNCHANGED <<preference, modelFirst, signedIn, clock, caps, active, run, told, standing>>
    BY <1>2 DEF Limits!Begins, Limits!settings
  <2>5. QED
    BY <1>0, <2>2, <2>3, <2>4 DEF Limits!TypeOK, UnderWay, ToldInv
<1>3. ASSUME NEW x \in Procs, Limits!Starts(x) PROVE Fine
  <2>1. /\ UNCHANGED <<preference, modelFirst, signedIn, clock, limits, begun, caps, told, standing>>
        /\ active' \in Limits!Accounts \cup {None}
    BY <1>0, <1>3, StartsAs DEF Limits!Starts, Limits!settings
  <2>2. PICK r \in Limits!RunRecord : \E l :
           /\ r.ledger = caps /\ r.spent = {} /\ r.outcome = "none"
           /\ GoesOn(r, l) /\ run' = [run EXCEPT ![x] = l]
    BY <1>0, <1>3, StartsAs
  <2>3. PICK l : /\ r.ledger = caps /\ r.spent = {} /\ r.outcome = "none" /\ GoesOn(r, l)
                 /\ run' = [run EXCEPT ![x] = l]
    BY <2>2
  <2>4. /\ l \in Limits!RunRecord /\ l.startedAt <= clock
        /\ l.phase \in {"running", "checking"} => l.account \in Limits!Accounts
        /\ l.phase \in {"running", "checking"} => l.outcome = "none"
        /\ l.ledger \subseteq caps /\ l.spent = {}
    BY <1>0, <2>3, GoesType
  <2>5. run' \in [Procs -> Limits!RunRecord] /\ UnderWay'
    BY <1>0, <2>1, <2>3, <2>4, OneRunTypes
  <2>6. ToldInv'
    BY <1>0, <2>1, <2>3, <2>4, OneRunTold DEF ToldInv
  <2>7. QED
    BY <1>0, <2>1, <2>5, <2>6 DEF Limits!TypeOK
<1>4. ASSUME NEW x \in Procs, NEW how \in {"answered", "failed"}, NEW r, Limits!Ends(x, r, how),
             UNCHANGED <<preference, modelFirst, signedIn, clock, limits, begun, told, standing>>,
             caps' \subseteq caps
      PROVE  Fine
  <2>1. /\ active' \in Limits!Accounts \cup {None}
        /\ run' = [run EXCEPT ![x] = Limits!Over(Limits!Idle, how)]
    BY <1>0, <1>4, EndsAs
  <2>2. PICK l : l = Limits!Over(Limits!Idle, how)
    OBVIOUS
  <2>3. /\ l \in Limits!RunRecord /\ l.startedAt <= clock /\ l.phase = "over"
        /\ l.ledger = {} /\ l.spent = {}
    BY <1>0, <2>2, OverRunning
  <2>4. run' \in [Procs -> Limits!RunRecord] /\ UnderWay'
    BY <1>0, <1>4, <2>1, <2>2, <2>3, OneRunTypes
  <2>5. ToldInv'
    BY <1>0, <1>4, <2>1, <2>2, <2>3, OneRunTold DEF ToldInv
  <2>6. QED
    BY <1>0, <1>4, <2>1, <2>4, <2>5 DEF Limits!TypeOK
<1>5. ASSUME NEW x \in Procs, Limits!FinishesFine(x) PROVE Fine
  <2>1. caps' \subseteq caps
    BY <1>5 DEF Limits!FinishesFine, Limits!ClearDisproved
  <2>2. QED
    BY <1>4, <1>5, <2>1 DEF Limits!FinishesFine, Limits!settings
<1>6. ASSUME NEW x \in Procs, Limits!FailsOtherwise(x) \/ Limits!NotProven(x) PROVE Fine
  BY <1>4, <1>6 DEF Limits!FailsOtherwise, Limits!NotProven, Limits!settings
<1>7. ASSUME NEW x \in Procs, Limits!LooksRefused(x) PROVE Fine
  <2> DEFINE l == [run[x] EXCEPT !.phase = "checking"]
  <2>1. run[x] \in Limits!RunRecord
    BY <1>0 DEF Limits!TypeOK
  <2>2. /\ l \in Limits!RunRecord /\ l.startedAt = run[x].startedAt
        /\ l.account = run[x].account /\ l.ledger = run[x].ledger /\ l.spent = run[x].spent
        /\ l.outcome = run[x].outcome
    BY <2>1 DEF Limits!RunRecord
  <2>3. run' = [run EXCEPT ![x] = l] /\ run[x].phase = "running"
    BY <1>7 DEF Limits!LooksRefused
  <2>4. UNCHANGED <<preference, modelFirst, signedIn, clock, limits, begun, caps, active, told, standing>>
    BY <1>7 DEF Limits!LooksRefused, Limits!settings
  <2> HIDE DEF l
  <2>5. run' \in [Procs -> Limits!RunRecord] /\ UnderWay'
    BY <1>0, <2>2, <2>3, <2>4, OneRunTypes DEF UnderWay
  <2>6. ToldInv'
    BY <1>0, <2>2, <2>3, <2>4, OneRunTold DEF ToldInv
  <2>7. QED
    BY <1>0, <2>4, <2>5, <2>6 DEF Limits!TypeOK
<1>8. ASSUME NEW x \in Procs, NEW scope \in Limits!Scopes, Limits!Confirmed(x, scope)
      PROVE  Fine
  <2>1. /\ active' \in Limits!Accounts \cup {None}
        /\ UNCHANGED <<preference, modelFirst, signedIn, clock, limits, begun>>
        /\ run[x].account \in Limits!Accounts
    BY <1>0, <1>8, ConfirmedAs
  <2>2. PICK cap : \E saved \in BOOLEAN : Records(x, scope, cap, saved) /\
             \E r \in Limits!RunRecord : \E l :
                    /\ r.ledger \subseteq run[x].ledger \cup {cap}
                    /\ r.spent \subseteq run[x].spent \cup {<<run[x].account, scope>>}
                    /\ r.outcome = "none"
                    /\ GoesOn(r, l) \/ l = Limits!Over(Limits!Idle, "failed")
                    /\ run' = [run EXCEPT ![x] = l]
    BY <1>0, <1>8, ConfirmedAs
  <2>3. PICK saved \in BOOLEAN : Records(x, scope, cap, saved)
    BY <2>2
  <2>4. PICK r \in Limits!RunRecord, l \in {run'[x]} :
                    /\ r.ledger \subseteq run[x].ledger \cup {cap}
                    /\ r.spent \subseteq run[x].spent \cup {<<run[x].account, scope>>}
                    /\ r.outcome = "none"
                    /\ GoesOn(r, l) \/ l = Limits!Over(Limits!Idle, "failed")
                    /\ run' = [run EXCEPT ![x] = l]
    BY <1>0, <2>2 DEF Limits!TypeOK
  <2>5. /\ l \in Limits!RunRecord /\ l.startedAt <= clock
        /\ l.phase \in {"running", "checking"} => l.account \in Limits!Accounts
        /\ l.phase \in {"running", "checking"} => l.outcome = "none"
        /\ l.ledger \subseteq r.ledger /\ l.spent \subseteq r.spent
    BY <1>0, <2>4, GoesType, OverRunning
  <2>6. run' \in [Procs -> Limits!RunRecord] /\ UnderWay'
    BY <1>0, <2>1, <2>4, <2>5, OneRunTypes
  <2>7. /\ caps' \subseteq caps \cup {cap} /\ caps' \subseteq Limits!CapRecord
        /\ told' = told \cup {<<run[x].account, scope>>}
        /\ cap.account = run[x].account /\ cap.model = scope
        /\ standing' \subseteq standing \cup {<<run[x].account, scope>>}
    BY <1>0, <2>3 DEF Records, Limits!MarkCapped, Limits!TypeOK
  <2>8. ToldInv'
    BY <1>0, <2>4, <2>5, <2>7, OneRunTold DEF ToldInv
  <2>9. QED
    BY <1>0, <2>1, <2>6, <2>7, <2>8 DEF Limits!TypeOK
<1>9. CASE UNCHANGED Limits!vars
  BY <1>0, <1>9 DEF Limits!vars, Limits!settings, Limits!TypeOK, UnderWay, ToldInv
<1>10. QED
  BY <1>1, <1>2, <1>3, <1>5, <1>6, <1>7, <1>8, <1>9 DEF Limits!Next

-----------------------------------------------------------------------------

\* A run is launched as one that no limit standing would be cleared by.
Harmless(l, S) ==
    \A s \in S : ~(/\ l.phase = "running" /\ l.served
                   /\ l.account = s[1] /\ s[2] \in {None, l.model})

LEMMA GoesHarmless ==
    ASSUME Limits!TypeOK, NEW r \in Limits!RunRecord, NEW l, GoesOn(r, l),
           NEW S \in SUBSET (Limits!Accounts \X Limits!Scopes), \A s \in S : limits[s] > clock
    PROVE  Harmless(l, S)
<1>1. CASE \E acc \in Limits!Accounts, mod \in Limits!Scopes : l = Limits!Launched(r, acc, mod)
  <2>1. PICK acc \in Limits!Accounts, mod \in Limits!Scopes : l = Limits!Launched(r, acc, mod)
    BY <1>1
  <2>2. /\ l.account = acc /\ l.model = mod
        /\ l.served = ~Limits!Refuses(acc, Limits!ModelOf(mod))
    BY <2>1, LaunchedIs
  <2>3. ASSUME NEW s \in S, acc = s[1], s[2] \in {None, mod}
        PROVE  Limits!Refuses(acc, Limits!ModelOf(mod))
    <3>1. s = <<acc, None>> \/ (s = <<acc, mod>> /\ mod # None)
      BY <2>3
    <3>2. mod # None => Limits!ModelOf(mod) = mod
      BY DEF Limits!ModelOf
    <3>3. QED
      BY <3>1, <3>2 DEF Limits!Refuses, Limits!Out
  <2>4. QED
    BY <2>2, <2>3 DEF Harmless
<1>2. CASE \E how \in {"cannot run", "exhausted", "all capped"} : l = Limits!Over(r, how)
  <2>1. PICK how \in {"cannot run", "exhausted", "all capped"} : l = Limits!Over(r, how)
    BY <1>2
  <2>2. l.phase = "over"
    BY <2>1, OverEnds
  <2>3. QED
    BY <2>2 DEF Harmless
<1>3. QED
  BY <1>1, <1>2 DEF GoesOn

\* What stands keeps its place while one run changes and no limit on file is lost that
\* no run would clear.
LEMMA StandsOn ==
    ASSUME Limits!TypeOK, StandingInv, NEW x \in Procs, NEW l,
           run' = [run EXCEPT ![x] = l], Harmless(l, standing),
           UNCHANGED <<clock, limits, standing>>,
           \A s \in standing : \A c \in caps :
               c.account = s[1] /\ c.model = s[2] /\ ~Clears(x, s, c) => c \in caps'
    PROVE  StandingInv'
<1>1. \A y \in Procs : run'[y] = IF y = x THEN l ELSE run[y]
  BY DEF Limits!TypeOK
<1>2. SUFFICES ASSUME NEW s \in standing
               PROVE  \E c \in caps' : /\ c.account = s[1] /\ c.model = s[2]
                                       /\ \A y \in Procs : ~Clears(y, s, c)'
  BY DEF StandingInv
<1>3. PICK c \in caps : /\ c.account = s[1] /\ c.model = s[2]
                        /\ \A y \in Procs : ~Clears(y, s, c)
  BY DEF StandingInv
<1>4. ASSUME NEW y \in Procs PROVE ~Clears(y, s, c)'
  <2>1. CASE y = x
    BY <1>1, <2>1 DEF Harmless, Clears
  <2>2. CASE y # x
    BY <1>1, <1>3, <2>2 DEF Clears
  <2>3. QED
    BY <2>1, <2>2
<1>5. QED
  BY <1>3, <1>4

LEMMA StandingKept ==
    RunsIInv /\ [Limits!Next]_(Limits!vars) => StandingInv'
<1> SUFFICES ASSUME RunsIInv, [Limits!Next]_(Limits!vars) PROVE StandingInv'
  OBVIOUS
<1>0. /\ Limits!TypeOK /\ UnderWay /\ StandingInv /\ Limits!TypeOK' /\ UnderWay'
      /\ standing \in SUBSET (Limits!Accounts \X Limits!Scopes)
      /\ \A s \in standing : limits[s] > clock
  BY RunsTypes DEF RunsIInv, StandingInv, Limits!TypeOK
<1>1. CASE Limits!Ticks
  <2>1. /\ standing' = {s \in standing : limits[s] > clock'}
        /\ UNCHANGED <<limits, caps>>
    BY <1>1 DEF Limits!Ticks
  <2>2. SUFFICES ASSUME NEW s \in standing'
                 PROVE  \E c \in caps' : /\ c.account = s[1] /\ c.model = s[2]
                                         /\ \A x \in Procs : ~Clears(x, s, c)'
    BY <2>1 DEF StandingInv
  <2>3. s \in standing /\ limits[s] > clock' /\ s \in Limits!Accounts \X Limits!Scopes
    BY <1>0, <2>1
  <2>4. PICK c \in caps : /\ c.account = s[1] /\ c.model = s[2]
                          /\ \A x \in Procs : ~Clears(x, s, c)
    BY <1>0, <2>3 DEF StandingInv
  <2>5. ASSUME NEW x \in Procs PROVE ~Clears(x, s, c)'
    <3> DEFINE through == /\ run[x].phase = "running"
                          /\ limits[<<run[x].account, None>>] <= clock'
                          /\ limits[<<run[x].account, Limits!ModelOf(run[x].model)>>] <= clock'
    <3>1. run[x] \in Limits!RunRecord
      BY <1>0 DEF Limits!TypeOK
    <3>2. run'[x] = [run[x] EXCEPT !.served = run[x].served \/ through]
      BY <1>1, <3>1 DEF Limits!Ticks, Limits!RunRecord
    <3>3. /\ run'[x].phase = run[x].phase /\ run'[x].account = run[x].account
          /\ run'[x].model = run[x].model /\ run'[x].startedAt = run[x].startedAt
      BY <3>1, <3>2 DEF Limits!RunRecord
    <3>4. run'[x].served = (run[x].served \/ through)
      BY <3>1, <3>2 DEF Limits!RunRecord
    <3>5. ASSUME through, run[x].account = s[1], s[2] \in {None, run[x].model} PROVE FALSE
      <4>1. s = <<run[x].account, None>>
            \/ (s = <<run[x].account, run[x].model>> /\ run[x].model # None)
        BY <2>3, <3>5
      <4>2. run[x].model # None => Limits!ModelOf(run[x].model) = run[x].model
        BY DEF Limits!ModelOf
      <4>3. limits[s] <= clock'
        BY <3>5, <4>1, <4>2
      <4>4. limits[s] \in Nat /\ clock' \in Nat
        BY <1>0, <1>1, <2>3, RunsAssumption DEF Limits!TypeOK, Limits!Times, Limits!Ticks
      <4>5. QED
        BY <2>3, <4>3, <4>4
    <3>6. QED
      BY <2>4, <3>3, <3>4, <3>5 DEF Clears
  <2>6. QED
    BY <2>1, <2>4, <2>5
<1>2. ASSUME NEW acc \in Limits!Accounts, NEW scope \in Limits!Scopes, Limits!Begins(acc, scope)
      PROVE  StandingInv'
  <2>1. PICK end : limits' = [limits EXCEPT ![<<acc, scope>>] = end]
    BY <1>2 DEF Limits!Begins
  <2>2. ~(limits[<<acc, scope>>] > clock)
    BY <1>2 DEF Limits!Begins, Limits!Out
  <2>3. \A s \in standing : limits'[s] = limits[s]
    BY <1>0, <2>1, <2>2 DEF Limits!TypeOK
  <2>4. UNCHANGED <<clock, caps, run, standing>>
    BY <1>2 DEF Limits!Begins
  <2>5. QED
    BY <1>0, <2>3, <2>4 DEF StandingInv, Clears
<1>3. ASSUME NEW x \in Procs, Limits!Starts(x) PROVE StandingInv'
  <2>1. UNCHANGED <<clock, limits, caps, standing>>
    BY <1>3 DEF Limits!Starts
  <2>2. PICK r \in Limits!RunRecord : \E l : GoesOn(r, l) /\ run' = [run EXCEPT ![x] = l]
    BY <1>0, <1>3, StartsAs
  <2>3. PICK l : GoesOn(r, l) /\ run' = [run EXCEPT ![x] = l]
    BY <2>2
  <2>4. Harmless(l, standing)
    BY <1>0, <2>3, GoesHarmless
  <2>5. QED
    BY <1>0, <2>1, <2>3, <2>4, StandsOn
<1>4. ASSUME NEW x \in Procs, NEW how \in {"answered", "failed"}, NEW r, Limits!Ends(x, r, how),
             UNCHANGED <<clock, limits, standing>>,
             \A s \in standing : \A c \in caps :
                 c.account = s[1] /\ c.model = s[2] /\ ~Clears(x, s, c) => c \in caps'
      PROVE  StandingInv'
  <2>1. run' = [run EXCEPT ![x] = Limits!Over(Limits!Idle, how)]
    BY <1>4 DEF Limits!Ends
  <2>2. PICK l : l = Limits!Over(Limits!Idle, how)
    OBVIOUS
  <2>3. l.phase = "over"
    BY <1>0, <2>2, OverRunning
  <2>4. Harmless(l, standing)
    BY <2>3 DEF Harmless
  <2>5. QED
    BY <1>0, <1>4, <2>1, <2>2, <2>4, StandsOn
<1>5. ASSUME NEW x \in Procs, Limits!FinishesFine(x) PROVE StandingInv'
  <2>1. /\ run[x].phase = "running" /\ run[x].served
        /\ \/ caps' = caps
           \/ caps' = Limits!ClearDisproved(caps, run[x].account, run[x].model, run[x].startedAt)
    BY <1>5 DEF Limits!FinishesFine
  <2>2. ASSUME NEW s \in standing, NEW c \in caps, c.account = s[1], c.model = s[2],
               ~Clears(x, s, c)
        PROVE  c \in caps'
    BY <2>1, <2>2 DEF Limits!ClearDisproved, Clears
  <2>3. QED
    BY <1>4, <1>5, <2>2 DEF Limits!FinishesFine
<1>6. ASSUME NEW x \in Procs, Limits!FailsOtherwise(x) \/ Limits!NotProven(x) PROVE StandingInv'
  BY <1>4, <1>6 DEF Limits!FailsOtherwise, Limits!NotProven
<1>7. ASSUME NEW x \in Procs, Limits!LooksRefused(x) PROVE StandingInv'
  <2> DEFINE l == [run[x] EXCEPT !.phase = "checking"]
  <2>1. run[x] \in Limits!RunRecord => l.phase = "checking"
    BY DEF Limits!RunRecord
  <2>2. run' = [run EXCEPT ![x] = l] /\ UNCHANGED <<clock, limits, caps, standing>>
    BY <1>7 DEF Limits!LooksRefused
  <2> HIDE DEF l
  <2>3. Harmless(l, standing)
    BY <1>0, <2>1 DEF Harmless, Limits!TypeOK
  <2>4. QED
    BY <1>0, <2>2, <2>3, StandsOn
<1>8. ASSUME NEW x \in Procs, NEW scope \in Limits!Scopes, Limits!Confirmed(x, scope)
      PROVE  StandingInv'
  <2>0. PICK s0 : s0 = <<run[x].account, scope>>
    OBVIOUS
  <2>1. /\ UNCHANGED <<clock, limits>> /\ run[x].account \in Limits!Accounts
        /\ limits[s0] > clock
    BY <1>0, <1>8, <2>0, ConfirmedAs
  <2>2. PICK cap : \E saved \in BOOLEAN : Records(x, scope, cap, saved) /\
             \E r \in Limits!RunRecord : \E l :
                    /\ r.ledger \subseteq run[x].ledger \cup {cap}
                    /\ r.spent \subseteq run[x].spent \cup {<<run[x].account, scope>>}
                    /\ r.outcome = "none"
                    /\ GoesOn(r, l) \/ l = Limits!Over(Limits!Idle, "failed")
                    /\ run' = [run EXCEPT ![x] = l]
    BY <1>0, <1>8, ConfirmedAs
  <2>3. PICK saved \in BOOLEAN : Records(x, scope, cap, saved)
    BY <2>2
  <2>4. PICK r \in Limits!RunRecord, l \in {run'[x]} :
                    /\ GoesOn(r, l) \/ l = Limits!Over(Limits!Idle, "failed")
                    /\ run' = [run EXCEPT ![x] = l]
    BY <1>0, <2>2 DEF Limits!TypeOK
  <2> DEFINE S == standing \cup {s0}
  <2>5. S \in SUBSET (Limits!Accounts \X Limits!Scopes) /\ \A s \in S : limits[s] > clock
    BY <1>0, <2>0, <2>1
  <2>6. Harmless(l, S)
    <3>1. CASE GoesOn(r, l)
      <4> HIDE DEF S
      <4>1. QED
        BY <1>0, <2>5, <3>1, GoesHarmless
    <3>2. CASE l = Limits!Over(Limits!Idle, "failed")
      BY <1>0, <3>2, OverRunning DEF Harmless
    <3>3. QED
      BY <2>4, <3>1, <3>2
  <2>7. \A y \in Procs : run'[y] = IF y = x THEN l ELSE run[y]
    BY <1>0, <2>4 DEF Limits!TypeOK
  <2>8. standing' \subseteq S
    BY <2>0, <2>3 DEF Records
  <2>9. ASSUME NEW s \in standing, s \in standing', s # s0
        PROVE  \E c \in caps' : /\ c.account = s[1] /\ c.model = s[2]
                                /\ \A y \in Procs : ~Clears(y, s, c)'
    <3>1. PICK c \in caps : /\ c.account = s[1] /\ c.model = s[2]
                            /\ \A y \in Procs : ~Clears(y, s, c)
      BY <1>0 DEF StandingInv
    <3>2. c \in caps'
      <4>1. CASE saved
        <5>1. /\ caps' = Limits!MarkCapped(caps, cap)
              /\ standing' = (standing \ (IF scope = None THEN {run[x].account} \X Models ELSE {}))
                             \cup {s0}
              /\ cap.account = run[x].account /\ cap.model = scope
          BY <2>0, <2>3, <4>1 DEF Records
        <5>2. s = <<s[1], s[2]>> /\ s[2] \in Models \cup {None}
          BY <1>0 DEF Limits!Scopes
        <5>3. ~(c.account = cap.account /\ cap.model \in {None, c.model})
          BY <2>0, <2>9, <3>1, <5>1, <5>2
        <5>4. QED
          BY <5>1, <5>3 DEF Limits!MarkCapped
      <4>2. CASE ~saved
        BY <2>3, <4>2 DEF Records
      <4>3. QED
        BY <4>1, <4>2
    <3>3. ASSUME NEW y \in Procs PROVE ~Clears(y, s, c)'
      <4>1. CASE y = x
        BY <2>6, <2>7, <4>1 DEF Harmless, Clears
      <4>2. CASE y # x
        BY <2>7, <3>1, <4>2 DEF Clears
      <4>3. QED
        BY <4>1, <4>2
    <3>4. QED
      BY <3>1, <3>2, <3>3
  <2>10. ASSUME s0 \in standing', s0 \notin standing \/ saved
         PROVE  \E c \in caps' : /\ c.account = s0[1] /\ c.model = s0[2]
                                 /\ \A y \in Procs : ~Clears(y, s0, c)'
    <3>1. saved
      BY <2>0, <2>3, <2>10 DEF Records
    <3>2. /\ cap \in caps' /\ cap.account = run[x].account /\ cap.model = scope
          /\ cap.at = clock
      BY <2>3, <3>1 DEF Records, Limits!MarkCapped
    <3>3. ASSUME NEW y \in Procs PROVE ~(cap.at < run'[y].startedAt)
      <4>1. run'[y].startedAt <= clock
        BY <1>0, <2>1 DEF UnderWay
      <4>2. run'[y] \in Limits!RunRecord /\ clock \in Nat
        BY <1>0, RunsAssumption DEF Limits!TypeOK
      <4>3. run'[y].startedAt \in 0..MaxTime
        BY <4>2 DEF Limits!RunRecord
      <4>4. QED
        BY <3>2, <4>1, <4>2, <4>3
    <3>4. QED
      BY <2>0, <3>2, <3>3 DEF Clears
  <2>11. ASSUME s0 \in standing, ~saved
         PROVE  \E c \in caps' : /\ c.account = s0[1] /\ c.model = s0[2]
                                 /\ \A y \in Procs : ~Clears(y, s0, c)'
    <3>1. PICK c \in caps : /\ c.account = s0[1] /\ c.model = s0[2]
                            /\ \A y \in Procs : ~Clears(y, s0, c)
      BY <1>0, <2>11 DEF StandingInv
    <3>2. c \in caps'
      BY <2>3, <2>11 DEF Records
    <3>3. ASSUME NEW y \in Procs PROVE ~Clears(y, s0, c)'
      <4>1. CASE y = x
        BY <2>6, <2>7, <4>1 DEF Harmless, Clears
      <4>2. CASE y # x
        BY <2>7, <3>1, <4>2 DEF Clears
      <4>3. QED
        BY <4>1, <4>2
    <3>4. QED
      BY <3>1, <3>2, <3>3
  <2>12. QED
    BY <2>1, <2>5, <2>8, <2>9, <2>10, <2>11 DEF StandingInv
<1>9. CASE UNCHANGED Limits!vars
  BY <1>0, <1>9 DEF Limits!vars, StandingInv, Clears
<1>10. QED
  BY <1>1, <1>2, <1>3, <1>5, <1>6, <1>7, <1>8, <1>9 DEF Limits!Next

-----------------------------------------------------------------------------

\* A run goes on, or gives up for what somebody confirmed: what it knows is all told.
LEMMA GoesHonestly ==
    ASSUME Limits!TypeOK, NEW r \in Limits!RunRecord, NEW l, GoesOn(r, l), r.outcome = "none",
           NEW T, \A c \in r.ledger : <<c.account, c.model>> \in T, r.spent \subseteq T
    PROVE  l.outcome \in {"cannot run", "exhausted"} =>
               \A acc \in signedIn :
                   \/ <<acc, None>> \in T
                   \/ /\ l.outcome = "exhausted"
                      /\ \A mod \in Limits!ModelChain(l) : <<acc, mod>> \in T
<1>1. CASE \E acc \in Limits!Accounts, mod \in Limits!Scopes : l = Limits!Launched(r, acc, mod)
  <2>1. PICK acc \in Limits!Accounts, mod \in Limits!Scopes : l = Limits!Launched(r, acc, mod)
    BY <1>1
  <2>2. l.outcome = r.outcome
    BY <2>1, LaunchedIs
  <2>3. QED
    BY <2>2
<1>2. CASE l = Limits!Over(r, "all capped")
  <2>1. l.outcome = "all capped"
    BY <1>2 DEF Limits!Over, Limits!Idle
  <2>2. QED
    BY <2>1
<1>3. ASSUME NEW acc \in signedIn, acc \notin Limits!Eligible(r.ledger)
      PROVE  <<acc, None>> \in T
  BY <1>3 DEF Limits!Eligible, Limits!CappedNames
<1>4. CASE l = Limits!Over(r, "cannot run") /\ Limits!Eligible(r.ledger) = {}
  BY <1>3, <1>4
<1>5. CASE l = Limits!Over(r, "exhausted") /\ Limits!UsablePairs(r) = {}
  <2>1. l.outcome = "exhausted"
    BY <1>5 DEF Limits!Over, Limits!Idle
  <2>2. l.modelInUse = r.modelInUse
    BY <1>5 DEF Limits!Over, Limits!Idle
  <2>3. ASSUME NEW acc \in Limits!Eligible(r.ledger), NEW mod \in Limits!ModelChain(l)
        PROVE  <<acc, mod>> \in T
    <3>1. mod \in Limits!ModelChain(r)
      BY <2>2, <2>3 DEF Limits!ModelChain
    <3>2. <<acc, mod>> \in r.spent \cup Limits!ActiveModelCaps(r.ledger)
      BY <1>5, <3>1 DEF Limits!UsablePairs, Limits!Usable
    <3>3. QED
      BY <3>2 DEF Limits!ActiveModelCaps
  <2>4. QED
    BY <1>3, <2>1, <2>3
<1>6. QED
  BY <1>1, <1>2, <1>4, <1>5 DEF GoesOn

LEMMA OneHonest ==
    ASSUME Limits!TypeOK, Limits!GivesUpHonestly, NEW x \in Procs, NEW l,
           run' = [run EXCEPT ![x] = l], UNCHANGED <<preference, signedIn>>, told \subseteq told',
           l.outcome \in {"cannot run", "exhausted"} =>
               \A acc \in signedIn :
                   \/ <<acc, None>> \in told'
                   \/ /\ l.outcome = "exhausted"
                      /\ \A mod \in Limits!ModelChain(l) : <<acc, mod>> \in told'
    PROVE  Limits!GivesUpHonestly'
<1>1. \A y \in Procs : run'[y] = IF y = x THEN l ELSE run[y]
  BY DEF Limits!TypeOK
<1>2. QED
  BY <1>1 DEF Limits!GivesUpHonestly, Limits!ModelChain

LEMMA GivesUpKept ==
    RunsIInv /\ [Limits!Next]_(Limits!vars) => Limits!GivesUpHonestly'
<1> DEFINE Fine == Limits!GivesUpHonestly'
<1> SUFFICES ASSUME RunsIInv, [Limits!Next]_(Limits!vars) PROVE Fine
  OBVIOUS
<1>0. Limits!TypeOK /\ UnderWay /\ ToldInv /\ Limits!GivesUpHonestly
  BY DEF RunsIInv
<1>1. CASE Limits!Ticks
  <2>1. ASSUME NEW x \in Procs
        PROVE run'[x].outcome = run[x].outcome /\ run'[x].modelInUse = run[x].modelInUse
    <3>1. run[x] \in Limits!RunRecord
      BY <1>0 DEF Limits!TypeOK
    <3>2. QED
      BY <1>1, <3>1 DEF Limits!Ticks, Limits!RunRecord
  <2>2. UNCHANGED <<preference, signedIn, told>>
    BY <1>1 DEF Limits!Ticks, Limits!settings
  <2>3. QED
    BY <1>0, <2>1, <2>2 DEF Limits!GivesUpHonestly, Limits!ModelChain
<1>2. ASSUME NEW acc \in Limits!Accounts, NEW scope \in Limits!Scopes, Limits!Begins(acc, scope)
      PROVE  Fine
  <2>1. UNCHANGED <<preference, signedIn, told, run>>
    BY <1>2 DEF Limits!Begins, Limits!settings
  <2>2. QED
    BY <1>0, <2>1 DEF Limits!GivesUpHonestly, Limits!ModelChain
<1>3. ASSUME NEW x \in Procs, Limits!Starts(x) PROVE Fine
  <2>1. UNCHANGED <<preference, signedIn, told>>
    BY <1>3 DEF Limits!Starts, Limits!settings
  <2>2. PICK r \in Limits!RunRecord : \E l :
           /\ r.ledger = caps /\ r.spent = {} /\ r.outcome = "none"
           /\ GoesOn(r, l) /\ run' = [run EXCEPT ![x] = l]
    BY <1>0, <1>3, StartsAs
  <2>3. PICK l : /\ r.ledger = caps /\ r.spent = {} /\ r.outcome = "none" /\ GoesOn(r, l)
                 /\ run' = [run EXCEPT ![x] = l]
    BY <2>2
  <2>4. PICK T : T = told
    OBVIOUS
  <2>5. (\A c \in r.ledger : <<c.account, c.model>> \in T) /\ r.spent \subseteq T
    BY <1>0, <2>3, <2>4 DEF ToldInv
  <2>6. l.outcome \in {"cannot run", "exhausted"} =>
            \A acc \in signedIn :
                \/ <<acc, None>> \in T
                \/ /\ l.outcome = "exhausted"
                   /\ \A mod \in Limits!ModelChain(l) : <<acc, mod>> \in T
    BY <1>0, <2>3, <2>5, GoesHonestly
  <2>7. T = told'
    BY <2>1, <2>4
  <2>8. QED
    BY <1>0, <2>1, <2>3, <2>6, <2>7, OneHonest
<1>4. ASSUME NEW x \in Procs, NEW how \in {"answered", "failed"}, NEW r, Limits!Ends(x, r, how),
             UNCHANGED <<preference, signedIn, told>>
      PROVE  Fine
  <2>1. run' = [run EXCEPT ![x] = Limits!Over(Limits!Idle, how)]
    BY <1>4 DEF Limits!Ends
  <2>2. PICK l : l = Limits!Over(Limits!Idle, how)
    OBVIOUS
  <2>3. l.outcome = how
    BY <1>0, <2>2, OverRunning
  <2>4. l.outcome \notin {"cannot run", "exhausted"}
    BY <2>3
  <2>5. QED
    BY <1>0, <1>4, <2>1, <2>2, <2>4, OneHonest
<1>5. ASSUME NEW x \in Procs,
             Limits!FinishesFine(x) \/ Limits!FailsOtherwise(x) \/ Limits!NotProven(x)
      PROVE  Fine
  BY <1>4, <1>5 DEF Limits!FinishesFine, Limits!FailsOtherwise, Limits!NotProven, Limits!settings
<1>6. ASSUME NEW x \in Procs, Limits!LooksRefused(x) PROVE Fine
  <2> DEFINE l == [run[x] EXCEPT !.phase = "checking"]
  <2>1. run[x] \in Limits!RunRecord => l.outcome = run[x].outcome
    BY DEF Limits!RunRecord
  <2>2. run' = [run EXCEPT ![x] = l] /\ run[x].phase = "running"
        /\ UNCHANGED <<preference, signedIn, told>>
    BY <1>6 DEF Limits!LooksRefused, Limits!settings
  <2> HIDE DEF l
  <2>3. l.outcome = "none"
    BY <1>0, <2>1, <2>2 DEF UnderWay, Limits!TypeOK
  <2>4. QED
    BY <1>0, <2>2, <2>3, OneHonest
<1>7. ASSUME NEW x \in Procs, NEW scope \in Limits!Scopes, Limits!Confirmed(x, scope)
      PROVE  Fine
  <2>1. UNCHANGED <<preference, signedIn>>
    BY <1>0, <1>7, ConfirmedAs
  <2>2. PICK cap : \E saved \in BOOLEAN : Records(x, scope, cap, saved) /\
             \E r \in Limits!RunRecord : \E l :
                    /\ r.ledger \subseteq run[x].ledger \cup {cap}
                    /\ r.spent \subseteq run[x].spent \cup {<<run[x].account, scope>>}
                    /\ r.outcome = "none"
                    /\ GoesOn(r, l) \/ l = Limits!Over(Limits!Idle, "failed")
                    /\ run' = [run EXCEPT ![x] = l]
    BY <1>0, <1>7, ConfirmedAs
  <2>3. PICK saved \in BOOLEAN : Records(x, scope, cap, saved)
    BY <2>2
  <2>4. PICK r \in Limits!RunRecord, l \in {run'[x]} :
                    /\ r.ledger \subseteq run[x].ledger \cup {cap}
                    /\ r.spent \subseteq run[x].spent \cup {<<run[x].account, scope>>}
                    /\ r.outcome = "none"
                    /\ GoesOn(r, l) \/ l = Limits!Over(Limits!Idle, "failed")
                    /\ run' = [run EXCEPT ![x] = l]
    BY <1>0, <2>2 DEF Limits!TypeOK
  <2>5. /\ told' = told \cup {<<run[x].account, scope>>}
        /\ cap.account = run[x].account /\ cap.model = scope
    BY <2>3 DEF Records
  <2>6. PICK T : T = told'
    OBVIOUS
  <2>7. (\A c \in r.ledger : <<c.account, c.model>> \in T) /\ r.spent \subseteq T
    BY <1>0, <2>4, <2>5, <2>6 DEF ToldInv
  <2>8. l.outcome \in {"cannot run", "exhausted"} =>
            \A acc \in signedIn :
                \/ <<acc, None>> \in T
                \/ /\ l.outcome = "exhausted"
                   /\ \A mod \in Limits!ModelChain(l) : <<acc, mod>> \in T
    <3>1. CASE GoesOn(r, l)
      BY <1>0, <2>4, <2>7, <3>1, GoesHonestly
    <3>2. CASE l = Limits!Over(Limits!Idle, "failed")
      <4>1. l.outcome = "failed"
        BY <1>0, <3>2, OverRunning
      <4>2. QED
        BY <4>1
    <3>3. QED
      BY <2>4, <3>1, <3>2
  <2>9. QED
    BY <1>0, <2>1, <2>4, <2>5, <2>6, <2>8, OneHonest
<1>8. CASE UNCHANGED Limits!vars
  BY <1>0, <1>8 DEF Limits!vars, Limits!settings, Limits!GivesUpHonestly, Limits!ModelChain
<1>9. QED
  BY <1>1, <1>2, <1>3, <1>5, <1>6, <1>7, <1>8 DEF Limits!Next

-----------------------------------------------------------------------------

\* Whatever requests run beside each other, and however many limits begin and end: a
\* limit recorded stays on the file until it is over or a run met after it is let
\* through (or the whole account's takes its place), and a run that says nothing is
\* left has every account signed in out by limits somebody confirmed (ledger.ts,
\* rotating-run.ts).
THEOREM LimitsStand == Limits!Init /\ [][Limits!Next]_(Limits!vars) => []RunsInv
<1>1. Limits!Init => RunsIInv
  BY RunsInit
<1>2. RunsIInv /\ [Limits!Next]_(Limits!vars) => RunsIInv'
  BY RunsTypes, StandingKept, GivesUpKept DEF RunsIInv
<1>3. RunsIInv => RunsInv
  <2>1. StandingInv => Limits!ConfirmedStays
    BY DEF StandingInv, Limits!ConfirmedStays
  <2>2. QED
    BY <2>1 DEF RunsIInv, RunsInv, Limits!Inv
<1>4. QED
  BY <1>1, <1>2, <1>3, PTL

=============================================================================
