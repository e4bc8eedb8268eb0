------------------------------- MODULE Ledger -------------------------------
(***************************************************************************)
(* The ledger of limits (src/ledger/ledger.ts) as several ccx processes    *)
(* change it: read, change and write one file, under a lock that keeps the *)
(* promise of HoldOnce.  updateLedger blocks its process until it has the  *)
(* lock; updateLedgerAsync leaves a change waiting in memory while another *)
(* process holds it.                                                       *)
(*                                                                         *)
(* What a change does to the ledger is left to Caps; here a ledger is the  *)
(* sequence of the changes that made it, which is what the processes must  *)
(* not lose, repeat or reorder.  A change is <<p, n>>, the n-th of p; one  *)
(* that throws stands in the sequence without having done anything.        *)
(***************************************************************************)
EXTENDS Naturals, Sequences, SequencesExt, FiniteSets

CONSTANTS Procs,       \* the ccx processes
          MaxChanges,  \* bound: changes each process makes
          Throwing     \* the changes that throw when they are applied

ASSUME LedgerAssumption == MaxChanges \in Nat /\ Throwing \subseteq Procs \X (1..MaxChanges)

VARIABLES file,      \* the ledger file
          holding,   \* the processes that hold the lock, by HoldOnce
          lapsed,    \* those of them past the longest hold
          pc,        \* what each process's thread is doing
          exiting,   \* the processes that stop running their timers
          made,      \* how many changes each has made
          change,    \* the change its current write makes, if any
          pending,   \* its changes waiting for the lock
          waits,     \* how many waits on timers it has under way
          taken,     \* what its current write took from pending
          copy,      \* the ledger its current write read
          reported,  \* changes a throw or the event log said were not written
          excused,   \* history: writers the lock does not vouch for
          erased     \* history: changes a write took out of the file again

vars == <<file, holding, lapsed, pc, exiting, made, change, pending, waits, taken,
          copy, reported, excused, erased>>

Changes == Procs \X (1..MaxChanges)

\* "idle": relaying, or whatever a process does between changes; "blocked":
\* waiting for the lock with its thread; "reading" and "writing": inside
\* writeUnderLock; "gone": exited in order; "dead": not so.
PC == {"idle", "blocked", "reading", "writing", "gone", "dead"}

\* Type invariant: the shape of every variable.
TypeOK ==
    /\ file \in Seq(Changes)
    /\ holding \subseteq Procs
    /\ lapsed \subseteq holding
    /\ pc \in [Procs -> PC]
    /\ exiting \subseteq Procs
    /\ made \in [Procs -> 0..MaxChanges]
    /\ change \in [Procs -> Seq(Changes)]
    /\ pending \in [Procs -> Seq(Changes)]
    /\ waits \in [Procs -> Nat]
    /\ taken \in [Procs -> Seq(Changes)]
    /\ copy \in [Procs -> Seq(Changes)]
    /\ reported \subseteq Changes
    /\ excused \subseteq Procs
    /\ erased \subseteq Changes

Lock == INSTANCE HoldOnce WITH Tasks <- Procs

Init ==
    /\ Lock!Init
    /\ file = <<>>
    /\ pc = [p \in Procs |-> "idle"]
    /\ exiting = {}
    /\ made = [p \in Procs |-> 0]
    /\ change = [p \in Procs |-> <<>>]
    /\ pending = [p \in Procs |-> <<>>]
    /\ waits = [p \in Procs |-> 0]
    /\ taken = [p \in Procs |-> <<>>]
    /\ copy = [p \in Procs |-> <<>>]
    /\ reported = {}
    /\ excused = {}
    /\ erased = {}

-----------------------------------------------------------------------------
(* Helpers *)

Goes(p, from, to) == pc[p] = from /\ pc' = [pc EXCEPT ![p] = to]

LockFree == holding \subseteq lapsed

\* The write under way goes on with the lock, or past it: one that cannot be
\* made, or did not come free in time, is written past.
Enters(p, from) ==
    /\ Goes(p, from, "reading")
    /\ \/ Lock!Acquire(p) /\ p \notin lapsed' /\ UNCHANGED excused
       \/ excused' = excused \cup {p} /\ UNCHANGED <<holding, lapsed>>
    /\ UNCHANGED <<file, exiting, taken, copy, reported, erased>>

Running(p) == pc[p] = "idle" /\ p \notin exiting

-----------------------------------------------------------------------------
(* Making a change *)

Makes(p) == made[p] < MaxChanges /\ made' = [made EXCEPT ![p] = @ + 1]
NewChange(p) == <<p, made[p] + 1>>

\* updateLedger: the thread waits for the lock.
UpdateLedger(p) ==
    /\ Running(p)
    /\ Makes(p)
    /\ Goes(p, "idle", "blocked")
    /\ change' = [change EXCEPT ![p] = <<NewChange(p)>>]
    /\ UNCHANGED <<file, holding, lapsed, exiting, pending, waits, taken, copy,
                   reported, excused, erased>>

\* updateLedgerAsync, the lock free or impossible to make: written at once.
UpdateAsyncNow(p) ==
    /\ Running(p)
    /\ Makes(p)
    /\ Enters(p, "idle")
    /\ change' = [change EXCEPT ![p] = <<NewChange(p)>>]
    /\ UNCHANGED <<pending, waits>>

\* updateLedgerAsync, somebody holding the lock: the change waits.
UpdateAsyncLater(p) ==
    /\ Running(p)
    /\ Makes(p)
    /\ ~LockFree
    /\ pending' = [pending EXCEPT ![p] = Append(@, NewChange(p))]
    /\ waits' = [waits EXCEPT ![p] = @ + 1]
    /\ UNCHANGED <<file, holding, lapsed, pc, exiting, change, taken, copy, reported,
                   excused, erased>>

-----------------------------------------------------------------------------
(* The lock, or the end of the wait for it *)

BlockedEnters(p) ==
    /\ Enters(p, "blocked")
    /\ UNCHANGED <<made, change, pending, waits>>

\* A wait on timers ends; its own change may have been written by another's.
WaitEnters(p) ==
    /\ Running(p)
    /\ waits[p] > 0
    /\ waits' = [waits EXCEPT ![p] = @ - 1]
    /\ Enters(p, "idle")
    /\ UNCHANGED <<made, change, pending>>

\* The process exits, or hands over: its timers run no more.
StartsExit(p) ==
    /\ Running(p)
    /\ exiting' = exiting \cup {p}
    /\ UNCHANGED <<file, holding, lapsed, pc, made, change, pending, waits, taken, copy,
                   reported, excused, erased>>

\* flushPendingLedgerChanges: round and round until nothing waits.
FlushEnters(p) ==
    /\ p \in exiting
    /\ pending[p] # <<>>
    /\ Enters(p, "idle")
    /\ UNCHANGED <<made, change, pending, waits>>

\* Mutant: the process exits without writing what waits.
ExitsUnflushed(p) ==
    /\ p \in exiting
    /\ Goes(p, "idle", "gone")
    /\ UNCHANGED <<file, holding, lapsed, exiting, made, change, pending, waits, taken,
                   copy, reported, excused, erased>>

Exits(p) ==
    /\ p \in exiting
    /\ pending[p] = <<>>
    /\ Goes(p, "idle", "gone")
    /\ UNCHANGED <<file, holding, lapsed, exiting, made, change, pending, waits, taken,
                   copy, reported, excused, erased>>

-----------------------------------------------------------------------------
(* writeUnderLock *)

\* Everything this process has waiting is taken, then the file is read.
Reads(p) ==
    /\ Goes(p, "reading", "writing")
    /\ taken' = [taken EXCEPT ![p] = pending[p]]
    /\ pending' = [pending EXCEPT ![p] = <<>>]
    /\ copy' = [copy EXCEPT ![p] = file]
    /\ UNCHANGED <<file, holding, lapsed, exiting, made, change, waits, reported,
                   excused, erased>>

\* Every change this write is to make, the oldest first.
Batch(p) == taken[p] \o change[p]

\* Mutant: the changes are applied to an empty ledger, not to what was read.
ResultOfNothing(p) == IF ToSet(Batch(p)) \subseteq Throwing THEN file ELSE Batch(p)

\* What the file is left as.  A change that throws does nothing, but the others
\* of its batch are written; with none to write the file is left alone.
Result(p) == IF ToSet(Batch(p)) \subseteq Throwing THEN file ELSE copy[p] \o Batch(p)

\* The write is over and the lock let go.  Whoever is inside a write of its own
\* while one the lock does not vouch for ends, is not vouched for either.
Ends(p, said) ==
    /\ Goes(p, "writing", "idle")
    /\ reported' = reported \cup said
    /\ change' = [change EXCEPT ![p] = <<>>]
    /\ taken' = [taken EXCEPT ![p] = <<>>]
    /\ copy' = [copy EXCEPT ![p] = <<>>]
    /\ Lock!LetGo({p})
    /\ excused' = (excused \ {p}) \cup
                  (IF p \in excused THEN {q \in Procs \ {p} : pc[q] = "writing"} ELSE {})
    /\ UNCHANGED <<exiting, made, pending, waits>>

Writes(p) ==
    /\ file' = Result(p)
    /\ erased' = erased \cup (ToSet(file) \ ToSet(Result(p)))
    /\ Ends(p, ToSet(Batch(p)) \cap Throwing)

\* Mutant: a write that fails says nothing of the changes it took.
WriteFailsSilently(p) ==
    /\ Ends(p, ToSet(change[p]))
    /\ UNCHANGED <<file, erased>>

\* The file could not be read or written: what was taken went with it.
WriteFails(p) ==
    /\ Ends(p, ToSet(Batch(p)))
    /\ UNCHANGED <<file, erased>>

-----------------------------------------------------------------------------
(* The environment *)

\* The machine holds a writer up past the longest hold.
Overruns(p) ==
    /\ pc[p] \in {"reading", "writing"}
    /\ Lock!Lapse(p)
    /\ excused' = excused \cup {p}
    /\ UNCHANGED <<file, pc, exiting, made, change, pending, waits, taken, copy, reported,
                   erased>>

\* A process dies; its lock is taken over at once.
Dies(p) ==
    /\ pc[p] \notin {"gone", "dead"}
    /\ pc' = [pc EXCEPT ![p] = "dead"]
    /\ Lock!LetGo({p})
    /\ excused' = excused \ {p}
    /\ UNCHANGED <<file, exiting, made, change, pending, waits, taken, copy, reported, erased>>

-----------------------------------------------------------------------------

Progress(p) ==
    \/ BlockedEnters(p) \/ WaitEnters(p) \/ FlushEnters(p)
    \/ Reads(p) \/ Writes(p) \/ Exits(p)

Next ==
    \E p \in Procs :
        \/ UpdateLedger(p) \/ UpdateAsyncNow(p) \/ UpdateAsyncLater(p)
        \/ Progress(p)
        \/ StartsExit(p) \/ WriteFails(p) \/ Overruns(p) \/ Dies(p)

Spec == Init /\ [][Next]_vars

\* A process that runs goes on with what it has begun, and its waits end.
FairSpec == Spec /\ \A p \in Procs : WF_vars(Progress(p))

-----------------------------------------------------------------------------
(* Properties *)

\* loadLedger: the file, and what this process is still waiting to write.
View(p) == file \o pending[p]

\* Several writers never lose each other's changes: a write leaves everything
\* in the file, and appends, unless it (or one it was interleaved with) went
\* past the lock or outlived it (ledger.ts, updateLedger).
NothingLost ==
    [][\A p \in Procs :
          pc[p] = "writing" /\ pc'[p] = "idle" /\ p \notin excused => IsPrefix(file, file')
      ]_file

\* One process's changes stay in the order it made them, in the file and in
\* what it reads back, whichever of its calls wrote them (updateLedgerAsync).
OrderKept ==
    \A p \in Procs :
        \A i, j \in DOMAIN View(p) :
            i < j /\ View(p)[i][1] = p /\ View(p)[j][1] = p => View(p)[i][2] < View(p)[j][2]

\* A process decides as if its own changes were written: each one it has made
\* is in what it reads, once its calls have returned, unless it was said not
\* to be written or another writer erased it (ledger.ts, loadLedger).
OwnChangesCount ==
    \A p \in Procs : pc[p] = "idle" =>
        \A n \in 1..made[p] : <<p, n>> \in ToSet(View(p)) \cup reported \cup erased

\* The types hold, and a process's own changes count, in its order.
Inv == TypeOK /\ OrderKept /\ OwnChangesCount

\* No change is left behind: each is written, reported or erased in the end,
\* unless its process dies; one that exits in order writes it first
\* (ledger.ts, flushPendingLedgerChanges).
EverythingSettles ==
    \A p \in Procs : \A n \in 1..MaxChanges :
        made[p] >= n ~> \/ <<p, n>> \in ToSet(file) \cup reported \cup erased
                        \/ pc[p] = "dead"

=============================================================================
