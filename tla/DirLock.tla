------------------------------ MODULE DirLock ------------------------------
(***************************************************************************)
(* Claude's own kind of lock (claude/locks.ts, acquireLockDir): a directory *)
(* made to take it, touched while it is held, removed to let it go, and    *)
(* removed by whoever finds it untouched for too long.  Nobody can tell    *)
(* whose directory a path is: each made is numbered here, so that a step    *)
(* that meant one and met another can be told.  Every wait is bounded, and *)
(* whoever waited too long goes on without the lock.                        *)
(***************************************************************************)
EXTENDS Naturals, FiniteSets

CONSTANTS Procs,     \* those that take the lock
          MaxMade    \* bound: directories made

VARIABLES dir,      \* the directory there, by its number, or 0
          madeBy,   \* who made each, by its number
          old,      \* those not touched for too long
          pc,       \* where each process is
          mine,     \* the directory each last made
          judged,   \* the one each found old and is about to remove
          paused,   \* which the machine holds up past a touch; bound: each once
          robbed    \* history: holders that overran, or had theirs removed for another's

vars == <<dir, madeBy, old, pc, mine, judged, paused, robbed>>

\* "passing" is working without the lock.
PC == {"idle", "trying", "removing", "holding", "passing", "dead"}

TypeOK ==
    /\ dir \in 0..MaxMade
    /\ madeBy \in [1..MaxMade -> Procs \cup {0}]
    /\ old \subseteq 1..MaxMade
    /\ pc \in [Procs -> PC]
    /\ mine \in [Procs -> 0..MaxMade]
    /\ judged \in [Procs -> 0..MaxMade]
    /\ paused \in [Procs -> {"never", "now", "past"}]
    /\ robbed \subseteq Procs

Init ==
    /\ dir = 0 /\ madeBy = [n \in 1..MaxMade |-> 0] /\ old = {}
    /\ pc = [p \in Procs |-> "idle"]
    /\ mine = [p \in Procs |-> 0] /\ judged = [p \in Procs |-> 0]
    /\ paused = [p \in Procs |-> "never"] /\ robbed = {}

Made == {n \in 1..MaxMade : madeBy[n] # 0}
NextNumber == Cardinality(Made) + 1
Goes(p, from, to) == pc[p] = from /\ pc' = [pc EXCEPT ![p] = to]
Runs(p) == paused[p] # "now"

\* Whose directory goes when the path is removed by one who means number n.
Robbed(n) == IF dir \in {0, n} THEN {} ELSE {madeBy[dir]}

Tries(p) ==
    /\ Runs(p)
    /\ Goes(p, "idle", "trying")
    /\ UNCHANGED <<dir, madeBy, old, mine, judged, paused, robbed>>

\* mkdir is atomic: one process makes it.
MakesDir(p) ==
    /\ Runs(p) /\ dir = 0 /\ NextNumber <= MaxMade
    /\ Goes(p, "trying", "holding")
    /\ dir' = NextNumber
    /\ madeBy' = [madeBy EXCEPT ![NextNumber] = p]
    /\ mine' = [mine EXCEPT ![p] = NextNumber]
    /\ robbed' = robbed \ {p}
    /\ UNCHANGED <<old, judged, paused>>

\* Mutant: a lock that is there is taken to be abandoned.
FindsAnyOld(p) ==
    /\ Runs(p) /\ dir # 0
    /\ Goes(p, "trying", "removing")
    /\ judged' = [judged EXCEPT ![p] = dir]
    /\ UNCHANGED <<dir, madeBy, old, mine, paused, robbed>>

\* The one there has not been touched for longer than a holder lets it be.
FindsOld(p) ==
    /\ Runs(p) /\ dir \in old
    /\ Goes(p, "trying", "removing")
    /\ judged' = [judged EXCEPT ![p] = dir]
    /\ UNCHANGED <<dir, madeBy, old, mine, paused, robbed>>

\* It is removed, or whatever is in its place by now, and the lock tried again.
RemovesOld(p) ==
    /\ Runs(p)
    /\ Goes(p, "removing", "trying")
    /\ dir' = 0
    /\ robbed' = robbed \cup Robbed(judged[p])
    /\ judged' = [judged EXCEPT ![p] = 0]
    /\ UNCHANGED <<madeBy, old, mine, paused>>

\* The wait ran out with the lock held, or the path takes no directory.
GoesWithout(p) ==
    /\ Runs(p)
    /\ Goes(p, "trying", "passing")
    /\ UNCHANGED <<dir, madeBy, old, mine, judged, paused, robbed>>

\* The holder's timer touches the path, whosever directory it is.
Touches(p) ==
    /\ Runs(p) /\ pc[p] = "holding" /\ dir \in old
    /\ old' = old \ {dir}
    /\ UNCHANGED <<dir, madeBy, pc, mine, judged, paused, robbed>>

\* The hold ends: the directory at the path goes, whosever it is.
Releases(p) ==
    /\ Runs(p)
    /\ Goes(p, "holding", "idle")
    /\ dir' = 0
    /\ robbed' = robbed \cup Robbed(mine[p])
    /\ UNCHANGED <<madeBy, old, mine, judged, paused>>

EndsWithout(p) ==
    /\ Runs(p)
    /\ Goes(p, "passing", "idle")
    /\ UNCHANGED <<dir, madeBy, old, mine, judged, paused, robbed>>

\* Its holder is gone or held up, so nothing touches it.
GrowsOld ==
    /\ dir # 0 /\ dir \notin old
    /\ \A p \in Procs : pc[p] = "holding" => ~Runs(p)
    /\ old' = old \cup {dir}
    /\ robbed' = robbed \cup {madeBy[dir]}
    /\ UNCHANGED <<dir, madeBy, pc, mine, judged, paused>>

Pauses(p) ==
    /\ pc[p] = "holding" /\ paused[p] = "never"
    /\ paused' = [paused EXCEPT ![p] = "now"]
    /\ UNCHANGED <<dir, madeBy, old, pc, mine, judged, robbed>>

Dies(p) ==
    /\ pc[p] # "dead"
    /\ pc' = [pc EXCEPT ![p] = "dead"]
    /\ paused' = [paused EXCEPT ![p] = "past"]
    /\ UNCHANGED <<dir, madeBy, old, mine, judged, robbed>>

Resumes(p) ==
    /\ ~Runs(p)
    /\ paused' = [paused EXCEPT ![p] = "past"]
    /\ UNCHANGED <<dir, madeBy, old, pc, mine, judged, robbed>>

-----------------------------------------------------------------------------

Next ==
    \/ \E p \in Procs :
          \/ Tries(p) \/ MakesDir(p) \/ FindsOld(p) \/ RemovesOld(p) \/ GoesWithout(p)
          \/ Releases(p) \/ EndsWithout(p) \/ Touches(p)
          \/ Pauses(p) \/ Resumes(p) \/ Dies(p)
    \/ GrowsOld

Spec == Init /\ [][Next]_vars

-----------------------------------------------------------------------------
(* Properties *)

\* Two hold it only when a directory was removed for another's: two judged an
\* abandoned one, and the second met what the first had made since, or a
\* holder was held up and found another's (locks.ts, lockDirTries).
HeldOnce ==
    \A p, q \in Procs :
        pc[p] = "holding" /\ pc[q] = "holding" /\ p # q =>
            robbed \cap {p, q} # {}

Inv == TypeOK /\ HeldOnce

=============================================================================
