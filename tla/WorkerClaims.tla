---------------------------- MODULE WorkerClaims ----------------------------
(***************************************************************************)
(* Workers started together spread over the accounts                       *)
(* (session/worker-claim.ts, usage/spread.ts): each picks under a lock of  *)
(* DirLock and claims what it picked before it lets go, a claim counting   *)
(* until the lease of the session says the rest, or its time is over.  A   *)
(* worker that cannot have the lock picks all the same.  None is told      *)
(* which account to start on, which it would pick whoever is on it.        *)
(***************************************************************************)
EXTENDS Naturals, FiniteSets

CONSTANTS Workers,    \* the workers of one machine
          Accounts,   \* the accounts that may be picked
          None        \* no account

VARIABLES healthy,    \* the accounts with room to start on
          pc,         \* "idle", "holding" the lock, "passing" without, or "gone"
          reads,      \* those between reading what is in use and claiming
          seen,       \* the accounts each of these found in use
          claim,      \* the claim each has in the folder
          expired,    \* the claims older than they count for
          lease,      \* the account of each worker's lease
          on,         \* the account each picked last
          how         \* history: whether it had a free one to pick, in a hold of its own

vars == <<healthy, pc, reads, seen, claim, expired, lease, on, how>>

TypeOK ==
    /\ healthy \subseteq Accounts
    /\ pc \in [Workers -> {"idle", "holding", "passing", "gone"}]
    /\ seen \in [Workers -> SUBSET Accounts]
    /\ reads \subseteq Workers /\ expired \subseteq Workers
    /\ claim \in [Workers -> Accounts \cup {None}]
    /\ lease \in [Workers -> Accounts \cup {None}]
    /\ on \in [Workers -> Accounts \cup {None}]
    /\ how \in [Workers -> {"free", "crowded", "unsure"}]

Init ==
    /\ healthy \in SUBSET Accounts
    /\ pc = [p \in Workers |-> "idle"]
    /\ seen = [p \in Workers |-> {}] /\ reads = {} /\ expired = {}
    /\ claim = [p \in Workers |-> None] /\ lease = [p \in Workers |-> None]
    /\ on = [p \in Workers |-> None]
    /\ how = [p \in Workers |-> "unsure"]

-----------------------------------------------------------------------------
(* The lock of DirLock, as one who takes it sees it *)

Starts(p, as) ==
    /\ pc[p] = "idle"
    /\ pc' = [pc EXCEPT ![p] = as]
    /\ how' = [how EXCEPT ![p] = "unsure"]
    /\ UNCHANGED <<healthy, reads, seen, claim, expired, lease, on>>

Locks(p) == (\A q \in Workers : pc[q] # "holding") /\ Starts(p, "holding")

\* The wait ran out, or the lock cannot be made.
GoesWithout(p) == Starts(p, "passing")

-----------------------------------------------------------------------------

\* Mutant: only leases are read.
LeasedElsewhere(p) == {lease[q] : q \in Workers \ {p}} \ {None}

\* claimedElsewhere, and the leases of live sessions: the claims of others
\* that are running and recent.
InUseElsewhere(p) ==
    LET live == {q \in Workers \ {p} : pc[q] # "gone"}
    IN ({claim[q] : q \in live \ expired} \cup {lease[q] : q \in live}) \ {None}

\* The claims of dead workers, and those past their time, are removed in passing.
Tidied(p) == [q \in Workers |-> IF q # p /\ (pc[q] = "gone" \/ q \in expired) THEN None ELSE claim[q]]

\* spreadWorkers: free and healthy before busy and healthy before the rest.
Best(busy) ==
    IF healthy \ busy # {} THEN healthy \ busy
    ELSE IF healthy # {} THEN healthy ELSE Accounts

Picking(p) == pc[p] \in {"holding", "passing"}

\* pickAndClaim: what the others have is read,
Reads(p) ==
    /\ Picking(p) /\ p \notin reads
    /\ reads' = reads \cup {p}
    /\ seen' = [seen EXCEPT ![p] = InUseElsewhere(p)]
    /\ claim' = Tidied(p)
    /\ expired' = {q \in expired : claim'[q] # None}
    /\ UNCHANGED <<healthy, pc, lease, on, how>>

\* and the account picked is claimed.  A claim that cannot be written does not
\* keep the worker from starting.
Claims(p, a, written) ==
    /\ Picking(p) /\ p \in reads
    /\ a \in Best(seen[p])
    /\ pc' = [pc EXCEPT ![p] = "idle"]
    /\ on' = [on EXCEPT ![p] = a]
    /\ claim' = IF written THEN [claim EXCEPT ![p] = a] ELSE claim
    /\ expired' = IF written THEN expired \ {p} ELSE expired
    /\ how' = [how EXCEPT ![p] =
           IF pc[p] = "passing" \/ ~written THEN "unsure"
           ELSE IF healthy \subseteq seen[p] THEN "crowded" ELSE "free"]
    /\ reads' = reads \ {p}
    /\ seen' = [seen EXCEPT ![p] = {}]
    /\ UNCHANGED <<healthy, lease>>

\* The login is in place, and the lease says where the worker is.
TakesLease(p) ==
    /\ pc[p] = "idle" /\ on[p] # None /\ lease[p] # on[p]
    /\ lease' = [lease EXCEPT ![p] = on[p]]
    /\ UNCHANGED <<healthy, pc, reads, seen, claim, expired, on, how>>

\* A claim's time is over: of no account if the start was slow to its lease.
Expires(p) ==
    /\ claim[p] # None /\ p \notin expired
    /\ expired' = expired \cup {p}
    /\ how' = IF lease[p] = on[p] THEN how ELSE [how EXCEPT ![p] = "unsure"]
    /\ UNCHANGED <<healthy, pc, reads, seen, claim, lease, on>>

Gone(p, kept) ==
    /\ pc' = [pc EXCEPT ![p] = "gone"]
    /\ claim' = IF kept THEN claim ELSE [claim EXCEPT ![p] = None]
    /\ lease' = [lease EXCEPT ![p] = None]
    /\ on' = [on EXCEPT ![p] = None]
    /\ seen' = [seen EXCEPT ![p] = {}]
    /\ reads' = reads \ {p}
    /\ UNCHANGED <<healthy, expired, how>>

\* releaseClaim, as the worker's run ends.
Ends(p) == pc[p] = "idle" /\ on[p] # None /\ Gone(p, FALSE)

\* Its claim is left; nobody counts the lease of a dead process.
Dies(p) == pc[p] # "gone" /\ Gone(p, TRUE)

Next ==
    \E p \in Workers :
        \/ Locks(p) \/ GoesWithout(p) \/ Reads(p)
        \/ \E a \in Accounts, written \in BOOLEAN : Claims(p, a, written)
        \/ TakesLease(p) \/ Expires(p) \/ Ends(p) \/ Dies(p)

Spec == Init /\ [][Next]_vars

-----------------------------------------------------------------------------
(* Properties *)

\* Two workers, each of which picked in a hold of its own and had an account
\* with room and nobody on it to pick, are not on one account, however close
\* together they started (worker-claim.ts, pickAndClaim).
SpreadOut ==
    \A p, q \in Workers :
        p # q /\ how[p] = "free" /\ how[q] = "free" /\ on[p] # None => on[p] # on[q]

Inv == TypeOK /\ SpreadOut

=============================================================================
