--------------------------- MODULE UsageSnapshot ---------------------------
(***************************************************************************)
(* The usage last read of each account (usage/usage-store.ts): a refresh   *)
(* reads the file, asks about each account that is due, one after the      *)
(* other, and writes back what it found over the file as it is by then,    *)
(* beside other refreshes and accounts renamed, removed and added.  An     *)
(* entry is when it was stamped, when its numbers were read, and whether   *)
(* the account is known to have no 5-hour limit.                           *)
(***************************************************************************)
EXTENDS Naturals, FiniteSets, Functions

CONSTANTS Procs, Accounts,
          MaxTime,     \* bounds the clock, which moves as entries are stamped
          Ttl,         \* older entries are due
          None

VARIABLES file,        \* the entries in the file, by account
          registered,  \* the accounts there are
          now,
          task,        \* what each refresh is doing
          everRead     \* history: the newest reading written of each account

vars == <<file, registered, now, task, everRead>>

\* The accounts due as it began, and of them those not asked about yet.
NoTask == [at |-> "idle", started |-> <<>>, ours |-> <<>>, stale |-> {}, due |-> {},
           measured |-> {}, undecided |-> {}]
Entry(at, read, none) == [at |-> at, read |-> read, none |-> none]

TypeOK ==
    /\ DOMAIN file \subseteq Accounts /\ registered \subseteq Accounts
    /\ \A a \in DOMAIN file : file[a].read <= file[a].at /\ file[a].at <= now
    /\ now \in 0 .. MaxTime
    /\ \A p \in Procs : task[p].measured \subseteq DOMAIN task[p].ours
                        /\ task[p].undecided \subseteq task[p].measured

-----------------------------------------------------------------------------
Has(f, a) == a \in DOMAIN f
With(f, a, e) == [b \in DOMAIN f \cup {a} |-> IF b = a THEN e ELSE f[b]]
Without(f, a) == Restrict(f, DOMAIN f \ {a})

Due(f) == {a \in registered : ~Has(f, a) \/ now - f[a].at >= Ttl}

\* Nothing due: nothing is asked.
RefreshUsage(p) ==
    /\ task[p].at = "idle" /\ Due(file) # {}
    /\ task' = [task EXCEPT ![p] = [NoTask EXCEPT !.at = "asks", !.started = file, !.ours = file,
                                                  !.stale = Due(file), !.due = Due(file)]]
    /\ UNCHANGED <<file, registered, now, everRead>>

\* A reading: of a 5-hour window, of none, or one that cannot tell.
Measures(p, a) ==
    /\ task[p].at = "asks" /\ a \in task[p].due /\ now < MaxTime /\ now' = now + 1
    /\ \E none \in BOOLEAN, told \in BOOLEAN :
       /\ none => told
       /\ task' = [task EXCEPT ![p] =
             [task[p] EXCEPT !.ours = With(@, a, Entry(now', now', none)), !.due = @ \ {a},
                       !.measured = @ \cup {a},
                       !.undecided = IF told THEN @ ELSE @ \cup {a}]]
    /\ UNCHANGED <<file, registered, everRead>>

\* Not read: the last numbers stay, stamped now.
Misses(p, a) ==
    /\ task[p].at = "asks" /\ a \in task[p].due /\ now < MaxTime /\ now' = now + 1
    /\ LET ours == task[p].ours
           e == IF Has(ours, a) THEN [ours[a] EXCEPT !.at = now'] ELSE Entry(now', 0, FALSE)
       IN  task' = [task EXCEPT ![p] =
             [task[p] EXCEPT !.ours = With(ours, a, e), !.due = @ \ {a}]]
    /\ UNCHANGED <<file, registered, everRead>>

Touched(p, a) ==
    LET start == task[p].started IN
    IF Has(file, a) /\ Has(start, a) THEN file[a].at # start[a].at ELSE Has(file, a) # Has(start, a)

\* Whether this refresh's entry goes in: not where the entry has gone, not old
\* numbers over somebody's write, not over a newer reading.
GoesIn(p, a) ==
    /\ Has(task[p].started, a) => Has(file, a)
    /\ IF a \in task[p].measured
       THEN ~(Touched(p, a) /\ Has(file, a) /\ file[a].at > task[p].ours[a].at)
       ELSE ~Touched(p, a)

\* What a reading could not tell is kept from the newest entry.
Merged(p, a) ==
    LET newest == IF Touched(p, a) THEN file ELSE task[p].started
        keep == a \in task[p].undecided /\ Has(newest, a) /\ newest[a].none
    IN  [task[p].ours[a] EXCEPT !.none = @ \/ keep]

\* Read again and written at once.
WritesBack(p) ==
    /\ task[p].at = "asks" /\ task[p].due = {}
    /\ LET in == {a \in task[p].stale : GoesIn(p, a)}
           next == [a \in DOMAIN file \cup in |-> IF a \in in THEN Merged(p, a) ELSE file[a]]
       IN  /\ file' = next
           /\ everRead' = [a \in Accounts |-> IF Has(next, a) /\ next[a].read > everRead[a]
                                               THEN next[a].read ELSE everRead[a]]
    /\ task' = [task EXCEPT ![p] = NoTask]
    /\ UNCHANGED <<registered, now>>

WriteFails(p) ==
    /\ task[p].at = "asks" /\ task[p].due = {} /\ task' = [task EXCEPT ![p] = NoTask]
    /\ UNCHANGED <<file, registered, now, everRead>>

-----------------------------------------------------------------------------
\* A removed account's entry goes with it; one added is asked about first.
ForgetUsage(a) ==
    /\ a \in registered /\ registered' = registered \ {a}
    /\ file' = Without(file, a) /\ everRead' = [everRead EXCEPT ![a] = 0]
    /\ UNCHANGED <<now, task>>

Added(a) ==
    /\ a \notin registered /\ registered' = registered \cup {a}
    /\ UNCHANGED <<file, now, task, everRead>>

Init ==
    /\ registered = Accounts /\ now = 0 /\ task = [p \in Procs |-> NoTask]
    /\ \E known \in SUBSET Accounts, none \in BOOLEAN : file = [a \in known |-> Entry(0, 0, none)]
    /\ everRead = [a \in Accounts |-> 0]

Next ==
    \/ \E a \in Accounts : ForgetUsage(a) \/ Added(a)
    \/ \E p \in Procs :
       \/ RefreshUsage(p) \/ WritesBack(p) \/ WriteFails(p)
       \/ \E a \in Accounts : Measures(p, a) \/ Misses(p, a)

Spec == Init /\ [][Next]_vars

-----------------------------------------------------------------------------
(* A refresh that took long never brings back older numbers than another   *)
(* wrote meanwhile, in an account's whole life in the file.                 *)
NumbersNeverOlder == \A a \in DOMAIN file : file[a].read >= everRead[a]

Inv == TypeOK /\ NumbersNeverOlder
=============================================================================
