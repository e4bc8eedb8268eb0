---------------------------- MODULE HeadlessRun -----------------------------
(***************************************************************************)
(* Requests run to their end beside each other (commands/run.ts), moving   *)
(* from account to account as limits are confirmed                         *)
(* (launcher/rotating-run.ts), and what they leave on the ledger           *)
(* (ledger/ledger.ts).  Each run plans from the ledger it read as it       *)
(* started and its own changes; each change is also made to the file.      *)
(* Limits begin and end at Claude's server; when a limit is confirmed is   *)
(* left to the server's truth.                                             *)
(***************************************************************************)
EXTENDS Naturals, Sequences, FiniteSets, SequencesExt

CONSTANTS Runs,         \* the requests
          Order,        \* the accounts, in the order of their priorities
          Models,       \* the models an account may be out of
          Preferences,  \* lists of models a user would rather run on, best first
          MaxTime,      \* bounds the clock
          MaxLimits,    \* bounds the limits that begin
          Backoff,      \* how long a limit is recorded for whose end is not known
          Default,      \* the model Claude runs when none is named
          None          \* no account, no model

VARIABLES preference,   \* the models to fall back on
          modelFirst,   \* whether another account is tried before another model
          signedIn,     \* the accounts signed in
          clock,        \* the time, as recorded
          limits,       \* by account and model (None: whole account), when its limit ends
          begun,        \* how many limits have begun
          caps,         \* the ledger's file
          active,       \* the account pinned for everything
          run,          \* each request, see RunRecord
          told,         \* history: the limits anyone has confirmed
          standing      \* history: those on the file that nothing since has shown over

settings == <<preference, modelFirst, signedIn>>

vars == <<settings, clock, limits, begun, caps, active, run, told, standing>>

Accounts == ToSet(Order)
Scopes == Models \cup {None}
Times == 0..(MaxTime + Backoff)

CapRecord == [account : Accounts, model : Scopes, until : Times, at : 0..MaxTime]

RunRecord ==
    [phase : {"off", "running", "checking", "over"},
     rotates : BOOLEAN,                \* or one whose output is only watched
     pinned : Accounts \cup {None},
     ledger : SUBSET CapRecord, spent : SUBSET (Accounts \X Models), modelInUse : Scopes,
     attempt : Nat, account : Accounts \cup {None},
     model : Scopes,                   \* the model in the launch's arguments
     startedAt : 0..MaxTime,
     served : BOOLEAN,                 \* whether it may have been let through
     outcome : {"none", "answered", "failed", "cannot run", "exhausted", "all capped"}]

TypeOK ==
    /\ preference \in Preferences /\ modelFirst \in BOOLEAN /\ signedIn \subseteq Accounts
    /\ clock \in 0..MaxTime /\ begun \in 0..MaxLimits
    /\ limits \in [Accounts \X Scopes -> Times]
    /\ caps \subseteq CapRecord /\ active \in Accounts \cup {None}
    /\ run \in [Runs -> RunRecord]
    /\ told \subseteq Accounts \X Scopes /\ standing \subseteq Accounts \X Scopes

-----------------------------------------------------------------------------
(* The ledger *)

IsActive(c) == c.until > clock

CappedNames(ledger) == {c.account : c \in {d \in ledger : d.model = None /\ IsActive(d)}}

ActiveModelCaps(ledger) ==
    {<<c.account, c.model>> : c \in {d \in ledger : d.model # None /\ IsActive(d)}}

MarkCapped(ledger, cap) ==
    {c \in ledger : ~(c.account = cap.account /\ cap.model \in {None, c.model})} \cup {cap}

\* Mutant: a cap recorded in the very moment the run started is taken for older.
ClearSameMoment(ledger, a, m, startedAt) ==
    {c \in ledger : ~(c.account = a /\ c.at <= startedAt /\ c.model \in {None, m})}

ClearDisproved(ledger, a, m, startedAt) ==
    {c \in ledger : ~(c.account = a /\ c.at < startedAt /\ c.model \in {None, m})}

-----------------------------------------------------------------------------
(* The plan *)

\* Where x comes in a list that `first` goes to the front of.
Place(x, first, list) ==
    IF x = first THEN 0
    ELSE CHOOSE i \in DOMAIN list : list[i] = x /\ \A j \in DOMAIN list : list[j] = x => i <= j

\* Those that could run, the first of them by priority, the pinned one before all.
Eligible(ledger) == signedIn \ CappedNames(ledger)

FirstOf(S, pinned) ==
    CHOOSE x \in S : \A y \in S : Place(x, pinned, Order) <= Place(y, pinned, Order)

ModelChain(r) == {r.modelInUse} \cup ToSet(preference)

Usable(r, a, m) == <<a, m>> \notin r.spent \cup ActiveModelCaps(r.ledger)

\* What can still run, and the first of it by account or by model.
UsablePairs(r) == {p \in Eligible(r.ledger) \X ModelChain(r) : Usable(r, p[1], p[2])}

FirstPair(r) ==
    LET A(p) == Place(p[1], r.pinned, Order)
        M(p) == Place(p[2], r.modelInUse, preference)
    IN  CHOOSE p \in UsablePairs(r) : \A q \in UsablePairs(r) :
            IF modelFirst THEN M(p) < M(q) \/ (M(p) = M(q) /\ A(p) <= A(q))
            ELSE A(p) < A(q) \/ (A(p) = A(q) /\ M(p) <= M(q))

MaxAttempts == Len(Order) * ((IF Len(preference) = 0 THEN 1 ELSE Len(preference)) + 1) + 1

-----------------------------------------------------------------------------
(* The server *)

Out(a, x) == limits[<<a, x>>] > clock

Refuses(a, m) == Out(a, None) \/ Out(a, m)

ModelOf(m) == IF m = None THEN Default ELSE m

Begins(a, x) ==
    /\ begun < MaxLimits /\ ~Out(a, x)
    /\ \E end \in (clock + 1)..(MaxTime + 1) : limits' = [limits EXCEPT ![<<a, x>>] = end]
    /\ begun' = begun + 1
    /\ UNCHANGED <<settings, clock, caps, active, run, told, standing>>

\* A run under way is let through once nothing stops it any more.
Ticks ==
    /\ clock < MaxTime
    /\ clock' = clock + 1
    /\ run' = [x \in Runs |-> [run[x] EXCEPT !.served =
                  \/ @
                  \/ /\ run[x].phase = "running"
                     /\ limits[<<run[x].account, None>>] <= clock'
                     /\ limits[<<run[x].account, ModelOf(run[x].model)>>] <= clock']]
    /\ standing' = {s \in standing : limits[s] > clock'}
    /\ UNCHANGED <<settings, limits, begun, caps, active, told>>

-----------------------------------------------------------------------------
(* A request *)

Idle == [phase |-> "off", rotates |-> FALSE, pinned |-> None, ledger |-> {}, spent |-> {},
         modelInUse |-> None, attempt |-> 0, account |-> None, model |-> None,
         startedAt |-> 0, served |-> FALSE, outcome |-> "none"]

Init ==
    /\ preference \in Preferences /\ modelFirst \in BOOLEAN /\ signedIn \in SUBSET Accounts
    /\ clock = 0 /\ begun = 0 /\ caps = {}
    /\ limits = [s \in Accounts \X Scopes |-> 0]
    /\ active \in Accounts \cup {None}
    /\ run = [x \in Runs |-> Idle]
    /\ told = {} /\ standing = {}

Over(r, how) == [Idle EXCEPT !.phase = "over", !.outcome = how, !.modelInUse = r.modelInUse]

Launched(r, a, m) ==
    [r EXCEPT !.phase = "running", !.account = a, !.attempt = @ + 1, !.startedAt = clock,
              !.model = m, !.served = ~Refuses(a, ModelOf(m)),
              !.modelInUse = IF r.rotates THEN m ELSE @]

\* Where the run goes next: one that is only watched runs as it was asked to.
Planned(r) ==
    IF r.attempt = MaxAttempts THEN Over(r, "all capped")
    ELSE IF Eligible(r.ledger) = {} THEN Over(r, "cannot run")
    ELSE IF ~r.rotates \/ r.modelInUse = None THEN Launched(r, FirstOf(Eligible(r.ledger), r.pinned), r.model)
    ELSE IF UsablePairs(r) = {} THEN Over(r, "exhausted")
    ELSE Launched(r, FirstPair(r)[1], FirstPair(r)[2])

\* The account pinned for everything follows once it can run nothing more.
AdvanceActive(ledger) ==
    LET ok == Eligible(ledger)
    IN  active' = IF active \in ok \/ ok = {} THEN active ELSE FirstOf(ok, None)

Ends(x, r, how) ==
    /\ run' = [run EXCEPT ![x] = Over(Idle, how)]
    /\ IF r.rotates THEN AdvanceActive(caps') ELSE UNCHANGED active

Proceeds(x, r) ==
    /\ run' = [run EXCEPT ![x] = Planned(r)]
    /\ IF r.rotates /\ Planned(r).phase = "over"
       THEN AdvanceActive(caps') ELSE UNCHANGED active

\* An account asked for by name stands in for the pinned one: `active` starts as any.
Starts(x) ==
    /\ run[x].phase = "off"
    /\ UNCHANGED caps
    /\ \E rotates \in BOOLEAN, m \in Scopes :
          Proceeds(x, [Idle EXCEPT !.rotates = rotates, !.ledger = caps, !.modelInUse = m,
                                   !.model = m, !.pinned = active])
    /\ UNCHANGED <<settings, clock, limits, begun, told, standing>>

\* What a run watched only comes to is not recorded, unless it meets a limit.
FinishesFine(x) ==
    LET r == run[x]
        Clear(ledger) == ClearDisproved(ledger, r.account, r.model, r.startedAt)
    IN
    /\ r.phase = "running" /\ r.served
    /\ caps' \in IF r.rotates THEN {caps, Clear(caps)} ELSE {caps}
    /\ Ends(x, [r EXCEPT !.ledger = Clear(@)], "answered")
    /\ UNCHANGED <<settings, clock, limits, begun, told, standing>>

FailsOtherwise(x) ==
    /\ run[x].phase = "running"
    /\ UNCHANGED caps /\ Ends(x, run[x], "failed")
    /\ UNCHANGED <<settings, clock, limits, begun, told, standing>>

\* What it printed, or a turn in its own record, reads like a limit.
LooksRefused(x) ==
    /\ run[x].phase = "running"
    /\ run' = [run EXCEPT ![x].phase = "checking"]
    /\ UNCHANGED <<settings, clock, limits, begun, caps, active, told, standing>>

NotProven(x) ==
    /\ run[x].phase = "checking"
    /\ UNCHANGED caps /\ Ends(x, run[x], "failed")
    /\ UNCHANGED <<settings, clock, limits, begun, told, standing>>

\* Any limit the account has may be confirmed, of the model run on or another;
\* the file may not be written.
Confirmed(x, scope) ==
    LET r == run[x]
        s == <<r.account, scope>>
        gone == IF scope = None THEN {r.account} \X Models ELSE {}
    IN
    /\ r.phase = "checking" /\ Out(r.account, scope)
    /\ told' = told \cup {s}
    /\ \E until \in {limits[s], clock + Backoff}, written \in BOOLEAN :
          LET cap == [account |-> r.account, model |-> scope, until |-> until, at |-> clock] IN
          /\ caps' = IF written THEN MarkCapped(caps, cap) ELSE caps
          /\ standing' = IF written THEN (standing \ gone) \cup {s} ELSE standing
          /\ IF r.rotates
             THEN Proceeds(x, [r EXCEPT !.ledger = MarkCapped(@, cap),
                                        !.spent = @ \cup ({s} \cap (Accounts \X Models)),
                                        !.modelInUse = IF @ = None THEN scope ELSE @])
             ELSE /\ run' = [run EXCEPT ![x] = Over(Idle, "failed")]
                  /\ IF written THEN AdvanceActive(caps') ELSE UNCHANGED active
    /\ UNCHANGED <<settings, clock, limits, begun>>

Next ==
    \/ Ticks
    \/ \E a \in Accounts, x \in Scopes : Begins(a, x)
    \/ \E x \in Runs :
          \/ Starts(x) \/ FinishesFine(x)
          \/ FailsOtherwise(x) \/ LooksRefused(x) \/ NotProven(x)
          \/ \E scope \in Scopes : Confirmed(x, scope)

Spec == Init /\ [][Next]_vars

-----------------------------------------------------------------------------
(* Properties *)

\* A limit on the file that is not over stays there, or one of the whole account
\* in its place: a run that finishes fine says nothing of a limit met beside it.
ConfirmedStays ==
    \A s \in standing : \E c \in caps : c.account = s[1] /\ c.model \in {None, s[2]}

\* A run that finds nothing left to run on has every account signed in out, for
\* itself or for the models it may run on, by limits someone has confirmed.
GivesUpHonestly ==
    \A x \in Runs : LET r == run[x] IN
        r.outcome \in {"cannot run", "exhausted"} =>
            \A a \in signedIn :
                \/ <<a, None>> \in told
                \/ /\ r.outcome = "exhausted"
                   /\ \A m \in ModelChain(r) : <<a, m>> \in told

\* What always holds of requests run beside each other and of their ledger.
Inv == TypeOK /\ ConfirmedStays /\ GivesUpHonestly
=============================================================================
