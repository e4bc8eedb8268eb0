----------------------------- MODULE SharedLogin -----------------------------
(***************************************************************************)
(* A login several profiles share, renewed in one of them and carried to   *)
(* the others (accounts/shared-login.ts, duplicate-guard.ts) by processes  *)
(* that renew what nobody uses (usage/usage-store.ts): who shares it is    *)
(* noted before the renewal, the result copied under the profile's lock,   *)
(* and each sharer given the copy under its own lock, beside sign-ins and  *)
(* sessions that start.  Logins are numbers; a lock's holder is the        *)
(* process it renews for.                                                  *)
(***************************************************************************)
EXTENDS Naturals, FiniteSets

CONSTANTS Procs, Profiles,
          Emails,      \* the address each profile is registered for, None when none is
          MaxLogins,   \* bounds the logins made
          None

VARIABLES login,       \* each profile's login, 0 when signed out
          spent,       \* the logins renewed
          logins,      \* logins made so far
          lock,        \* each profile's login lock
          leased,      \* the profiles a session runs on
          job,         \* what each process is doing
          given        \* history: who was given which login over which, by a carry

vars == <<login, spent, logins, lock, leased, job, given>>

NoJob == [at |-> "idle", target |-> None, shared |-> {}, left |-> {}, missed |-> {},
          retired |-> 0, renewed |-> 0]

TypeOK ==
    /\ login \in [Profiles -> 0 .. MaxLogins] /\ logins \in 0 .. MaxLogins
    /\ spent \subseteq 1 .. logins
    /\ lock \in [Profiles -> Procs \cup {None}] /\ leased \subseteq Profiles
    /\ \A p \in Procs :
          /\ job[p].at \in {"idle", "sends", "waits", "renewed", "copies", "carries"}
          /\ job[p].left \subseteq job[p].shared

-----------------------------------------------------------------------------
\* Of one account as far as is known: an address not recorded rules nothing out.
SameRegisteredAccount(a, b) == Emails[a] = None \/ Emails[b] = None \/ Emails[a] = Emails[b]

\* Everyone a renewal of it would leave on a token the server has retired.
RenewalWouldBreakOthers(a) ==
    IF login[a] = 0 THEN {} ELSE {b \in Profiles \ {a} : login[b] = login[a]}

CarryTargets(a) == {b \in RenewalWouldBreakOthers(a) : SameRegisteredAccount(a, b)}

-----------------------------------------------------------------------------
(* Sign-ins and sessions *)

SignsIn(a) ==
    /\ logins < MaxLogins /\ logins' = logins + 1
    /\ login' = [login EXCEPT ![a] = logins + 1]
    /\ UNCHANGED <<spent, lock, leased, job, given>>

SessionStarts(a) ==
    /\ leased' = leased \cup {a} /\ leased' # leased
    /\ UNCHANGED <<login, spent, logins, lock, job, given>>

SessionEnds(a) ==
    /\ a \in leased /\ leased' = leased \ {a}
    /\ UNCHANGED <<login, spent, logins, lock, job, given>>

-----------------------------------------------------------------------------
(* Renewing an idle login *)

Step(p, r) == job' = [job EXCEPT ![p] = r]

\* Refused while a session is on it or on a profile that shares it; who shares
\* it is noted before anything is sent.
RenewIdleLogin(p, a) ==
    /\ job[p].at = "idle"
    /\ ({a} \cup RenewalWouldBreakOthers(a)) \cap leased = {} /\ login[a] # 0
    /\ Step(p, [NoJob EXCEPT !.at = "sends", !.target = a, !.shared = CarryTargets(a),
                             !.retired = login[a]])
    /\ UNCHANGED <<login, spent, logins, lock, leased, given>>

Sends(p) ==
    /\ job[p].at = "sends"
    /\ LET a == job[p].target IN
       IF lock[a] = None /\ login[a] # 0
       THEN /\ lock' = [lock EXCEPT ![a] = p]
            /\ Step(p, [job[p] EXCEPT !.at = "waits", !.renewed = login[a]])
       ELSE UNCHANGED lock /\ Step(p, NoJob)
    /\ UNCHANGED <<login, spent, logins, leased, given>>

\* Refused when spent; saved unless a sign-in has replaced what was sent.
Answered(p) ==
    /\ job[p].at = "waits"
    /\ LET a == job[p].target  sent == job[p].renewed IN
       /\ IF sent \in spent \/ logins = MaxLogins THEN UNCHANGED <<login, spent, logins>>
          ELSE /\ logins' = logins + 1 /\ spent' = spent \cup {sent}
               /\ login' = IF login[a] = sent THEN [login EXCEPT ![a] = logins + 1] ELSE login
       /\ lock' = [lock EXCEPT ![a] = None]
    /\ Step(p, [job[p] EXCEPT !.at = "renewed", !.renewed = 0])
    /\ UNCHANGED <<leased, given>>

\* Nothing is carried when the profile is as it was.
Renewed(p) ==
    /\ job[p].at = "renewed"
    /\ LET a == job[p].target IN
       IF login[a] \in {0, job[p].retired} THEN Step(p, NoJob)
       ELSE Step(p, [job[p] EXCEPT !.at = "copies", !.renewed = login[a]])
    /\ UNCHANGED <<login, spent, logins, lock, leased, given>>

\* Under the profile's own lock, and only if it is the login asked for still.
Copies(p) ==
    /\ job[p].at = "copies"
    /\ LET a == job[p].target IN
       IF lock[a] = None /\ login[a] = job[p].renewed
       THEN Step(p, [job[p] EXCEPT !.at = "carries", !.left = job[p].shared])
       ELSE Step(p, NoJob)
    /\ UNCHANGED <<login, spent, logins, lock, leased, given>>

\* Mutant: the sharer is not looked at again under its lock.
MayGiveUnchecked(p, b) == lock[b] = None

\* One at a time; one whose lock stays taken, or that cannot be written, is
\* passed over.
MayGive(p, b) == login[b] = job[p].retired /\ lock[b] = None

Carries(p) ==
    /\ job[p].at = "carries"
    /\ \E b \in job[p].left :
       \/ /\ MayGive(p, b)
          /\ login' = [login EXCEPT ![b] = job[p].renewed]
          /\ given' = given \cup {<<b, job[p].retired, login[b], job[p].renewed, job[p].target>>}
          /\ Step(p, [job[p] EXCEPT !.left = @ \ {b}])
       \/ /\ login[b] # job[p].retired
          /\ Step(p, [job[p] EXCEPT !.left = @ \ {b}]) /\ UNCHANGED <<login, given>>
       \/ /\ Step(p, [job[p] EXCEPT !.left = @ \ {b}, !.missed = @ \cup {b}])
          /\ UNCHANGED <<login, given>>
    /\ UNCHANGED <<spent, logins, lock, leased>>

Carried(p) ==
    /\ job[p].at = "carries" /\ job[p].left = {} /\ Step(p, NoJob)
    /\ UNCHANGED <<login, spent, logins, lock, leased, given>>

-----------------------------------------------------------------------------
Init ==
    /\ logins = 2 /\ login \in [Profiles -> 1 .. 2] /\ spent = {}
    /\ lock = [a \in Profiles |-> None] /\ leased = {}
    /\ job = [p \in Procs |-> NoJob] /\ given = {}

Next ==
    \/ \E a \in Profiles : SignsIn(a) \/ SessionStarts(a) \/ SessionEnds(a)
    \/ \E p \in Procs :
       \/ \E a \in Profiles : RenewIdleLogin(p, a)
       \/ Sends(p) \/ Answered(p) \/ Renewed(p) \/ Copies(p) \/ Carries(p) \/ Carried(p)

Spec == Init /\ [][Next]_vars

-----------------------------------------------------------------------------
(* A carry replaces only the login it retired, so no sign-in is written     *)
(* over, and gives it only to profiles registered for the same account.    *)
SignInsStay == \A g \in given : g[3] = g[2]
SameAccountOnly == \A g \in given : SameRegisteredAccount(g[1], g[5])

(* One sharer that cannot be written stops none of the others: at its end  *)
(* each has left the retired login or is one that was passed over.         *)
OthersStillCarried ==
    \A p \in Procs : job[p].at = "carries" =>
       \A b \in job[p].shared \ (job[p].left \cup job[p].missed) :
          login[b] # job[p].retired \/ job[p].retired \notin spent

Inv == TypeOK /\ SignInsStay /\ SameAccountOnly /\ OthersStillCarried
=============================================================================
