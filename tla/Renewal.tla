------------------------------ MODULE Renewal ------------------------------
(***************************************************************************)
(* The renewal of the login one folder holds (usage/oauth-refresh.ts,      *)
(* accounts/kept-renewal.ts): read it, take the folder's lock, read it     *)
(* again, ask the token endpoint, keep the answer beside the login, save   *)
(* it where Claude reads it, and forget the kept copy.  A refresh token    *)
(* works once: from the answer on, the new login is all that is left of    *)
(* the account in this folder, through failed writes and deaths.           *)
(*                                                                         *)
(* A login is the n-th issued (which orders expiries too), in the line of  *)
(* one sign-in.  The server takes only the newest of a line.  Claude takes *)
(* the same lock for its own renewals, but not for /login and /logout      *)
(* (accounts/keychain-view.ts).  The lock is released by whoever has it or *)
(* dies with it; DirLock is about the lock itself.                         *)
(***************************************************************************)
EXTENDS Naturals, FiniteSets

CONSTANTS Tasks,        \* what renews this folder's login, in whatever process
          MaxLogins,    \* bound: logins the server issues
          MaxSignIns,   \* bound: sign-ins
          MaxFailures   \* bound: reads and writes that fail

ASSUME RenewalAssumption == MaxLogins \in Nat \ {0} /\ MaxSignIns \in Nat \ {0} /\ MaxFailures \in Nat

VARIABLES store,     \* the login Claude would read in the folder
          kept,      \* the kept renewal, and the login it retired
          issued,    \* how many logins the server has issued
          newest,    \* by line, the login the server takes
          lines,     \* how many sign-ins there were: the last line counts
          first,     \* by line, the login its sign-in gave
          lost,      \* lines whose newest login nobody holds, and why is known
          dead,      \* logins remembered as refused
          lock,      \* who holds the folder's .oauth_refresh.lock
          pc,        \* what each task is doing
          token,     \* the login each sent to be renewed
          reply,     \* the login each got for it
          failures   \* failed reads and writes so far

vars == <<store, kept, issued, newest, lines, first, lost, dead, lock, pc, token, reply, failures>>
files == <<store, kept, dead>>
server == <<issued, newest, lines, first, lost>>

Logins == [line : 1..MaxSignIns, n : 1..MaxLogins]
NoLogin == [line |-> 0, n |-> 0]
NothingKept == [retired |-> NoLogin, login |-> NoLogin]

\* "takingUp" and "wants" wait for the lock; from "reading" to "cleaning" a
\* kept renewal is saved, from "judging" to "forgetting" a new one made, both
\* under the lock.
Waiting == {"takingUp", "wants"}
Locked == {"reading", "writing", "cleaning", "judging", "sending", "refused", "answered",
           "saving", "forgetting"}
PC == {"idle", "dead"} \cup Waiting \cup Locked

\* Type invariant: the shape of every variable.
TypeOK ==
    /\ store \in Logins \cup {NoLogin}
    /\ kept \in [retired : Logins, login : Logins] \cup {NothingKept}
    /\ issued \in 1..MaxLogins
    /\ newest \in [1..MaxSignIns -> 0..MaxLogins]
    /\ lines \in 1..MaxSignIns
    /\ first \in [1..MaxSignIns -> 0..MaxLogins]
    /\ lost \subseteq 1..MaxSignIns
    /\ dead \subseteq Logins
    /\ lock \subseteq Tasks
    /\ pc \in [Tasks -> PC]
    /\ token \in [Tasks -> Logins \cup {NoLogin}]
    /\ reply \in [Tasks -> Logins \cup {NoLogin}]
    /\ failures \in 0..MaxFailures

FirstLogin == [line |-> 1, n |-> 1]

Init ==
    /\ store = FirstLogin
    /\ kept = NothingKept
    /\ issued = 1
    /\ newest = [l \in 1..MaxSignIns |-> IF l = 1 THEN 1 ELSE 0]
    /\ first = newest
    /\ lines = 1
    /\ lost = {}
    /\ dead = {}
    /\ lock = {}
    /\ pc = [t \in Tasks |-> "idle"]
    /\ token = [t \in Tasks |-> NoLogin]
    /\ reply = [t \in Tasks |-> NoLogin]
    /\ failures = 0

-----------------------------------------------------------------------------
(* Helpers *)

Goes(t, from, to) == pc[t] = from /\ pc' = [pc EXCEPT ![t] = to]
Takes(t, from, to) == lock = {} /\ lock' = {t} /\ Goes(t, from, to)

\* The task is done: it has nothing in hand and the lock is let go.
LetsGo(t, from) ==
    /\ Goes(t, from, "idle")
    /\ lock' = lock \ {t}
    /\ token' = [token EXCEPT ![t] = NoLogin]
    /\ reply' = [reply EXCEPT ![t] = NoLogin]

Fails == failures < MaxFailures /\ failures' = failures + 1

Accepted(login) == login # NoLogin /\ newest[login.line] = login.n

\* The server renews `login`: `next` is the new one.
Renews(login, next) ==
    /\ Accepted(login)
    /\ issued < MaxLogins
    /\ issued' = issued + 1
    /\ next = [line |-> login.line, n |-> issued + 1]
    /\ newest' = [newest EXCEPT ![login.line] = issued + 1]
    /\ UNCHANGED <<lines, first>>

\* What t has in hand is dropped: with no copy of it, its line is lost.
Drops(t) ==
    lost' = IF reply[t] = NoLogin \/ reply[t] \in {store, kept.login} THEN lost
            ELSE lost \cup {reply[t].line}

-----------------------------------------------------------------------------
(* Looking, without the lock *)

\* refreshCredentialIfExpired and takeUpRenewal: a kept renewal comes first.
LooksAtKept(t) ==
    /\ kept # NothingKept
    /\ Goes(t, "idle", "takingUp")
    /\ UNCHANGED <<files, server, lock, token, reply, failures>>

\* Whether a stored login wants renewing: any that is not refused may be due,
\* by its time or because the API turned its access token away.
MayRenew(login) == login # NoLogin /\ login \notin dead

LooksAtLogin(t) ==
    /\ kept = NothingKept
    /\ MayRenew(store)
    /\ Goes(t, "idle", "wants")
    /\ token' = [token EXCEPT ![t] = store]
    /\ UNCHANGED <<files, server, lock, reply, failures>>

\* The lock is not to be had: nothing is sent or written.
Busy(t) ==
    /\ lock # {}
    /\ \E from \in Waiting : Goes(t, from, "idle")
    /\ token' = [token EXCEPT ![t] = NoLogin]
    /\ UNCHANGED <<files, server, lock, reply, failures>>

-----------------------------------------------------------------------------
(* takeUpKeptRenewal *)

TakesUp(t) ==
    /\ Takes(t, "takingUp", "reading")
    /\ UNCHANGED <<files, server, token, reply, failures>>

\* A kept renewal is newer than no login, than the one it retired, and than one
\* that expires sooner.
NewerThanStored(stored) ==
    stored = NoLogin \/ kept.retired = stored \/ kept.login.n > stored.n

KeptIsGone(t) ==
    /\ kept = NothingKept
    /\ LetsGo(t, "reading")
    /\ UNCHANGED <<files, server, failures>>

KeptIsNewer(t) ==
    /\ kept # NothingKept
    /\ NewerThanStored(store)
    /\ Goes(t, "reading", "writing")
    /\ UNCHANGED <<files, server, lock, token, reply, failures>>

\* Mutant: a stale kept renewal is left where it is.
KeptStaysStale(t) ==
    /\ kept # NothingKept
    /\ ~NewerThanStored(store)
    /\ LetsGo(t, "reading")
    /\ UNCHANGED <<files, server, failures>>

KeptIsStale(t) ==
    /\ kept # NothingKept
    /\ ~NewerThanStored(store)
    /\ LetsGo(t, "reading")
    /\ kept' = NothingKept
    /\ UNCHANGED <<store, dead, server, failures>>

SavesKept(t) ==
    /\ Goes(t, "writing", "cleaning")
    /\ store' = kept.login
    /\ UNCHANGED <<kept, dead, server, lock, token, reply, failures>>

\* The store could not be read, or written whole: later.
TakeUpFails(t) ==
    /\ Fails
    /\ \/ LetsGo(t, "reading") /\ UNCHANGED store
       \/ LetsGo(t, "writing") /\ store' \in {store, NoLogin}
    /\ UNCHANGED <<kept, dead, server>>

-----------------------------------------------------------------------------
(* performRenewal *)

TakesLock(t) ==
    /\ Takes(t, "wants", "judging")
    /\ UNCHANGED <<files, server, token, reply, failures>>

\* Mutant: the login read before the lock was taken is sent.
SendsFirstRead(t) ==
    /\ MayRenew(store)
    /\ Goes(t, "judging", "sending")
    /\ UNCHANGED <<files, server, lock, token, reply, failures>>

\* The stored login, read again under the lock, is still due: it is sent.
Sends(t) ==
    /\ MayRenew(store)
    /\ Goes(t, "judging", "sending")
    /\ token' = [token EXCEPT ![t] = store]
    /\ UNCHANGED <<files, server, lock, reply, failures>>

\* It is not due any more, or cannot be read.
NotDue(t) ==
    /\ LetsGo(t, "judging")
    /\ UNCHANGED <<files, server, failures>>

Answered(t) ==
    /\ \E next \in Logins :
          /\ Renews(token[t], next)
          /\ reply' = [reply EXCEPT ![t] = next]
    /\ Goes(t, "sending", "answered")
    /\ UNCHANGED <<files, lost, lock, token, failures>>

\* The server renewed it, but its answer came too late or could not be read.
AnswerLost(t) ==
    /\ \E next \in Logins : Renews(token[t], next)
    /\ lost' = lost \cup {token[t].line}
    /\ LetsGo(t, "sending")
    /\ UNCHANGED <<files, failures>>

\* No answer, or an error that says nothing of the login (as at the bound).
RequestFails(t) ==
    /\ Fails \/ (issued = MaxLogins /\ UNCHANGED failures)
    /\ LetsGo(t, "sending")
    /\ UNCHANGED <<files, server>>

\* invalid_grant.
Refused(t) ==
    /\ ~Accepted(token[t])
    /\ Goes(t, "sending", "refused")
    /\ UNCHANGED <<files, server, lock, token, reply, failures>>

\* The login that was read and sent is remembered, whatever the folder holds.
Remembers(t) ==
    /\ dead' = dead \cup {token[t]}
    /\ LetsGo(t, "refused")
    /\ UNCHANGED <<store, kept, server, failures>>

Keeps(t) ==
    /\ Goes(t, "answered", "saving")
    /\ \/ kept' = [retired |-> token[t], login |-> reply[t]] /\ UNCHANGED failures
       \/ Fails /\ UNCHANGED kept
    /\ UNCHANGED <<store, dead, server, lock, token, reply>>

Saves(t) ==
    /\ Goes(t, "saving", "forgetting")
    /\ store' = reply[t]
    /\ UNCHANGED <<kept, dead, server, lock, token, reply, failures>>

\* Mutant: the kept copy is forgotten when the save fails too.
SaveFailsForgetting(t) ==
    /\ Fails
    /\ store' \in {store, NoLogin}
    /\ LetsGo(t, "saving")
    /\ kept' = NothingKept
    /\ lost' = IF kept.login = reply[t] THEN lost ELSE lost \cup {reply[t].line}
    /\ UNCHANGED <<dead, issued, newest, lines, first>>

\* The save failed, perhaps cut short: the answer is where it was kept, if it was.
SaveFails(t) ==
    /\ Fails
    /\ store' \in {store, NoLogin}
    /\ LetsGo(t, "saving")
    /\ lost' = IF kept.login = reply[t] THEN lost ELSE lost \cup {reply[t].line}
    /\ UNCHANGED <<kept, dead, issued, newest, lines, first>>

\* The kept copy goes (or cannot be removed, for the next look to find), and
\* with a renewal any note that its login was refused.
Forgets(t) ==
    /\ \/ kept' = NothingKept /\ UNCHANGED failures
       \/ Fails /\ UNCHANGED kept
    /\ \/ LetsGo(t, "forgetting") /\ dead' = dead \ {reply[t]}
       \/ LetsGo(t, "cleaning") /\ UNCHANGED dead
    /\ UNCHANGED <<store, server>>

-----------------------------------------------------------------------------
(* What else changes the folder *)

\* A ccx process dies; the lock it held is taken over when it is stale.
Dies(t) ==
    /\ pc[t] # "dead"
    /\ pc' = [pc EXCEPT ![t] = "dead"]
    /\ lock' = lock \ {t}
    /\ Drops(t)
    /\ token' = [token EXCEPT ![t] = NoLogin]
    /\ reply' = [reply EXCEPT ![t] = NoLogin]
    /\ UNCHANGED <<files, issued, newest, lines, first, failures>>

\* A Claude of this folder renews its login under the lock.
ClaudeRenews ==
    /\ lock = {}
    /\ \E next \in Logins : Renews(store, next) /\ store' = next
    /\ UNCHANGED <<kept, dead, lost, lock, pc, token, reply, failures>>

\* Or is refused, and leaves a login that no longer reads as one.
ClaudeIsSignedOut ==
    /\ lock = {}
    /\ store # NoLogin /\ ~Accepted(store)
    /\ store' = NoLogin
    /\ UNCHANGED <<kept, dead, server, lock, pc, token, reply, failures>>

\* /logout, which no renewal's lock keeps out.
SignOut ==
    /\ store # NoLogin
    /\ store' = NoLogin
    /\ lost' = IF Accepted(store) THEN lost \cup {store.line} ELSE lost
    /\ UNCHANGED <<kept, dead, issued, newest, lines, first, lock, pc, token, reply, failures>>

\* /login, or ccx login: a new line; nor this.
SignIn ==
    /\ issued < MaxLogins /\ lines < MaxSignIns
    /\ issued' = issued + 1
    /\ lines' = lines + 1
    /\ newest' = [newest EXCEPT ![lines + 1] = issued + 1]
    /\ first' = [first EXCEPT ![lines + 1] = issued + 1]
    /\ store' = [line |-> lines + 1, n |-> issued + 1]
    /\ UNCHANGED <<kept, dead, lost, lock, pc, token, reply, failures>>

-----------------------------------------------------------------------------

\* What a task goes on with once it has begun.
Progress(t) ==
    \/ Busy(t) \/ TakesUp(t) \/ KeptIsGone(t) \/ KeptIsNewer(t) \/ KeptIsStale(t)
    \/ SavesKept(t) \/ TakesLock(t) \/ Sends(t) \/ NotDue(t) \/ Answered(t) \/ AnswerLost(t)
    \/ RequestFails(t) \/ Refused(t) \/ Remembers(t) \/ Keeps(t) \/ Saves(t) \/ Forgets(t)

Next ==
    \/ \E t \in Tasks :
          \/ LooksAtKept(t) \/ LooksAtLogin(t) \/ Progress(t)
          \/ TakeUpFails(t) \/ SaveFails(t) \/ Dies(t)
    \/ ClaudeRenews \/ ClaudeIsSignedOut \/ SignOut \/ SignIn

Spec == Init /\ [][Next]_vars

\* Every look of every process takes a kept renewal up (usage-store.ts,
\* refreshUsage), and a task that runs goes on.
FairSpec == Spec /\ \A t \in Tasks : WF_vars(LooksAtKept(t)) /\ WF_vars(Progress(t))

-----------------------------------------------------------------------------
(* Properties *)

Newest(l) == [line |-> l, n |-> newest[l]]
Held == {store, kept.login} \cup {reply[t] : t \in Tasks}

\* A renewal is never nowhere: what the server issued for the last sign-in's
\* login is stored, kept or in hand, unless its answer never arrived, a write
\* after a failed keeping failed too, its process died with it in hand, or
\* somebody signed out (kept-renewal.ts, performRenewal).
RenewalHeld ==
    newest[lines] # first[lines] /\ lines \notin lost => Newest(lines) \in Held

\* A login noted as refused is one the server refuses, so that no note benches
\* a login that works, whoever signed in meanwhile (performRenewal).
NotesTrue == \A login \in dead : ~Accepted(login)

\* The types hold, a renewal is never nowhere, and notes are true.
Inv == TypeOK /\ RenewalHeld /\ NotesTrue

\* A renewal never sends a login of the last sign-in that the server retired,
\* unless the one that replaced it is known lost, or kept by a renewal whose
\* save has failed since the kept one was looked for (renewUnderLockSteps).
SendsNoSpentLogin ==
    [][\A t \in Tasks : pc[t] = "judging" /\ pc'[t] = "sending" =>
          \/ Accepted(token'[t]) \/ token'[t].line # lines
          \/ lines \in lost \/ kept.retired = token'[t]]_pc

\* A renewal that was kept is saved, or found stale, once writes work again.
KeptIsSettled == kept # NothingKept ~> kept = NothingKept \/ \A t \in Tasks : pc[t] = "dead"

=============================================================================
