---------------------------- MODULE EditorFolder ----------------------------
(***************************************************************************)
(* The editor's Claude folder (editor/folder.ts, folder-login.ts): the old *)
(* link at its path moved into a folder, that folder's login moved to the  *)
(* active account, renewals made in it taken home and renewals made        *)
(* elsewhere carried into it, the folder retired and one ccx did not make  *)
(* taken over, by processes whose waits for the API or for a lock others   *)
(* run between, and beside a Claude that renews and signs in.  A login is  *)
(* the account it is of, its chain of renewals, and when it was made,      *)
(* which orders the times logins expire at.  What a step does under the    *)
(* editor's own lock is one action.                                        *)
(***************************************************************************)
EXTENDS Naturals

CONSTANTS Accounts,
          Events,      \* the ccx processes
          Mac,         \* whether Claude keeps what it saves in a Keychain item
          MaxMade,     \* bounds the logins made
          MaxCalls,    \* bounds the events begun
          None

VARIABLES made,        \* logins made so far
          spent,       \* logins renewed, which the server refuses
          profile,     \* each account's stored login
          active,      \* the active account
          named,       \* whether an editor setting names the path
          path,        \* what is at the path
          linked,      \* the account the old link leads to
          folder,      \* the folder's record, its login or the path's item, and who it says it is
          claude,      \* the editor's Claude
          lock,        \* who holds the login lock of each account and of the folder
          pending,     \* the notes left for a later event
          carries,     \* carries queued: the login to replace, the account its renewal is in
          carrier,     \* the carry being made
          ev,          \* what each process is doing
          calls,       \* events begun
          forgone,     \* history: chains a person signed over
          crossed      \* history: what was overtaken: a sign-in, a renewal, a login taken up

disk == <<made, spent, profile, folder>>
place == <<path, linked, named, active>>
queue == <<carries, carrier>>
history == <<forgone, crossed>>
vars == <<made, spent, profile, active, named, path, linked, folder, claude, lock,
          pending, carries, carrier, ev, calls, forgone, crossed>>

Logins == [of : Accounts, chain : 0 .. MaxMade, at : 0 .. MaxMade]
NoLogin == [of |-> None, chain |-> 0, at |-> 0]
NoFolder == [record |-> None, login |-> NoLogin, says |-> None]
Idle == [at |-> "idle", how |-> "none", account |-> None, login |-> NoLogin]
Closed == [at |-> "closed", sends |-> NoLogin, under |-> None]
NoCarry == [retired |-> NoLogin, account |-> None, text |-> NoLogin]
Places == Accounts \cup {"editor"}

TypeOK ==
    /\ made \in 0 .. MaxMade /\ spent \subseteq Logins
    /\ profile \in [Accounts -> Logins \cup {NoLogin}]
    /\ active \in Accounts /\ named \in BOOLEAN
    /\ path \in {"missing", "link", "folder", "other"} /\ linked \in Accounts \cup {None}
    /\ folder \in [record : Accounts \cup {None}, login : Logins \cup {NoLogin},
                   says : Accounts \cup {None}]
    /\ lock \in [Places -> {"free", "claude"} \cup Events]
    /\ pending \subseteq {"move", "retire"}

-----------------------------------------------------------------------------
(* Reading *)

\* The login Claude runs on at the path, and the one ccx reads there.
InUse == IF path = "link" /\ folder.login = NoLogin THEN profile[linked] ELSE folder.login
Held == IF path = "folder" THEN folder.login ELSE NoLogin

\* Where Claude's lock at the path is.
Here == IF path = "link" THEN linked ELSE "editor"

ChatOpen == claude.at # "closed"

\* Mutant: a look at the folder saves home whatever differs.
OtherThanStored(l, a) == l # NoLogin /\ l # profile[a]

NewerThanStored(l, a) ==
    /\ l # NoLogin /\ l # profile[a]
    /\ profile[a] = NoLogin \/ l.at > profile[a].at

\* The profile's login for the folder's: another, newer, and of who it says it is.
DecidePull(a) ==
    /\ profile[a] # NoLogin /\ profile[a] # folder.login
    /\ \/ folder.login = NoLogin
       \/ folder.says \in {a, None} /\ profile[a].at > folder.login.at

\* The renewals of one login are told by whose it is and its sign-in.
Chain(l) == <<l.of, l.chain>>

Renewed(l) == [of |-> l.of, chain |-> l.chain, at |-> made + 1]
SignIn(a) == [of |-> a, chain |-> made + 1, at |-> made + 1]

-----------------------------------------------------------------------------
(* The editor's Claude, which is not ccx's *)

ChatOpens ==
    /\ claude.at = "closed" /\ named
    /\ claude' = [Closed EXCEPT !.at = "idle"]
    /\ path' = IF path = "missing" THEN "other" ELSE path
    /\ UNCHANGED <<disk, linked, named, active, lock, pending, queue, ev, calls, history>>

ChatCloses ==
    /\ claude.at = "idle" /\ claude' = Closed
    /\ UNCHANGED <<disk, place, lock, pending, queue, ev, calls, history>>

RenewBegins ==
    /\ claude.at = "idle" /\ InUse # NoLogin /\ made < MaxMade
    /\ lock[Here] = "free"
    /\ lock' = [lock EXCEPT ![Here] = "claude"]
    /\ claude' = [at |-> "renewing", sends |-> InUse, under |-> Here]
    /\ UNCHANGED <<disk, place, pending, queue, ev, calls, history>>

\* It saves by path, and lets go of its lock by path; the lock it took ages.
RenewEnds ==
    /\ claude.at = "renewing"
    /\ lock' = [p \in Places |-> IF p = Here \/ (p = claude.under /\ lock[p] = "claude")
                              THEN "free" ELSE lock[p]]
    /\ claude' = [Closed EXCEPT !.at = "idle"]
    /\ IF claude.sends \in spent \/ made = MaxMade THEN UNCHANGED <<disk, path>>
       ELSE /\ made' = made + 1 /\ spent' = spent \cup {claude.sends}
            /\ path' = IF path = "missing" THEN "other" ELSE path
            /\ IF path = "link" /\ ~Mac /\ folder.login = NoLogin
               THEN /\ profile' = [profile EXCEPT ![linked] = Renewed(claude.sends)]
                    /\ UNCHANGED folder
               ELSE /\ folder' = [folder EXCEPT !.login = Renewed(claude.sends)]
                    /\ profile' = IF path = "link" /\ profile[linked] = claude.sends
                                  THEN [profile EXCEPT ![linked] = NoLogin] ELSE profile
    /\ UNCHANGED <<linked, named, active, pending, queue, ev, calls, history>>

\* A sign-in writes the login first, who it is after.
SignsIn(a) ==
    /\ claude.at = "idle" /\ path \in {"folder", "other"} /\ made < MaxMade
    /\ made' = made + 1 /\ folder' = [folder EXCEPT !.login = SignIn(a)]
    /\ forgone' = forgone \cup {Chain(folder.login)}
    /\ claude' = [Closed EXCEPT !.at = "signing", !.sends = SignIn(a)]
    /\ UNCHANGED <<spent, profile, place, lock, pending, queue, ev, calls, crossed>>

SignedIn ==
    /\ claude.at = "signing"
    /\ folder' = [folder EXCEPT !.says = claude.sends.of]
    /\ claude' = [Closed EXCEPT !.at = "idle"]
    /\ UNCHANGED <<made, spent, profile, place, lock, pending, queue, ev, calls, history>>

-----------------------------------------------------------------------------
(* An event of ccx's: a switch, a refresh, setting the editor up, a launch *)

Goes(e, at) == ev' = [ev EXCEPT ![e].at = at]
Ends(e) == ev' = [ev EXCEPT ![e] = Idle]

Switches(a) ==
    /\ a # active /\ calls < MaxCalls /\ calls' = calls + 1
    /\ active' = a
    /\ UNCHANGED <<disk, path, linked, named, claude, lock, pending, queue, ev, history>>

\* What a folder that ends, or a move off an account, leaves in its profile: only
\* a newer login, and only where the folder says it is that account.
SavedHome(a) ==
    IF a # None /\ NewerThanStored(folder.login, a) /\ folder.says = a
    THEN [profile EXCEPT ![a] = folder.login] ELSE profile

\* The link moved or removed while a renewal through it runs.
LinkLeaves(away) ==
    crossed' = crossed \cup (IF away /\ claude.at = "renewing" THEN {"renewal"} ELSE {})

\* Held while a chat is open; kept when something it holds cannot be handed back.
Retire(e) ==
    \/ /\ path \in {"link", "missing", "other"}
       /\ pending' = pending \ {"retire"}
       /\ path' = (IF path = "link" THEN "missing" ELSE path)
       /\ LinkLeaves(path = "link") /\ UNCHANGED disk
    \/ /\ path = "folder" /\ ~ChatOpen
       /\ profile' = SavedHome(folder.record)
       /\ folder' = NoFolder /\ path' = "missing" /\ pending' = pending \ {"retire"}
       /\ UNCHANGED <<made, spent, crossed>>
    \/ /\ path = "folder"
       /\ pending' = pending \cup {"retire"}
       /\ UNCHANGED <<disk, path, crossed>>

TurnsOff ==
    /\ named /\ calls < MaxCalls /\ calls' = calls + 1
    /\ named' = FALSE
    /\ Retire(None)
    /\ UNCHANGED <<linked, active, claude, lock, queue, ev, forgone>>

\* A retirement pending is undone by an editor set to the folder or a launch.
Begins(e, how) ==
    /\ ev[e].at = "idle" /\ calls < MaxCalls /\ calls' = calls + 1
    /\ named' = (named \/ how = "setUp")
    /\ IF "retire" \in pending /\ ~named' /\ how # "launch"
       THEN /\ Retire(e)
            /\ IF path' = "missing" THEN UNCHANGED ev
               ELSE ev' = [ev EXCEPT ![e] = [Idle EXCEPT !.at = "looks", !.how = how]]
       ELSE /\ pending' = pending \ {"retire"} /\ UNCHANGED <<disk, path, crossed>>
            /\ ev' = [ev EXCEPT ![e] = [Idle EXCEPT !.at = "looks", !.how = how]]
    /\ UNCHANGED <<linked, active, claude, lock, queue, forgone>>

\* An empty folder there is one to make too.
Creates(e) ==
    /\ ev[e].at = "looks" /\ path = "missing"
    /\ IF ev[e].how \in {"setUp", "launch"}
       THEN path' = "folder" /\ folder' = [folder EXCEPT !.record = None, !.says = None] /\ Goes(e, "takesUp")
       ELSE UNCHANGED <<path, folder>> /\ Ends(e)
    /\ UNCHANGED <<made, spent, profile, linked, named, active, claude, lock, pending, queue,
                   calls, history>>

\* The folder built beside the link, with the login its Claude runs on, and
\* swapped in.
BuiltFor(a, l) == [record |-> a, login |-> l, says |-> a]

\* Whatever was found out is looked at again under the lock.
MovesIn(e, owner) ==
    /\ path = "link" /\ folder.login = ev[e].login /\ linked = ev[e].account
    /\ lock[linked] = "free"
    /\ LET a == IF folder.login = NoLogin THEN linked ELSE owner
       IN  /\ folder' = BuiltFor(a, InUse)
           /\ profile' = IF folder.login # NoLogin /\ NewerThanStored(folder.login, a)
                         THEN [profile EXCEPT ![a] = folder.login] ELSE profile
    /\ path' = "folder" /\ Goes(e, "takesUp")
    /\ UNCHANGED <<made, spent, linked, named, active, claude, lock, pending, queue, calls, history>>

\* Not moved: a switch points the link at the active account, though not while
\* a renewal through it runs, or after it has waited for that long enough.
StaysLinked(e) ==
    /\ IF path = "link" /\ ev[e].how # "refresh" /\ (lock[linked] = "free" \/ ev[e].how = "setUp")
       THEN linked' = active /\ LinkLeaves(linked # active)
       ELSE UNCHANGED <<linked, crossed>>
    /\ Ends(e)
    /\ UNCHANGED <<disk, path, named, active, claude, lock, pending, queue, calls, forgone>>

\* Chats started through the link are waited for, for a day.
LooksAtLink(e) ==
    /\ ev[e].at = "looks" /\ path = "link"
    /\ \/ ChatOpen /\ StaysLinked(e)
       \/ /\ ev' = [ev EXCEPT ![e].at = "asksLink", ![e].login = folder.login, ![e].account = linked]
          /\ UNCHANGED <<disk, place, claude, lock, pending, queue, calls, history>>

LinkAnswered(e) ==
    /\ ev[e].at = "asksLink"
    /\ \/ MovesIn(e, ev[e].login.of)
       \/ StaysLinked(e)

\* A folder of somebody else's, once no chat is open in it.
TakesOver(e) ==
    /\ ev[e].at = "looks" /\ path = "other"
    /\ IF ChatOpen THEN Ends(e) ELSE ev' = [ev EXCEPT ![e].at = "asksOther", ![e].login = folder.login]
    /\ UNCHANGED <<disk, place, claude, lock, pending, queue, calls, history>>

OtherAnswered(e) ==
    /\ ev[e].at = "asksOther"
    /\ \/ /\ path = "other" /\ ~ChatOpen /\ folder.login = ev[e].login
          /\ LET a == ev[e].login.of IN
             /\ profile' = IF a # None /\ NewerThanStored(folder.login, a)
                           THEN [profile EXCEPT ![a] = folder.login] ELSE profile
             /\ folder' = BuiltFor(a, folder.login)
          /\ path' = "folder" /\ Goes(e, "takesUp")
          /\ UNCHANGED <<made, spent>>
       \/ Ends(e) /\ UNCHANGED <<disk, path>>
    /\ UNCHANGED <<linked, named, active, claude, lock, pending, queue, calls, history>>

-----------------------------------------------------------------------------
(* Taking up a renewal the editor's Claude made *)

\* Where an event, and a renewal of one account, goes on to.
After(e) == IF ev[e].how = "renew" THEN "renews" ELSE "refreshes"

\* A newer login is asked about first.
TakesUp(e) ==
    /\ ev[e].at = "takesUp" \/ (ev[e].at = "looks" /\ path = "folder")
    /\ LET a == folder.record
           newer == /\ path = "folder" /\ a # None /\ NewerThanStored(folder.login, a)
                    /\ ev[e].how = "renew" => ev[e].account = a
       IN  ev' = IF newer THEN [ev EXCEPT ![e] = [ev[e] EXCEPT !.at = "asks", !.login = folder.login, !.account = a]]
                 ELSE [ev EXCEPT ![e].at = After(e)]
    /\ UNCHANGED <<disk, place, claude, lock, pending, queue, calls, history>>

\* Saved home only to the account it is of, and only if the folder has it still.
\* The profile is not looked at again.
OwnerAnswers(e) ==
    /\ ev[e].at = "asks"
    /\ LET a == ev[e].account  l == ev[e].login IN
       IF l.of = a /\ folder.login = l /\ path \in {"folder", "other"}
       THEN /\ profile' = [profile EXCEPT ![a] = l]
            /\ crossed' = crossed \cup (IF NewerThanStored(l, a) \/ l = profile[a] THEN {}
                                        ELSE {"takeUp"})
       ELSE UNCHANGED <<profile, crossed>>
    /\ ev' = [ev EXCEPT ![e].at = After(e), ![e].login = NoLogin]
    /\ UNCHANGED <<made, spent, folder, place, claude, lock, pending, queue, calls, forgone>>

\* Unanswered, or not saved: an event goes on, nothing is renewed.
OwnerUnknown(e) ==
    /\ ev[e].at = "asks"
    /\ IF ev[e].how = "renew" THEN Ends(e)
       ELSE ev' = [ev EXCEPT ![e].at = "refreshes", ![e].login = NoLogin, ![e].account = None]
    /\ UNCHANGED <<disk, place, claude, lock, pending, queue, calls, history>>

-----------------------------------------------------------------------------
(* The refresh and the move *)

\* A login put in between a sign-in's and who it is of.
SignInMet(put) ==
    crossed' = crossed \cup (IF put /\ claude.at = "signing" THEN {"signIn"} ELSE {})

\* The profile's login into the folder, unless its Claude has the lock.
Refreshes(e) ==
    /\ ev[e].at = "refreshes"
    /\ path' = IF path = "missing" THEN "other" ELSE path
    /\ LET a == folder.record
           pull == path = "folder" /\ a # None /\ lock["editor"] = "free" /\ DecidePull(a)
       IN  /\ folder' = IF pull THEN [folder EXCEPT !.login = profile[a]] ELSE folder
           /\ SignInMet(pull)
    /\ IF ev[e].how = "refresh" /\ "move" \notin pending THEN Ends(e) ELSE Goes(e, "moves")
    /\ UNCHANGED <<made, spent, profile, linked, named, active, claude, lock, pending, queue,
                   calls, forgone>>

\* Off an account its login goes home; the active account's goes in.
MovesTo(a) ==
    /\ lock["editor"] = "free"
    /\ LET stored == IF folder.record = a THEN profile ELSE SavedHome(folder.record) IN
       /\ profile' = stored
       /\ folder' = [record |-> a, login |-> stored[a], says |-> a]
    /\ SignInMet(TRUE)

\* Its login is another's, or it has none: a folder made again meanwhile has no
\* record either.
ToMove == path # "missing" /\ (folder.record # active \/ folder.login = NoLogin)

\* Deferred while its Claude has a lock, or a login cannot be saved; tried again
\* for a while, then left to the next event.
Moves(e) ==
    /\ ev[e].at = "moves"
    /\ \/ /\ ~ToMove
          /\ pending' = pending \ {"move"} /\ UNCHANGED <<profile, folder, path, crossed>>
       \/ /\ ToMove /\ MovesTo(active)
          /\ path' = "folder" /\ pending' = pending \ {"move"}
       \/ /\ ToMove
          /\ pending' = pending \cup {"move"} /\ UNCHANGED <<profile, folder, path, crossed>>
    /\ Ends(e)
    /\ UNCHANGED <<made, spent, linked, named, active, claude, lock, queue, calls, forgone>>

-----------------------------------------------------------------------------
(* Renewals by ccx *)

\* The editor's copy comes home first.
RenewsIdle(e, a) ==
    /\ ev[e].at = "idle" /\ calls < MaxCalls /\ calls' = calls + 1
    /\ ev' = [ev EXCEPT ![e] = [Idle EXCEPT !.at = "takesUp", !.how = "renew", !.account = a]]
    /\ UNCHANGED <<disk, place, claude, lock, pending, queue, history>>

\* Under the folder's lock too while the folder holds the login.
Locked(a) == {a} \cup (IF Held = profile[a] THEN {"editor"} ELSE {})

Sends(e) ==
    /\ ev[e].at = "renews"
    /\ LET a == ev[e].account IN
       IF /\ profile[a] # NoLogin /\ made < MaxMade
          /\ \A p \in Locked(a) : lock[p] = "free"
       THEN /\ lock' = [p \in Places |-> IF p \in Locked(a) THEN e ELSE lock[p]]
            /\ ev' = [ev EXCEPT ![e].at = "sending", ![e].login = profile[a]]
       ELSE Ends(e) /\ UNCHANGED lock
    /\ UNCHANGED <<disk, place, claude, pending, queue, calls, history>>

Unlocks(e) == lock' = [p \in Places |-> IF lock[p] = e THEN "free" ELSE lock[p]]

\* Saved in the profile, then in the folder that held what it retired; a write
\* that fails there is queued.
Answered(e) ==
    /\ ev[e].at = "sending"
    /\ LET a == ev[e].account  old == ev[e].login IN
       IF old \in spent \/ made = MaxMade \/ profile[a] # old
       THEN /\ UNCHANGED <<made, spent, profile>> /\ Ends(e) /\ Unlocks(e)
       ELSE /\ made' = made + 1 /\ spent' = spent \cup {old}
            /\ profile' = [profile EXCEPT ![a] = Renewed(old)]
            /\ IF lock["editor"] = e THEN Goes(e, "replaces") /\ UNCHANGED lock
               ELSE Ends(e) /\ Unlocks(e)
    /\ UNCHANGED <<folder, place, claude, pending, queue, calls, history>>

Replaces(e) ==
    /\ ev[e].at = "replaces"
    /\ LET a == ev[e].account IN
       \/ /\ folder' = IF Held = ev[e].login THEN [folder EXCEPT !.login = profile[a]] ELSE folder
          /\ UNCHANGED carries
       \/ carries' = carries \cup {<<ev[e].login, a>>} /\ UNCHANGED folder
    /\ Ends(e) /\ Unlocks(e)
    /\ UNCHANGED <<made, spent, profile, place, claude, pending, carrier, calls, history>>

\* A terminal session's Claude renews its own copy, which its session saves home.
RenewedElsewhere(a) ==
    /\ profile[a] # NoLogin /\ profile[a] \notin spent /\ made < MaxMade
    /\ lock[a] = "free"
    /\ made' = made + 1 /\ spent' = spent \cup {profile[a]}
    /\ profile' = [profile EXCEPT ![a] = Renewed(profile[a])]
    /\ carries' = IF Held = profile[a] THEN carries \cup {<<profile[a], a>>} ELSE carries
    /\ UNCHANGED <<folder, place, claude, lock, pending, carrier, ev, calls, history>>

\* A carry is read, and written under the lock.
CarryReads ==
    /\ carrier = NoCarry
    /\ \E c \in carries :
       LET text == profile[c[2]] IN
       IF Held = c[1] /\ text \notin {c[1], NoLogin}
       THEN carrier' = [retired |-> c[1], account |-> c[2], text |-> text] /\ UNCHANGED carries
       ELSE carries' = carries \ {c} /\ UNCHANGED carrier
    /\ UNCHANGED <<disk, place, claude, lock, pending, ev, calls, history>>

\* Only over the login it retired: a sign-in there meanwhile stays.
CarriedInto(c) == IF Held = c.retired THEN [folder EXCEPT !.login = c.text] ELSE folder

CarryWrites ==
    /\ carrier # NoCarry
    /\ IF lock["editor"] = "free"
       THEN /\ folder' = CarriedInto(carrier)
            /\ carries' = carries \ {<<carrier.retired, carrier.account>>}
       ELSE UNCHANGED <<folder, carries>>
    /\ carrier' = NoCarry
    /\ UNCHANGED <<made, spent, profile, place, claude, lock, pending, ev, calls, history>>

-----------------------------------------------------------------------------
Init ==
    /\ made = 0 /\ spent = {}
    /\ profile = [a \in Accounts |-> [of |-> a, chain |-> 0, at |-> 0]]
    /\ active \in Accounts /\ named = TRUE
    /\ \/ path = "link" /\ linked = active /\ folder = NoFolder
       \/ path = "folder" /\ linked = None /\ folder = BuiltFor(active, profile[active])
       \/ path = "missing" /\ linked = None /\ folder = NoFolder
    /\ claude = Closed /\ lock = [p \in Places |-> "free"]
    /\ pending = {} /\ carries = {} /\ carrier = NoCarry
    /\ ev = [e \in Events |-> Idle] /\ calls = 0 /\ forgone = {} /\ crossed = {}

Next ==
    \/ ChatOpens \/ ChatCloses \/ RenewBegins \/ RenewEnds \/ SignedIn
    \/ TurnsOff \/ CarryReads \/ CarryWrites
    \/ \E a \in Accounts : SignsIn(a) \/ Switches(a) \/ RenewedElsewhere(a)
    \/ \E e \in Events :
       \/ \E how \in {"switch", "refresh", "setUp", "launch"} : Begins(e, how)
       \/ \E a \in Accounts : RenewsIdle(e, a)
       \/ Creates(e) \/ LooksAtLink(e) \/ LinkAnswered(e)
       \/ TakesOver(e) \/ OtherAnswered(e)
       \/ TakesUp(e) \/ OwnerAnswers(e) \/ OwnerUnknown(e)
       \/ Refreshes(e) \/ Moves(e)
       \/ Sends(e) \/ Answered(e) \/ Replaces(e)

Spec == Init /\ [][Next]_vars

-----------------------------------------------------------------------------
(* A renewal retires the login it renews, so its result may never be lost:  *)
(* while a profile holds a spent login, one the server still takes of its   *)
(* chain is in a profile or in the folder, unless a person signed over it.  *)
(* Nothing is claimed once a login was put into the folder in the moment    *)
(* between a sign-in and its identity (the folder then says it is somebody  *)
(* else's), the link was moved or removed under a renewal, or a login the   *)
(* API was asked about was saved over one stored meanwhile.                 *)
KeptSomewhere(l) ==
    \E k \in {profile[a] : a \in Accounts} \cup {folder.login} :
       Chain(k) = Chain(l) /\ k \notin spent

RenewalsKept ==
    crossed = {} =>
       \A a \in Accounts :
          profile[a] \in spent /\ Chain(profile[a]) \notin forgone => KeptSomewhere(profile[a])

(* A profile holds its own account's login, unless the folder moved in the *)
(* moment between a sign-in and its identity, or the link during a renewal *)
(* that lasted longer than it waits.                                       *)
NoStrangers == crossed = {} => \A a \in Accounts : profile[a].of \in {a, None}

(* A folder left on a spent login of the account it is on is given that    *)
(* account's at the next refresh, on the same conditions.                   *)
EditorCurable ==
    LET a == folder.record
        left == /\ path = "folder" /\ a # None /\ folder.login \in spent
                /\ folder.login.of = a /\ folder.says = a
                /\ Chain(folder.login) \notin forgone
    IN  crossed = {} /\ left => DecidePull(a) /\ profile[a] \notin spent

Inv == TypeOK /\ RenewalsKept /\ NoStrangers /\ EditorCurable
=============================================================================
