---------------------------- MODULE LoginCopies ----------------------------
(***************************************************************************)
(* The copies of one account's login: the profile's, which is the hub, and *)
(* one in the folder of every session on the account.  Each copy is        *)
(* renewed on its own clock and a renewal retires all the others, so a     *)
(* session's renewal is mirrored home once the API has said whose it is, a *)
(* renewal made elsewhere is pulled in, and a session that moves off the   *)
(* account or ends hands its copy back (commands/session.ts,               *)
(* accounts/credential-sync.ts, session/handoff.ts).                       *)
(*                                                                         *)
(* A login is the n-th the server issued for the account, which takes only *)
(* the last one; a /login in a session can make it another account's.      *)
(* Renewal is about how one folder's login is renewed: here it is a step.  *)
(***************************************************************************)
EXTENDS Naturals, FiniteSets

CONSTANTS Sessions,   \* the ccx sessions
          MaxLogins,  \* bound: logins the server issues for the account
          MaxDeaths,  \* bound: sessions that die with their work undone
          Movers,     \* the sessions that move off the account while Claude runs
          SignsIn     \* those whose user signs in as somebody else

ASSUME CopiesAssumption ==
    /\ MaxLogins \in Nat \ {0} /\ MaxDeaths \in Nat
    /\ Movers \subseteq Sessions /\ SignsIn \subseteq Sessions

VARIABLES issued,    \* the newest login of the account: the one the server takes
          profile,   \* the login in the account's own folder
          copy,      \* the login in each session's folder
          identity,  \* who each session's .claude.json says it is
          phase,     \* where each session is with the account
          leases,    \* the sessions announced as using it
          handled,   \* by session, the login its mirror has dealt with
          checking,  \* by session, the login whose owner its mirror last asked for
          asked,     \* by session, the lookups of owners under way
          unanswered, \* history: the sessions whose mirror dealt with a login unanswered
          cleared,   \* an idle renewal has found nobody using the account
          late,      \* history: the sessions announced since it looked
          deaths,    \* how many died
          misled     \* history: the sessions whose pull was decided while the
                     \* profile held another account's login

vars == <<issued, profile, copy, identity, phase, leases, handled, checking, asked,
          unanswered, cleared, late, deaths, misled>>
mirrors == <<handled, checking, asked, unanswered>>
renewer == <<cleared, late>>

NoLogin == 0
Foreign == MaxLogins + 1
Ours == 1..MaxLogins
Logins == 0..(MaxLogins + 1)

\* "out": on another account, or not running; "pulling": a pull has decided to
\* take the profile's login; "ending" and "pulled": Claude has stopped;
\* "saved" and "left": handed back, but still announced.
Running == {"on", "pulling"}
Phases == {"out", "arriving", "ending", "endPulling", "pulled", "saved", "left"} \cup Running

\* Type invariant: the shape of every variable, and what is being looked up has
\* a lookup under way.
TypeOK ==
    /\ issued \in Ours
    /\ profile \in Logins
    /\ copy \in [Sessions -> Logins]
    /\ identity \in [Sessions -> {"ours", "other"}]
    /\ phase \in [Sessions -> Phases]
    /\ leases \subseteq Sessions
    /\ handled \in [Sessions -> Logins]
    /\ asked \in [Sessions -> SUBSET (Logins \ {NoLogin})]
    /\ checking \in [Sessions -> Logins]
    /\ \A s \in Sessions : checking[s] \in asked[s] \cup {NoLogin}
    /\ unanswered \subseteq Sessions
    /\ cleared \in BOOLEAN
    /\ late \subseteq Sessions
    /\ deaths \in 0..MaxDeaths
    /\ misled \subseteq Sessions

Init ==
    /\ issued = 1
    /\ profile = 1
    /\ copy = [s \in Sessions |-> NoLogin]
    /\ identity = [s \in Sessions |-> "other"]
    /\ phase = [s \in Sessions |-> "out"]
    /\ leases = {}
    /\ handled = [s \in Sessions |-> NoLogin]
    /\ checking = [s \in Sessions |-> NoLogin]
    /\ asked = [s \in Sessions |-> {}]
    /\ unanswered = {}
    /\ cleared = FALSE
    /\ late = {}
    /\ deaths = 0
    /\ misled = {}

-----------------------------------------------------------------------------
(* Helpers *)

Goes(s, from, to) == phase[s] = from /\ phase' = [phase EXCEPT ![s] = to]
Holds(s, login) == copy' = [copy EXCEPT ![s] = login]

\* No pull or move of s's has its folder's lock.
Unlocked(s) == phase[s] # "pulling"

\* finishCheck(beginCheck(..), .., 'settled').
Settles(s, login) ==
    /\ handled' = [handled EXCEPT ![s] = login]
    /\ checking' = [checking EXCEPT ![s] = NoLogin]
    /\ unanswered' = unanswered \ {s}

\* Whose login this is, as far as s's own files say.
LooksOurs(s) == identity[s] = "ours"

\* saveBack on what the session's files say: a login there, of this account,
\* goes home, whatever is there.
HandsBack(s) == profile' = IF copy[s] # NoLogin /\ LooksOurs(s) THEN copy[s] ELSE profile

-----------------------------------------------------------------------------
(* Starting on the account, or moving onto it *)

\* Mutant: the login is checked, but nothing is announced yet.
ArrivesUnannounced(s) ==
    /\ Goes(s, "out", "arriving")
    /\ UNCHANGED <<issued, profile, copy, identity, leases, mirrors, renewer, deaths, misled>>

\* Announced before anything is copied.
Arrives(s) ==
    /\ Goes(s, "out", "arriving")
    /\ leases' = leases \cup {s}
    /\ late' = IF cleared THEN late \cup {s} ELSE late
    /\ UNCHANGED <<issued, profile, copy, identity, mirrors, cleared, deaths, misled>>

\* Before a start the profile's login is renewed if it is due, whoever is on it.
StartRenews(s) ==
    /\ phase[s] = "out"
    /\ profile = issued /\ issued < MaxLogins
    /\ issued' = issued + 1
    /\ profile' = issued'
    /\ UNCHANGED <<copy, identity, phase, leases, mirrors, renewer, deaths, misled>>

\* Or found refused, and one adopted from another live session of the account.
Recovers(s, from) ==
    /\ phase[s] = "out" /\ from # s
    /\ profile # issued
    /\ from \in leases /\ copy[from] # NoLogin /\ LooksOurs(from) /\ Unlocked(from)
    /\ profile' = copy[from]
    /\ UNCHANGED <<issued, copy, identity, phase, leases, mirrors, renewer, deaths, misled>>

\* The profile's login and identity are put in the folder, or its login removed.
Installs(s) ==
    /\ Goes(s, "arriving", "on")
    /\ Holds(s, profile)
    /\ identity' = [identity EXCEPT ![s] = "ours"]
    /\ Settles(s, profile)
    /\ UNCHANGED <<issued, profile, leases, asked, renewer, deaths, misled>>

\* Or could not be: what was written is rolled back, the announcement given up.
InstallFails(s) ==
    /\ Goes(s, "arriving", "out")
    /\ leases' = leases \ {s}
    /\ UNCHANGED <<issued, profile, copy, identity, mirrors, renewer, deaths, misled>>

-----------------------------------------------------------------------------
(* What its Claude and its user do *)

\* Claude renews its copy, or is refused and leaves it signed out.
ClaudeRenews(s) ==
    /\ phase[s] = "on" /\ copy[s] \in Ours
    /\ \/ copy[s] = issued /\ issued < MaxLogins /\ issued' = issued + 1 /\ Holds(s, issued')
       \/ copy[s] < issued /\ Holds(s, NoLogin) /\ UNCHANGED issued
    /\ UNCHANGED <<profile, identity, phase, leases, mirrors, renewer, deaths, misled>>

\* /login as another account: the credential first, the identity after it.
UserLogsIn(s) ==
    /\ s \in SignsIn
    /\ phase[s] \in Running
    /\ Holds(s, Foreign)
    /\ UNCHANGED <<issued, profile, identity, phase, leases, mirrors, renewer, deaths, misled>>

IdentityFollows(s) ==
    /\ copy[s] = Foreign /\ phase[s] \in Running
    /\ identity' = [identity EXCEPT ![s] = "other"]
    /\ UNCHANGED <<issued, profile, copy, phase, leases, mirrors, renewer, deaths, misled>>

-----------------------------------------------------------------------------
(* The mirror *)

\* A login not dealt with nor being looked up: its owner is asked for.
MirrorLooks(s) ==
    /\ phase[s] = "on"
    /\ copy[s] \notin {NoLogin, handled[s], checking[s]}
    /\ checking' = [checking EXCEPT ![s] = copy[s]]
    /\ asked' = [asked EXCEPT ![s] = @ \cup {copy[s]}]
    /\ UNCHANGED <<issued, profile, copy, identity, phase, leases, handled, unanswered, renewer,
                   deaths, misled>>

LookupEnds(s, login) == login \in asked[s] /\ asked' = [asked EXCEPT ![s] = @ \ {login}]

Abandons(s, login) ==
    checking' = [checking EXCEPT ![s] = IF @ = login THEN NoLogin ELSE @]

\* A busy lock, a login that changed, or a write that failed: nothing is settled.
MirrorAbandons(s, login) ==
    /\ LookupEnds(s, login)
    /\ Abandons(s, login)
    /\ UNCHANGED <<issued, profile, copy, identity, phase, leases, handled, unanswered, renewer,
                   deaths, misled>>

\* No answer is an owner nobody could confirm, and the login is dealt with: it stays
\* here, and is not asked about again.
MirrorUnanswered(s, login) ==
    /\ LookupEnds(s, login)
    /\ copy[s] = login /\ Unlocked(s)
    /\ handled' = [handled EXCEPT ![s] = login]
    /\ unanswered' = unanswered \cup {s}
    /\ Abandons(s, login)
    /\ UNCHANGED <<issued, profile, copy, identity, phase, leases, renewer, deaths, misled>>

\* Mutant: a login is settled before it is known to be home.
MirrorSettlesFirst(s, login) ==
    /\ LookupEnds(s, login)
    /\ copy[s] = login /\ Unlocked(s)
    /\ profile' \in {profile, IF login \in Ours THEN login ELSE profile}
    /\ handled' = [handled EXCEPT ![s] = login]
    /\ unanswered' = unanswered \ {s}
    /\ Abandons(s, login)
    /\ UNCHANGED <<issued, copy, identity, phase, leases, renewer, deaths, misled>>

\* Answered, and under the lock again the login is the one asked about: it goes
\* home, or is another account's and left alone.
MirrorSettles(s, login) ==
    /\ LookupEnds(s, login)
    /\ copy[s] = login /\ Unlocked(s)
    /\ profile' = IF login \in Ours THEN login ELSE profile
    /\ handled' = [handled EXCEPT ![s] = login]
    /\ unanswered' = unanswered \ {s}
    /\ Abandons(s, login)
    /\ UNCHANGED <<issued, copy, identity, phase, leases, renewer, deaths, misled>>

-----------------------------------------------------------------------------
(* The pull *)

\* Mutant: any other login of the profile's is pulled.
MayPullAny(s) == profile # NoLogin /\ profile # copy[s]

\* decidePull: a login just signed in with expires last.
MayPull(s) ==
    /\ profile # NoLogin /\ profile # copy[s]
    /\ copy[s] = NoLogin \/ (LooksOurs(s) /\ profile > copy[s])

PullDecides(s) ==
    /\ Goes(s, "on", "pulling")
    /\ MayPull(s)
    /\ misled' = IF profile = Foreign THEN misled \cup {s} ELSE misled
    /\ UNCHANGED <<issued, profile, copy, identity, leases, mirrors, renewer, deaths>>

\* The profile's login, as it is by now, is installed under the session's lock,
\* or could not be.
PullCopies(s) ==
    /\ Goes(s, "pulling", "on")
    /\ \/ profile # NoLogin /\ Holds(s, profile) /\ Settles(s, profile)
       \/ UNCHANGED <<copy, handled, checking, unanswered>>
    /\ misled' = misled \ {s}
    /\ UNCHANGED <<issued, profile, identity, leases, asked, renewer, deaths>>

-----------------------------------------------------------------------------
(* Leaving the account *)

\* savesOnLeaving: from a visit, only a copy renewed there goes home.
HandsBackLeaving(s, temporary) ==
    IF temporary /\ copy[s] <= profile THEN UNCHANGED profile ELSE HandsBack(s)

\* A move while Claude runs, under its locks: the copy goes home and another
\* account's login comes in.
Moves(s, temporary) ==
    /\ s \in Movers
    /\ Goes(s, "on", "left")
    /\ HandsBackLeaving(s, temporary)
    /\ Holds(s, NoLogin)
    /\ Settles(s, NoLogin)
    /\ identity' = [identity EXCEPT ![s] = "other"]
    /\ UNCHANGED <<issued, leases, asked, renewer, deaths, misled>>

\* The other login could not be installed: the session's is put back.
MoveFails(s, temporary) ==
    /\ s \in Movers /\ phase[s] = "on"
    /\ HandsBackLeaving(s, temporary)
    /\ UNCHANGED <<issued, copy, identity, phase, leases, mirrors, renewer, deaths, misled>>

\* Claude has stopped (its identity file is as it left it).
Stops(s) ==
    /\ Goes(s, "on", "ending")
    /\ UNCHANGED <<issued, profile, copy, identity, leases, mirrors, renewer, deaths, misled>>

\* A renewal the profile holds and the session lacks is pulled in first.
EndPulls(s) ==
    /\ Goes(s, "ending", "pulled")
    /\ IF copy[s] # NoLogin /\ MayPull(s) THEN Holds(s, profile) ELSE UNCHANGED copy
    /\ UNCHANGED <<issued, profile, identity, leases, mirrors, renewer, deaths, misled>>

\* The copy goes home; what stays in the folder is no session's any more.
EndSaves(s) ==
    /\ Goes(s, "pulled", "saved")
    /\ HandsBack(s)
    /\ Holds(s, NoLogin)
    /\ UNCHANGED <<issued, identity, leases, mirrors, renewer, deaths, misled>>

\* The announcement is given up last.
Releases(s) ==
    /\ phase[s] \in {"left", "saved"}
    /\ phase' = [phase EXCEPT ![s] = "out"]
    /\ leases' = leases \ {s}
    /\ UNCHANGED <<issued, profile, copy, identity, mirrors, renewer, deaths, misled>>

\* A session dies: its announcement no longer counts, nor does its folder.
Dies(s) ==
    /\ deaths < MaxDeaths /\ deaths' = deaths + 1
    /\ phase[s] # "out"
    /\ phase' = [phase EXCEPT ![s] = "out"]
    /\ leases' = leases \ {s}
    /\ Holds(s, NoLogin)
    /\ asked' = [asked EXCEPT ![s] = {}]
    /\ Settles(s, NoLogin)
    /\ misled' = misled \ {s}
    /\ UNCHANGED <<issued, profile, identity, renewer>>

-----------------------------------------------------------------------------
(* Renewing a login nobody is on *)

\* renewIdleLogin reads the announcements just before it renews.
RenewerLooks ==
    /\ ~cleared /\ leases = {}
    /\ cleared' = TRUE
    /\ late' = {}
    /\ UNCHANGED <<issued, profile, copy, identity, phase, leases, mirrors, deaths, misled>>

RenewerRenews ==
    /\ cleared
    /\ cleared' = FALSE
    /\ \/ /\ profile = issued /\ issued < MaxLogins
          /\ issued' = issued + 1 /\ profile' = issued'
       \/ UNCHANGED <<issued, profile>>
    /\ UNCHANGED <<copy, identity, phase, leases, mirrors, late, deaths, misled>>

-----------------------------------------------------------------------------

\* A session does what its ticks and its own sequence of steps bring.
Ticks(s) == PullDecides(s) \/ PullCopies(s) \/ MirrorLooks(s)
MirrorEnds(s, login) ==
    MirrorAbandons(s, login) \/ MirrorUnanswered(s, login) \/ MirrorSettles(s, login)
Proceeds(s) == Installs(s) \/ EndPulls(s) \/ EndSaves(s) \/ Releases(s)

Next ==
    \/ \E s \in Sessions :
          \/ Arrives(s) \/ StartRenews(s) \/ ClaudeRenews(s) \/ UserLogsIn(s)
          \/ IdentityFollows(s) \/ Ticks(s) \/ Proceeds(s) \/ InstallFails(s)
          \/ Stops(s) \/ Dies(s)
          \/ \E temporary \in BOOLEAN : Moves(s, temporary) \/ MoveFails(s, temporary)
          \/ \E from \in Sessions : Recovers(s, from)
          \/ \E login \in asked[s] : MirrorEnds(s, login)
    \/ RenewerLooks \/ RenewerRenews

Spec == Init /\ [][Next]_vars

\* Sessions tick every 400 ms and look to pull every 5 s; lookups end, and the folder
\* is not locked each time.
FairSpec ==
    /\ Spec
    /\ \A s \in Sessions :
          /\ WF_vars(Ticks(s)) /\ WF_vars(Proceeds(s))
          /\ SF_vars(\E login \in asked[s] : MirrorUnanswered(s, login) \/ MirrorSettles(s, login))
          /\ WF_vars(\E login \in asked[s] : MirrorEnds(s, login))
          /\ SF_vars(Holds(s, profile) /\ PullCopies(s))

-----------------------------------------------------------------------------
(* Properties *)

\* A login is never in use and unannounced (session/handoff.ts).
AnnouncedInUse == \A s \in Sessions : copy[s] # NoLogin => s \in leases

\* The types hold, and no login is in use unannounced.
Inv == TypeOK /\ AnnouncedInUse

\* The renewal of an idle login takes it from under no session but one that was
\* announced after it looked (usage-store.ts, renewIdleLogin).
RenewalSparesSessions ==
    [][cleared /\ ~cleared' /\ issued' # issued =>
          \A s \in Sessions : copy[s] \in Ours => s \in late]_vars

\* The mirror never brings home another account's login (mirrorSteps).
MirrorBringsOwn ==
    [][\A s \in Sessions : asked'[s] # asked[s] /\ profile' # profile => profile' \in Ours]_vars

\* The newest login is lost from every folder only when a session hands back
\* an older copy, its mirror brings one home late, it dies, or its user signed
\* in as somebody else; or when a pull was decided for the login of such a
\* user, which was in the profile then.  Never otherwise by a pull, and never
\* by an installation, a recovery or a renewal (credential-sync.ts, decidePull).
HeldSomewhere(login) == profile = login \/ \E s \in Sessions : copy[s] = login
NewestIsKept ==
    [][profile # Foreign /\ HeldSomewhere(issued) /\ ~HeldSomewhere(issued)' =>
          \/ deaths' # deaths
          \/ \E s \in Sessions :
                \/ profile' = copy[s] /\ copy[s] < profile
                \/ copy[s] = issued /\ ~LooksOurs(s)
                \/ copy'[s] = Foreign /\ copy[s] # Foreign
                \/ phase[s] = "pulling" /\ s \in misled
          \/ profile' = Foreign /\ profile # Foreign]_vars

\* No step loses a login that nothing took, nor brings home another's.
LoginsAreKept == RenewalSparesSessions /\ NewestIsKept /\ MirrorBringsOwn

\* A hand-back never replaces the renewal another holder brought home by the
\* older login it retired (handoff.ts, save-back.ts).
HandBackSparesRenewal ==
    [][profile = issued /\ profile' # profile => profile' = issued']_vars

\* A session on a login that was renewed elsewhere gets the renewal, unless it
\* goes, or is signed in anew (pullRenewedLogin).
SessionsCatchUp ==
    \A s \in Sessions :
        phase[s] = "on" /\ copy[s] < profile /\ profile \in Ours /\ LooksOurs(s)
            ~> phase[s] \notin Running \/ copy[s] >= profile \/ ~LooksOurs(s)

\* A login renewed in a session reaches the profile, unless its session goes, it is
\* replaced, the server has issued another, or nobody could say whose it is when the
\* mirror asked, the once it does (mirrorSessionLoginToProfile).
Due(s) == phase[s] = "on" /\ copy[s] = issued /\ handled[s] # issued
Home(s) == profile = issued \/ phase[s] \notin Running \/ copy[s] # issued
RenewalsComeHome ==
    \A s \in Sessions : Due(s) ~> Home(s) \/ (s \in unanswered /\ handled[s] = issued)

\* A renewal gets everywhere it is due.
RenewalsSpread == SessionsCatchUp /\ RenewalsComeHome

=============================================================================
