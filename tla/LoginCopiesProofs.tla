------------------------- MODULE LoginCopiesProofs -------------------------
(***************************************************************************)
(* Proofs about the copies of a login, for any number of sessions and any  *)
(* number of logins issued: no login is in use unannounced, the renewal of *)
(* an idle one spares every session announced when it looked, the mirror   *)
(* brings only the account's own logins home, and the newest login is lost *)
(* from every folder in no other ways than those listed.                   *)
(***************************************************************************)
EXTENDS LoginCopies, TLAPS

\* A session's folder holds a login only while it is on the account, and is
\* announced from before to after; what it holds of the account's is none the
\* server has not issued yet, and a pull that was not misled replaces none but
\* an older one.
CopyOf(s) ==
    /\ phase[s] # "out" <=> s \in leases
    /\ phase[s] \in {"out", "arriving", "saved", "left"} => copy[s] = NoLogin
    /\ copy[s] # Foreign => copy[s] <= issued
    /\ phase[s] = "pulling" /\ s \notin misled => copy[s] = Foreign \/ copy[s] < issued

\* While the renewer goes on what it saw, every session announced came after.
RenewerInv == cleared => leases \subseteq late

IInv ==
    /\ TypeOK
    /\ profile # Foreign => profile <= issued
    /\ \A s \in Sessions : CopyOf(s)
    /\ RenewerInv

\* What a step of one session leaves of the others; the server only adds.
Apart(s) ==
    \A r \in Sessions : r # s =>
        /\ phase'[r] = phase[r] /\ copy'[r] = copy[r]
        /\ r \in leases' <=> r \in leases
        /\ r \in misled' <=> r \in misled

SessionStep(s) ==
    \/ Arrives(s) \/ StartRenews(s) \/ ClaudeRenews(s) \/ UserLogsIn(s)
    \/ IdentityFollows(s) \/ Ticks(s) \/ Proceeds(s) \/ InstallFails(s)
    \/ Stops(s) \/ Dies(s)
    \/ \E temporary \in BOOLEAN : Moves(s, temporary) \/ MoveFails(s, temporary)
    \/ \E from \in Sessions : Recovers(s, from)
    \/ \E login \in asked[s] : MirrorEnds(s, login)

LEMMA Numbers ==
    /\ Ours \subseteq Nat /\ Logins \subseteq Nat /\ Foreign \in Nat /\ NoLogin \in Nat
    /\ Ours \subseteq Logins /\ Foreign \in Logins /\ NoLogin \in Logins
    /\ Foreign \notin Ours /\ NoLogin \notin Ours /\ Foreign # NoLogin
    /\ \A n \in Logins : n # Foreign /\ n # NoLogin => n \in Ours
    /\ \A n \in Ours : n < MaxLogins => n + 1 \in Ours
    /\ \A n \in Ours : 0 < n /\ n < Foreign
    /\ NoLogin = 0
  BY CopiesAssumption DEF Ours, Logins, Foreign, NoLogin

LEMMA InitIInv == Init => IInv
<1> SUFFICES ASSUME Init PROVE IInv
  OBVIOUS
<1>1. 1 \in Ours /\ 1 # Foreign
  BY CopiesAssumption DEF Ours, Foreign
<1>2. /\ issued \in Ours /\ profile \in Logins /\ copy \in [Sessions -> Logins]
      /\ handled \in [Sessions -> Logins] /\ checking \in [Sessions -> Logins]
      /\ asked \in [Sessions -> SUBSET (Logins \ {NoLogin})]
      /\ \A s \in Sessions : checking[s] \in asked[s] \cup {NoLogin}
  BY <1>1, Numbers DEF Init
<1>3. /\ phase \in [Sessions -> Phases] /\ identity \in [Sessions -> {"ours", "other"}]
      /\ leases \subseteq Sessions /\ cleared \in BOOLEAN /\ late \subseteq Sessions
      /\ deaths \in 0..MaxDeaths /\ misled \subseteq Sessions /\ unanswered \subseteq Sessions
  <2>1. "out" \in Phases /\ 0 \in 0..MaxDeaths
    BY CopiesAssumption DEF Phases
  <2>2. QED
    BY <2>1 DEF Init
<1>4. \A s \in Sessions : CopyOf(s)
  BY Numbers DEF Init, CopyOf
<1>5. QED
  BY <1>1, <1>2, <1>3, <1>4 DEF Init, IInv, TypeOK, RenewerInv

\* The frame: a step that leaves the other sessions alone keeps what holds of
\* them, since logins only get newer.
LEMMA OthersKept ==
    ASSUME IInv, NEW s \in Sessions, Apart(s), issued' \in Ours, issued' >= issued,
           CopyOf(s)'
    PROVE  \A r \in Sessions : CopyOf(r)'
<1>1. ASSUME NEW r \in Sessions, r # s PROVE CopyOf(r)'
  <2>1. CopyOf(r) /\ copy[r] \in Logins /\ issued \in Ours
    BY DEF IInv, TypeOK
  <2>2. /\ phase'[r] = phase[r] /\ copy'[r] = copy[r]
        /\ r \in leases' <=> r \in leases
        /\ r \in misled' <=> r \in misled
    BY <1>1 DEF Apart
  <2>3. copy[r] \in Nat /\ issued \in Nat /\ issued' \in Nat /\ issued' # Foreign
    BY <2>1, Numbers
  <2>4. QED
    BY <2>1, <2>2, <2>3 DEF CopyOf
<1>2. QED
  BY <1>1

LEMMA SessionKeeps ==
    ASSUME IInv, NEW s \in Sessions, SessionStep(s)
    PROVE  IInv'
<1> USE Numbers, CopiesAssumption
    DEF IInv, TypeOK, Goes, Holds, Settles, mirrors, renewer, Phases, Running, RenewerInv
<1>1. CopyOf(s)
  OBVIOUS
<1>2. ASSUME TypeOK', Apart(s), issued' >= issued, profile' # Foreign => profile' <= issued',
             CopyOf(s)', RenewerInv'
      PROVE  IInv'
  BY <1>2, OthersKept
<1>3. CASE Arrives(s)
  BY <1>1, <1>2, <1>3 DEF Arrives, Apart, CopyOf
<1>4. CASE StartRenews(s)
  BY <1>1, <1>2, <1>4 DEF StartRenews, Apart, CopyOf
<1>5. CASE ClaudeRenews(s)
  BY <1>1, <1>2, <1>5 DEF ClaudeRenews, Apart, CopyOf
<1>6. CASE UserLogsIn(s) \/ IdentityFollows(s)
  BY <1>1, <1>2, <1>6 DEF UserLogsIn, IdentityFollows, Apart, CopyOf
<1>7. CASE PullDecides(s)
  <2>1. copy[s] \in Nat /\ profile \in Nat /\ issued \in Nat /\ issued > 0
    BY <1>1
  <2>2. profile # Foreign => copy[s] < issued
    BY <1>7, <2>1 DEF PullDecides, MayPull
  <2>3. CopyOf(s)'
    BY <1>1, <1>7, <2>1, <2>2 DEF PullDecides, CopyOf
  <2>4. QED
    BY <1>2, <1>7, <2>1, <2>3 DEF PullDecides, Apart
<1>8. CASE PullCopies(s)
  BY <1>1, <1>2, <1>8 DEF PullCopies, Apart, CopyOf
<1>9. CASE MirrorLooks(s)
  BY <1>1, <1>2, <1>9 DEF MirrorLooks, Apart, CopyOf
<1>10. CASE Installs(s)
  BY <1>1, <1>2, <1>10 DEF Installs, Apart, CopyOf
<1>11. CASE EndPulls(s)
  BY <1>1, <1>2, <1>11 DEF EndPulls, Apart, CopyOf
<1>12. CASE EndSaves(s)
  BY <1>1, <1>2, <1>12 DEF EndSaves, HandsBack, Apart, CopyOf
<1>13. CASE Releases(s)
  BY <1>1, <1>2, <1>13 DEF Releases, Apart, CopyOf
<1>14. CASE InstallFails(s)
  BY <1>1, <1>2, <1>14 DEF InstallFails, Apart, CopyOf
<1>15. CASE Stops(s)
  BY <1>1, <1>2, <1>15 DEF Stops, Apart, CopyOf
<1>16. CASE Dies(s)
  BY <1>1, <1>2, <1>16 DEF Dies, Apart, CopyOf
<1>17. CASE \E temporary \in BOOLEAN : Moves(s, temporary)
  BY <1>1, <1>2, <1>17 DEF Moves, HandsBackLeaving, HandsBack, Apart, CopyOf
<1>18. CASE \E temporary \in BOOLEAN : MoveFails(s, temporary)
  BY <1>1, <1>2, <1>18 DEF MoveFails, HandsBackLeaving, HandsBack, Apart, CopyOf
<1>19. CASE \E from \in Sessions : Recovers(s, from)
  <2>1. PICK from \in Sessions : Recovers(s, from)
    BY <1>19
  <2>2. CopyOf(from)
    OBVIOUS
  <2>3. QED
    BY <1>1, <1>2, <2>1, <2>2 DEF Recovers, Apart, CopyOf
<1>20. CASE \E login \in asked[s] : MirrorAbandons(s, login)
  BY <1>1, <1>2, <1>20 DEF MirrorAbandons, LookupEnds, Abandons, Apart, CopyOf
<1>21. CASE \E login \in asked[s] : MirrorSettles(s, login)
  BY <1>1, <1>2, <1>21 DEF MirrorSettles, LookupEnds, Abandons, Apart, CopyOf
<1>22. CASE \E login \in asked[s] : MirrorUnanswered(s, login)
  BY <1>1, <1>2, <1>22 DEF MirrorUnanswered, LookupEnds, Abandons, Apart, CopyOf
<1>23. QED
  BY <1>3, <1>4, <1>5, <1>6, <1>7, <1>8, <1>9, <1>10, <1>11, <1>12, <1>13, <1>14, <1>15,
     <1>16, <1>17, <1>18, <1>19, <1>20, <1>21, <1>22
  DEF SessionStep, Ticks, Proceeds, MirrorEnds

LEMMA Steps == IInv /\ [Next]_vars => IInv'
<1>1. CASE UNCHANGED vars
  BY <1>1 DEF vars, IInv, TypeOK, CopyOf, RenewerInv
<1>2. ASSUME IInv, RenewerLooks PROVE IInv'
  BY <1>2 DEF RenewerLooks, mirrors, IInv, TypeOK, CopyOf, RenewerInv
<1>3. ASSUME IInv, RenewerRenews PROVE IInv'
  <2>1. issued' >= issued /\ issued' \in Ours
    BY <1>3, Numbers DEF RenewerRenews, IInv, TypeOK
  <2>2. ASSUME NEW s \in Sessions PROVE CopyOf(s)'
    <3>1. CopyOf(s) /\ copy[s] \in Nat /\ issued \in Nat /\ issued' \in Nat
      BY <1>3, <2>1, Numbers DEF IInv, TypeOK
    <3>2. QED
      BY <1>3, <2>1, <3>1 DEF RenewerRenews, CopyOf
  <2>3. TypeOK'
    BY <1>3, <2>1, Numbers DEF RenewerRenews, mirrors, IInv, TypeOK
  <2>4. QED
    BY <1>3, <2>1, <2>2, <2>3, Numbers DEF RenewerRenews, IInv, TypeOK, RenewerInv
<1>4. ASSUME IInv, NEW s \in Sessions, SessionStep(s) PROVE IInv'
  BY <1>4, SessionKeeps
<1>5. Next => (\E s \in Sessions : SessionStep(s)) \/ RenewerLooks \/ RenewerRenews
  BY DEF Next, SessionStep
<1>6. QED
  BY <1>1, <1>2, <1>3, <1>4, <1>5

LEMMA Always == Spec => []IInv
  BY InitIInv, Steps, PTL DEF Spec

\* The types hold, and no login is in use unannounced.
THEOREM Announcement == Spec => []Inv
<1>1. IInv => Inv
  BY DEF IInv, CopyOf, Inv, AnnouncedInUse
<1>2. QED
  BY <1>1, Always, PTL

-----------------------------------------------------------------------------
(* What a step may not do *)

\* The renewal of an idle login spares the sessions announced when it looked:
\* whoever holds a copy is announced, and came since.
LEMMA IdleRenewalSpares ==
    ASSUME IInv, [Next]_vars, cleared, ~cleared', issued' # issued,
           NEW s \in Sessions, copy[s] \in Ours
    PROVE  s \in late
<1>1. s \in leases
  BY Numbers DEF IInv, CopyOf, TypeOK
<1>2. QED
  BY <1>1 DEF IInv, RenewerInv

\* A lookup that ends with the profile changed brought the account's own login.
LEMMA MirrorOwn ==
    ASSUME IInv, [Next]_vars, NEW s \in Sessions, asked'[s] # asked[s], profile' # profile
    PROVE  profile' \in Ours
<1>1. CASE UNCHANGED vars
  BY <1>1 DEF vars
<1>2. CASE RenewerLooks \/ RenewerRenews
  BY <1>2 DEF RenewerLooks, RenewerRenews, mirrors
<1>3. ASSUME NEW r \in Sessions, SessionStep(r) PROVE profile' \in Ours
  BY <1>3
  DEF SessionStep, Arrives, StartRenews, ClaudeRenews, UserLogsIn, IdentityFollows, Ticks,
      PullDecides, PullCopies, MirrorLooks, Proceeds, Installs, EndPulls, EndSaves, Releases,
      InstallFails, Stops, Dies, Moves, MoveFails, Recovers, MirrorEnds, MirrorAbandons,
      MirrorUnanswered, MirrorSettles, mirrors
<1>4. QED
  BY <1>1, <1>2, <1>3 DEF Next, SessionStep

\* How a session's step may lose the newest login.
Loses(s) ==
    \/ profile' = copy[s] /\ copy[s] < profile
    \/ copy[s] = issued /\ ~LooksOurs(s)
    \/ copy'[s] = Foreign /\ copy[s] # Foreign
    \/ phase[s] = "pulling" /\ s \in misled

\* A step that issues no login, leaves the other sessions alone and loses the
\* newest: either the profile held it and holds another, or s held it and does
\* not any more.
LEMMA LostWhere ==
    ASSUME NEW s \in Sessions, Apart(s), issued' = issued,
           HeldSomewhere(issued), ~HeldSomewhere(issued)'
    PROVE  /\ profile' # issued /\ copy'[s] # issued
           /\ profile = issued \/ copy[s] = issued
  BY DEF Apart, HeldSomewhere

LEMMA SessionLoses ==
    ASSUME IInv, NEW s \in Sessions, SessionStep(s), profile # Foreign,
           HeldSomewhere(issued), ~HeldSomewhere(issued)'
    PROVE  deaths' # deaths \/ Loses(s) \/ (profile' = Foreign /\ profile # Foreign)
<1> USE DEF Goes, Holds, mirrors, renewer
<1>1. /\ CopyOf(s) /\ copy[s] \in Logins /\ copy[s] \in Nat /\ profile \in Nat
      /\ issued \in Nat /\ issued # Foreign /\ issued # NoLogin /\ profile <= issued
      /\ copy \in [Sessions -> Logins]
  BY Numbers DEF IInv, TypeOK
<1>2. Apart(s) /\ issued' = issued =>
         /\ profile' # issued /\ copy'[s] # issued
         /\ profile = issued \/ copy[s] = issued
  BY LostWhere
<1>3. CASE StartRenews(s)
  BY <1>3 DEF StartRenews, HeldSomewhere
<1>4. CASE ClaudeRenews(s)
  <2>1. CASE issued' = issued
    BY <1>1, <1>2, <1>4, <2>1 DEF ClaudeRenews, Apart
  <2>2. CASE issued' # issued
    BY <1>1, <1>4, <2>2 DEF ClaudeRenews, HeldSomewhere
  <2>3. QED
    BY <2>1, <2>2
<1>5. CASE \/ Arrives(s) \/ IdentityFollows(s) \/ MirrorLooks(s) \/ PullDecides(s)
           \/ Releases(s) \/ InstallFails(s) \/ Stops(s)
  BY <1>5
  DEF Arrives, IdentityFollows, MirrorLooks, PullDecides, Releases, InstallFails, Stops,
      HeldSomewhere
<1>6. CASE UserLogsIn(s)
  BY <1>1, <1>2, <1>6 DEF UserLogsIn, Apart, Loses
<1>7. CASE PullCopies(s)
  <2>1. Apart(s) /\ issued' = issued /\ profile' = profile /\ copy'[s] \in {profile, copy[s]}
    BY <1>1, <1>7 DEF PullCopies, Apart, IInv, TypeOK
  <2>2. copy[s] = issued /\ phase[s] = "pulling"
    BY <1>2, <1>7, <2>1 DEF PullCopies
  <2>3. QED
    BY <1>1, <2>2 DEF CopyOf, Loses
<1>8. CASE Installs(s)
  <2>1. Apart(s) /\ issued' = issued /\ profile' = profile /\ copy'[s] = profile
    BY <1>1, <1>8 DEF Installs, Apart, IInv, TypeOK
  <2>2. copy[s] = NoLogin
    BY <1>1, <1>8 DEF Installs, CopyOf
  <2>3. QED
    BY <1>1, <1>2, <2>1, <2>2
<1>9. CASE EndPulls(s)
  <2>1. Apart(s) /\ issued' = issued /\ profile' = profile
    BY <1>1, <1>9 DEF EndPulls, Apart, IInv, TypeOK
  <2>2. copy'[s] # copy[s] => copy[s] < profile \/ copy[s] = NoLogin
    BY <1>1, <1>9 DEF EndPulls, MayPull
  <2>3. QED
    BY <1>1, <1>2, <2>1, <2>2
<1>10. CASE EndSaves(s) \/ \E temporary \in BOOLEAN : Moves(s, temporary) \/ MoveFails(s, temporary)
  <2>1. Apart(s) /\ issued' = issued
    BY <1>1, <1>10 DEF EndSaves, Moves, MoveFails, Apart, IInv, TypeOK
  <2>2. \/ profile' = profile
        \/ profile' = copy[s] /\ copy[s] # NoLogin /\ LooksOurs(s)
    BY <1>10 DEF EndSaves, Moves, MoveFails, HandsBackLeaving, HandsBack
  <2>3. CASE profile' = profile
    <3>1. copy[s] = issued /\ copy'[s] # issued
      BY <1>2, <2>1, <2>3
    <3>2. ~LooksOurs(s)
      BY <1>1, <1>2, <1>10, <2>1, <2>3, <3>1
      DEF EndSaves, Moves, MoveFails, HandsBackLeaving, HandsBack
    <3>3. QED
      BY <3>1, <3>2 DEF Loses
  <2>4. CASE profile' = copy[s]
    BY <1>1, <1>2, <2>1, <2>4 DEF CopyOf, Loses
  <2>5. QED
    BY <2>2, <2>3, <2>4
<1>11. CASE Dies(s)
  BY <1>11 DEF Dies, IInv, TypeOK
<1>12. CASE \E from \in Sessions : Recovers(s, from)
  BY <1>12 DEF Recovers, HeldSomewhere
<1>13. CASE \E login \in asked[s] : MirrorEnds(s, login)
  <2>1. Apart(s) /\ issued' = issued /\ copy' = copy
    BY <1>13 DEF MirrorEnds, MirrorAbandons, MirrorUnanswered, MirrorSettles, Apart
  <2>2. profile' = profile \/ (profile' = copy[s] /\ copy[s] \in Ours)
    BY <1>13 DEF MirrorEnds, MirrorAbandons, MirrorUnanswered, MirrorSettles
  <2>3. QED
    BY <1>1, <1>2, <2>1, <2>2, Numbers DEF CopyOf, Loses
<1>14. QED
  BY <1>3, <1>4, <1>5, <1>6, <1>7, <1>8, <1>9, <1>10, <1>11, <1>12, <1>13
  DEF SessionStep, Ticks, Proceeds

LEMMA NewestLost ==
    ASSUME IInv, [Next]_vars, profile # Foreign,
           HeldSomewhere(issued), ~HeldSomewhere(issued)'
    PROVE  \/ deaths' # deaths \/ \E s \in Sessions : Loses(s)
           \/ profile' = Foreign /\ profile # Foreign
<1>1. CASE UNCHANGED vars
  BY <1>1 DEF vars, HeldSomewhere
<1>2. CASE RenewerLooks \/ RenewerRenews
  BY <1>2 DEF RenewerLooks, RenewerRenews, HeldSomewhere
<1>3. CASE \E s \in Sessions : SessionStep(s)
  BY <1>3, SessionLoses
<1>4. QED
  BY <1>1, <1>2, <1>3 DEF Next, SessionStep

\* No step loses a login that nothing took, nor brings home another's.
THEOREM LoginsKept == Spec => LoginsAreKept
<1>1. IInv /\ [Next]_vars =>
        [cleared /\ ~cleared' /\ issued' # issued =>
            \A s \in Sessions : copy[s] \in Ours => s \in late]_vars
  BY IdleRenewalSpares
<1>2. IInv /\ [Next]_vars =>
        [\A s \in Sessions : asked'[s] # asked[s] /\ profile' # profile => profile' \in Ours]_vars
  BY MirrorOwn
<1>3. IInv /\ [Next]_vars =>
        [profile # Foreign /\ HeldSomewhere(issued) /\ ~HeldSomewhere(issued)' =>
            \/ deaths' # deaths
            \/ \E s \in Sessions :
                  \/ profile' = copy[s] /\ copy[s] < profile
                  \/ copy[s] = issued /\ ~LooksOurs(s)
                  \/ copy'[s] = Foreign /\ copy[s] # Foreign
                  \/ phase[s] = "pulling" /\ s \in misled
            \/ profile' = Foreign /\ profile # Foreign]_vars
  BY NewestLost DEF Loses
<1>4. QED
  BY <1>1, <1>2, <1>3, Always, PTL
  DEF Spec, LoginsAreKept, RenewalSparesSessions, NewestIsKept, MirrorBringsOwn

=============================================================================
