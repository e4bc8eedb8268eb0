--------------------------- MODULE RenewalProofs ----------------------------
(***************************************************************************)
(* Proof that a renewal is never nowhere and that a login is only noted as *)
(* refused when it is, for any number of tasks, logins, sign-ins and       *)
(* failures; then that a login carried to the profiles that share it is    *)
(* only ever a newer one, and that a refresh of the usage never puts older *)
(* numbers over newer, for any number of profiles, accounts and processes; *)
(* and that the editor's folder keeps the newest login of each account.    *)
(***************************************************************************)
EXTENDS MCLogins, TLAPS

InHand == {"answered", "saving", "forgetting"}

\* One task works under the lock at a time.
LockInv ==
    /\ \A t \in Tasks : pc[t] \in Locked <=> t \in lock
    /\ \A t, u \in lock : t = u

\* What a task has in hand, by where it is.
HandInv ==
    \A t \in Tasks :
        /\ pc[t] \notin InHand => reply[t] = NoLogin
        /\ pc[t] \in InHand => reply[t] # NoLogin
        /\ pc[t] \in {"sending", "refused"} \cup InHand => token[t] # NoLogin

\* No login is newer than the last one issued.
IssuedInv ==
    /\ store.n <= issued /\ kept.retired.n <= issued /\ kept.login.n <= issued
    /\ \A t \in Tasks : token[t].n <= issued /\ reply[t].n <= issued
    /\ \A login \in dead : login.n <= issued
    /\ \A l \in 1..MaxSignIns : newest[l] <= issued

\* No login is of a later sign-in than the last.
LinesInv ==
    /\ store.line <= lines /\ kept.login.line <= lines
    /\ \A t \in Tasks : token[t].line <= lines /\ reply[t].line <= lines

\* What was sent and answered, or refused, works no more, and nor does what a
\* kept renewal retired.
SpentInv ==
    /\ \A t \in Tasks : pc[t] \in {"refused"} \cup InHand => ~Accepted(token[t])
    /\ ~Accepted(kept.retired)

\* Of a login of the last sign-in that is being sent, and then replaced, the
\* store has that one or none: another one there is another sign-in's.
SentInv ==
    \A t \in Tasks :
        \/ pc[t] = "sending" /\ token[t].line = lines
        \/ pc[t] \in {"answered", "saving"} /\ reply[t].line = lines
        => store \in {NoLogin, token[t]}

\* The last sign-in's login was renewed, and its newest is not known lost.
Live == newest[lines] # first[lines] /\ lines \notin lost

\* Then that newest is with the one who is about to save it, or stored, or kept.
LiveInv ==
    Live =>
        /\ store = NoLogin \/ (store.line = lines /\ store.n <= newest[lines])
        /\ kept.login # Newest(lines) => kept.login.n < newest[lines]
        /\ \A t \in Tasks :
              /\ pc[t] = "sending" => token[t].line = lines
              /\ pc[t] \in {"answered", "saving"} => reply[t] = Newest(lines)
              /\ pc[t] = "writing" => kept.login = Newest(lines)
              /\ pc[t] \in {"forgetting", "cleaning"} => store = Newest(lines)
        /\ \/ \E t \in Tasks : pc[t] \in {"answered", "saving"}
           \/ Newest(lines) \in {store, kept.login}

\* Until the last sign-in's login is renewed it is the only one of its line.
FreshIn(login) == login.line = lines => login.n = newest[lines]
FreshInv ==
    /\ first[lines] <= issued
    /\ newest[lines] = first[lines] =>
           /\ FreshIn(store) /\ FreshIn(kept.login)
           /\ \A t \in Tasks : FreshIn(token[t]) /\ FreshIn(reply[t])

\* While the newest renewal is kept, the store has it, or the login it retired.
RetiredInv ==
    Live /\ kept.login = Newest(lines) => store \in {NoLogin, kept.retired, kept.login}

IInv ==
    /\ TypeOK /\ LockInv /\ HandInv /\ IssuedInv /\ LinesInv
    /\ SpentInv /\ SentInv /\ LiveInv /\ NotesTrue /\ FreshInv /\ RetiredInv

-----------------------------------------------------------------------------
(* Logins *)

LEMMA KeptFields ==
    ASSUME TypeOK
    PROVE  kept.login \in Logins \cup {NoLogin} /\ kept.retired \in Logins \cup {NoLogin}
  BY DEF TypeOK, NothingKept

LEMMA LoginFields ==
    ASSUME NEW login \in Logins
    PROVE  /\ login.line \in 1..MaxSignIns /\ login.n \in 1..MaxLogins
           /\ login # NoLogin
  BY RenewalAssumption DEF Logins, NoLogin

\* What a renewal does to the server.
LEMMA RenewsAs ==
    ASSUME TypeOK, NEW login \in Logins \cup {NoLogin}, NEW next, Renews(login, next)
    PROVE  /\ login \in Logins /\ newest[login.line] = login.n
           /\ next \in Logins /\ next.line = login.line /\ next.n = issued + 1
           /\ issued' = issued + 1 /\ issued' \in 1..MaxLogins
           /\ newest' \in [1..MaxSignIns -> 0..MaxLogins]
           /\ newest'[login.line] = issued + 1
           /\ \A l \in 1..MaxSignIns : l # login.line => newest'[l] = newest[l]
           /\ UNCHANGED <<lines, first>>
<1>1. login \in Logins /\ newest[login.line] = login.n
  BY DEF Renews, Accepted
<1>2. login.line \in 1..MaxSignIns
  BY <1>1 DEF Logins
<1>3. issued' = issued + 1 /\ issued + 1 \in 1..MaxLogins
  BY RenewalAssumption DEF Renews, TypeOK
<1>4. /\ next = [line |-> login.line, n |-> issued + 1]
      /\ newest' = [newest EXCEPT ![login.line] = issued + 1]
  BY DEF Renews
<1>5. newest' \in [1..MaxSignIns -> 0..MaxLogins]
  BY <1>2, <1>3, <1>4 DEF TypeOK
<1>6. next \in Logins
  BY <1>2, <1>3, <1>4 DEF Logins
<1>7. /\ newest'[login.line] = issued + 1
      /\ \A l \in 1..MaxSignIns : l # login.line => newest'[l] = newest[l]
  BY <1>2, <1>4 DEF TypeOK
<1> QED
  BY <1>1, <1>3, <1>4, <1>5, <1>6, <1>7 DEF Renews

LEMMA LineOf ==
    ASSUME NEW login \in Logins \cup {NoLogin}
    PROVE  login.line \in Nat
  BY RenewalAssumption DEF Logins, NoLogin

-----------------------------------------------------------------------------
(* Types, and the bounds of what anybody holds *)

LEMMA TypeStep == TypeOK /\ HandInv /\ [Next]_vars => TypeOK'
<1> SUFFICES ASSUME TypeOK, HandInv, [Next]_vars
             PROVE  TypeOK'
  OBVIOUS
<1> USE RenewalAssumption DEF TypeOK, files, server, PC, Waiting, Locked, HandInv,
    InHand
<1>1. ASSUME NEW t \in Tasks, LooksAtKept(t) PROVE TypeOK'
  BY <1>1 DEF LooksAtKept, Goes
<1>2. ASSUME NEW t \in Tasks, LooksAtLogin(t) PROVE TypeOK'
  BY <1>2 DEF LooksAtLogin, Goes, MayRenew
<1>3. ASSUME NEW t \in Tasks, Busy(t) PROVE TypeOK'
  BY <1>3 DEF Busy, Goes
<1>4. ASSUME NEW t \in Tasks, TakesUp(t) PROVE TypeOK'
  BY <1>4 DEF TakesUp, Takes, Goes
<1>5. ASSUME NEW t \in Tasks, KeptIsGone(t) PROVE TypeOK'
  BY <1>5 DEF KeptIsGone, LetsGo, Goes
<1>6. ASSUME NEW t \in Tasks, KeptIsNewer(t) PROVE TypeOK'
  BY <1>6 DEF KeptIsNewer, Goes, NewerThanStored
<1>7. ASSUME NEW t \in Tasks, KeptIsStale(t) PROVE TypeOK'
  BY <1>7 DEF KeptIsStale, LetsGo, Goes, NewerThanStored
<1>8. ASSUME NEW t \in Tasks, SavesKept(t) PROVE TypeOK'
  BY <1>8, KeptFields DEF SavesKept, Goes
<1>9. ASSUME NEW t \in Tasks, TakesLock(t) PROVE TypeOK'
  BY <1>9 DEF TakesLock, Takes, Goes
<1>10. ASSUME NEW t \in Tasks, Sends(t) PROVE TypeOK'
  BY <1>10 DEF Sends, Goes, MayRenew
<1>11. ASSUME NEW t \in Tasks, NotDue(t) PROVE TypeOK'
  BY <1>11 DEF NotDue, LetsGo, Goes
<1>12. ASSUME NEW t \in Tasks, Answered(t) PROVE TypeOK'
  <2>1. PICK next \in Logins : Renews(token[t], next) /\ reply' = [reply EXCEPT ![t] = next]
    BY <1>12 DEF Answered
  <2> QED
    BY <1>12, <2>1, RenewsAs DEF Answered, Goes
<1>13. ASSUME NEW t \in Tasks, AnswerLost(t) PROVE TypeOK'
  <2>1. PICK next \in Logins : Renews(token[t], next)
    BY <1>13 DEF AnswerLost
  <2>2. token[t].line \in 1..MaxSignIns
    BY <2>1, RenewsAs, LoginFields
  <2> QED
    BY <1>13, <2>1, <2>2, RenewsAs DEF AnswerLost, LetsGo, Goes
<1>14. ASSUME NEW t \in Tasks, RequestFails(t) PROVE TypeOK'
  BY <1>14 DEF RequestFails, LetsGo, Goes, Fails
<1>15. ASSUME NEW t \in Tasks, Refused(t) PROVE TypeOK'
  BY <1>15 DEF Refused, Goes
<1>16. ASSUME NEW t \in Tasks, Remembers(t) PROVE TypeOK'
  BY <1>16 DEF Remembers, LetsGo, Goes
<1>17. ASSUME NEW t \in Tasks, Keeps(t) PROVE TypeOK'
  <2>1. token[t] \in Logins /\ reply[t] \in Logins
    BY <1>17 DEF Keeps, Goes
  <2>2. kept' = [retired |-> token[t], login |-> reply[t]] \/ kept' = kept
    BY <1>17 DEF Keeps
  <2>3. kept' \in [retired : Logins, login : Logins] \cup {NothingKept}
    BY <2>1, <2>2
  <2>4. failures' \in 0..MaxFailures
    BY <1>17 DEF Keeps, Fails
  <2>5. pc' \in [Tasks -> PC]
    BY <1>17 DEF Keeps, Goes
  <2> QED
    BY <1>17, <2>3, <2>4, <2>5 DEF Keeps
<1>18. ASSUME NEW t \in Tasks, Saves(t) PROVE TypeOK'
  BY <1>18 DEF Saves, Goes
<1>19. ASSUME NEW t \in Tasks, Forgets(t) PROVE TypeOK'
  <2>1. kept' \in [retired : Logins, login : Logins] \cup {NothingKept}
    BY <1>19 DEF Forgets
  <2>2. failures' \in 0..MaxFailures
    BY <1>19 DEF Forgets, Fails
  <2>3. dead' \subseteq Logins
    BY <1>19 DEF Forgets
  <2>4. LetsGo(t, "forgetting") \/ LetsGo(t, "cleaning")
    BY <1>19 DEF Forgets
  <2>5. /\ pc' \in [Tasks -> PC] /\ lock' \subseteq Tasks
        /\ token' \in [Tasks -> Logins \cup {NoLogin}]
        /\ reply' \in [Tasks -> Logins \cup {NoLogin}]
    BY <2>4 DEF LetsGo, Goes
  <2> QED
    BY <1>19, <2>1, <2>2, <2>3, <2>5 DEF Forgets
<1>20. ASSUME NEW t \in Tasks, TakeUpFails(t) PROVE TypeOK'
  BY <1>20 DEF TakeUpFails, LetsGo, Goes, Fails
<1>21. ASSUME NEW t \in Tasks, SaveFails(t) PROVE TypeOK'
  <2>1. reply[t].line \in 1..MaxSignIns
    BY <1>21, LoginFields DEF SaveFails, LetsGo, Goes
  <2>2. failures' \in 0..MaxFailures
    BY <1>21 DEF SaveFails, Fails
  <2>3. lost' \subseteq 1..MaxSignIns /\ store' \in Logins \cup {NoLogin}
    BY <1>21, <2>1 DEF SaveFails
  <2>4. /\ pc' \in [Tasks -> PC] /\ lock' \subseteq Tasks
        /\ token' \in [Tasks -> Logins \cup {NoLogin}]
        /\ reply' \in [Tasks -> Logins \cup {NoLogin}]
    BY <1>21 DEF SaveFails, LetsGo, Goes
  <2> QED
    BY <1>21, <2>2, <2>3, <2>4 DEF SaveFails
<1>22. ASSUME NEW t \in Tasks, Dies(t) PROVE TypeOK'
  <2>1. reply[t] # NoLogin => reply[t].line \in 1..MaxSignIns
    BY LoginFields
  <2> QED
    BY <1>22, <2>1 DEF Dies, Drops
<1>23. CASE ClaudeRenews
  <2>1. PICK next \in Logins : Renews(store, next) /\ store' = next
    BY <1>23 DEF ClaudeRenews
  <2> QED
    BY <1>23, <2>1, RenewsAs DEF ClaudeRenews
<1>24. CASE ClaudeIsSignedOut
  BY <1>24 DEF ClaudeIsSignedOut
<1>25. CASE SignOut
  <2>1. store # NoLogin => store.line \in 1..MaxSignIns
    BY LoginFields
  <2> QED
    BY <1>25, <2>1 DEF SignOut
<1>26. CASE SignIn
  BY <1>26 DEF SignIn, Logins
<1>27. CASE UNCHANGED vars
  BY <1>27 DEF vars
<1> QED
  BY <1>1, <1>2, <1>3, <1>4, <1>5, <1>6, <1>7, <1>8, <1>9, <1>10, <1>11, <1>12,
     <1>13,
     <1>14, <1>15, <1>16, <1>17, <1>18, <1>19, <1>20, <1>21, <1>22, <1>23, <1>24,
     <1>25, <1>26, <1>27
     DEF Next, Progress

LEMMA NumberOf ==
    ASSUME NEW login \in Logins \cup {NoLogin}
    PROVE  login.n \in Nat
  BY RenewalAssumption DEF Logins, NoLogin

LEMMA NothingIssued ==
    ASSUME TypeOK
    PROVE  /\ NoLogin.n <= issued
           /\ NothingKept.login.n <= issued /\ NothingKept.retired.n <= issued
  BY DEF TypeOK, NoLogin, NothingKept

LEMMA IssuedStep == TypeOK /\ IssuedInv /\ [Next]_vars => IssuedInv'
<1> SUFFICES ASSUME TypeOK, IssuedInv, [Next]_vars
             PROVE  IssuedInv'
  OBVIOUS
<1> USE RenewalAssumption DEF TypeOK, IssuedInv, files, server, NoLogin,
    NothingKept, Logins
<1>0. issued \in Nat /\ \A l \in 1..MaxSignIns : newest[l] \in Nat
  BY SMTT(30)
<1>a. /\ store.n <= issued + 1 /\ kept.login.n <= issued + 1 /\ kept.retired.n <= issued + 1
      /\ \A login \in dead : login.n <= issued + 1
  <2>1. store.n \in Nat /\ kept.login.n \in Nat /\ kept.retired.n \in Nat
    BY KeptFields, NumberOf
  <2>2. \A login \in dead : login.n \in Nat
    BY NumberOf
  <2> HIDE DEF NoLogin, NothingKept, Logins, TypeOK
  <2> QED
    BY <1>0, <2>1, <2>2
<1>b. \A u \in Tasks : token[u].n <= issued + 1 /\ reply[u].n <= issued + 1
  <2>1. \A u \in Tasks : token[u].n \in Nat /\ reply[u].n \in Nat
    BY NumberOf
  <2> HIDE DEF NoLogin, NothingKept, Logins, TypeOK
  <2> QED
    BY <1>0, <2>1
<1>c. \A l \in 1..MaxSignIns : newest[l] <= issued + 1
  BY <1>0
<1>d. NoLogin.n <= issued + 1
  BY <1>0
<1>1. ASSUME NEW t \in Tasks, LooksAtKept(t) PROVE IssuedInv'
  BY <1>1 DEF LooksAtKept, Goes
<1>2. ASSUME NEW t \in Tasks, LooksAtLogin(t) PROVE IssuedInv'
  BY <1>2 DEF LooksAtLogin, Goes, MayRenew
<1>3. ASSUME NEW t \in Tasks, Busy(t) PROVE IssuedInv'
  BY <1>3 DEF Busy, Goes
<1>4. ASSUME NEW t \in Tasks, TakesUp(t) PROVE IssuedInv'
  BY <1>4 DEF TakesUp, Takes, Goes
<1>5. ASSUME NEW t \in Tasks, KeptIsGone(t) PROVE IssuedInv'
  BY <1>5 DEF KeptIsGone, LetsGo, Goes
<1>6. ASSUME NEW t \in Tasks, KeptIsNewer(t) PROVE IssuedInv'
  BY <1>6 DEF KeptIsNewer, Goes, NewerThanStored
<1>7. ASSUME NEW t \in Tasks, KeptIsStale(t) PROVE IssuedInv'
  BY <1>7, SMTT(30) DEF KeptIsStale, LetsGo, Goes, NewerThanStored
<1>8. ASSUME NEW t \in Tasks, SavesKept(t) PROVE IssuedInv'
  BY <1>8 DEF SavesKept, Goes
<1>9. ASSUME NEW t \in Tasks, TakesLock(t) PROVE IssuedInv'
  BY <1>9 DEF TakesLock, Takes, Goes
<1>10. ASSUME NEW t \in Tasks, Sends(t) PROVE IssuedInv'
  BY <1>10 DEF Sends, Goes, MayRenew
<1>11. ASSUME NEW t \in Tasks, NotDue(t) PROVE IssuedInv'
  BY <1>11 DEF NotDue, LetsGo, Goes
<1>12. ASSUME NEW t \in Tasks, Answered(t) PROVE IssuedInv'
  <2> HIDE DEF NoLogin, NothingKept, Logins
  <2>1. PICK next \in Logins : Renews(token[t], next) /\ reply' = [reply EXCEPT ![t] = next]
    BY <1>12 DEF Answered
  <2>2. /\ issued' = issued + 1 /\ next.n = issued + 1
        /\ \A l \in 1..MaxSignIns : newest'[l] = newest[l] \/ newest'[l] = issued + 1
    BY <2>1, RenewsAs
  <2>3. \A u \in Tasks : reply'[u].n <= issued + 1
    BY <2>1, <2>2, <1>b
  <2>4. \A l \in 1..MaxSignIns : newest'[l] <= issued + 1
    <3> HIDE DEF TypeOK, IssuedInv
    <3> QED BY <2>2, <1>c, <1>0
  <2>5. UNCHANGED <<store, kept, dead, token>>
    BY <1>12 DEF Answered
  <2> QED
    BY <2>2, <2>3, <2>4, <2>5, <1>a, <1>b DEF IssuedInv
<1>13. ASSUME NEW t \in Tasks, AnswerLost(t) PROVE IssuedInv'
  <2> HIDE DEF NoLogin, NothingKept, Logins
  <2>1. PICK next \in Logins : Renews(token[t], next)
    BY <1>13 DEF AnswerLost
  <2>2. /\ issued' = issued + 1
        /\ \A l \in 1..MaxSignIns : newest'[l] = newest[l] \/ newest'[l] = issued + 1
    BY <2>1, RenewsAs
  <2>3. \A u \in Tasks : token'[u].n <= issued + 1 /\ reply'[u].n <= issued + 1
    BY <1>13, <1>b, <1>d DEF AnswerLost, LetsGo
  <2>4. \A l \in 1..MaxSignIns : newest'[l] <= issued + 1
    <3> HIDE DEF TypeOK, IssuedInv
    <3> QED BY <2>2, <1>c, <1>0
  <2>5. UNCHANGED <<store, kept, dead>>
    BY <1>13 DEF AnswerLost
  <2> QED
    BY <2>2, <2>3, <2>4, <2>5, <1>a DEF IssuedInv
<1>14. ASSUME NEW t \in Tasks, RequestFails(t) PROVE IssuedInv'
  BY <1>14 DEF RequestFails, LetsGo, Goes, Fails
<1>15. ASSUME NEW t \in Tasks, Refused(t) PROVE IssuedInv'
  BY <1>15 DEF Refused, Goes
<1>16. ASSUME NEW t \in Tasks, Remembers(t) PROVE IssuedInv'
  BY <1>16, SMTT(30) DEF Remembers, LetsGo, Goes
<1>17. ASSUME NEW t \in Tasks, Keeps(t) PROVE IssuedInv'
  BY <1>17 DEF Keeps, Goes, Fails
<1>18. ASSUME NEW t \in Tasks, Saves(t) PROVE IssuedInv'
  BY <1>18 DEF Saves, Goes
<1>19. ASSUME NEW t \in Tasks, Forgets(t) PROVE IssuedInv'
  <2>1. LetsGo(t, "forgetting") \/ LetsGo(t, "cleaning")
    BY <1>19 DEF Forgets
  <2>2. \A u \in Tasks : token'[u].n <= issued /\ reply'[u].n <= issued
    BY <2>1, NothingIssued DEF LetsGo
  <2>3. kept'.login.n <= issued /\ kept'.retired.n <= issued
    BY <1>19, NothingIssued DEF Forgets
  <2>4. dead' \subseteq dead
    BY <1>19 DEF Forgets
  <2> QED
    BY <1>19, <2>2, <2>3, <2>4 DEF Forgets
<1>20. ASSUME NEW t \in Tasks, TakeUpFails(t) PROVE IssuedInv'
  <2>1. LetsGo(t, "reading") \/ LetsGo(t, "writing")
    BY <1>20 DEF TakeUpFails
  <2>2. \A u \in Tasks : token'[u].n <= issued /\ reply'[u].n <= issued
    BY <2>1, NothingIssued DEF LetsGo
  <2>3. store'.n <= issued
    BY <1>20, NothingIssued DEF TakeUpFails
  <2> QED
    BY <1>20, <2>2, <2>3 DEF TakeUpFails
<1>21. ASSUME NEW t \in Tasks, SaveFails(t) PROVE IssuedInv'
  BY <1>21 DEF SaveFails, LetsGo, Goes, Fails
<1>22. ASSUME NEW t \in Tasks, Dies(t) PROVE IssuedInv'
  BY <1>22 DEF Dies, Drops
<1>23. CASE ClaudeRenews
  <2> HIDE DEF NoLogin, NothingKept, Logins
  <2>1. PICK next \in Logins : Renews(store, next) /\ store' = next
    BY <1>23 DEF ClaudeRenews
  <2>2. /\ issued' = issued + 1 /\ next.n = issued + 1
        /\ \A l \in 1..MaxSignIns : newest'[l] = newest[l] \/ newest'[l] = issued + 1
    BY <2>1, RenewsAs
  <2>3. store'.n <= issued + 1
    BY <2>1, <2>2
  <2>4. \A l \in 1..MaxSignIns : newest'[l] <= issued + 1
    <3> HIDE DEF TypeOK, IssuedInv
    <3> QED BY <2>2, <1>c, <1>0
  <2>5. UNCHANGED <<kept, dead, token, reply>>
    BY <1>23 DEF ClaudeRenews
  <2> QED
    BY <2>2, <2>3, <2>4, <2>5, <1>a, <1>b DEF IssuedInv
<1>24. CASE ClaudeIsSignedOut
  BY <1>24 DEF ClaudeIsSignedOut
<1>25. CASE SignOut
  BY <1>25 DEF SignOut
<1>26. CASE SignIn
  <2> HIDE DEF NoLogin, NothingKept, Logins
  <2>2. /\ issued' = issued + 1 /\ store'.n = issued + 1
        /\ \A l \in 1..MaxSignIns : newest'[l] = newest[l] \/ newest'[l] = issued + 1
    BY <1>26 DEF SignIn
  <2>3. store'.n <= issued + 1
    BY <2>2
  <2>4. \A l \in 1..MaxSignIns : newest'[l] <= issued + 1
    <3> HIDE DEF TypeOK, IssuedInv
    <3> QED BY <2>2, <1>c, <1>0
  <2>5. UNCHANGED <<kept, dead, token, reply>>
    BY <1>26 DEF SignIn
  <2> QED
    BY <2>2, <2>3, <2>4, <2>5, <1>a, <1>b DEF IssuedInv
<1>27. CASE UNCHANGED vars
  BY <1>27 DEF vars
<1> QED
  BY <1>1, <1>2, <1>3, <1>4, <1>5, <1>6, <1>7, <1>8, <1>9, <1>10, <1>11, <1>12,
     <1>13,
     <1>14, <1>15, <1>16, <1>17, <1>18, <1>19, <1>20, <1>21, <1>22, <1>23, <1>24,
     <1>25, <1>26, <1>27
     DEF Next, Progress

LEMMA LinesStep == TypeOK /\ LinesInv /\ [Next]_vars => LinesInv'
<1> SUFFICES ASSUME TypeOK, LinesInv, [Next]_vars
             PROVE  LinesInv'
  OBVIOUS
<1> USE RenewalAssumption DEF TypeOK, LinesInv, files, server, NoLogin, NothingKept,
    Logins
<1>0. NoLogin.line <= lines /\ NothingKept.login.line <= lines
  OBVIOUS
<1>1. ASSUME NEW t \in Tasks, LooksAtKept(t) PROVE LinesInv'
  BY <1>1 DEF LooksAtKept, Goes
<1>2. ASSUME NEW t \in Tasks, LooksAtLogin(t) PROVE LinesInv'
  BY <1>2 DEF LooksAtLogin, Goes, MayRenew
<1>3. ASSUME NEW t \in Tasks, Busy(t) PROVE LinesInv'
  BY <1>3 DEF Busy, Goes
<1>4. ASSUME NEW t \in Tasks, TakesUp(t) PROVE LinesInv'
  BY <1>4 DEF TakesUp, Takes, Goes
<1>5. ASSUME NEW t \in Tasks, KeptIsGone(t) PROVE LinesInv'
  BY <1>5 DEF KeptIsGone, LetsGo, Goes
<1>6. ASSUME NEW t \in Tasks, KeptIsNewer(t) PROVE LinesInv'
  BY <1>6 DEF KeptIsNewer, Goes, NewerThanStored
<1>7. ASSUME NEW t \in Tasks, KeptIsStale(t) PROVE LinesInv'
  <2>1. /\ kept' = NothingKept /\ UNCHANGED <<store, server>>
        /\ token' = [token EXCEPT ![t] = NoLogin] /\ reply' = [reply EXCEPT ![t] = NoLogin]
    BY <1>7 DEF KeptIsStale, LetsGo
  <2> QED
    BY <1>0, <2>1
<1>8. ASSUME NEW t \in Tasks, SavesKept(t) PROVE LinesInv'
  BY <1>8 DEF SavesKept, Goes
<1>9. ASSUME NEW t \in Tasks, TakesLock(t) PROVE LinesInv'
  BY <1>9 DEF TakesLock, Takes, Goes
<1>10. ASSUME NEW t \in Tasks, Sends(t) PROVE LinesInv'
  BY <1>10 DEF Sends, Goes, MayRenew
<1>11. ASSUME NEW t \in Tasks, NotDue(t) PROVE LinesInv'
  BY <1>11 DEF NotDue, LetsGo, Goes
<1>12. ASSUME NEW t \in Tasks, Answered(t) PROVE LinesInv'
  <2> HIDE DEF NoLogin, NothingKept, Logins, Accepted
  <2>1. PICK next \in Logins : Renews(token[t], next) /\ reply' = [reply EXCEPT ![t] = next]
    BY <1>12 DEF Answered
  <2>2. next.line = token[t].line /\ lines' = lines
    BY <2>1, RenewsAs
  <2> QED
    BY <1>12, <2>1, <2>2 DEF Answered
<1>13. ASSUME NEW t \in Tasks, AnswerLost(t) PROVE LinesInv'
  <2> HIDE DEF NoLogin, NothingKept, Logins, Accepted
  <2>1. PICK next \in Logins : Renews(token[t], next)
    BY <1>13 DEF AnswerLost
  <2>2. lines' = lines
    BY <2>1, RenewsAs
  <2> QED
    BY <1>13, <2>2, <1>0 DEF AnswerLost, LetsGo
<1>14. ASSUME NEW t \in Tasks, RequestFails(t) PROVE LinesInv'
  BY <1>14 DEF RequestFails, LetsGo, Goes, Fails
<1>15. ASSUME NEW t \in Tasks, Refused(t) PROVE LinesInv'
  BY <1>15 DEF Refused, Goes
<1>16. ASSUME NEW t \in Tasks, Remembers(t) PROVE LinesInv'
  BY <1>16 DEF Remembers, LetsGo, Goes
<1>17. ASSUME NEW t \in Tasks, Keeps(t) PROVE LinesInv'
  BY <1>17 DEF Keeps, Goes, Fails
<1>18. ASSUME NEW t \in Tasks, Saves(t) PROVE LinesInv'
  BY <1>18 DEF Saves, Goes
<1>19. ASSUME NEW t \in Tasks, Forgets(t) PROVE LinesInv'
  <2>1. LetsGo(t, "forgetting") \/ LetsGo(t, "cleaning")
    BY <1>19 DEF Forgets
  <2>2. \A u \in Tasks : token'[u].line <= lines /\ reply'[u].line <= lines
    BY <2>1, <1>0 DEF LetsGo
  <2>3. kept' = kept \/ kept' = NothingKept
    BY <1>19 DEF Forgets
  <2>4. UNCHANGED <<store, lines>>
    BY <1>19 DEF Forgets
  <2> QED
    BY <2>2, <2>3, <2>4, <1>0
<1>20. ASSUME NEW t \in Tasks, TakeUpFails(t) PROVE LinesInv'
  <2>1. LetsGo(t, "reading") \/ LetsGo(t, "writing")
    BY <1>20 DEF TakeUpFails
  <2>2. \A u \in Tasks : token'[u].line <= lines /\ reply'[u].line <= lines
    BY <2>1, <1>0 DEF LetsGo
  <2>3. store' = store \/ store' = NoLogin
    BY <1>20 DEF TakeUpFails
  <2>4. UNCHANGED <<kept, lines>>
    BY <1>20 DEF TakeUpFails
  <2> QED
    BY <2>2, <2>3, <2>4, <1>0
<1>21. ASSUME NEW t \in Tasks, SaveFails(t) PROVE LinesInv'
  BY <1>21 DEF SaveFails, LetsGo, Goes, Fails
<1>22. ASSUME NEW t \in Tasks, Dies(t) PROVE LinesInv'
  BY <1>22 DEF Dies, Drops
<1>23. CASE ClaudeRenews
  <2> HIDE DEF NoLogin, NothingKept, Logins, Accepted
  <2>1. PICK next \in Logins : Renews(store, next) /\ store' = next
    BY <1>23 DEF ClaudeRenews
  <2>2. next.line = store.line /\ lines' = lines
    BY <2>1, RenewsAs
  <2> QED
    BY <1>23, <2>1, <2>2 DEF ClaudeRenews
<1>24. CASE ClaudeIsSignedOut
  BY <1>24 DEF ClaudeIsSignedOut
<1>25. CASE SignOut
  BY <1>25 DEF SignOut
<1>26. CASE SignIn
  <2>1. lines' = lines + 1 /\ store'.line = lines + 1
    BY <1>26 DEF SignIn
  <2>2. /\ \A u \in Tasks : token[u].line \in Nat /\ reply[u].line \in Nat
        /\ kept.login.line \in Nat /\ lines \in Nat
    <3> HIDE DEF NoLogin, NothingKept, Logins, LinesInv
    <3> QED BY LineOf, KeptFields, SMTT(30)
  <2>3. UNCHANGED <<token, reply, kept>>
    BY <1>26 DEF SignIn
  <2> HIDE DEF NoLogin, NothingKept, Logins, TypeOK
  <2> QED
    BY <2>1, <2>2, <2>3
<1>27. CASE UNCHANGED vars
  BY <1>27 DEF vars
<1> QED
  BY <1>1, <1>2, <1>3, <1>4, <1>5, <1>6, <1>7, <1>8, <1>9, <1>10, <1>11, <1>12,
     <1>13,
     <1>14, <1>15, <1>16, <1>17, <1>18, <1>19, <1>20, <1>21, <1>22, <1>23, <1>24,
     <1>25, <1>26, <1>27
     DEF Next, Progress

-----------------------------------------------------------------------------
(* The lock, and what a task has in hand *)

LEMMA LockStep == TypeOK /\ LockInv /\ [Next]_vars => LockInv'
<1> SUFFICES ASSUME TypeOK, LockInv, [Next]_vars
             PROVE  LockInv'
  OBVIOUS
<1> USE RenewalAssumption DEF TypeOK, LockInv, files, server, PC, Waiting, Locked
<1>1. ASSUME NEW t \in Tasks, LooksAtKept(t) PROVE LockInv'
  BY <1>1 DEF LooksAtKept, Goes
<1>2. ASSUME NEW t \in Tasks, LooksAtLogin(t) PROVE LockInv'
  BY <1>2 DEF LooksAtLogin, Goes, MayRenew
<1>3. ASSUME NEW t \in Tasks, Busy(t) PROVE LockInv'
  BY <1>3 DEF Busy, Goes
<1>4. ASSUME NEW t \in Tasks, TakesUp(t) PROVE LockInv'
  BY <1>4 DEF TakesUp, Takes, Goes
<1>5. ASSUME NEW t \in Tasks, KeptIsGone(t) PROVE LockInv'
  BY <1>5 DEF KeptIsGone, LetsGo, Goes
<1>6. ASSUME NEW t \in Tasks, KeptIsNewer(t) PROVE LockInv'
  BY <1>6 DEF KeptIsNewer, Goes, NewerThanStored
<1>7. ASSUME NEW t \in Tasks, KeptIsStale(t) PROVE LockInv'
  BY <1>7 DEF KeptIsStale, LetsGo, Goes, NewerThanStored
<1>8. ASSUME NEW t \in Tasks, SavesKept(t) PROVE LockInv'
  BY <1>8 DEF SavesKept, Goes
<1>9. ASSUME NEW t \in Tasks, TakesLock(t) PROVE LockInv'
  BY <1>9 DEF TakesLock, Takes, Goes
<1>10. ASSUME NEW t \in Tasks, Sends(t) PROVE LockInv'
  BY <1>10 DEF Sends, Goes, MayRenew
<1>11. ASSUME NEW t \in Tasks, NotDue(t) PROVE LockInv'
  BY <1>11 DEF NotDue, LetsGo, Goes
<1>12. ASSUME NEW t \in Tasks, Answered(t) PROVE LockInv'
  BY <1>12 DEF Answered, Goes, Renews
<1>13. ASSUME NEW t \in Tasks, AnswerLost(t) PROVE LockInv'
  BY <1>13 DEF AnswerLost, LetsGo, Goes, Renews
<1>14. ASSUME NEW t \in Tasks, RequestFails(t) PROVE LockInv'
  BY <1>14 DEF RequestFails, LetsGo, Goes, Fails
<1>15. ASSUME NEW t \in Tasks, Refused(t) PROVE LockInv'
  BY <1>15 DEF Refused, Goes
<1>16. ASSUME NEW t \in Tasks, Remembers(t) PROVE LockInv'
  BY <1>16 DEF Remembers, LetsGo, Goes
<1>17. ASSUME NEW t \in Tasks, Keeps(t) PROVE LockInv'
  BY <1>17 DEF Keeps, Goes, Fails
<1>18. ASSUME NEW t \in Tasks, Saves(t) PROVE LockInv'
  BY <1>18 DEF Saves, Goes
<1>19. ASSUME NEW t \in Tasks, Forgets(t) PROVE LockInv'
  BY <1>19 DEF Forgets, LetsGo, Goes, Fails
<1>20. ASSUME NEW t \in Tasks, TakeUpFails(t) PROVE LockInv'
  BY <1>20 DEF TakeUpFails, LetsGo, Goes, Fails
<1>21. ASSUME NEW t \in Tasks, SaveFails(t) PROVE LockInv'
  BY <1>21 DEF SaveFails, LetsGo, Goes, Fails
<1>22. ASSUME NEW t \in Tasks, Dies(t) PROVE LockInv'
  BY <1>22 DEF Dies, Drops
<1>23. CASE ClaudeRenews
  BY <1>23 DEF ClaudeRenews, Renews
<1>24. CASE ClaudeIsSignedOut
  BY <1>24 DEF ClaudeIsSignedOut
<1>25. CASE SignOut
  BY <1>25 DEF SignOut
<1>26. CASE SignIn
  BY <1>26 DEF SignIn
<1>27. CASE UNCHANGED vars
  BY <1>27 DEF vars
<1> QED
  BY <1>1, <1>2, <1>3, <1>4, <1>5, <1>6, <1>7, <1>8, <1>9, <1>10, <1>11, <1>12,
     <1>13,
     <1>14, <1>15, <1>16, <1>17, <1>18, <1>19, <1>20, <1>21, <1>22, <1>23, <1>24,
     <1>25, <1>26, <1>27
     DEF Next, Progress

LEMMA HandStep == TypeOK /\ HandInv /\ [Next]_vars => HandInv'
<1> SUFFICES ASSUME TypeOK, HandInv, [Next]_vars
             PROVE  HandInv'
  OBVIOUS
<1> USE RenewalAssumption DEF TypeOK, HandInv, InHand, files, server, PC, Waiting,
    Locked, NoLogin, Logins
<1>1. ASSUME NEW t \in Tasks, LooksAtKept(t) PROVE HandInv'
  BY <1>1 DEF LooksAtKept, Goes
<1>2. ASSUME NEW t \in Tasks, LooksAtLogin(t) PROVE HandInv'
  BY <1>2 DEF LooksAtLogin, Goes, MayRenew
<1>3. ASSUME NEW t \in Tasks, Busy(t) PROVE HandInv'
  BY <1>3 DEF Busy, Goes
<1>4. ASSUME NEW t \in Tasks, TakesUp(t) PROVE HandInv'
  BY <1>4 DEF TakesUp, Takes, Goes
<1>5. ASSUME NEW t \in Tasks, KeptIsGone(t) PROVE HandInv'
  BY <1>5 DEF KeptIsGone, LetsGo, Goes
<1>6. ASSUME NEW t \in Tasks, KeptIsNewer(t) PROVE HandInv'
  BY <1>6 DEF KeptIsNewer, Goes, NewerThanStored
<1>7. ASSUME NEW t \in Tasks, KeptIsStale(t) PROVE HandInv'
  BY <1>7 DEF KeptIsStale, LetsGo, Goes, NewerThanStored
<1>8. ASSUME NEW t \in Tasks, SavesKept(t) PROVE HandInv'
  BY <1>8 DEF SavesKept, Goes
<1>9. ASSUME NEW t \in Tasks, TakesLock(t) PROVE HandInv'
  BY <1>9 DEF TakesLock, Takes, Goes
<1>10. ASSUME NEW t \in Tasks, Sends(t) PROVE HandInv'
  BY <1>10 DEF Sends, Goes, MayRenew
<1>11. ASSUME NEW t \in Tasks, NotDue(t) PROVE HandInv'
  BY <1>11 DEF NotDue, LetsGo, Goes
<1>12. ASSUME NEW t \in Tasks, Answered(t) PROVE HandInv'
  BY <1>12 DEF Answered, Goes, Renews
<1>13. ASSUME NEW t \in Tasks, AnswerLost(t) PROVE HandInv'
  BY <1>13 DEF AnswerLost, LetsGo, Goes, Renews
<1>14. ASSUME NEW t \in Tasks, RequestFails(t) PROVE HandInv'
  BY <1>14 DEF RequestFails, LetsGo, Goes, Fails
<1>15. ASSUME NEW t \in Tasks, Refused(t) PROVE HandInv'
  BY <1>15 DEF Refused, Goes
<1>16. ASSUME NEW t \in Tasks, Remembers(t) PROVE HandInv'
  BY <1>16 DEF Remembers, LetsGo, Goes
<1>17. ASSUME NEW t \in Tasks, Keeps(t) PROVE HandInv'
  BY <1>17 DEF Keeps, Goes, Fails
<1>18. ASSUME NEW t \in Tasks, Saves(t) PROVE HandInv'
  BY <1>18 DEF Saves, Goes
<1>19. ASSUME NEW t \in Tasks, Forgets(t) PROVE HandInv'
  BY <1>19 DEF Forgets, LetsGo, Goes, Fails
<1>20. ASSUME NEW t \in Tasks, TakeUpFails(t) PROVE HandInv'
  BY <1>20 DEF TakeUpFails, LetsGo, Goes, Fails
<1>21. ASSUME NEW t \in Tasks, SaveFails(t) PROVE HandInv'
  BY <1>21 DEF SaveFails, LetsGo, Goes, Fails
<1>22. ASSUME NEW t \in Tasks, Dies(t) PROVE HandInv'
  BY <1>22 DEF Dies, Drops
<1>23. CASE ClaudeRenews
  BY <1>23 DEF ClaudeRenews, Renews
<1>24. CASE ClaudeIsSignedOut
  BY <1>24 DEF ClaudeIsSignedOut
<1>25. CASE SignOut
  BY <1>25 DEF SignOut
<1>26. CASE SignIn
  BY <1>26 DEF SignIn
<1>27. CASE UNCHANGED vars
  BY <1>27 DEF vars
<1> QED
  BY <1>1, <1>2, <1>3, <1>4, <1>5, <1>6, <1>7, <1>8, <1>9, <1>10, <1>11, <1>12,
     <1>13,
     <1>14, <1>15, <1>16, <1>17, <1>18, <1>19, <1>20, <1>21, <1>22, <1>23, <1>24,
     <1>25, <1>26, <1>27
     DEF Next, Progress

LEMMA SentStep ==
    TypeOK /\ LockInv /\ LinesInv /\ SentInv /\ [Next]_vars => SentInv'
<1> SUFFICES ASSUME TypeOK, LockInv, LinesInv, SentInv, [Next]_vars
             PROVE  SentInv'
  OBVIOUS
<1> USE RenewalAssumption DEF TypeOK, LockInv, SentInv, files, server, PC, Waiting,
    Locked, NoLogin, NothingKept, Logins
<1>1. ASSUME NEW t \in Tasks, LooksAtKept(t) PROVE SentInv'
  BY <1>1, SMTT(30) DEF LooksAtKept, Goes
<1>2. ASSUME NEW t \in Tasks, LooksAtLogin(t) PROVE SentInv'
  BY <1>2 DEF LooksAtLogin, Goes, MayRenew
<1>3. ASSUME NEW t \in Tasks, Busy(t) PROVE SentInv'
  BY <1>3 DEF Busy, Goes
<1>4. ASSUME NEW t \in Tasks, TakesUp(t) PROVE SentInv'
  BY <1>4 DEF TakesUp, Takes, Goes
<1>5. ASSUME NEW t \in Tasks, KeptIsGone(t) PROVE SentInv'
  BY <1>5 DEF KeptIsGone, LetsGo, Goes
<1>6. ASSUME NEW t \in Tasks, KeptIsNewer(t) PROVE SentInv'
  BY <1>6 DEF KeptIsNewer, Goes, NewerThanStored
<1>7. ASSUME NEW t \in Tasks, KeptIsStale(t) PROVE SentInv'
  BY <1>7 DEF KeptIsStale, LetsGo, Goes, NewerThanStored
<1>8. ASSUME NEW t \in Tasks, SavesKept(t) PROVE SentInv'
  BY <1>8 DEF SavesKept, Goes
<1>9. ASSUME NEW t \in Tasks, TakesLock(t) PROVE SentInv'
  BY <1>9 DEF TakesLock, Takes, Goes
<1>10. ASSUME NEW t \in Tasks, Sends(t) PROVE SentInv'
  BY <1>10 DEF Sends, Goes, MayRenew
<1>11. ASSUME NEW t \in Tasks, NotDue(t) PROVE SentInv'
  BY <1>11 DEF NotDue, LetsGo, Goes
<1>12. ASSUME NEW t \in Tasks, Answered(t) PROVE SentInv'
  BY <1>12 DEF Answered, Goes, Renews
<1>13. ASSUME NEW t \in Tasks, AnswerLost(t) PROVE SentInv'
  BY <1>13 DEF AnswerLost, LetsGo, Goes, Renews
<1>14. ASSUME NEW t \in Tasks, RequestFails(t) PROVE SentInv'
  BY <1>14 DEF RequestFails, LetsGo, Goes, Fails
<1>15. ASSUME NEW t \in Tasks, Refused(t) PROVE SentInv'
  BY <1>15 DEF Refused, Goes
<1>16. ASSUME NEW t \in Tasks, Remembers(t) PROVE SentInv'
  BY <1>16 DEF Remembers, LetsGo, Goes
<1>17. ASSUME NEW t \in Tasks, Keeps(t) PROVE SentInv'
  BY <1>17 DEF Keeps, Goes, Fails
<1>18. ASSUME NEW t \in Tasks, Saves(t) PROVE SentInv'
  BY <1>18 DEF Saves, Goes
<1>19. ASSUME NEW t \in Tasks, Forgets(t) PROVE SentInv'
  <2>1. /\ pc' = [pc EXCEPT ![t] = "idle"]
        /\ token' = [token EXCEPT ![t] = NoLogin] /\ reply' = [reply EXCEPT ![t] = NoLogin]
    BY <1>19 DEF Forgets, LetsGo, Goes
  <2>2. UNCHANGED <<store, lines>>
    BY <1>19 DEF Forgets
  <2> QED
    BY <2>1, <2>2
<1>20. ASSUME NEW t \in Tasks, TakeUpFails(t) PROVE SentInv'
  <2>1. /\ pc' = [pc EXCEPT ![t] = "idle"]
        /\ token' = [token EXCEPT ![t] = NoLogin]
        /\ reply' = [reply EXCEPT ![t] = NoLogin]
    BY <1>20 DEF TakeUpFails, LetsGo, Goes
  <2>2. store' \in {store, NoLogin} /\ UNCHANGED lines
    BY <1>20 DEF TakeUpFails
  <2> QED
    BY <2>1, <2>2
<1>21. ASSUME NEW t \in Tasks, SaveFails(t) PROVE SentInv'
  BY <1>21 DEF SaveFails, LetsGo, Goes, Fails
<1>22. ASSUME NEW t \in Tasks, Dies(t) PROVE SentInv'
  BY <1>22 DEF Dies, Drops
<1>23. CASE ClaudeRenews
  BY <1>23 DEF ClaudeRenews, Renews
<1>24. CASE ClaudeIsSignedOut
  BY <1>24 DEF ClaudeIsSignedOut
<1>25. CASE SignOut
  BY <1>25 DEF SignOut
<1>26. CASE SignIn
  <2>1. \A u \in Tasks : token[u].line # lines + 1 /\ reply[u].line # lines + 1
    <3>1. \A u \in Tasks : token[u].line \in Nat /\ reply[u].line \in Nat
      BY LineOf
    <3> HIDE DEF NoLogin, NothingKept, Logins
    <3> QED
      BY <3>1 DEF LinesInv
  <2> QED
    BY <1>26, <2>1 DEF SignIn
<1>27. CASE UNCHANGED vars
  BY <1>27 DEF vars
<1> QED
  BY <1>1, <1>2, <1>3, <1>4, <1>5, <1>6, <1>7, <1>8, <1>9, <1>10, <1>11, <1>12,
     <1>13,
     <1>14, <1>15, <1>16, <1>17, <1>18, <1>19, <1>20, <1>21, <1>22, <1>23, <1>24,
     <1>25, <1>26, <1>27
     DEF Next, Progress

-----------------------------------------------------------------------------
(* What the server refuses *)

\* A refused login stays refused: what the server takes next is newer.
LEMMA RefusedForGood ==
    ASSUME TypeOK, NEW login \in Logins \cup {NoLogin}, login.n <= issued, ~Accepted(login),
           \A l \in 1..MaxSignIns : newest'[l] = newest[l] \/ newest'[l] = issued + 1
    PROVE  login # NoLogin => newest'[login.line] # login.n
<1> SUFFICES ASSUME login # NoLogin
             PROVE  newest'[login.line] # login.n
  OBVIOUS
<1>1. login.line \in 1..MaxSignIns /\ login.n \in Nat /\ issued \in Nat
  BY LoginFields, NumberOf DEF TypeOK
<1>2. newest[login.line] # login.n
  BY DEF Accepted
<1> QED
  BY <1>1, <1>2

LEMMA SpentStep == TypeOK /\ LockInv /\ IssuedInv /\ SpentInv /\ [Next]_vars => SpentInv'
<1> SUFFICES ASSUME TypeOK, LockInv, IssuedInv, SpentInv, [Next]_vars
             PROVE  SpentInv'
  OBVIOUS
<1> USE RenewalAssumption DEF TypeOK, LockInv, IssuedInv, SpentInv, InHand,
    Accepted, files, server, PC, Waiting, Locked, NoLogin, NothingKept, Logins
<1>1. ASSUME NEW t \in Tasks, LooksAtKept(t) PROVE SpentInv'
  BY <1>1 DEF LooksAtKept, Goes
<1>2. ASSUME NEW t \in Tasks, LooksAtLogin(t) PROVE SpentInv'
  BY <1>2 DEF LooksAtLogin, Goes, MayRenew
<1>3. ASSUME NEW t \in Tasks, Busy(t) PROVE SpentInv'
  BY <1>3 DEF Busy, Goes
<1>4. ASSUME NEW t \in Tasks, TakesUp(t) PROVE SpentInv'
  BY <1>4 DEF TakesUp, Takes, Goes
<1>5. ASSUME NEW t \in Tasks, KeptIsGone(t) PROVE SpentInv'
  BY <1>5 DEF KeptIsGone, LetsGo, Goes
<1>6. ASSUME NEW t \in Tasks, KeptIsNewer(t) PROVE SpentInv'
  BY <1>6 DEF KeptIsNewer, Goes, NewerThanStored
<1>7. ASSUME NEW t \in Tasks, KeptIsStale(t) PROVE SpentInv'
  BY <1>7 DEF KeptIsStale, LetsGo, Goes, NewerThanStored
<1>8. ASSUME NEW t \in Tasks, SavesKept(t) PROVE SpentInv'
  BY <1>8 DEF SavesKept, Goes
<1>9. ASSUME NEW t \in Tasks, TakesLock(t) PROVE SpentInv'
  BY <1>9 DEF TakesLock, Takes, Goes
<1>10. ASSUME NEW t \in Tasks, Sends(t) PROVE SpentInv'
  BY <1>10 DEF Sends, Goes, MayRenew
<1>11. ASSUME NEW t \in Tasks, NotDue(t) PROVE SpentInv'
  BY <1>11 DEF NotDue, LetsGo, Goes
<1>12. ASSUME NEW t \in Tasks, Answered(t) PROVE SpentInv'
  <2> HIDE DEF NoLogin, NothingKept, Logins, Accepted
  <2>1. PICK next \in Logins : Renews(token[t], next)
    BY <1>12 DEF Answered
  <2>t. token[t] \in Logins \cup {NoLogin}
    OBVIOUS
  <2>2. /\ \A l \in 1..MaxSignIns : newest'[l] = newest[l] \/ newest'[l] = issued + 1
        /\ token[t].line \in 1..MaxSignIns /\ newest'[token[t].line] = issued + 1
    <3> HIDE DEF LockInv, IssuedInv, SpentInv
    <3> QED BY <2>t, <2>1, RenewsAs, LoginFields
  <2>3. token[t].n \in Nat /\ issued \in Nat /\ token[t].n <= issued
    BY NumberOf
  <2>4. newest'[token[t].line] # token[t].n
    BY <2>2, <2>3
  <2>5. UNCHANGED <<kept, token>> /\ pc' = [pc EXCEPT ![t] = "answered"]
    BY <1>12 DEF Answered, Goes
  <2>6. \A u \in Tasks : u # t /\ pc[u] \in {"refused"} \cup InHand =>
            (token[u] # NoLogin => newest'[token[u].line] # token[u].n)
    BY <2>2, RefusedForGood
  <2>7. kept.retired # NoLogin => newest'[kept.retired.line] # kept.retired.n
    BY <2>2, RefusedForGood, KeptFields
  <2> QED
    BY <2>4, <2>5, <2>6, <2>7 DEF Accepted
<1>13. ASSUME NEW t \in Tasks, AnswerLost(t) PROVE SpentInv'
  <2> HIDE DEF NoLogin, NothingKept, Logins, Accepted
  <2>1. PICK next \in Logins : Renews(token[t], next)
    BY <1>13 DEF AnswerLost
  <2>t. token[t] \in Logins \cup {NoLogin}
    OBVIOUS
  <2>2. /\ \A l \in 1..MaxSignIns : newest'[l] = newest[l] \/ newest'[l] = issued + 1
        /\ token[t].line \in 1..MaxSignIns /\ newest'[token[t].line] = issued + 1
    <3> HIDE DEF LockInv, IssuedInv, SpentInv
    <3> QED BY <2>t, <2>1, RenewsAs, LoginFields
  <2>3. \A u \in Tasks : u # t /\ pc[u] \in {"refused"} \cup InHand =>
            (token[u] # NoLogin => newest'[token[u].line] # token[u].n)
    BY <2>2, RefusedForGood
  <2>4. kept.retired # NoLogin => newest'[kept.retired.line] # kept.retired.n
    BY <2>2, RefusedForGood, KeptFields
  <2>5. /\ kept' = kept /\ pc' = [pc EXCEPT ![t] = "idle"]
        /\ token' = [token EXCEPT ![t] = NoLogin]
    BY <1>13 DEF AnswerLost, LetsGo, Goes
  <2> QED
    BY <2>3, <2>4, <2>5 DEF Accepted
<1>14. ASSUME NEW t \in Tasks, RequestFails(t) PROVE SpentInv'
  BY <1>14 DEF RequestFails, LetsGo, Goes, Fails
<1>15. ASSUME NEW t \in Tasks, Refused(t) PROVE SpentInv'
  BY <1>15 DEF Refused, Goes
<1>16. ASSUME NEW t \in Tasks, Remembers(t) PROVE SpentInv'
  BY <1>16 DEF Remembers, LetsGo, Goes
<1>17. ASSUME NEW t \in Tasks, Keeps(t) PROVE SpentInv'
  <2>1. ~Accepted(token[t]) /\ pc[t] = "answered"
    BY <1>17 DEF Keeps, Goes
  <2>2. kept'.retired = token[t] \/ kept' = kept
    BY <1>17 DEF Keeps
  <2>3. UNCHANGED <<token, newest>> /\ pc' = [pc EXCEPT ![t] = "saving"]
    BY <1>17 DEF Keeps, Goes
  <2> HIDE DEF Accepted
  <2>4. \A login : Accepted(login)' <=> Accepted(login)
    BY <2>3 DEF Accepted
  <2>5. ~Accepted(kept.retired)'
    BY <2>1, <2>2, <2>3 DEF Accepted
  <2>6. \A u \in Tasks : pc'[u] \in {"refused"} \cup InHand => ~Accepted(token[u])'
    BY <2>1, <2>3 DEF Accepted
  <2> QED
    BY <2>3, <2>5, <2>6
<1>18. ASSUME NEW t \in Tasks, Saves(t) PROVE SpentInv'
  BY <1>18 DEF Saves, Goes
<1>19. ASSUME NEW t \in Tasks, Forgets(t) PROVE SpentInv'
  <2>1. kept' = kept \/ kept' = NothingKept
    BY <1>19 DEF Forgets
  <2>2. newest' = newest
    BY <1>19 DEF Forgets
  <2>3. ~Accepted(kept.retired)'
    BY <2>1, <2>2
  <2>4. pc' = [pc EXCEPT ![t] = "idle"] /\ token' = [token EXCEPT ![t] = NoLogin]
    BY <1>19 DEF Forgets, LetsGo, Goes
  <2>5. \A u \in Tasks : pc'[u] \in {"refused"} \cup InHand => ~Accepted(token[u])'
    BY <2>2, <2>4
  <2> QED
    BY <2>3, <2>5
<1>20. ASSUME NEW t \in Tasks, TakeUpFails(t) PROVE SpentInv'
  BY <1>20 DEF TakeUpFails, LetsGo, Goes, Fails
<1>21. ASSUME NEW t \in Tasks, SaveFails(t) PROVE SpentInv'
  BY <1>21 DEF SaveFails, LetsGo, Goes, Fails
<1>22. ASSUME NEW t \in Tasks, Dies(t) PROVE SpentInv'
  BY <1>22 DEF Dies, Drops
<1>23. CASE ClaudeRenews
  <2> HIDE DEF NoLogin, NothingKept, Logins, Accepted
  <2>1. PICK next \in Logins : Renews(store, next)
    BY <1>23 DEF ClaudeRenews
  <2>2. \A l \in 1..MaxSignIns : newest'[l] = newest[l] \/ newest'[l] = issued + 1
    BY <2>1, RenewsAs
  <2>3. \A u \in Tasks : pc[u] \in {"refused"} \cup InHand =>
            (token[u] # NoLogin => newest'[token[u].line] # token[u].n)
    BY <2>2, RefusedForGood
  <2>4. kept.retired # NoLogin => newest'[kept.retired.line] # kept.retired.n
    BY <2>2, RefusedForGood, KeptFields
  <2> QED
    BY <1>23, <2>3, <2>4 DEF ClaudeRenews, Accepted
<1>24. CASE ClaudeIsSignedOut
  BY <1>24 DEF ClaudeIsSignedOut
<1>25. CASE SignOut
  BY <1>25 DEF SignOut
<1>26. CASE SignIn
  <2> HIDE DEF NoLogin, NothingKept, Logins, Accepted
  <2>2. \A l \in 1..MaxSignIns : newest'[l] = newest[l] \/ newest'[l] = issued + 1
    BY <1>26 DEF SignIn
  <2>3. \A u \in Tasks : pc[u] \in {"refused"} \cup InHand =>
            (token[u] # NoLogin => newest'[token[u].line] # token[u].n)
    BY <2>2, RefusedForGood
  <2>4. kept.retired # NoLogin => newest'[kept.retired.line] # kept.retired.n
    BY <2>2, RefusedForGood, KeptFields
  <2> QED
    BY <1>26, <2>3, <2>4 DEF SignIn, Accepted
<1>27. CASE UNCHANGED vars
  BY <1>27 DEF vars
<1> QED
  BY <1>1, <1>2, <1>3, <1>4, <1>5, <1>6, <1>7, <1>8, <1>9, <1>10, <1>11, <1>12,
     <1>13,
     <1>14, <1>15, <1>16, <1>17, <1>18, <1>19, <1>20, <1>21, <1>22, <1>23, <1>24,
     <1>25, <1>26, <1>27
     DEF Next, Progress

LEMMA NotesStep ==
    TypeOK /\ LockInv /\ IssuedInv /\ SpentInv /\ NotesTrue /\ [Next]_vars => NotesTrue'
<1> SUFFICES ASSUME TypeOK, LockInv, IssuedInv, SpentInv, NotesTrue, [Next]_vars
             PROVE  NotesTrue'
  OBVIOUS
<1> USE RenewalAssumption DEF TypeOK, LockInv, IssuedInv, SpentInv, NotesTrue,
    InHand, Accepted, files, server, NoLogin, NothingKept, Logins
<1>1. ASSUME NEW t \in Tasks, LooksAtKept(t) PROVE NotesTrue'
  BY <1>1 DEF LooksAtKept, Goes
<1>2. ASSUME NEW t \in Tasks, LooksAtLogin(t) PROVE NotesTrue'
  BY <1>2 DEF LooksAtLogin, Goes, MayRenew
<1>3. ASSUME NEW t \in Tasks, Busy(t) PROVE NotesTrue'
  BY <1>3 DEF Busy, Goes
<1>4. ASSUME NEW t \in Tasks, TakesUp(t) PROVE NotesTrue'
  BY <1>4 DEF TakesUp, Takes, Goes
<1>5. ASSUME NEW t \in Tasks, KeptIsGone(t) PROVE NotesTrue'
  BY <1>5 DEF KeptIsGone, LetsGo, Goes
<1>6. ASSUME NEW t \in Tasks, KeptIsNewer(t) PROVE NotesTrue'
  BY <1>6 DEF KeptIsNewer, Goes, NewerThanStored
<1>7. ASSUME NEW t \in Tasks, KeptIsStale(t) PROVE NotesTrue'
  BY <1>7 DEF KeptIsStale, LetsGo, Goes, NewerThanStored
<1>8. ASSUME NEW t \in Tasks, SavesKept(t) PROVE NotesTrue'
  BY <1>8 DEF SavesKept, Goes
<1>9. ASSUME NEW t \in Tasks, TakesLock(t) PROVE NotesTrue'
  BY <1>9 DEF TakesLock, Takes, Goes
<1>10. ASSUME NEW t \in Tasks, Sends(t) PROVE NotesTrue'
  BY <1>10 DEF Sends, Goes, MayRenew
<1>11. ASSUME NEW t \in Tasks, NotDue(t) PROVE NotesTrue'
  BY <1>11 DEF NotDue, LetsGo, Goes
<1>12. ASSUME NEW t \in Tasks, Answered(t) PROVE NotesTrue'
  BY <1>12 DEF Answered, Goes, Renews
<1>13. ASSUME NEW t \in Tasks, AnswerLost(t) PROVE NotesTrue'
  BY <1>13 DEF AnswerLost, LetsGo, Goes, Renews
<1>14. ASSUME NEW t \in Tasks, RequestFails(t) PROVE NotesTrue'
  BY <1>14 DEF RequestFails, LetsGo, Goes, Fails
<1>15. ASSUME NEW t \in Tasks, Refused(t) PROVE NotesTrue'
  BY <1>15 DEF Refused, Goes
<1>16. ASSUME NEW t \in Tasks, Remembers(t) PROVE NotesTrue'
  BY <1>16 DEF Remembers, LetsGo, Goes
<1>17. ASSUME NEW t \in Tasks, Keeps(t) PROVE NotesTrue'
  BY <1>17 DEF Keeps, Goes, Fails
<1>18. ASSUME NEW t \in Tasks, Saves(t) PROVE NotesTrue'
  BY <1>18 DEF Saves, Goes
<1>19. ASSUME NEW t \in Tasks, Forgets(t) PROVE NotesTrue'
  BY <1>19 DEF Forgets, LetsGo, Goes, Fails
<1>20. ASSUME NEW t \in Tasks, TakeUpFails(t) PROVE NotesTrue'
  BY <1>20 DEF TakeUpFails, LetsGo, Goes, Fails
<1>21. ASSUME NEW t \in Tasks, SaveFails(t) PROVE NotesTrue'
  BY <1>21 DEF SaveFails, LetsGo, Goes, Fails
<1>22. ASSUME NEW t \in Tasks, Dies(t) PROVE NotesTrue'
  BY <1>22 DEF Dies, Drops
<1>23. CASE ClaudeRenews
  BY <1>23 DEF ClaudeRenews, Renews
<1>24. CASE ClaudeIsSignedOut
  BY <1>24 DEF ClaudeIsSignedOut
<1>25. CASE SignOut
  BY <1>25 DEF SignOut
<1>26. CASE SignIn
  BY <1>26 DEF SignIn
<1>27. CASE UNCHANGED vars
  BY <1>27 DEF vars
<1> QED
  BY <1>1, <1>2, <1>3, <1>4, <1>5, <1>6, <1>7, <1>8, <1>9, <1>10, <1>11, <1>12,
     <1>13,
     <1>14, <1>15, <1>16, <1>17, <1>18, <1>19, <1>20, <1>21, <1>22, <1>23, <1>24,
     <1>25, <1>26, <1>27
     DEF Next, Progress

-----------------------------------------------------------------------------
(* The newest renewal *)

LEMMA LiveStep == IInv /\ [Next]_vars => LiveInv'
<1> SUFFICES ASSUME IInv, [Next]_vars
             PROVE  LiveInv'
  OBVIOUS
<1> USE RenewalAssumption DEF IInv, TypeOK, LockInv, HandInv, IssuedInv, SpentInv,
    SentInv, LiveInv, Live, Newest, InHand, Accepted, files, server, PC, Waiting,
    Locked, NoLogin, NothingKept, Logins
<1>1. ASSUME NEW t \in Tasks, LooksAtKept(t) PROVE LiveInv'
  <2> HIDE DEF NoLogin, NothingKept, Logins
  <2>1. pc' = [pc EXCEPT ![t] = "takingUp"] /\ pc[t] = "idle"
    BY <1>1 DEF LooksAtKept, Goes
  <2>2. UNCHANGED <<files, server, token, reply>>
    BY <1>1 DEF LooksAtKept
  <2> QED
    BY <2>1, <2>2
<1>2. ASSUME NEW t \in Tasks, LooksAtLogin(t) PROVE LiveInv'
  BY <1>2, SMTT(30) DEF LooksAtLogin, Goes, MayRenew
<1>3. ASSUME NEW t \in Tasks, Busy(t) PROVE LiveInv'
  BY <1>3 DEF Busy, Goes
<1>4. ASSUME NEW t \in Tasks, TakesUp(t) PROVE LiveInv'
  BY <1>4 DEF TakesUp, Takes, Goes
<1>5. ASSUME NEW t \in Tasks, KeptIsGone(t) PROVE LiveInv'
  BY <1>5 DEF KeptIsGone, LetsGo, Goes
<1>6. ASSUME NEW t \in Tasks, KeptIsNewer(t) PROVE LiveInv'
  <2> HIDE DEF NoLogin, NothingKept, Logins, SentInv, HandInv
  <2>1. /\ pc[t] = "reading" /\ pc' = [pc EXCEPT ![t] = "writing"]
        /\ kept # NothingKept /\ NewerThanStored(store)
        /\ UNCHANGED <<files, server, token, reply>>
    BY <1>6 DEF KeptIsNewer, Goes
  <2>2. ASSUME Live PROVE kept.login = Newest(lines)
    <3>1. Newest(lines) \in {store, kept.login}
      BY <2>1, <2>2
    <3>2. ASSUME store = Newest(lines), kept.login # Newest(lines) PROVE FALSE
      <4>1. kept.login.n < newest[lines] /\ store.n = newest[lines] /\ store.line = lines
        BY <2>2, <3>2
      <4>2. store # NoLogin
        BY <4>1 DEF NoLogin
      <4>3. kept.login \in Logins \cup {NoLogin} /\ store \in Logins \cup {NoLogin}
        BY KeptFields
      <4>4. kept.login.n \in Nat /\ store.n \in Nat
        BY <4>3, NumberOf
      <4>5. kept.retired = store
        BY <2>1, <4>1, <4>2, <4>4 DEF NewerThanStored
      <4> QED
        BY <4>1, <4>2, <4>5
    <3> QED
      BY <3>1, <3>2
  <2>3. \A u \in Tasks : pc[u] \notin {"answered", "saving"}
    BY <2>1
  <2> QED
    BY <2>1, <2>2, <2>3
<1>7. ASSUME NEW t \in Tasks, KeptIsStale(t) PROVE LiveInv'
  <2> HIDE DEF NoLogin, NothingKept, Logins, SentInv, HandInv
  <2>1. /\ pc[t] = "reading" /\ pc' = [pc EXCEPT ![t] = "idle"]
        /\ kept # NothingKept /\ ~NewerThanStored(store) /\ kept' = NothingKept
        /\ reply' = [reply EXCEPT ![t] = NoLogin]
        /\ UNCHANGED <<store, server>>
    BY <1>7 DEF KeptIsStale, LetsGo, Goes
  <2>2. ASSUME Live PROVE store = Newest(lines) /\ newest[lines] > 0
    <3>1. Newest(lines) \in {store, kept.login}
      BY <2>1, <2>2
    <3>2. store # NoLogin /\ ~(kept.login.n > store.n)
      BY <2>1 DEF NewerThanStored
    <3>3. store \in Logins /\ store.line = lines /\ store.n <= newest[lines]
      BY <2>2, <3>2
    <3>4. kept.login \in Logins \cup {NoLogin}
      BY KeptFields
    <3>5. kept.login.n \in Nat /\ store.n \in Nat /\ newest[lines] \in Nat /\ store.n > 0
      BY <3>3, <3>4, NumberOf DEF Logins
    <3>6. store.n = newest[lines]
      BY <3>1, <3>2, <3>3, <3>5
    <3>7. store = Newest(lines)
      BY <3>3, <3>6 DEF Logins
    <3> QED
      BY <3>5, <3>6, <3>7
  <2>3. \A u \in Tasks : pc[u] \notin {"answered", "saving"}
    BY <2>1
  <2>4. kept'.login.n = 0
    BY <2>1 DEF NothingKept, NoLogin
  <2> QED
    BY <2>1, <2>2, <2>3, <2>4
<1>8. ASSUME NEW t \in Tasks, SavesKept(t) PROVE LiveInv'
  BY <1>8 DEF SavesKept, Goes
<1>9. ASSUME NEW t \in Tasks, TakesLock(t) PROVE LiveInv'
  BY <1>9 DEF TakesLock, Takes, Goes
<1>10. ASSUME NEW t \in Tasks, Sends(t) PROVE LiveInv'
  BY <1>10 DEF Sends, Goes, MayRenew
<1>11. ASSUME NEW t \in Tasks, NotDue(t) PROVE LiveInv'
  BY <1>11 DEF NotDue, LetsGo, Goes
<1>12. ASSUME NEW t \in Tasks, Answered(t) PROVE LiveInv'
  <2> HIDE DEF NoLogin, NothingKept, Logins, SpentInv, Accepted
  <2>1. PICK next \in Logins : Renews(token[t], next) /\ reply' = [reply EXCEPT ![t] = next]
    BY <1>12 DEF Answered
  <2>0. token[t] \in Logins \cup {NoLogin}
    OBVIOUS
  <2>2. /\ token[t] \in Logins /\ token[t].line \in 1..MaxSignIns
        /\ next.line = token[t].line /\ next.n = issued + 1
        /\ newest'[token[t].line] = issued + 1
        /\ \A l \in 1..MaxSignIns : l # token[t].line => newest'[l] = newest[l]
        /\ UNCHANGED <<lines, first>>
    <3> HIDE DEF TypeOK, LockInv, HandInv, IssuedInv, SentInv, LiveInv
    <3>1. TypeOK
      OBVIOUS
    <3> QED
      BY <2>0, <2>1, <3>1, RenewsAs, LoginFields
  <2>3. /\ pc[t] = "sending" /\ pc' = [pc EXCEPT ![t] = "answered"]
        /\ UNCHANGED <<store, kept, lost, lock, token>>
    BY <1>12 DEF Answered, Goes
  <2>4. CASE token[t].line # lines
    <3>1. ~Live
      BY <2>3, <2>4
    <3>2. newest'[lines] = newest[lines]
      BY <2>2, <2>4
    <3>3. ~Live'
      BY <3>1, <3>2, <2>2, <2>3
    <3> QED
      BY <3>3
  <2>5. CASE token[t].line = lines
    <3>1. \A u \in Tasks : pc'[u] \in Locked => u = t
      BY <2>3
    <3>2. next = [line |-> lines, n |-> newest'[lines]]
      BY <2>2, <2>5 DEF Logins
    <3>3. reply'[t] = Newest(lines)' /\ pc'[t] = "answered"
      BY <3>2, <2>1, <2>2, <2>3
    <3>4. store = NoLogin \/ (store.line = lines /\ store.n <= issued + 1)
      <4>1. store \in {NoLogin, token[t]}
        BY <2>3, <2>5
      <4>2. token[t].n \in Nat /\ issued \in Nat /\ token[t].n <= issued
        BY NumberOf
      <4> QED
        BY <4>1, <4>2, <2>5
    <3>5. kept.login.n < issued + 1
      <4>1. kept.login \in Logins \cup {NoLogin}
        BY KeptFields
      <4>2. kept.login.n \in Nat
        BY <4>1, NumberOf
      <4> QED
        BY <4>2
    <3>6. newest'[lines'] = issued + 1 /\ lines' = lines /\ UNCHANGED <<store, kept>>
      BY <2>2, <2>3, <2>5
    <3>7. \A u \in Tasks : pc'[u] \in 
              {"sending", "writing", "forgetting", "cleaning", "answered", "saving"} => u = t
      BY <3>1
    <3> QED
      BY <3>3, <3>4, <3>5, <3>6, <3>7
  <2> QED
    BY <2>4, <2>5
<1>13. ASSUME NEW t \in Tasks, AnswerLost(t) PROVE LiveInv'
  BY <1>13 DEF AnswerLost, LetsGo, Goes, Renews
<1>14. ASSUME NEW t \in Tasks, RequestFails(t) PROVE LiveInv'
  BY <1>14 DEF RequestFails, LetsGo, Goes, Fails
<1>15. ASSUME NEW t \in Tasks, Refused(t) PROVE LiveInv'
  BY <1>15 DEF Refused, Goes
<1>16. ASSUME NEW t \in Tasks, Remembers(t) PROVE LiveInv'
  BY <1>16 DEF Remembers, LetsGo, Goes
<1>17. ASSUME NEW t \in Tasks, Keeps(t) PROVE LiveInv'
  <2> HIDE DEF NoLogin, NothingKept, Logins, SentInv, HandInv
  <2>1. /\ pc[t] = "answered" /\ pc' = [pc EXCEPT ![t] = "saving"]
        /\ kept' = [retired |-> token[t], login |-> reply[t]] \/ kept' = kept
        /\ UNCHANGED <<store, server, token, reply>>
    BY <1>17 DEF Keeps, Goes
  <2>2. Live => reply[t] = Newest(lines)
    BY <2>1
  <2>3. Live => kept'.login = Newest(lines) \/ kept'.login = kept.login
    BY <2>1, <2>2
  <2>4. \A u \in Tasks : u # t => pc[u] \notin Locked
    BY <2>1
  <2> QED
    BY <2>1, <2>2, <2>3, <2>4
<1>18. ASSUME NEW t \in Tasks, Saves(t) PROVE LiveInv'
  BY <1>18 DEF Saves, Goes
<1>19. ASSUME NEW t \in Tasks, Forgets(t) PROVE LiveInv'
  <2>1. pc[t] \in {"forgetting", "cleaning"} /\ pc' = [pc EXCEPT ![t] = "idle"]
    BY <1>19 DEF Forgets, LetsGo, Goes
  <2>2. UNCHANGED <<store, server>> /\ (kept' = kept \/ kept' = NothingKept)
    BY <1>19 DEF Forgets
  <2> SUFFICES ASSUME Live'
               PROVE  LiveInv'
    OBVIOUS
  <2>3. Live /\ store = Newest(lines)
    BY <2>1, <2>2
  <2>4. newest[lines] \in Nat /\ newest[lines] > 0
    BY <2>3
  <2>5. Newest(lines)' = Newest(lines)
    BY <2>2
  <2>6. \A u \in Tasks : pc'[u] \in Locked => FALSE
    BY <2>1
  <2>7. kept'.login # Newest(lines)' => kept'.login.n < newest'[lines']
    BY <2>2, <2>3, <2>4, <2>5
  <2> QED
    BY <2>2, <2>3, <2>5, <2>6, <2>7
<1>20. ASSUME NEW t \in Tasks, TakeUpFails(t) PROVE LiveInv'
  BY <1>20 DEF TakeUpFails, LetsGo, Goes, Fails
<1>21. ASSUME NEW t \in Tasks, SaveFails(t) PROVE LiveInv'
  BY <1>21 DEF SaveFails, LetsGo, Goes, Fails
<1>22. ASSUME NEW t \in Tasks, Dies(t) PROVE LiveInv'
  <2> HIDE DEF NoLogin, NothingKept, Logins, SentInv
  <2>1. /\ pc' = [pc EXCEPT ![t] = "dead"] /\ Drops(t)
        /\ reply' = [reply EXCEPT ![t] = NoLogin] /\ token' = [token EXCEPT ![t] = NoLogin]
        /\ UNCHANGED <<store, kept, newest, lines, first>>
    BY <1>22 DEF Dies
  <2> SUFFICES ASSUME Live'
               PROVE  LiveInv'
    OBVIOUS
  <2>2. Live
    BY <2>1 DEF Drops
  <2>3. ASSUME pc[t] \in {"answered", "saving"} PROVE Newest(lines) \in {store, kept.login}
    <3>1. reply[t] = Newest(lines) /\ reply[t] # NoLogin
      BY <2>2, <2>3
    <3>2. reply[t].line = lines
      BY <3>1
    <3>3. lines \notin lost'
      BY <2>1
    <3> QED
      BY <2>1, <3>1, <3>2, <3>3 DEF Drops
  <2> QED
    BY <2>1, <2>2, <2>3
<1>23. CASE ClaudeRenews
  <2> HIDE DEF NoLogin, NothingKept, Logins, SpentInv, SentInv, HandInv, Accepted
  <2>1. PICK next \in Logins : Renews(store, next) /\ store' = next
    BY <1>23 DEF ClaudeRenews
  <2>2. lock = {} /\ UNCHANGED <<kept, lost, pc, token, reply>>
    BY <1>23 DEF ClaudeRenews
  <2>3. /\ store \in Logins /\ store # NoLogin /\ store.line \in 1..MaxSignIns
        /\ next.line = store.line /\ next.n = issued + 1
        /\ newest'[store.line] = issued + 1
        /\ \A l \in 1..MaxSignIns : l # store.line => newest'[l] = newest[l]
        /\ UNCHANGED <<lines, first>>
    <3> HIDE DEF TypeOK, LockInv, IssuedInv, LiveInv
    <3>1. TypeOK
      OBVIOUS
    <3>2. store \in Logins \cup {NoLogin}
      BY <3>1 DEF TypeOK
    <3> QED
      BY <2>1, <3>1, <3>2, RenewsAs, LoginFields
  <2>4. CASE store.line # lines
    <3>1. ~Live
      BY <2>3, <2>4
    <3>2. newest'[lines] = newest[lines]
      BY <2>3, <2>4
    <3>3. ~Live'
      BY <3>1, <3>2, <2>2, <2>3
    <3> QED
      BY <3>3
  <2>5. CASE store.line = lines
    <3>1. next = [line |-> lines, n |-> newest'[lines]]
      BY <2>3, <2>5 DEF Logins
    <3>2. kept.login \in Logins \cup {NoLogin}
      BY KeptFields
    <3>3. kept.login.n \in Nat /\ issued \in Nat
      BY <3>2, NumberOf
    <3>4. kept.login.n < issued + 1 /\ newest'[lines] = issued + 1
      BY <2>3, <2>5, <3>3
    <3>5. \A u \in Tasks : pc[u] \notin Locked
      BY <2>2
    <3>6. /\ store' = Newest(lines)' /\ store'.line = lines'
          /\ store'.n = newest'[lines'] /\ lines' = lines
      BY <2>1, <2>3, <3>1
    <3> QED
      BY <2>2, <3>3, <3>4, <3>5, <3>6
  <2> QED
    BY <2>4, <2>5
<1>24. CASE ClaudeIsSignedOut
  BY <1>24 DEF ClaudeIsSignedOut
<1>25. CASE SignOut
  BY <1>25, SMTT(30) DEF SignOut
<1>26. CASE SignIn
  BY <1>26 DEF SignIn
<1>27. CASE UNCHANGED vars
  BY <1>27 DEF vars
<1> QED
  BY <1>1, <1>2, <1>3, <1>4, <1>5, <1>6, <1>7, <1>8, <1>9, <1>10, <1>11, <1>12,
     <1>13,
     <1>14, <1>15, <1>16, <1>17, <1>18, <1>19, <1>20, <1>21, <1>22, <1>23, <1>24,
     <1>25, <1>26, <1>27
     DEF Next, Progress

-----------------------------------------------------------------------------
(* What the store and a kept renewal have of the last sign-in *)

\* A sign-in whose login was renewed is not fresh.
LEMMA RenewedIsNotFresh ==
    ASSUME TypeOK, FreshInv, NEW login \in Logins \cup {NoLogin}, NEW next,
           Renews(login, next)
    PROVE  /\ lines' = lines /\ first'[lines'] <= issued'
           /\ newest'[lines'] = first'[lines'] =>
                  /\ next.line # lines /\ newest[lines] = first[lines]
                  /\ newest'[lines'] = newest[lines]
<1>1. /\ next.line = login.line /\ login.line \in 1..MaxSignIns
      /\ issued' = issued + 1 /\ newest'[login.line] = issued + 1
      /\ \A l \in 1..MaxSignIns : l # login.line => newest'[l] = newest[l]
      /\ lines' = lines /\ first' = first
  BY RenewsAs, LoginFields
<1>2. /\ issued \in Nat /\ first[lines] \in Nat /\ first[lines] <= issued
      /\ lines \in 1..MaxSignIns
  BY RenewalAssumption DEF TypeOK, FreshInv
<1>3. CASE login.line = lines
  BY <1>1, <1>2, <1>3
<1>4. CASE login.line # lines
  BY <1>1, <1>2, <1>4
<1> QED
  BY <1>3, <1>4

LEMMA FreshStep ==
    TypeOK /\ IssuedInv /\ LinesInv /\ FreshInv /\ [Next]_vars => FreshInv'
<1> SUFFICES ASSUME TypeOK, IssuedInv, LinesInv, FreshInv, [Next]_vars
             PROVE  FreshInv'
  OBVIOUS
<1> USE RenewalAssumption DEF TypeOK, FreshInv, FreshIn, files, server, NoLogin,
    NothingKept, Logins
<1>0. FreshIn(NoLogin) /\ FreshIn(NothingKept.login)
  <2>1. NoLogin.line = 0 /\ NothingKept.login = NoLogin /\ lines # 0
    OBVIOUS
  <2> HIDE DEF NoLogin, NothingKept, Logins, TypeOK, FreshInv
  <2> QED
    BY <2>1
<1>1. ASSUME NEW t \in Tasks, LooksAtKept(t) PROVE FreshInv'
  BY <1>1 DEF LooksAtKept, Goes
<1>2. ASSUME NEW t \in Tasks, LooksAtLogin(t) PROVE FreshInv'
  BY <1>2 DEF LooksAtLogin, Goes, MayRenew
<1>3. ASSUME NEW t \in Tasks, Busy(t) PROVE FreshInv'
  BY <1>3 DEF Busy, Goes
<1>4. ASSUME NEW t \in Tasks, TakesUp(t) PROVE FreshInv'
  BY <1>4 DEF TakesUp, Takes, Goes
<1>5. ASSUME NEW t \in Tasks, KeptIsGone(t) PROVE FreshInv'
  BY <1>5 DEF KeptIsGone, LetsGo, Goes
<1>6. ASSUME NEW t \in Tasks, KeptIsNewer(t) PROVE FreshInv'
  BY <1>6 DEF KeptIsNewer, Goes, NewerThanStored
<1>7. ASSUME NEW t \in Tasks, KeptIsStale(t) PROVE FreshInv'
  <2>1. /\ kept' = NothingKept /\ UNCHANGED <<store, server>>
        /\ token' = [token EXCEPT ![t] = NoLogin] /\ reply' = [reply EXCEPT ![t] = NoLogin]
    BY <1>7 DEF KeptIsStale, LetsGo
  <2>2. \A u \in Tasks :
          token'[u] \in {token[u], NoLogin} /\ reply'[u] \in {reply[u], NoLogin}
    BY <2>1
  <2> HIDE DEF NoLogin, NothingKept, Logins, TypeOK
  <2> QED
    BY <1>0, <2>1, <2>2
<1>8. ASSUME NEW t \in Tasks, SavesKept(t) PROVE FreshInv'
  BY <1>8 DEF SavesKept, Goes
<1>9. ASSUME NEW t \in Tasks, TakesLock(t) PROVE FreshInv'
  BY <1>9 DEF TakesLock, Takes, Goes
<1>10. ASSUME NEW t \in Tasks, Sends(t) PROVE FreshInv'
  BY <1>10 DEF Sends, Goes, MayRenew
<1>11. ASSUME NEW t \in Tasks, NotDue(t) PROVE FreshInv'
  BY <1>11 DEF NotDue, LetsGo, Goes
<1>12. ASSUME NEW t \in Tasks, Answered(t) PROVE FreshInv'
  <2> HIDE DEF NoLogin, NothingKept, Logins, TypeOK, FreshInv
  <2>t. token[t] \in Logins \cup {NoLogin} /\ store \in Logins \cup {NoLogin}
    BY DEF TypeOK
  <2>1. PICK next \in Logins : Renews(token[t], next) /\ reply' = [reply EXCEPT ![t] = next]
    BY <1>12 DEF Answered
  <2>2. UNCHANGED <<store, kept, token>>
    BY <1>12 DEF Answered
  <2>3. \A u \in Tasks : reply'[u] \in {reply[u], next}
    BY <2>1 DEF TypeOK
  <2>4. /\ lines' = lines /\ first'[lines'] <= issued'
        /\ newest'[lines'] = first'[lines'] =>
               /\ next.line # lines /\ newest[lines] = first[lines]
               /\ newest'[lines'] = newest[lines]
    BY <2>t, <2>1, RenewedIsNotFresh
  <2> QED
    BY <2>2, <2>3, <2>4 DEF FreshInv
<1>13. ASSUME NEW t \in Tasks, AnswerLost(t) PROVE FreshInv'
  <2> HIDE DEF NoLogin, NothingKept, Logins, TypeOK, FreshInv
  <2>t. token[t] \in Logins \cup {NoLogin} /\ store \in Logins \cup {NoLogin}
    BY DEF TypeOK
  <2>1. PICK next \in Logins : Renews(token[t], next)
    BY <1>13 DEF AnswerLost
  <2>2. UNCHANGED <<store, kept>>
    BY <1>13 DEF AnswerLost
  <2>3. \A u \in Tasks :
          token'[u] \in {token[u], NoLogin} /\ reply'[u] \in {reply[u], NoLogin}
    BY <1>13 DEF AnswerLost, LetsGo, TypeOK
  <2>4. /\ lines' = lines /\ first'[lines'] <= issued'
        /\ newest'[lines'] = first'[lines'] =>
               /\ newest[lines] = first[lines]
               /\ newest'[lines'] = newest[lines]
    BY <2>t, <2>1, RenewedIsNotFresh
  <2> QED
    BY <1>0, <2>2, <2>3, <2>4 DEF FreshInv
<1>14. ASSUME NEW t \in Tasks, RequestFails(t) PROVE FreshInv'
  BY <1>14 DEF RequestFails, LetsGo, Goes, Fails
<1>15. ASSUME NEW t \in Tasks, Refused(t) PROVE FreshInv'
  BY <1>15 DEF Refused, Goes
<1>16. ASSUME NEW t \in Tasks, Remembers(t) PROVE FreshInv'
  BY <1>16 DEF Remembers, LetsGo, Goes
<1>17. ASSUME NEW t \in Tasks, Keeps(t) PROVE FreshInv'
  BY <1>17 DEF Keeps, Goes, Fails
<1>18. ASSUME NEW t \in Tasks, Saves(t) PROVE FreshInv'
  BY <1>18 DEF Saves, Goes
<1>19. ASSUME NEW t \in Tasks, Forgets(t) PROVE FreshInv'
  <2>1. UNCHANGED <<store, server>> /\ (kept' = kept \/ kept' = NothingKept)
    BY <1>19 DEF Forgets
  <2>2. \A u \in Tasks :
          token'[u] \in {token[u], NoLogin} /\ reply'[u] \in {reply[u], NoLogin}
    BY <1>19 DEF Forgets, LetsGo
  <2> HIDE DEF NoLogin, NothingKept, Logins, TypeOK
  <2> QED
    BY <1>0, <2>1, <2>2
<1>20. ASSUME NEW t \in Tasks, TakeUpFails(t) PROVE FreshInv'
  <2>1. UNCHANGED <<kept, server>> /\ store' \in {store, NoLogin}
    BY <1>20 DEF TakeUpFails
  <2>2. \A u \in Tasks :
          token'[u] \in {token[u], NoLogin} /\ reply'[u] \in {reply[u], NoLogin}
    BY <1>20 DEF TakeUpFails, LetsGo
  <2> HIDE DEF NoLogin, NothingKept, Logins, TypeOK
  <2> QED
    BY <1>0, <2>1, <2>2
<1>21. ASSUME NEW t \in Tasks, SaveFails(t) PROVE FreshInv'
  BY <1>21 DEF SaveFails, LetsGo, Goes, Fails
<1>22. ASSUME NEW t \in Tasks, Dies(t) PROVE FreshInv'
  BY <1>22 DEF Dies, Drops
<1>23. CASE ClaudeRenews
  <2> HIDE DEF NoLogin, NothingKept, Logins, TypeOK, FreshInv
  <2>t. store \in Logins \cup {NoLogin}
    BY DEF TypeOK
  <2>1. PICK next \in Logins : Renews(store, next) /\ store' = next
    BY <1>23 DEF ClaudeRenews
  <2>2. UNCHANGED <<kept, token, reply>>
    BY <1>23 DEF ClaudeRenews
  <2>3. /\ lines' = lines /\ first'[lines'] <= issued'
        /\ newest'[lines'] = first'[lines'] =>
               /\ next.line # lines /\ newest[lines] = first[lines]
               /\ newest'[lines'] = newest[lines]
    BY <2>t, <2>1, RenewedIsNotFresh
  <2> QED
    BY <2>1, <2>2, <2>3 DEF FreshInv
<1>24. CASE ClaudeIsSignedOut
  BY <1>24 DEF ClaudeIsSignedOut
<1>25. CASE SignOut
  BY <1>25 DEF SignOut
<1>26. CASE SignIn
  <2>1. /\ lines' = lines + 1 /\ issued' = issued + 1 /\ lines + 1 \in 1..MaxSignIns
        /\ newest'[lines + 1] = issued + 1 /\ first'[lines + 1] = issued + 1
        /\ store'.n = issued + 1
    BY <1>26 DEF SignIn
  <2>2. UNCHANGED <<token, reply, kept>>
    BY <1>26 DEF SignIn
  <2>3. issued \in Nat /\ lines \in Nat
    OBVIOUS
  <2> HIDE DEF NoLogin, NothingKept, Logins
  <2>4. /\ \A u \in Tasks : token[u].line \in Nat /\ reply[u].line \in Nat
        /\ kept.login.line \in Nat
    BY LineOf, KeptFields
  <2> HIDE DEF TypeOK, FreshInv
  <2>5. /\ \A u \in Tasks : token[u].line # lines + 1 /\ reply[u].line # lines + 1
        /\ kept.login.line # lines + 1
    BY <2>3, <2>4 DEF LinesInv
  <2> QED
    BY <2>1, <2>2, <2>3, <2>5 DEF FreshInv
<1>27. CASE UNCHANGED vars
  BY <1>27 DEF vars
<1> QED
  BY <1>1, <1>2, <1>3, <1>4, <1>5, <1>6, <1>7, <1>8, <1>9, <1>10, <1>11, <1>12,
     <1>13,
     <1>14, <1>15, <1>16, <1>17, <1>18, <1>19, <1>20, <1>21, <1>22, <1>23, <1>24,
     <1>25, <1>26, <1>27
     DEF Next, Progress

LEMMA RetiredStep == IInv /\ [Next]_vars => RetiredInv'
<1> SUFFICES ASSUME IInv, [Next]_vars
             PROVE  RetiredInv'
  OBVIOUS
<1> USE RenewalAssumption DEF IInv, TypeOK, LockInv, HandInv, SentInv, LiveInv,
    RetiredInv, Live, Newest, files, server, InHand, PC, Waiting, Locked, NoLogin,
    NothingKept, Logins
<1>1. ASSUME NEW t \in Tasks, LooksAtKept(t) PROVE RetiredInv'
  BY <1>1 DEF LooksAtKept, Goes
<1>2. ASSUME NEW t \in Tasks, LooksAtLogin(t) PROVE RetiredInv'
  BY <1>2 DEF LooksAtLogin, Goes, MayRenew
<1>3. ASSUME NEW t \in Tasks, Busy(t) PROVE RetiredInv'
  BY <1>3 DEF Busy, Goes
<1>4. ASSUME NEW t \in Tasks, TakesUp(t) PROVE RetiredInv'
  BY <1>4 DEF TakesUp, Takes, Goes
<1>5. ASSUME NEW t \in Tasks, KeptIsGone(t) PROVE RetiredInv'
  BY <1>5 DEF KeptIsGone, LetsGo, Goes
<1>6. ASSUME NEW t \in Tasks, KeptIsNewer(t) PROVE RetiredInv'
  BY <1>6 DEF KeptIsNewer, Goes, NewerThanStored
<1>7. ASSUME NEW t \in Tasks, KeptIsStale(t) PROVE RetiredInv'
  BY <1>7 DEF KeptIsStale, LetsGo, Goes, NewerThanStored
<1>8. ASSUME NEW t \in Tasks, SavesKept(t) PROVE RetiredInv'
  BY <1>8 DEF SavesKept, Goes
<1>9. ASSUME NEW t \in Tasks, TakesLock(t) PROVE RetiredInv'
  BY <1>9 DEF TakesLock, Takes, Goes
<1>10. ASSUME NEW t \in Tasks, Sends(t) PROVE RetiredInv'
  BY <1>10 DEF Sends, Goes, MayRenew
<1>11. ASSUME NEW t \in Tasks, NotDue(t) PROVE RetiredInv'
  BY <1>11 DEF NotDue, LetsGo, Goes
<1>12. ASSUME NEW t \in Tasks, Answered(t) PROVE RetiredInv'
  <2> HIDE DEF NoLogin, NothingKept, Logins, TypeOK, HandInv, SentInv, LiveInv
  <2>t. token[t] \in Logins \cup {NoLogin}
    BY DEF TypeOK
  <2>1. PICK next \in Logins : Renews(token[t], next) /\ reply' = [reply EXCEPT ![t] = next]
    BY <1>12 DEF Answered
  <2>2. /\ token[t].line \in 1..MaxSignIns
        /\ newest'[token[t].line] = issued + 1
        /\ \A l \in 1..MaxSignIns : l # token[t].line => newest'[l] = newest[l]
        /\ UNCHANGED <<lines, first>>
    BY <2>t, <2>1, RenewsAs, LoginFields
  <2>3. UNCHANGED <<store, kept, lost>>
    BY <1>12 DEF Answered
  <2>4. CASE token[t].line = lines
    <3>1. kept.login \in Logins \cup {NoLogin}
      BY KeptFields
    <3>2. kept.login.n \in Nat /\ issued \in Nat /\ kept.login.n <= issued
      BY <3>1, NumberOf DEF IssuedInv, TypeOK
    <3>3. kept'.login # Newest(lines)'
      BY <2>2, <2>3, <2>4, <3>2
    <3> QED
      BY <2>2, <3>3
  <2>5. CASE token[t].line # lines
    <3>1. newest'[lines] = newest[lines]
      BY <2>2, <2>5 DEF TypeOK
    <3> QED
      BY <2>2, <2>3, <3>1
  <2> QED
    BY <2>4, <2>5
<1>13. ASSUME NEW t \in Tasks, AnswerLost(t) PROVE RetiredInv'
  BY <1>13 DEF AnswerLost, LetsGo, Goes, Renews
<1>14. ASSUME NEW t \in Tasks, RequestFails(t) PROVE RetiredInv'
  BY <1>14 DEF RequestFails, LetsGo, Goes, Fails
<1>15. ASSUME NEW t \in Tasks, Refused(t) PROVE RetiredInv'
  BY <1>15 DEF Refused, Goes
<1>16. ASSUME NEW t \in Tasks, Remembers(t) PROVE RetiredInv'
  BY <1>16 DEF Remembers, LetsGo, Goes
<1>17. ASSUME NEW t \in Tasks, Keeps(t) PROVE RetiredInv'
  <2> HIDE DEF NoLogin, NothingKept, Logins, TypeOK
  <2>1. /\ pc[t] = "answered"
        /\ kept' = [retired |-> token[t], login |-> reply[t]] \/ kept' = kept
        /\ UNCHANGED <<store, server>>
    BY <1>17 DEF Keeps, Goes
  <2>2. Live => store \in {NoLogin, token[t]}
    <3>1. Live => reply[t].line = lines
      BY <2>1
    <3> QED
      BY <2>1, <3>1
  <2>3. CASE kept' = [retired |-> token[t], login |-> reply[t]]
    <3>1. kept'.retired = token[t]
      BY <2>3
    <3> QED
      BY <2>1, <2>2, <3>1
  <2>4. CASE kept' = kept
    BY <2>1, <2>4
  <2> QED
    BY <2>1, <2>3, <2>4
<1>18. ASSUME NEW t \in Tasks, Saves(t) PROVE RetiredInv'
  BY <1>18 DEF Saves, Goes
<1>19. ASSUME NEW t \in Tasks, Forgets(t) PROVE RetiredInv'
  BY <1>19 DEF Forgets, LetsGo, Goes, Fails
<1>20. ASSUME NEW t \in Tasks, TakeUpFails(t) PROVE RetiredInv'
  BY <1>20 DEF TakeUpFails, LetsGo, Goes, Fails
<1>21. ASSUME NEW t \in Tasks, SaveFails(t) PROVE RetiredInv'
  BY <1>21 DEF SaveFails, LetsGo, Goes, Fails
<1>22. ASSUME NEW t \in Tasks, Dies(t) PROVE RetiredInv'
  BY <1>22 DEF Dies, Drops
<1>23. CASE ClaudeRenews
  BY <1>23 DEF ClaudeRenews, Renews
<1>24. CASE ClaudeIsSignedOut
  BY <1>24 DEF ClaudeIsSignedOut
<1>25. CASE SignOut
  BY <1>25 DEF SignOut
<1>26. CASE SignIn
  BY <1>26 DEF SignIn
<1>27. CASE UNCHANGED vars
  BY <1>27 DEF vars
<1> QED
  BY <1>1, <1>2, <1>3, <1>4, <1>5, <1>6, <1>7, <1>8, <1>9, <1>10, <1>11, <1>12,
     <1>13,
     <1>14, <1>15, <1>16, <1>17, <1>18, <1>19, <1>20, <1>21, <1>22, <1>23, <1>24,
     <1>25, <1>26, <1>27
     DEF Next, Progress

-----------------------------------------------------------------------------
(* Theorems *)

LEMMA InitIInv == Init => IInv
  BY RenewalAssumption
  DEF Init, IInv, TypeOK, LockInv, HandInv, IssuedInv, LinesInv, SpentInv, SentInv,
      LiveInv, Live, NotesTrue, FreshInv, FreshIn, RetiredInv, Newest,
      PC, Waiting, Locked, InHand, Logins, NoLogin, NothingKept, FirstLogin, Accepted

LEMMA AlwaysIInv == Spec => []IInv
<1>1. IInv /\ [Next]_vars => IInv'
  BY TypeStep, LockStep, HandStep, IssuedStep, LinesStep, SpentStep, SentStep,
     LiveStep, NotesStep, FreshStep, RetiredStep
  DEF IInv
<1> QED
  BY InitIInv, <1>1, PTL DEF Spec

\* Every variable keeps its type, a renewal is never nowhere and no note is
\* wrong, however many tasks renew, write and fail, and whoever signs in.
THEOREM NeverNowhere == Spec => []Inv
<1>1. IInv => RenewalHeld
  BY DEF IInv, TypeOK, HandInv, InHand, LiveInv, Live, RenewalHeld, Held, Newest
<1>2. IInv => Inv
  BY <1>1 DEF IInv, Inv
<1> QED
  BY AlwaysIInv, <1>2, PTL

\* Only Sends sends.
LEMMA OnlySends ==
    ASSUME TypeOK, Next, NEW t \in Tasks, pc[t] = "judging", pc'[t] = "sending"
    PROVE  Sends(t)
<1> USE DEF TypeOK
<1>1. ASSUME NEW u \in Tasks, LooksAtKept(u) PROVE Sends(t)
  BY <1>1 DEF LooksAtKept, Goes
<1>2. ASSUME NEW u \in Tasks, LooksAtLogin(u) PROVE Sends(t)
  BY <1>2 DEF LooksAtLogin, Goes
<1>3. ASSUME NEW u \in Tasks, Busy(u) PROVE Sends(t)
  BY <1>3 DEF Busy, Goes
<1>4. ASSUME NEW u \in Tasks, TakesUp(u) PROVE Sends(t)
  BY <1>4 DEF TakesUp, Takes, Goes
<1>5. ASSUME NEW u \in Tasks, KeptIsGone(u) PROVE Sends(t)
  BY <1>5 DEF KeptIsGone, LetsGo, Goes
<1>6. ASSUME NEW u \in Tasks, KeptIsNewer(u) PROVE Sends(t)
  BY <1>6 DEF KeptIsNewer, Goes
<1>7. ASSUME NEW u \in Tasks, KeptIsStale(u) PROVE Sends(t)
  BY <1>7 DEF KeptIsStale, LetsGo, Goes
<1>8. ASSUME NEW u \in Tasks, SavesKept(u) PROVE Sends(t)
  BY <1>8 DEF SavesKept, Goes
<1>9. ASSUME NEW u \in Tasks, TakesLock(u) PROVE Sends(t)
  BY <1>9 DEF TakesLock, Takes, Goes
<1>10. ASSUME NEW u \in Tasks, Sends(u) PROVE Sends(t)
  BY <1>10 DEF Sends, Goes
<1>11. ASSUME NEW u \in Tasks, NotDue(u) PROVE Sends(t)
  BY <1>11 DEF NotDue, LetsGo, Goes
<1>12. ASSUME NEW u \in Tasks, Answered(u) PROVE Sends(t)
  BY <1>12 DEF Answered, Goes
<1>13. ASSUME NEW u \in Tasks, AnswerLost(u) PROVE Sends(t)
  BY <1>13 DEF AnswerLost, LetsGo, Goes
<1>14. ASSUME NEW u \in Tasks, RequestFails(u) PROVE Sends(t)
  BY <1>14 DEF RequestFails, LetsGo, Goes
<1>15. ASSUME NEW u \in Tasks, Refused(u) PROVE Sends(t)
  BY <1>15 DEF Refused, Goes
<1>16. ASSUME NEW u \in Tasks, Remembers(u) PROVE Sends(t)
  BY <1>16 DEF Remembers, LetsGo, Goes
<1>17. ASSUME NEW u \in Tasks, Keeps(u) PROVE Sends(t)
  BY <1>17 DEF Keeps, Goes
<1>18. ASSUME NEW u \in Tasks, Saves(u) PROVE Sends(t)
  BY <1>18 DEF Saves, Goes
<1>19. ASSUME NEW u \in Tasks, Forgets(u) PROVE Sends(t)
  BY <1>19 DEF Forgets, LetsGo, Goes
<1>20. ASSUME NEW u \in Tasks, TakeUpFails(u) PROVE Sends(t)
  BY <1>20 DEF TakeUpFails, LetsGo, Goes
<1>21. ASSUME NEW u \in Tasks, SaveFails(u) PROVE Sends(t)
  BY <1>21 DEF SaveFails, LetsGo, Goes
<1>22. ASSUME NEW u \in Tasks, Dies(u) PROVE Sends(t)
  BY <1>22 DEF Dies
<1>23. CASE ClaudeRenews
  BY <1>23 DEF ClaudeRenews
<1>24. CASE ClaudeIsSignedOut
  BY <1>24 DEF ClaudeIsSignedOut
<1>25. CASE SignOut
  BY <1>25 DEF SignOut
<1>26. CASE SignIn
  BY <1>26 DEF SignIn
<1> QED
  BY <1>1, <1>2, <1>3, <1>4, <1>5, <1>6, <1>7, <1>8, <1>9, <1>10, <1>11, <1>12,
     <1>13, <1>14, <1>15, <1>16, <1>17, <1>18, <1>19, <1>20, <1>21, <1>22, <1>23,
     <1>24, <1>25, <1>26
     DEF Next, Progress

\* A renewal never sends a login of the last sign-in that the server retired,
\* but for the cases SendsNoSpentLogin names.
THEOREM NeverSentTwice == Spec => SendsNoSpentLogin
<1>1. ASSUME IInv, Next, NEW t \in Tasks, pc[t] = "judging", pc'[t] = "sending"
      PROVE  \/ Accepted(token'[t]) \/ token'[t].line # lines
             \/ lines \in lost \/ kept.retired = token'[t]
  <2>1. Sends(t)
    BY <1>1, OnlySends DEF IInv
  <2>2. token'[t] = store /\ store # NoLogin /\ store \in Logins
    BY <1>1, <2>1 DEF Sends, MayRenew, IInv, TypeOK
  <2> SUFFICES ASSUME store.line = lines, lines \notin lost, newest[lines] # store.n
               PROVE  kept.retired = store
    BY <2>2 DEF Accepted
  <2>3. Live
    BY <1>1 DEF Live, IInv, FreshInv, FreshIn
  <2>4. store # Newest(lines)
    BY DEF Newest
  <2>5. \A u \in Tasks : pc[u] \notin {"answered", "saving"}
    BY <1>1 DEF IInv, LockInv, Locked
  <2>6. kept.login = Newest(lines)
    BY <1>1, <2>3, <2>4, <2>5 DEF IInv, LiveInv
  <2> QED
    BY <1>1, <2>2, <2>3, <2>4, <2>6 DEF IInv, RetiredInv
<1>2. IInv /\ [Next]_vars =>
          [\A t \in Tasks : pc[t] = "judging" /\ pc'[t] = "sending" =>
              \/ Accepted(token'[t]) \/ token'[t].line # lines
              \/ lines \in lost \/ kept.retired = token'[t]]_pc
  BY <1>1 DEF vars
<1> QED
  BY AlwaysIInv, <1>2, PTL DEF Spec, SendsNoSpentLogin

-----------------------------------------------------------------------------
(* A login that profiles share *)

JobRecord ==
    [at : {"idle", "sends", "waits", "renewed", "copies", "carries"},
     target : Profiles \cup {None}, shared : SUBSET Profiles, left : SUBSET Profiles,
     missed : SUBSET Profiles, retired : Nat, renewed : Nat]

SharedTypes == Shared!TypeOK /\ job \in [Carriers -> JobRecord]

\* No profile's login is newer than the last made.
MadeInv == \A a \in Profiles : sharedLogin[a] \in 1..logins

\* Whose login a renewal is about has that login or a newer one, and so has everyone
\* it was shared with; what is carried is newer, and who had it carried is on from it.
JobOK(p) ==
    job[p].at # "idle" =>
        /\ job[p].target \in Profiles /\ sharedLogin[job[p].target] >= job[p].retired
        /\ \A b \in job[p].shared :
              /\ sharedLogin[b] >= job[p].retired
              /\ Shared!SameRegisteredAccount(b, job[p].target)
        /\ job[p].at = "waits" => job[p].renewed \in 1..logins
        /\ job[p].at \in {"copies", "carries"} =>
              job[p].renewed \in 1..logins /\ job[p].renewed > job[p].retired
        /\ job[p].at = "carries" =>
              \A b \in job[p].shared \ (job[p].left \cup job[p].missed) :
                  sharedLogin[b] # job[p].retired

SharedIInv ==
    /\ SharedTypes /\ MadeInv /\ \A p \in Carriers : JobOK(p)
    /\ Shared!SignInsStay /\ Shared!SameAccountOnly

LEMMA NoJobIs ==
    /\ Shared!NoJob \in JobRecord /\ Shared!NoJob.at = "idle"
    /\ Shared!NoJob.left = {} /\ Shared!NoJob.shared = {}
  BY DEF Shared!NoJob, JobRecord

LEMMA SharedInit == Shared!Init => SharedIInv
<1> SUFFICES ASSUME Shared!Init PROVE SharedIInv
  OBVIOUS
<1> USE CarriedAssumption DEF Shared!Init
<1>1. \A p \in Carriers : job[p] = Shared!NoJob
  OBVIOUS
<1>2. SharedTypes
  BY <1>1, NoJobIs DEF SharedTypes, Shared!TypeOK
<1>3. MadeInv
  BY DEF MadeInv
<1>4. \A p \in Carriers : JobOK(p)
  BY <1>1, NoJobIs DEF JobOK
<1>5. QED
  BY <1>2, <1>3, <1>4 DEF SharedIInv, Shared!SignInsStay, Shared!SameAccountOnly

\* Logins only go up, and what no step of its own changes of a renewal stays so.
Onward ==
    /\ \A a \in Profiles : sharedLogin'[a] \in 1..logins' /\ sharedLogin'[a] >= sharedLogin[a]
    /\ logins' \in 0..MaxLogins /\ logins' >= logins

LEMMA JobStays ==
    ASSUME SharedIInv, Onward, NEW p \in Carriers, job'[p] = job[p]
    PROVE  JobOK(p)'
<1>1. /\ job[p] \in JobRecord /\ logins \in Nat /\ logins' \in Nat
      /\ \A a \in Profiles : sharedLogin[a] \in Nat /\ sharedLogin'[a] \in Nat
  BY CarriedAssumption DEF SharedIInv, SharedTypes, Shared!TypeOK, Onward
<1>2. job[p].shared \subseteq Profiles /\ job[p].retired \in Nat /\ job[p].renewed \in Nat
  BY <1>1 DEF JobRecord
<1>3. JobOK(p)
  BY DEF SharedIInv
<1>4. ASSUME job[p].at # "idle"
      PROVE  /\ job[p].target \in Profiles /\ sharedLogin'[job[p].target] >= job[p].retired
             /\ \A b \in job[p].shared :
                   /\ sharedLogin'[b] >= job[p].retired
                   /\ Shared!SameRegisteredAccount(b, job[p].target)
  BY <1>1, <1>2, <1>3, <1>4 DEF JobOK, Onward
<1>5. ASSUME job[p].at = "waits" PROVE job[p].renewed \in 1..logins'
  BY <1>1, <1>2, <1>3, <1>5 DEF JobOK, Onward
<1>6. ASSUME job[p].at \in {"copies", "carries"}
      PROVE  job[p].renewed \in 1..logins' /\ job[p].renewed > job[p].retired
  BY <1>1, <1>2, <1>3, <1>6 DEF JobOK, Onward
<1>7. ASSUME job[p].at = "carries", NEW b \in job[p].shared \ (job[p].left \cup job[p].missed)
      PROVE  sharedLogin'[b] # job[p].retired
  <2>1. sharedLogin[b] >= job[p].retired /\ sharedLogin[b] # job[p].retired /\ b \in Profiles
    BY <1>2, <1>3, <1>7 DEF JobOK
  <2>2. QED
    BY <1>1, <1>2, <2>1 DEF Onward
<1>8. QED
  BY <1>4, <1>5, <1>6, <1>7 DEF JobOK, Shared!SameRegisteredAccount

\* A step that leaves logins where they are goes on.
LEMMA NothingMade ==
    ASSUME SharedIInv, UNCHANGED <<sharedLogin, logins>>
    PROVE  Onward
  BY CarriedAssumption DEF SharedIInv, SharedTypes, MadeInv, Shared!TypeOK, Onward

\* One renewal's own step.
LEMMA JobSteps ==
    ASSUME SharedIInv, Onward, NEW p \in Carriers, NEW l \in JobRecord,
           job' = [job EXCEPT ![p] = l], l.left \subseteq l.shared,
           sharedLogin' \in [Profiles -> 0..MaxLogins],
           sharedLock' \in [Profiles -> Carriers \cup {None}], leased' \subseteq Profiles,
           sharedSpent' \subseteq 1..logins',
           l.at # "idle" =>
               /\ l.target \in Profiles /\ sharedLogin'[l.target] >= l.retired
               /\ \A b \in l.shared :
                     /\ sharedLogin'[b] >= l.retired
                     /\ Shared!SameRegisteredAccount(b, l.target)
               /\ l.at = "waits" => l.renewed \in 1..logins'
               /\ l.at \in {"copies", "carries"} => l.renewed \in 1..logins' /\ l.renewed > l.retired
               /\ l.at = "carries" =>
                     \A b \in l.shared \ (l.left \cup l.missed) : sharedLogin'[b] # l.retired
    PROVE  SharedTypes' /\ MadeInv' /\ \A o \in Carriers : JobOK(o)'
<1>1. job \in [Carriers -> JobRecord]
  BY DEF SharedIInv, SharedTypes
<1>2. \A o \in Carriers : job'[o] = IF o = p THEN l ELSE job[o]
  BY <1>1
<1>3. job' \in [Carriers -> JobRecord]
  BY <1>1
<1>4. MadeInv'
  BY DEF MadeInv, Onward
<1>5. ASSUME NEW o \in Carriers PROVE JobOK(o)'
  <2>1. CASE o = p
    BY <1>2, <2>1 DEF JobOK, Shared!SameRegisteredAccount
  <2>2. CASE o # p
    BY <1>2, <2>2, JobStays
  <2>3. QED
    BY <2>1, <2>2
<1>6. ASSUME NEW o \in Carriers
      PROVE  /\ job'[o].at \in {"idle", "sends", "waits", "renewed", "copies", "carries"}
             /\ job'[o].left \subseteq job'[o].shared
  <2>1. job[o].left \subseteq job[o].shared
    BY DEF SharedIInv, SharedTypes, Shared!TypeOK
  <2>2. QED
    BY <1>2, <1>3, <2>1 DEF JobRecord
<1>7. Shared!TypeOK'
  BY <1>6 DEF Shared!TypeOK, Onward
<1>8. QED
  BY <1>3, <1>4, <1>5, <1>7 DEF SharedTypes

LEMMA SharedStep == SharedIInv /\ [Shared!Next]_(Shared!vars) => SharedIInv'
<1> SUFFICES ASSUME SharedIInv, [Shared!Next]_(Shared!vars) PROVE SharedIInv'
  OBVIOUS
<1> DEFINE Kept == SharedTypes' /\ MadeInv' /\ \A o \in Carriers : JobOK(o)'
           Given == Shared!SignInsStay /\ Shared!SameAccountOnly
<1>0. /\ SharedTypes /\ MadeInv /\ Shared!TypeOK /\ \A p \in Carriers : JobOK(p) /\ job[p] \in JobRecord
      /\ sharedLogin \in [Profiles -> 0..MaxLogins] /\ logins \in 0..MaxLogins /\ MaxLogins \in Nat
      /\ \A a \in Profiles : sharedLogin[a] \in 1..logins
      /\ sharedLock \in [Profiles -> Carriers \cup {None}] /\ leased \subseteq Profiles
      /\ sharedSpent \subseteq 1..logins /\ Given
  BY CarriedAssumption DEF SharedIInv, SharedTypes, MadeInv, Shared!TypeOK
<1>a. UNCHANGED given => Given'
  BY <1>0 DEF Shared!SignInsStay, Shared!SameAccountOnly, Shared!SameRegisteredAccount
<1>b. ASSUME UNCHANGED job, Onward, sharedLogin' \in [Profiles -> 0..MaxLogins],
             UNCHANGED <<sharedSpent, sharedLock>>, leased' \subseteq Profiles
      PROVE  Kept
  <2>1. \A o \in Carriers : JobOK(o)'
    BY <1>b, JobStays
  <2>2. sharedSpent' \subseteq 1..logins'
    BY <1>0, <1>b DEF Onward
  <2>3. Shared!TypeOK'
    BY <1>0, <1>b, <2>2 DEF Shared!TypeOK, Onward
  <2>4. QED
    BY <1>0, <1>b, <2>1, <2>3 DEF SharedTypes, MadeInv, Onward
<1>1. ASSUME NEW a \in Profiles, Shared!SignsIn(a) PROVE SharedIInv'
  <2>1. /\ logins' = logins + 1 /\ logins < MaxLogins
        /\ sharedLogin' = [sharedLogin EXCEPT ![a] = logins + 1]
        /\ UNCHANGED <<sharedSpent, sharedLock, leased, job, given>>
    BY <1>1 DEF Shared!SignsIn
  <2>2. Onward /\ sharedLogin' \in [Profiles -> 0..MaxLogins]
    BY <1>0, <2>1 DEF Onward
  <2>3. QED
    BY <1>0, <1>a, <1>b, <2>1, <2>2 DEF SharedIInv
<1>2. ASSUME NEW a \in Profiles, Shared!SessionStarts(a) \/ Shared!SessionEnds(a) PROVE SharedIInv'
  <2>1. UNCHANGED <<sharedLogin, sharedSpent, logins, sharedLock, job, given>>
    BY <1>2 DEF Shared!SessionStarts, Shared!SessionEnds
  <2>2. leased' \subseteq Profiles
    BY <1>0, <1>2 DEF Shared!SessionStarts, Shared!SessionEnds
  <2>3. Onward
    BY <2>1, NothingMade
  <2>4. QED
    BY <1>0, <1>a, <1>b, <2>1, <2>2, <2>3 DEF SharedIInv
<1>3. ASSUME NEW p \in Carriers, NEW l \in JobRecord, job' = [job EXCEPT ![p] = l], l.at = "idle",
             l.left \subseteq l.shared, UNCHANGED <<sharedLogin, sharedSpent, logins, sharedLock, leased, given>>
      PROVE  SharedIInv'
  <2>1. Onward
    BY <1>3, NothingMade
  <2>2. Kept
    BY <1>0, <1>3, <2>1, JobSteps
  <2>3. QED
    BY <1>3, <1>a, <2>2 DEF SharedIInv
<1>4. ASSUME NEW p \in Carriers, NEW a \in Profiles, Shared!RenewIdleLogin(p, a) PROVE SharedIInv'
  <2> DEFINE none == Shared!NoJob
             l == [none EXCEPT !.at = "sends", !.target = a,
                               !.shared = Shared!CarryTargets(a), !.retired = sharedLogin[a]]
  <2>1. Shared!CarryTargets(a) \subseteq Profiles
    BY DEF Shared!CarryTargets, Shared!RenewalWouldBreakOthers
  <2>2. \A b \in Shared!CarryTargets(a) :
            sharedLogin[b] = sharedLogin[a] /\ Shared!SameRegisteredAccount(b, a)
    BY DEF Shared!CarryTargets, Shared!RenewalWouldBreakOthers, Shared!SameRegisteredAccount
  <2>3. /\ l \in JobRecord /\ l.at = "sends" /\ l.target = a /\ l.left = {}
        /\ l.shared = Shared!CarryTargets(a) /\ l.retired = sharedLogin[a]
    <3>1. none \in JobRecord /\ none.left = {} /\ sharedLogin[a] \in Nat
      BY <1>0, NoJobIs
    <3> HIDE DEF none
    <3>2. QED
      BY <2>1, <3>1 DEF JobRecord
  <2>4. /\ job' = [job EXCEPT ![p] = l]
        /\ UNCHANGED <<sharedLogin, sharedSpent, logins, sharedLock, leased, given>>
    BY <1>4 DEF Shared!RenewIdleLogin, Shared!Step
  <2> HIDE DEF l
  <2>5. Onward
    BY <2>4, NothingMade
  <2>6. sharedLogin[a] >= l.retired /\ \A b \in l.shared : sharedLogin[b] >= l.retired
    BY <1>0, <2>2, <2>3
  <2>7. Kept
    BY <1>0, <2>2, <2>3, <2>4, <2>5, <2>6, JobSteps
  <2>8. QED
    BY <1>a, <2>4, <2>7 DEF SharedIInv
<1>5. ASSUME NEW p \in Carriers, Shared!Sends(p) PROVE SharedIInv'
  <2> DEFINE a == job[p].target
             l == [job[p] EXCEPT !.at = "waits", !.renewed = sharedLogin[a]]
  <2>1. /\ job[p].at = "sends" /\ UNCHANGED <<sharedLogin, sharedSpent, logins, leased, given>>
        /\ \/ sharedLock' = [sharedLock EXCEPT ![a] = p] /\ job' = [job EXCEPT ![p] = l]
           \/ UNCHANGED sharedLock /\ job' = [job EXCEPT ![p] = Shared!NoJob]
    BY <1>5 DEF Shared!Sends, Shared!Step
  <2>2. JobOK(p) /\ a \in Profiles /\ sharedLogin[a] \in Nat
    BY <1>0, <2>1 DEF JobOK
  <2>3. /\ l \in JobRecord /\ l.at = "waits" /\ l.target = job[p].target /\ l.left = job[p].left
        /\ l.shared = job[p].shared /\ l.retired = job[p].retired /\ l.renewed = sharedLogin[a]
    BY <1>0, <2>2 DEF JobRecord
  <2>4. job[p].left \subseteq job[p].shared
    BY <1>0 DEF Shared!TypeOK
  <2> HIDE DEF l
  <2>5. Onward
    BY <2>1, NothingMade
  <2>6. CASE sharedLock' = [sharedLock EXCEPT ![a] = p] /\ job' = [job EXCEPT ![p] = l]
    <3>1. sharedLock' \in [Profiles -> Carriers \cup {None}]
      BY <1>0, <2>6
    <3>2. /\ sharedLogin[l.target] >= l.retired /\ l.target \in Profiles
          /\ \A b \in l.shared : sharedLogin[b] >= l.retired /\ Shared!SameRegisteredAccount(b, l.target)
          /\ l.renewed \in 1..logins
      BY <1>0, <2>1, <2>2, <2>3 DEF JobOK
    <3>3. Kept
      BY <1>0, <2>1, <2>3, <2>4, <2>5, <2>6, <3>1, <3>2, JobSteps
    <3>4. QED
      BY <1>a, <2>1, <3>3 DEF SharedIInv
  <2>7. CASE UNCHANGED sharedLock /\ job' = [job EXCEPT ![p] = Shared!NoJob]
    BY <1>3, <2>1, <2>7, NoJobIs
  <2>8. QED
    BY <2>1, <2>6, <2>7
<1>6. ASSUME NEW p \in Carriers, Shared!Answered(p) PROVE SharedIInv'
  <2> DEFINE a == job[p].target
             sent == job[p].renewed
             l == [job[p] EXCEPT !.at = "renewed", !.renewed = 0]
  <2>1. /\ job[p].at = "waits" /\ sharedLock' = [sharedLock EXCEPT ![a] = None]
        /\ job' = [job EXCEPT ![p] = l] /\ UNCHANGED <<leased, given>>
        /\ \/ UNCHANGED <<sharedLogin, sharedSpent, logins>>
           \/ /\ logins # MaxLogins /\ logins' = logins + 1 /\ sharedSpent' = sharedSpent \cup {sent}
              /\ \/ sharedLogin' = [sharedLogin EXCEPT ![a] = logins + 1]
                 \/ sharedLogin' = sharedLogin
    BY <1>6 DEF Shared!Answered, Shared!Step
  <2>2. JobOK(p) /\ a \in Profiles /\ sent \in 1..logins
    BY <1>0, <2>1 DEF JobOK
  <2>3. /\ l \in JobRecord /\ l.at = "renewed" /\ l.target = job[p].target /\ l.left = job[p].left
        /\ l.shared = job[p].shared /\ l.retired = job[p].retired
    BY <1>0 DEF JobRecord
  <2>4. job[p].left \subseteq job[p].shared /\ job[p].shared \subseteq Profiles /\ job[p].retired \in Nat
    BY <1>0 DEF Shared!TypeOK, JobRecord
  <2> HIDE DEF l
  <2>5. Onward /\ sharedLogin' \in [Profiles -> 0..MaxLogins] /\ sharedSpent' \subseteq 1..logins'
    <3>1. CASE UNCHANGED <<sharedLogin, sharedSpent, logins>>
      BY <1>0, <3>1, NothingMade
    <3>2. CASE /\ logins # MaxLogins /\ logins' = logins + 1 /\ sharedSpent' = sharedSpent \cup {sent}
               /\ \/ sharedLogin' = [sharedLogin EXCEPT ![a] = logins + 1]
                  \/ sharedLogin' = sharedLogin
      <4>1. sharedSpent' \subseteq 1..logins'
        <5>1. logins \in Nat
          BY <1>0
        <5>2. sharedSpent \subseteq 1..logins /\ sent \in 1..logins
          BY <1>0, <2>2
        <5>3. 1..logins \subseteq 1..logins'
          BY <3>2, <5>1
        <5>4. QED
          BY <3>2, <5>2, <5>3
      <4>2. sharedLogin' \in [Profiles -> 0..MaxLogins]
        BY <1>0, <3>2
      <4>3. Onward
        BY <1>0, <2>2, <3>2 DEF Onward
      <4>4. QED
        BY <4>1, <4>2, <4>3
    <3>3. QED
      BY <2>1, <3>1, <3>2
  <2>6. sharedLock' \in [Profiles -> Carriers \cup {None}]
    BY <1>0, <2>1
  <2>7. /\ l.target \in Profiles /\ sharedLogin'[l.target] >= l.retired
        /\ \A b \in l.shared : sharedLogin'[b] >= l.retired /\ Shared!SameRegisteredAccount(b, l.target)
    <3>1. /\ sharedLogin[a] >= job[p].retired
          /\ \A b \in job[p].shared : /\ sharedLogin[b] >= job[p].retired
                                      /\ Shared!SameRegisteredAccount(b, a)
      BY <2>1, <2>2 DEF JobOK
    <3>2. \A b \in Profiles : sharedLogin[b] \in Nat /\ sharedLogin'[b] \in Nat
      BY <1>0, <2>5
    <3>3. QED
      BY <2>2, <2>3, <2>4, <2>5, <3>1, <3>2 DEF Onward
  <2>8. Kept
    BY <1>0, <2>1, <2>3, <2>4, <2>5, <2>6, <2>7, JobSteps
  <2>9. QED
    BY <1>a, <2>1, <2>8 DEF SharedIInv
<1>7. ASSUME NEW p \in Carriers, Shared!Renewed(p) PROVE SharedIInv'
  <2> DEFINE a == job[p].target
             l == [job[p] EXCEPT !.at = "copies", !.renewed = sharedLogin[a]]
  <2>1. /\ job[p].at = "renewed"
        /\ UNCHANGED <<sharedLogin, sharedSpent, logins, sharedLock, leased, given>>
        /\ \/ job' = [job EXCEPT ![p] = Shared!NoJob]
           \/ sharedLogin[a] \notin {0, job[p].retired} /\ job' = [job EXCEPT ![p] = l]
    BY <1>7 DEF Shared!Renewed, Shared!Step
  <2>2. JobOK(p) /\ a \in Profiles /\ sharedLogin[a] \in Nat /\ job[p].retired \in Nat
    BY <1>0, <2>1 DEF JobOK, JobRecord
  <2>3. /\ l \in JobRecord /\ l.at = "copies" /\ l.target = job[p].target /\ l.left = job[p].left
        /\ l.shared = job[p].shared /\ l.retired = job[p].retired /\ l.renewed = sharedLogin[a]
    BY <1>0, <2>2 DEF JobRecord
  <2>4. job[p].left \subseteq job[p].shared
    BY <1>0 DEF Shared!TypeOK
  <2> HIDE DEF l
  <2>5. Onward
    BY <2>1, NothingMade
  <2>6. CASE sharedLogin[a] \notin {0, job[p].retired} /\ job' = [job EXCEPT ![p] = l]
    <3>1. /\ sharedLogin[l.target] >= l.retired /\ l.target \in Profiles
          /\ \A b \in l.shared : sharedLogin[b] >= l.retired /\ Shared!SameRegisteredAccount(b, l.target)
          /\ l.renewed \in 1..logins /\ l.renewed > l.retired
      BY <1>0, <2>1, <2>2, <2>3, <2>6 DEF JobOK
    <3>2. Kept
      BY <1>0, <2>1, <2>3, <2>4, <2>5, <2>6, <3>1, JobSteps
    <3>3. QED
      BY <1>a, <2>1, <3>2 DEF SharedIInv
  <2>7. CASE job' = [job EXCEPT ![p] = Shared!NoJob]
    BY <1>3, <2>1, <2>7, NoJobIs
  <2>8. QED
    BY <2>1, <2>6, <2>7
<1>8. ASSUME NEW p \in Carriers, Shared!Copies(p) PROVE SharedIInv'
  <2> DEFINE l == [job[p] EXCEPT !.at = "carries", !.left = job[p].shared]
  <2>1. /\ job[p].at = "copies"
        /\ UNCHANGED <<sharedLogin, sharedSpent, logins, sharedLock, leased, given>>
        /\ \/ job' = [job EXCEPT ![p] = Shared!NoJob]
           \/ job' = [job EXCEPT ![p] = l]
    BY <1>8 DEF Shared!Copies, Shared!Step
  <2>2. JobOK(p)
    BY <1>0
  <2>3. /\ l \in JobRecord /\ l.at = "carries" /\ l.target = job[p].target /\ l.left = job[p].shared
        /\ l.shared = job[p].shared /\ l.retired = job[p].retired /\ l.renewed = job[p].renewed
    BY <1>0 DEF JobRecord
  <2> HIDE DEF l
  <2>4. Onward
    BY <2>1, NothingMade
  <2>5. CASE job' = [job EXCEPT ![p] = l]
    <3>1. /\ sharedLogin[l.target] >= l.retired /\ l.target \in Profiles
          /\ \A b \in l.shared : sharedLogin[b] >= l.retired /\ Shared!SameRegisteredAccount(b, l.target)
          /\ l.renewed \in 1..logins /\ l.renewed > l.retired
      BY <2>1, <2>2, <2>3 DEF JobOK
    <3>2. Kept
      BY <1>0, <2>1, <2>3, <2>4, <2>5, <3>1, JobSteps
    <3>3. QED
      BY <1>a, <2>1, <3>2 DEF SharedIInv
  <2>6. CASE job' = [job EXCEPT ![p] = Shared!NoJob]
    BY <1>3, <2>1, <2>6, NoJobIs
  <2>7. QED
    BY <2>1, <2>5, <2>6
<1>9. ASSUME NEW p \in Carriers, Shared!Carries(p) PROVE SharedIInv'
  <2>1. /\ job[p].at = "carries" /\ UNCHANGED <<sharedSpent, logins, sharedLock, leased>>
    BY <1>9 DEF Shared!Carries
  <2>2. /\ JobOK(p) /\ job[p].left \subseteq job[p].shared /\ job[p].shared \subseteq Profiles
        /\ job[p].missed \subseteq Profiles /\ job[p].retired \in Nat /\ job[p].renewed \in Nat
    BY <1>0 DEF Shared!TypeOK, JobRecord
  <2>3. PICK b \in job[p].left :
           \/ /\ sharedLogin[b] = job[p].retired
              /\ sharedLogin' = [sharedLogin EXCEPT ![b] = job[p].renewed]
              /\ given' = given \cup {<<b, job[p].retired, sharedLogin[b], job[p].renewed, job[p].target>>}
              /\ job' = [job EXCEPT ![p] = [job[p] EXCEPT !.left = job[p].left \ {b}]]
           \/ /\ sharedLogin[b] # job[p].retired
              /\ job' = [job EXCEPT ![p] = [job[p] EXCEPT !.left = job[p].left \ {b}]]
              /\ UNCHANGED <<sharedLogin, given>>
           \/ /\ job' = [job EXCEPT ![p] = [job[p] EXCEPT !.left = job[p].left \ {b},
                                                          !.missed = job[p].missed \cup {b}]]
              /\ UNCHANGED <<sharedLogin, given>>
    BY <1>9 DEF Shared!Carries, Shared!Step, Shared!MayGive
  <2>4. PICK missed \in {job[p].missed, job[p].missed \cup {b}} :
           /\ job' = [job EXCEPT ![p] = [job[p] EXCEPT !.left = job[p].left \ {b}, !.missed = missed]]
           /\ b \in missed \/ sharedLogin'[b] # job[p].retired
    <3>1. [job[p] EXCEPT !.left = job[p].left \ {b}] =
              [job[p] EXCEPT !.left = job[p].left \ {b}, !.missed = job[p].missed]
      BY <1>0 DEF JobRecord
    <3>2. b \in Profiles /\ job[p].renewed > job[p].retired
      BY <2>1, <2>2 DEF JobOK
    <3>3. QED
      BY <1>0, <2>2, <2>3, <3>1, <3>2, SMTT(30)
  <2> DEFINE l == [job[p] EXCEPT !.left = job[p].left \ {b}, !.missed = missed]
  <2>5. /\ l \in JobRecord /\ l.at = "carries" /\ l.target = job[p].target /\ l.missed = missed
        /\ l.left = job[p].left \ {b} /\ l.shared = job[p].shared
        /\ l.retired = job[p].retired /\ l.renewed = job[p].renewed
    BY <1>0, <2>1, <2>2, <2>4 DEF JobRecord
  <2>6. job' = [job EXCEPT ![p] = l]
    BY <2>4
  <2> HIDE DEF l
  <2>7. /\ job[p].target \in Profiles /\ sharedLogin[job[p].target] >= job[p].retired
        /\ job[p].renewed \in 1..logins /\ job[p].renewed > job[p].retired /\ b \in Profiles
    BY <2>1, <2>2 DEF JobOK
  <2>8. Onward /\ sharedLogin' \in [Profiles -> 0..MaxLogins]
    <3>1. CASE UNCHANGED sharedLogin
      BY <1>0, <2>1, <3>1, NothingMade
    <3>2. CASE sharedLogin[b] = job[p].retired
               /\ sharedLogin' = [sharedLogin EXCEPT ![b] = job[p].renewed]
      BY <1>0, <2>1, <2>2, <2>7, <3>2 DEF Onward
    <3>3. QED
      BY <2>3, <3>1, <3>2
  <2>9. \A o \in Profiles : sharedLogin[o] \in Nat /\ sharedLogin'[o] \in Nat /\ sharedLogin'[o] >= sharedLogin[o]
    BY <1>0, <2>8 DEF Onward
  <2>10. /\ sharedLogin'[l.target] >= l.retired /\ l.target \in Profiles
         /\ \A o \in l.shared : sharedLogin'[o] >= l.retired /\ Shared!SameRegisteredAccount(o, l.target)
    <3>1. \A o \in job[p].shared : /\ sharedLogin[o] >= job[p].retired
                                   /\ Shared!SameRegisteredAccount(o, job[p].target)
      BY <2>1, <2>2 DEF JobOK
    <3>2. QED
      BY <2>2, <2>5, <2>7, <2>9, <3>1
  <2>11. ASSUME NEW o \in l.shared \ (l.left \cup l.missed) PROVE sharedLogin'[o] # l.retired
    <3>1. CASE o = b
      BY <2>4, <2>5, <3>1
    <3>2. CASE o # b
      <4>1. o \in job[p].shared \ (job[p].left \cup job[p].missed)
        BY <2>4, <2>5, <3>2
      <4>2. sharedLogin[o] # job[p].retired /\ sharedLogin[o] >= job[p].retired /\ o \in Profiles
        BY <2>1, <2>2, <4>1 DEF JobOK
      <4>3. QED
        BY <2>2, <2>5, <2>9, <4>2
    <3>3. QED
      BY <3>1, <3>2
  <2>12. l.left \subseteq l.shared
    BY <2>2, <2>5
  <2>13. Kept
    BY <1>0, <2>1, <2>5, <2>6, <2>7, <2>8, <2>10, <2>11, <2>12, JobSteps
  <2>14. Given'
    <3>1. CASE UNCHANGED given
      BY <1>a, <3>1
    <3>2. CASE /\ sharedLogin[b] = job[p].retired
               /\ given' = given \cup {<<b, job[p].retired, sharedLogin[b], job[p].renewed, job[p].target>>}
      <4>1. Shared!SameRegisteredAccount(b, job[p].target)
        BY <2>1, <2>2 DEF JobOK
      <4>2. QED
        BY <1>0, <3>2, <4>1
           DEF Shared!SignInsStay, Shared!SameAccountOnly, Shared!SameRegisteredAccount
    <3>3. QED
      BY <2>3, <3>1, <3>2
  <2>15. QED
    BY <2>13, <2>14 DEF SharedIInv
<1>10. ASSUME NEW p \in Carriers, Shared!Carried(p) PROVE SharedIInv'
  BY <1>3, <1>10, NoJobIs DEF Shared!Carried, Shared!Step
<1>11. CASE UNCHANGED Shared!vars
  <2>1. UNCHANGED <<sharedLogin, sharedSpent, logins, sharedLock, leased, job, given>>
    BY <1>11 DEF Shared!vars
  <2>2. Onward
    BY <2>1, NothingMade
  <2>3. QED
    BY <1>0, <1>a, <1>b, <2>1, <2>2 DEF SharedIInv
<1>12. QED
  BY <1>1, <1>2, <1>4, <1>5, <1>6, <1>7, <1>8, <1>9, <1>10, <1>11 DEF Shared!Next

-----------------------------------------------------------------------------
(* The usage last read *)

Readings == [at : Nat, read : Nat, none : BOOLEAN]
Snapshots == UNION {[S -> Readings] : S \in SUBSET Measured}
TaskRecord ==
    [at : {"idle", "asks"}, started : Snapshots, ours : Snapshots, stale : SUBSET Measured,
     due : SUBSET Measured, measured : SUBSET Measured, undecided : SUBSET Measured]

UsageTypes ==
    /\ file \in Snapshots /\ registered \in SUBSET Measured /\ now \in 0..MaxTime
    /\ task \in [Tasks -> TaskRecord] /\ everRead \in [Measured -> Nat]

\* What the file and the tasks hold of accounts: when stamped and when read.
Marks(f) == {<<a, f[a].at, f[a].read>> : a \in DOMAIN f}
AllMarks == Marks(file) \cup UNION {Marks(task[o].started) \cup Marks(task[o].ours) : o \in Tasks}

\* An account is stamped once at a time, so what is stamped alike was read alike.
MarksOK(S) ==
    /\ \A k \in S : k[3] <= k[2] /\ k[2] <= now
    /\ \A k, l \in S : k[1] = l[1] /\ k[2] = l[2] => k[3] = l[3]

\* What a task has read is later than what it started from, and what it has not read
\* is as it was.
TaskOK(o) ==
    /\ DOMAIN task[o].started \subseteq DOMAIN task[o].ours
    /\ task[o].measured \cap task[o].due = {} /\ task[o].undecided \subseteq task[o].measured
    /\ task[o].measured \subseteq DOMAIN task[o].ours
    /\ task[o].stale \ task[o].due \subseteq DOMAIN task[o].ours
    /\ \A a \in task[o].measured :
          /\ task[o].ours[a].read = task[o].ours[a].at
          /\ a \in DOMAIN task[o].started => task[o].started[a].at <= task[o].ours[a].read
    /\ \A a \in DOMAIN task[o].started \ task[o].measured :
          task[o].ours[a].read = task[o].started[a].read

NoneOlder ==
    \A a \in Measured : IF a \in DOMAIN file THEN file[a].read >= everRead[a] ELSE everRead[a] = 0

UsageIInv == UsageTypes /\ MarksOK(AllMarks) /\ NoneOlder /\ \A o \in Tasks : TaskOK(o)

LEMMA ASnapshot ==
    ASSUME NEW f \in Snapshots
    PROVE  /\ DOMAIN f \subseteq Measured /\ f = [a \in DOMAIN f |-> f[a]]
           /\ \A a \in DOMAIN f : /\ f[a] \in Readings /\ f[a].at \in Nat /\ f[a].read \in Nat
  BY DEF Snapshots, Readings

LEMMA SnapshotIs ==
    ASSUME NEW f, NEW S \in SUBSET Measured, f = [a \in S |-> f[a]], \A a \in S : f[a] \in Readings
    PROVE  f \in Snapshots /\ DOMAIN f = S
<1>1. f \in [S -> Readings]
  OBVIOUS
<1>2. QED
  BY <1>1 DEF Snapshots

LEMMA ATask ==
    ASSUME NEW l \in TaskRecord
    PROVE  /\ l.started \in Snapshots /\ l.ours \in Snapshots /\ l.stale \subseteq Measured
           /\ l.due \subseteq Measured /\ l.measured \subseteq Measured
           /\ l.undecided \subseteq Measured
  BY DEF TaskRecord

LEMMA NoTaskIs ==
    /\ Usage!NoTask \in TaskRecord
    /\ DOMAIN Usage!NoTask.started = {} /\ DOMAIN Usage!NoTask.ours = {}
    /\ Usage!NoTask.stale = {} /\ Usage!NoTask.due = {} /\ Usage!NoTask.measured = {}
    /\ Usage!NoTask.undecided = {}
<1>1. DOMAIN <<>> = {} /\ <<>> = [a \in {} |-> <<>>[a]]
  OBVIOUS
<1>2. <<>> \in Snapshots
  BY <1>1, SnapshotIs
<1>3. QED
  BY <1>1, <1>2 DEF Usage!NoTask, TaskRecord

LEMMA UsageInit == Usage!Init => UsageIInv
<1> SUFFICES ASSUME Usage!Init PROVE UsageIInv
  OBVIOUS
<1>1. PICK known \in SUBSET Measured, none \in BOOLEAN :
         file = [a \in known |-> Usage!Entry(0, 0, none)]
  BY DEF Usage!Init
<1>2. \A a \in known : file[a] \in Readings /\ file[a].at = 0 /\ file[a].read = 0
  BY <1>1 DEF Usage!Entry, Readings
<1>3. file \in Snapshots /\ DOMAIN file = known
  BY <1>1, <1>2, SnapshotIs
<1>4. \A o \in Tasks : task[o] = Usage!NoTask
  BY DEF Usage!Init
<1>5. UsageTypes
  BY <1>3, NoTaskIs, CarriedAssumption DEF Usage!Init, UsageTypes
<1>6. \A k \in AllMarks : k[2] = 0 /\ k[3] = 0
  BY <1>2, <1>3, <1>4, NoTaskIs DEF AllMarks, Marks
<1>7. MarksOK(AllMarks)
  BY <1>6 DEF MarksOK, Usage!Init
<1>8. NoneOlder
  BY <1>2, <1>3 DEF NoneOlder, Usage!Init
<1>9. \A o \in Tasks : TaskOK(o)
  BY <1>4, NoTaskIs DEF TaskOK
<1>10. QED
  BY <1>5, <1>7, <1>8, <1>9 DEF UsageIInv

\* A step of one task.
LEMMA TaskSteps ==
    ASSUME UsageTypes, \A o \in Tasks : TaskOK(o), NEW o \in Tasks, NEW l \in TaskRecord,
           task' = [task EXCEPT ![o] = l],
           /\ DOMAIN l.started \subseteq DOMAIN l.ours
           /\ l.measured \cap l.due = {} /\ l.undecided \subseteq l.measured
           /\ l.measured \subseteq DOMAIN l.ours
           /\ l.stale \ l.due \subseteq DOMAIN l.ours
           /\ \A a \in l.measured :
                 /\ l.ours[a].read = l.ours[a].at
                 /\ a \in DOMAIN l.started => l.started[a].at <= l.ours[a].read
           /\ \A a \in DOMAIN l.started \ l.measured : l.ours[a].read = l.started[a].read
    PROVE  /\ task' \in [Tasks -> TaskRecord] /\ (\A k \in Tasks : TaskOK(k)')
           /\ UNION {Marks(task'[k].started) \cup Marks(task'[k].ours) : k \in Tasks} \subseteq
                  (UNION {Marks(task[k].started) \cup Marks(task[k].ours) : k \in Tasks})
                  \cup Marks(l.started) \cup Marks(l.ours)
<1>1. task \in [Tasks -> TaskRecord]
  BY DEF UsageTypes
<1>2. \A k \in Tasks : task'[k] = IF k = o THEN l ELSE task[k]
  BY <1>1
<1>3. task' \in [Tasks -> TaskRecord]
  BY <1>1
<1>4. ASSUME NEW k \in Tasks PROVE TaskOK(k)'
  <2>1. CASE k = o
    BY <1>2, <2>1 DEF TaskOK
  <2>2. CASE k # o
    BY <1>2, <2>2 DEF TaskOK
  <2>3. QED
    BY <2>1, <2>2
<1> DEFINE old(k) == Marks(task[k].started) \cup Marks(task[k].ours)
           new(k) == Marks(task'[k].started) \cup Marks(task'[k].ours)
           its == Marks(l.started) \cup Marks(l.ours)
<1>5. \A k \in Tasks : new(k) \subseteq old(k) \cup its
  BY <1>2
<1>6. UNION {new(k) : k \in Tasks} \subseteq (UNION {old(k) : k \in Tasks}) \cup its
  <2> HIDE DEF old, new, its
  <2>1. ASSUME NEW k \in Tasks, NEW z \in new(k), z \notin its
        PROVE  z \in UNION {old(i) : i \in Tasks}
    <3>1. z \in old(k)
      BY <1>5, <2>1
    <3>2. QED
      BY <3>1
  <2>2. QED
    BY <2>1
<1>7. QED
  BY <1>3, <1>4, <1>6

\* A stamp of now is a new one.
LEMMA NewMark ==
    ASSUME UsageTypes, MarksOK(AllMarks), now' \in Nat, now' > now, NEW k, k[2] = now', k[3] <= now',
           AllMarks' \subseteq AllMarks \cup {k}
    PROVE  MarksOK(AllMarks)'
<1>1. \A l \in AllMarks : l[2] \in Nat /\ l[3] \in Nat /\ l[2] <= now
  <2>1. \A f \in Snapshots : \A l \in Marks(f) : l[2] \in Nat /\ l[3] \in Nat
    BY ASnapshot DEF Marks
  <2>2. \A o \in Tasks : task[o].started \in Snapshots /\ task[o].ours \in Snapshots
    BY ATask DEF UsageTypes
  <2>3. file \in Snapshots
    BY DEF UsageTypes
  <2>4. QED
    BY <2>1, <2>2, <2>3 DEF AllMarks, MarksOK
<1>2. now \in Nat
  BY CarriedAssumption DEF UsageTypes
<1>3. \A l \in AllMarks' : l[3] <= l[2] /\ l[2] <= now'
  BY <1>1, <1>2 DEF MarksOK
<1>4. ASSUME NEW l1 \in AllMarks', NEW l2 \in AllMarks', l1[1] = l2[1], l1[2] = l2[2]
      PROVE  l1[3] = l2[3]
  <2>1. CASE l1 = k \/ l2 = k
    BY <1>1, <1>2, <1>4, <2>1
  <2>2. CASE l1 # k /\ l2 # k
    BY <1>4, <2>2 DEF MarksOK
  <2>3. QED
    BY <2>1, <2>2
<1>5. QED
  BY <1>3, <1>4 DEF MarksOK

\* What is stamped and read as before is as good.
LEMMA OldMarks ==
    ASSUME MarksOK(AllMarks), UNCHANGED now, AllMarks' \subseteq AllMarks
    PROVE  MarksOK(AllMarks)'
  BY DEF MarksOK

LEMMA MarksType ==
    ASSUME UsageTypes
    PROVE  /\ file \in Snapshots /\ Marks(file) \subseteq AllMarks
           /\ \A o \in Tasks :
                 /\ task[o] \in TaskRecord
                 /\ task[o].started \in Snapshots /\ Marks(task[o].started) \subseteq AllMarks
                 /\ task[o].ours \in Snapshots /\ Marks(task[o].ours) \subseteq AllMarks
<1>1. \A o \in Tasks : task[o] \in TaskRecord
  BY DEF UsageTypes
<1>2. QED
  BY <1>1, ATask DEF UsageTypes, AllMarks

LEMMA MarkedOK ==
    ASSUME UsageTypes, MarksOK(AllMarks), NEW f \in Snapshots, Marks(f) \subseteq AllMarks,
           NEW a \in DOMAIN f
    PROVE  f[a].read <= f[a].at /\ f[a].at <= now
<1>1. <<a, f[a].at, f[a].read>> \in AllMarks
  BY DEF Marks
<1>2. QED
  BY <1>1 DEF MarksOK

\* A task over, with the file as it is or as the task wrote it.
LEMMA TaskOver ==
    ASSUME UsageIInv, NEW o \in Tasks, task' = [task EXCEPT ![o] = Usage!NoTask]
    PROVE  /\ task' \in [Tasks -> TaskRecord] /\ (\A k \in Tasks : TaskOK(k)')
           /\ Marks(file') \subseteq AllMarks => AllMarks' \subseteq AllMarks
<1>1. PICK l \in TaskRecord : l = Usage!NoTask
  BY NoTaskIs
<1>2. /\ DOMAIN l.started = {} /\ DOMAIN l.ours = {} /\ l.stale = {} /\ l.due = {}
      /\ l.measured = {} /\ l.undecided = {}
  BY <1>1, NoTaskIs
<1>3. Marks(l.started) = {} /\ Marks(l.ours) = {}
  BY <1>2 DEF Marks
<1>4. UsageTypes /\ (\A k \in Tasks : TaskOK(k)) /\ task' = [task EXCEPT ![o] = l]
  BY <1>1 DEF UsageIInv
<1>5. /\ task' \in [Tasks -> TaskRecord] /\ (\A k \in Tasks : TaskOK(k)')
      /\ UNION {Marks(task'[k].started) \cup Marks(task'[k].ours) : k \in Tasks} \subseteq
             (UNION {Marks(task[k].started) \cup Marks(task[k].ours) : k \in Tasks})
             \cup Marks(l.started) \cup Marks(l.ours)
  BY <1>2, <1>4, TaskSteps
<1>6. QED
  BY <1>3, <1>5 DEF AllMarks, Marks

LEMMA UsageStep == UsageIInv /\ [Usage!Next]_(Usage!vars) => UsageIInv'
<1> SUFFICES ASSUME UsageIInv, [Usage!Next]_(Usage!vars) PROVE UsageIInv'
  OBVIOUS
<1>0. /\ UsageTypes /\ MarksOK(AllMarks) /\ NoneOlder /\ \A o \in Tasks : TaskOK(o)
      /\ MaxTime \in Nat /\ now \in Nat /\ now \in 0..MaxTime
  BY CarriedAssumption DEF UsageIInv, UsageTypes
<1>1. ASSUME NEW a \in Measured, Usage!ForgetUsage(a) PROVE UsageIInv'
  <2>1. /\ registered' \in SUBSET Measured /\ UNCHANGED <<now, task>>
        /\ everRead' = [everRead EXCEPT ![a] = 0]
        /\ file' = [b \in DOMAIN file \ {a} |-> file[b]]
    BY <1>0, <1>1 DEF Usage!ForgetUsage, Usage!Without, Usage!Restrict, UsageTypes
  <2>2. file \in Snapshots
    BY <1>0 DEF UsageTypes
  <2>3. file' \in Snapshots /\ DOMAIN file' = DOMAIN file \ {a}
    <3> DEFINE S == DOMAIN file \ {a}
    <3>1. S \in SUBSET Measured /\ \A b \in S : file'[b] = file[b] /\ file[b] \in Readings
      BY <2>1, <2>2, ASnapshot
    <3>2. file' = [b \in S |-> file'[b]]
      BY <2>1
    <3> HIDE DEF S
    <3>3. file' \in Snapshots /\ DOMAIN file' = S
      BY <3>1, <3>2, SnapshotIs
    <3>4. QED
      BY <3>3 DEF S
  <2>4. AllMarks' \subseteq AllMarks
    BY <2>1, <2>3 DEF AllMarks, Marks
  <2>5. MarksOK(AllMarks)'
    BY <1>0, <2>1, <2>4, OldMarks
  <2>6. NoneOlder'
    BY <1>0, <2>1, <2>3 DEF NoneOlder, UsageTypes
  <2>7. \A o \in Tasks : TaskOK(o)'
    BY <1>0, <2>1 DEF TaskOK
  <2>8. QED
    BY <1>0, <2>1, <2>3, <2>5, <2>6, <2>7 DEF UsageIInv, UsageTypes
<1>2. ASSUME NEW a \in Measured, Usage!Added(a) PROVE UsageIInv'
  <2>1. registered' \in SUBSET Measured /\ UNCHANGED <<file, now, task, everRead>>
    BY <1>0, <1>2 DEF Usage!Added, UsageTypes
  <2>2. QED
    BY <1>0, <2>1 DEF UsageIInv, UsageTypes, NoneOlder, TaskOK, MarksOK, AllMarks, Marks
<1>3. ASSUME NEW o \in Tasks, Usage!RefreshUsage(o) PROVE UsageIInv'
  <2> DEFINE none == Usage!NoTask
             due == Usage!Due(file)
             l == [none EXCEPT !.at = "asks", !.started = file, !.ours = file, !.stale = due,
                               !.due = due]
  <2>1. task' = [task EXCEPT ![o] = l] /\ UNCHANGED <<file, registered, now, everRead>>
    BY <1>3 DEF Usage!RefreshUsage
  <2>2. /\ none \in TaskRecord /\ none.measured = {} /\ none.undecided = {}
        /\ due \subseteq Measured /\ file \in Snapshots
    BY <1>0, NoTaskIs DEF Usage!Due, UsageTypes
  <2> HIDE DEF none, due
  <2>3. /\ l \in TaskRecord /\ l.started = file /\ l.ours = file /\ l.stale = due /\ l.due = due
        /\ l.measured = {} /\ l.undecided = {}
    BY <2>2 DEF TaskRecord
  <2> HIDE DEF l
  <2>4. /\ task' \in [Tasks -> TaskRecord] /\ (\A k \in Tasks : TaskOK(k)')
        /\ UNION {Marks(task'[k].started) \cup Marks(task'[k].ours) : k \in Tasks} \subseteq
               (UNION {Marks(task[k].started) \cup Marks(task[k].ours) : k \in Tasks})
               \cup Marks(l.started) \cup Marks(l.ours)
    BY <1>0, <2>1, <2>3, TaskSteps
  <2>5. AllMarks' \subseteq AllMarks
    BY <2>1, <2>3, <2>4 DEF AllMarks, Marks
  <2>6. MarksOK(AllMarks)'
    BY <1>0, <2>1, <2>5, OldMarks
  <2>7. NoneOlder'
    BY <1>0, <2>1 DEF NoneOlder
  <2>8. QED
    BY <1>0, <2>1, <2>4, <2>6, <2>7 DEF UsageIInv, UsageTypes
<1>4. ASSUME NEW o \in Tasks, NEW a \in task[o].due, NEW e \in Readings, NEW l \in TaskRecord,
             NEW ours, now' = now + 1, now < MaxTime, UNCHANGED <<file, registered, everRead>>,
             task' = [task EXCEPT ![o] = l], e.at = now', e.read <= now',
             ours = Usage!With(task[o].ours, a, e), l.ours = ours,
             l.started = task[o].started, l.stale = task[o].stale, l.due = task[o].due \ {a},
             \/ l.measured = task[o].measured \cup {a} /\ e.read = now'
             \/ /\ l.measured = task[o].measured
                /\ a \in DOMAIN task[o].ours => e.read = task[o].ours[a].read,
             l.undecided \subseteq l.measured
      PROVE  UsageIInv'
  <2>1. /\ TaskOK(o) /\ task[o].started \in Snapshots /\ task[o].ours \in Snapshots
        /\ Marks(task[o].started) \subseteq AllMarks /\ Marks(task[o].ours) \subseteq AllMarks
    BY <1>0, MarksType
  <2>2. /\ DOMAIN ours = DOMAIN task[o].ours \cup {a} /\ ours[a] = e
        /\ \A b \in DOMAIN task[o].ours \ {a} : ours[b] = task[o].ours[b]
    BY <1>4 DEF Usage!With
  <2>3. \A b \in DOMAIN task[o].started : task[o].started[b].at \in Nat /\ task[o].started[b].at <= now
    BY <1>0, <2>1, ASnapshot, MarkedOK
  <2>4. /\ DOMAIN l.started \subseteq DOMAIN l.ours
        /\ l.measured \cap l.due = {} /\ l.undecided \subseteq l.measured
        /\ l.measured \subseteq DOMAIN l.ours
        /\ l.stale \ l.due \subseteq DOMAIN l.ours
    BY <1>4, <2>1, <2>2 DEF TaskOK
  <2>5. ASSUME NEW b \in l.measured
        PROVE  /\ l.ours[b].read = l.ours[b].at
               /\ b \in DOMAIN l.started => l.started[b].at <= l.ours[b].read
    <3>1. CASE b = a
      <4>1. a \notin task[o].measured
        BY <2>1 DEF TaskOK
      <4>2. e.read = now' /\ l.ours[b] = e
        BY <1>4, <2>2, <2>5, <3>1, <4>1
      <4>3. QED
        BY <1>0, <1>4, <2>3, <3>1, <4>2
    <3>2. CASE b # a
      <4>1. b \in task[o].measured /\ b \in DOMAIN task[o].ours
        BY <1>4, <2>1, <2>5, <3>2 DEF TaskOK
      <4>2. QED
        BY <1>4, <2>1, <2>2, <3>2, <4>1 DEF TaskOK
    <3>3. QED
      BY <3>1, <3>2
  <2>6. ASSUME NEW b \in DOMAIN l.started \ l.measured PROVE l.ours[b].read = l.started[b].read
    <3>1. b \in DOMAIN task[o].started \ task[o].measured /\ b \in DOMAIN task[o].ours
      BY <1>4, <2>1, <2>6 DEF TaskOK
    <3>2. task[o].ours[b].read = task[o].started[b].read
      BY <2>1, <3>1 DEF TaskOK
    <3>3. CASE b = a
      BY <1>4, <2>2, <2>6, <3>1, <3>2, <3>3
    <3>4. CASE b # a
      BY <1>4, <2>2, <3>1, <3>2, <3>4
    <3>5. QED
      BY <3>3, <3>4
  <2>7. /\ task' \in [Tasks -> TaskRecord] /\ (\A k \in Tasks : TaskOK(k)')
        /\ UNION {Marks(task'[k].started) \cup Marks(task'[k].ours) : k \in Tasks} \subseteq
               (UNION {Marks(task[k].started) \cup Marks(task[k].ours) : k \in Tasks})
               \cup Marks(l.started) \cup Marks(l.ours)
    BY <1>0, <1>4, <2>4, <2>5, <2>6, TaskSteps
  <2>8. Marks(l.ours) \subseteq Marks(task[o].ours) \cup {<<a, e.at, e.read>>}
    BY <1>4, <2>2 DEF Marks
  <2>9. AllMarks' \subseteq AllMarks \cup {<<a, e.at, e.read>>}
    BY <1>4, <2>1, <2>7, <2>8 DEF AllMarks, Marks
  <2>10. PICK k : k = <<a, e.at, e.read>>
    OBVIOUS
  <2>11. k[2] = now' /\ k[3] <= now' /\ now' \in Nat /\ now' > now
    BY <1>0, <1>4, <2>10
  <2>12. MarksOK(AllMarks)'
    BY <1>0, <2>9, <2>10, <2>11, NewMark
  <2>13. NoneOlder'
    BY <1>0, <1>4 DEF NoneOlder
  <2>14. now' \in 0..MaxTime
    BY <1>0, <1>4
  <2>15. QED
    BY <1>0, <1>4, <2>7, <2>12, <2>13, <2>14 DEF UsageIInv, UsageTypes
<1>5. ASSUME NEW o \in Tasks, NEW a \in Measured, Usage!Measures(o, a) PROVE UsageIInv'
  <2>1. PICK none \in BOOLEAN, told \in BOOLEAN :
           task' = [task EXCEPT ![o] =
             [task[o] EXCEPT !.ours = Usage!With(task[o].ours, a, Usage!Entry(now', now', none)),
                             !.due = task[o].due \ {a}, !.measured = task[o].measured \cup {a},
                             !.undecided = IF told THEN task[o].undecided
                                           ELSE task[o].undecided \cup {a}]]
    BY <1>5 DEF Usage!Measures
  <2>2. /\ now' = now + 1 /\ now < MaxTime /\ a \in task[o].due
        /\ UNCHANGED <<file, registered, everRead>>
    BY <1>5 DEF Usage!Measures
  <2>3. PICK e : e = Usage!Entry(now', now', none)
    OBVIOUS
  <2>4. e \in Readings /\ e.at = now' /\ e.read = now'
    BY <1>0, <2>2, <2>3 DEF Usage!Entry, Readings
  <2>5. PICK ours : ours = Usage!With(task[o].ours, a, e)
    OBVIOUS
  <2>6. ours \in Snapshots
    BY <1>0, <2>4, <2>5, MarksType, ASnapshot, SnapshotIs DEF Usage!With
  <2> DEFINE undecided == IF told THEN task[o].undecided ELSE task[o].undecided \cup {a}
             l == [task[o] EXCEPT !.ours = ours, !.due = task[o].due \ {a},
                                  !.measured = task[o].measured \cup {a}, !.undecided = undecided]
  <2>7. /\ task[o] \in TaskRecord /\ task[o].undecided \subseteq task[o].measured
        /\ task[o].measured \subseteq Measured /\ task[o].due \subseteq Measured
    BY <1>0, MarksType, ATask DEF TaskOK
  <2>8. undecided \subseteq task[o].measured \cup {a}
    BY <2>7
  <2>9. task' = [task EXCEPT ![o] = l]
    BY <2>1, <2>3, <2>5
  <2> HIDE DEF undecided
  <2>10. /\ l \in TaskRecord /\ l.ours = ours /\ l.started = task[o].started
         /\ l.stale = task[o].stale /\ l.due = task[o].due \ {a}
         /\ l.measured = task[o].measured \cup {a} /\ l.undecided = undecided
    BY <2>6, <2>7, <2>8 DEF TaskRecord
  <2> HIDE DEF l
  <2>11. e.read <= now'
    BY <1>0, <2>2, <2>4
  <2>12. QED
    BY <1>4, <2>2, <2>4, <2>5, <2>8, <2>9, <2>10, <2>11
<1>6. ASSUME NEW o \in Tasks, NEW a \in Measured, Usage!Misses(o, a) PROVE UsageIInv'
  <2>1. PICK e : e = IF Usage!Has(task[o].ours, a) THEN [task[o].ours[a] EXCEPT !.at = now']
                     ELSE Usage!Entry(now', 0, FALSE)
    OBVIOUS
  <2>2. /\ now' = now + 1 /\ now < MaxTime /\ a \in task[o].due
        /\ UNCHANGED <<file, registered, everRead>>
    BY <1>6 DEF Usage!Misses
  <2>a. task' = [task EXCEPT ![o] = [task[o] EXCEPT !.ours = Usage!With(task[o].ours, a, e),
                                                    !.due = task[o].due \ {a}]]
    BY <1>6, <2>1 DEF Usage!Misses
  <2>3. /\ task[o] \in TaskRecord /\ task[o].ours \in Snapshots
        /\ Marks(task[o].ours) \subseteq AllMarks
        /\ task[o].undecided \subseteq task[o].measured /\ task[o].due \subseteq Measured
    BY <1>0, MarksType, ATask DEF TaskOK
  <2>4. /\ e \in Readings /\ e.at = now' /\ e.read <= now'
        /\ a \in DOMAIN task[o].ours => e.read = task[o].ours[a].read
    <3>1. CASE a \in DOMAIN task[o].ours
      <4>1. task[o].ours[a] \in Readings
        BY <2>3, <3>1, ASnapshot
      <4>2. e = [task[o].ours[a] EXCEPT !.at = now']
        BY <2>1, <3>1 DEF Usage!Has
      <4>3. /\ e.at = now' /\ e.read = task[o].ours[a].read /\ e.read \in Nat
            /\ e \in Readings
        BY <1>0, <2>2, <4>1, <4>2 DEF Readings
      <4>4. task[o].ours[a].read <= task[o].ours[a].at /\ task[o].ours[a].at <= now
        BY <1>0, <2>3, <3>1, MarkedOK
      <4>5. task[o].ours[a].at \in Nat
        BY <4>1 DEF Readings
      <4>6. QED
        BY <1>0, <2>2, <4>3, <4>4, <4>5
    <3>2. CASE a \notin DOMAIN task[o].ours
      BY <1>0, <2>1, <2>2, <3>2 DEF Usage!Has, Usage!Entry, Readings
    <3>3. QED
      BY <3>1, <3>2
  <2>5. PICK ours : ours = Usage!With(task[o].ours, a, e)
    OBVIOUS
  <2>6. ours \in Snapshots
    BY <2>3, <2>4, <2>5, ASnapshot, SnapshotIs DEF Usage!With
  <2> DEFINE l == [task[o] EXCEPT !.ours = ours, !.due = task[o].due \ {a}]
  <2>7. task' = [task EXCEPT ![o] = l]
    BY <2>5, <2>a, Zenon
  <2>8. /\ l \in TaskRecord /\ l.ours = ours /\ l.started = task[o].started
        /\ l.stale = task[o].stale /\ l.due = task[o].due \ {a}
        /\ l.measured = task[o].measured /\ l.undecided = task[o].undecided
    BY <2>3, <2>6 DEF TaskRecord
  <2> HIDE DEF l
  <2>b. l.undecided \subseteq l.measured
    BY <2>3, <2>8
  <2>c. now' = now + 1 /\ now < MaxTime /\ UNCHANGED <<file, registered, everRead>>
    BY <2>2
  <2>9. QED
    BY <1>4, <2>2, <2>4, <2>5, <2>7, <2>8, <2>b, <2>c
<1>7. ASSUME NEW o \in Tasks, Usage!WritesBack(o) PROVE UsageIInv'
  <2> DEFINE in == {a \in task[o].stale : Usage!GoesIn(o, a)}
  <2>1. /\ task[o].due = {} /\ task' = [task EXCEPT ![o] = Usage!NoTask]
        /\ file' = [a \in DOMAIN file \cup in |->
                       IF a \in in THEN Usage!Merged(o, a) ELSE file[a]]
        /\ everRead' = [a \in Measured |->
              IF a \in DOMAIN file' /\ file'[a].read > everRead[a] THEN file'[a].read ELSE everRead[a]]
        /\ UNCHANGED <<registered, now>>
    BY <1>7 DEF Usage!WritesBack, Usage!Has
  <2>2. /\ TaskOK(o) /\ file \in Snapshots /\ Marks(file) \subseteq AllMarks
        /\ task[o] \in TaskRecord
        /\ task[o].started \in Snapshots /\ Marks(task[o].started) \subseteq AllMarks
        /\ task[o].ours \in Snapshots /\ Marks(task[o].ours) \subseteq AllMarks
    BY <1>0, MarksType
  <2>3. in \subseteq DOMAIN task[o].ours /\ in \subseteq Measured
    BY <2>1, <2>2, ATask DEF TaskOK
  <2>4. ASSUME NEW a \in in
        PROVE  /\ file'[a].at = task[o].ours[a].at /\ file'[a].read = task[o].ours[a].read
               /\ file'[a] \in Readings
    <3>1. task[o].ours[a] \in Readings
      BY <2>2, <2>3, ASnapshot
    <3>2. PICK none \in BOOLEAN : file'[a] = [task[o].ours[a] EXCEPT !.none = none]
      BY <2>1, <2>4, <3>1 DEF Usage!Merged, Readings
    <3>3. QED
      BY <3>1, <3>2 DEF Readings
  <2>5. \A a \in DOMAIN file \ in : file'[a] = file[a]
    BY <2>1
  <2>6. DOMAIN file' = DOMAIN file \cup in
    BY <2>1
  <2>7. file' \in Snapshots
    <3>1. DOMAIN file' \in SUBSET Measured /\ \A a \in DOMAIN file' : file'[a] \in Readings
      BY <2>2, <2>3, <2>4, <2>5, <2>6, ASnapshot
    <3>2. file' = [a \in DOMAIN file' |-> file'[a]]
      BY <2>1
    <3>3. QED
      BY <3>1, <3>2, SnapshotIs
  <2> HIDE DEF in
  <2>8. Marks(file') \subseteq AllMarks
    BY <2>2, <2>3, <2>4, <2>5, <2>6 DEF Marks
  <2>9. /\ task' \in [Tasks -> TaskRecord] /\ (\A k \in Tasks : TaskOK(k)')
        /\ AllMarks' \subseteq AllMarks
    BY <2>1, <2>8, TaskOver
  <2>10. MarksOK(AllMarks)'
    BY <1>0, <2>1, <2>9, OldMarks
  <2>11. ASSUME NEW a \in in PROVE everRead[a] <= task[o].ours[a].read
    <3>1. a \in Measured /\ a \in DOMAIN task[o].ours /\ Usage!GoesIn(o, a)
      BY <2>3, <2>11 DEF in
    <3>2. task[o].ours[a].read \in Nat /\ everRead[a] \in Nat
      BY <1>0, <2>2, <3>1, ASnapshot DEF UsageTypes
    <3>3. CASE a \notin DOMAIN file
      BY <1>0, <3>1, <3>2, <3>3 DEF NoneOlder
    <3>4. CASE a \in DOMAIN file
      <4>1. /\ file[a].read >= everRead[a] /\ file[a].read <= file[a].at
            /\ file[a].read \in Nat /\ file[a].at \in Nat
        BY <1>0, <2>2, <3>1, <3>4, MarkedOK, ASnapshot DEF NoneOlder
      <4>2. CASE a \in task[o].measured
        <5>1. task[o].ours[a].read = task[o].ours[a].at
          BY <2>2, <4>2 DEF TaskOK
        <5>2. CASE Usage!Touched(o, a)
          <6>1. ~(file[a].at > task[o].ours[a].at)
            BY <3>1, <3>4, <4>2, <5>2 DEF Usage!GoesIn, Usage!Has
          <6>2. QED
            BY <3>2, <4>1, <5>1, <6>1
        <5>3. CASE ~Usage!Touched(o, a)
          <6>1. a \in DOMAIN task[o].started /\ file[a].at = task[o].started[a].at
            BY <3>4, <5>3 DEF Usage!Touched, Usage!Has
          <6>2. task[o].started[a].at <= task[o].ours[a].read
            BY <2>2, <4>2, <6>1 DEF TaskOK
          <6>3. QED
            BY <3>2, <4>1, <6>1, <6>2
        <5>4. QED
          BY <5>2, <5>3
      <4>3. CASE a \notin task[o].measured
        <5>1. a \in DOMAIN task[o].started /\ file[a].at = task[o].started[a].at
          BY <3>1, <3>4, <4>3 DEF Usage!GoesIn, Usage!Touched, Usage!Has
        <5>2. task[o].ours[a].read = task[o].started[a].read
          BY <2>2, <4>3, <5>1 DEF TaskOK
        <5>3. /\ <<a, file[a].at, file[a].read>> \in AllMarks
              /\ <<a, task[o].started[a].at, task[o].started[a].read>> \in AllMarks
          BY <2>2, <3>4, <5>1 DEF Marks
        <5>4. file[a].read = task[o].started[a].read
          BY <1>0, <5>1, <5>3 DEF MarksOK
        <5>5. QED
          BY <3>2, <4>1, <5>2, <5>4
      <4>4. QED
        BY <4>2, <4>3
    <3>5. QED
      BY <3>3, <3>4
  <2>12. ASSUME NEW a \in DOMAIN file' PROVE everRead[a] <= file'[a].read /\ file'[a].read \in Nat
    <3>1. file'[a].read \in Nat /\ a \in Measured
      BY <2>7, <2>12, ASnapshot
    <3>2. CASE a \in in
      BY <2>4, <2>11, <3>1, <3>2
    <3>3. CASE a \notin in
      <4>1. a \in DOMAIN file /\ file'[a] = file[a]
        BY <2>5, <2>6, <2>12, <3>3
      <4>2. file[a].read >= everRead[a] /\ everRead[a] \in Nat
        BY <1>0, <3>1, <4>1 DEF NoneOlder, UsageTypes
      <4>3. QED
        BY <3>1, <4>1, <4>2
    <3>4. QED
      BY <3>2, <3>3
  <2>13. \A a \in Measured : everRead[a] \in Nat
    BY <1>0 DEF UsageTypes
  <2>14. everRead' \in [Measured -> Nat]
    BY <2>1, <2>12, <2>13
  <2>15. NoneOlder'
    <3>1. ASSUME NEW a \in Measured, a \in DOMAIN file' PROVE file'[a].read >= everRead'[a]
      BY <2>1, <2>12, <2>13, <3>1
    <3>2. ASSUME NEW a \in Measured, a \notin DOMAIN file' PROVE everRead'[a] = 0
      BY <1>0, <2>1, <2>6, <3>2 DEF NoneOlder
    <3>3. QED
      BY <3>1, <3>2 DEF NoneOlder
  <2>16. QED
    BY <1>0, <2>1, <2>7, <2>9, <2>10, <2>14, <2>15 DEF UsageIInv, UsageTypes
<1>8. ASSUME NEW o \in Tasks, Usage!WriteFails(o) PROVE UsageIInv'
  <2>1. task' = [task EXCEPT ![o] = Usage!NoTask] /\ UNCHANGED <<file, registered, now, everRead>>
    BY <1>8 DEF Usage!WriteFails
  <2>2. Marks(file') \subseteq AllMarks
    BY <1>0, <2>1, MarksType
  <2>3. /\ task' \in [Tasks -> TaskRecord] /\ (\A k \in Tasks : TaskOK(k)')
        /\ AllMarks' \subseteq AllMarks
    BY <2>1, <2>2, TaskOver
  <2>4. MarksOK(AllMarks)'
    BY <1>0, <2>1, <2>3, OldMarks
  <2>5. NoneOlder'
    BY <1>0, <2>1 DEF NoneOlder
  <2>6. QED
    BY <1>0, <2>1, <2>3, <2>4, <2>5 DEF UsageIInv, UsageTypes
<1>9. CASE UNCHANGED Usage!vars
  BY <1>0, <1>9 DEF Usage!vars, UsageIInv, UsageTypes, NoneOlder, TaskOK, MarksOK, AllMarks, Marks
<1>10. QED
  BY <1>1, <1>2, <1>3, <1>5, <1>6, <1>7, <1>8, <1>9 DEF Usage!Next

-----------------------------------------------------------------------------

\* A carry writes over no sign-in and reaches no other account's profile, and leaves
\* out none it could write (shared-login.ts); and a refresh never puts older numbers
\* over those another wrote meanwhile (usage-store.ts).
THEOREM CarriedRightly ==
    /\ Shared!Init /\ [][Shared!Next]_(Shared!vars)
    /\ Usage!Init /\ [][Usage!Next]_(Usage!vars)
    => []CarriedInv
<1>1. SharedIInv => Shared!Inv
  BY DEF SharedIInv, SharedTypes, JobOK, Shared!Inv, Shared!OthersStillCarried
<1>2. UsageIInv => Usage!Inv
  <2> SUFFICES ASSUME UsageIInv PROVE Usage!Inv
    OBVIOUS
  <2>1. UsageTypes /\ MarksOK(AllMarks) /\ NoneOlder /\ \A o \in Tasks : TaskOK(o)
    BY DEF UsageIInv
  <2>2. file \in Snapshots /\ Marks(file) \subseteq AllMarks
    BY <2>1, MarksType
  <2>3. DOMAIN file \subseteq Measured
    BY <2>2, ASnapshot
  <2>4. \A a \in DOMAIN file : file[a].read <= file[a].at /\ file[a].at <= now
    BY <2>1, <2>2, MarkedOK
  <2>5. Usage!TypeOK
    BY <2>1, <2>3, <2>4 DEF Usage!TypeOK, UsageTypes, TaskOK
  <2>6. Usage!NumbersNeverOlder
    BY <2>1, <2>3 DEF Usage!NumbersNeverOlder, NoneOlder
  <2>7. QED
    BY <2>5, <2>6 DEF Usage!Inv
<1>3. QED
  BY SharedInit, SharedStep, UsageInit, UsageStep, <1>1, <1>2, PTL DEF CarriedInv

-----------------------------------------------------------------------------
(* The editor's folder.  While nothing overtook a sign-in, a renewal or a  *)
(* login being taken up, of each chain of renewals at most one login is    *)
(* not spent yet, and it is the newest; the login of the folder, or that   *)
(* Claude is about to save, is in a profile as well or is that newest one. *)

EventRecord ==
    [at : {"idle", "looks", "takesUp", "asks", "refreshes", "moves", "asksLink",
           "asksOther", "renews", "sending", "replaces"},
     how : {"none", "switch", "refresh", "setUp", "launch", "renew"},
     account : Accounts \cup {None}, login : Editor!Logins \cup {Editor!NoLogin}]
ClaudeRecord ==
    [at : {"closed", "idle", "renewing", "signing"},
     sends : Editor!Logins \cup {Editor!NoLogin}, under : Editor!Places \cup {None}]
CarryRecord ==
    [retired : Editor!Logins \cup {Editor!NoLogin}, account : Accounts \cup {None},
     text : Editor!Logins \cup {Editor!NoLogin}]

DiskTypes ==
    /\ made \in 0..MaxMade /\ editorSpent \subseteq Editor!Logins
    /\ profile \in [Accounts -> Editor!Logins \cup {Editor!NoLogin}]
    /\ folder \in [record : Accounts \cup {None}, login : Editor!Logins \cup {Editor!NoLogin},
                   says : Accounts \cup {None}]

PlaceTypes ==
    /\ active \in Accounts /\ named \in BOOLEAN
    /\ path \in {"missing", "link", "folder", "other"} /\ linked \in Accounts \cup {None}
    /\ path = "link" => linked \in Accounts
    /\ editorLock \in [Editor!Places -> {"free", "claude"} \cup Events]
    /\ pending \subseteq {"move", "retire"}

EventTypes ==
    /\ ev \in [Events -> EventRecord]
    /\ \A e \in Events :
          ev[e].at \in {"asks", "renews", "sending", "replaces"} \/ ev[e].how = "renew"
          => ev[e].account \in Accounts
    /\ \A e \in Events :
          ev[e].at \in {"asks", "sending", "replaces"} => ev[e].login \in Editor!Logins

ClaudeTypes ==
    /\ claude \in ClaudeRecord
    /\ claude.at = "renewing" => claude.sends \in Editor!Logins /\ claude.under \in Editor!Places
    /\ claude.at = "signing" => claude.sends \in Editor!Logins

CarryTypes ==
    carries \subseteq Editor!Logins \X Accounts /\ carrier \in CarryRecord

EditorTypes == DiskTypes /\ PlaceTypes /\ EventTypes /\ ClaudeTypes /\ CarryTypes

\* The logins stored, in the folder or in a carry's hand.
Stored == {profile[a] : a \in Accounts} \cup {folder.login, carrier.text}

\* None is newer than the last made; of a chain at most one is not spent yet, and it
\* is the newest.
MadeOK == \A l \in Stored \cup editorSpent : l.at <= made /\ l.chain <= made
NewestLive == \A l \in Stored \ editorSpent, k \in editorSpent : Editor!Chain(l) = Editor!Chain(k) => k.at < l.at
OneLive == \A l, k \in Stored \ editorSpent : Editor!Chain(l) = Editor!Chain(k) => l = k
OrderInv == MadeOK /\ NewestLive /\ OneLive

OwnInv == \A a \in Accounts : profile[a].of \in {a, None}

ShapeInv ==
    /\ path # "folder" => folder.record = None
    /\ path = "link" => folder.says = None /\ (~Mac => folder.login = Editor!NoLogin)
    /\ folder.record # None => folder.says # None
    /\ folder.record # None /\ folder.login = Editor!NoLogin => folder.says = folder.record

RenewingInv ==
    claude.at = "renewing" =>
        editorLock[claude.under] = "claude" /\ claude.under = Editor!Here /\ claude.sends = Editor!InUse
SigningInv ==
    claude.at = "signing" => path \in {"folder", "other"} /\ folder.login.of = claude.sends.of
SaysInv ==
    claude.at # "signing" /\ folder.says # None => folder.login.of \in {folder.says, None}

EventInv ==
    \A e \in Events :
        /\ ev[e].at \in {"takesUp", "asks", "refreshes", "moves"} /\ ev[e].how # "renew"
           => path # "link"
        /\ ev[e].how = "renew"
           => ev[e].at \in {"takesUp", "asks", "renews", "sending", "replaces"}
        /\ ev[e].at \in {"sending", "replaces"} =>
              editorLock[ev[e].account] = e /\ ev[e].login.of = ev[e].account
        /\ ev[e].at = "replaces" => editorLock["editor"] = e /\ ev[e].login \in editorSpent

AskInv ==
    \A e \in Events : ev[e].at = "asks" =>
        /\ ev[e].login.at <= made
        /\ folder.login = ev[e].login /\ ev[e].login.of = ev[e].account
           => path = "folder" /\ folder.record = ev[e].account

AtHomeInv ==
    \A c \in Accounts : folder.login # Editor!NoLogin /\ Editor!Chain(folder.login) = Editor!Chain(profile[c])
        => path = "folder" /\ folder.record = c

KeptInv ==
    \A b \in Accounts : profile[b] \in editorSpent /\ Editor!Chain(profile[b]) \notin forgone
        => Editor!Chain(folder.login) = Editor!Chain(profile[b]) /\ folder.login \notin editorSpent

CuredInv ==
    folder.login \in editorSpent =>
        /\ Editor!Chain(profile[folder.login.of]) = Editor!Chain(folder.login)
        /\ Editor!Chain(folder.login) \notin forgone => profile[folder.login.of] \notin editorSpent

CarryInv ==
    /\ carrier # Editor!NoCarry =>
          /\ Editor!Chain(carrier.retired) = Editor!Chain(carrier.text)
          /\ carrier.text # Editor!NoLogin
          /\ carrier.text.of = carrier.account /\ carrier.retired \in editorSpent
    /\ \A c \in carries : c[1] \in editorSpent /\ c[1].of = c[2]

Good ==
    /\ OrderInv /\ OwnInv /\ ShapeInv /\ RenewingInv /\ SigningInv /\ SaysInv
    /\ EventInv /\ AskInv /\ AtHomeInv /\ KeptInv /\ CuredInv /\ CarryInv

EditorIInv == EditorTypes /\ (crossed = {} => Good)

-----------------------------------------------------------------------------
LEMMA LoginFacts ==
    /\ Editor!NoLogin \notin Editor!Logins /\ Editor!NoLogin.of = None
    /\ Editor!NoLogin.chain = 0 /\ Editor!NoLogin.at = 0
    /\ \A l \in Editor!Logins : l.of \in Accounts /\ l.chain \in 0..MaxMade /\ l.at \in 0..MaxMade
    /\ \A l \in Editor!Logins : l.of # None
  BY EditorAssumption DEF Editor!Logins, Editor!NoLogin

LEMMA ChainFacts ==
    ASSUME NEW l, NEW k
    PROVE  Editor!Chain(l) = Editor!Chain(k) <=> (l.of = k.of /\ l.chain = k.chain)
  BY DEF Editor!Chain

LEMMA NewLogins ==
    ASSUME made \in 0..MaxMade, made < MaxMade
    PROVE  /\ made + 1 \in 0..MaxMade
           /\ \A a \in Accounts :
                 /\ Editor!SignIn(a) \in Editor!Logins /\ Editor!SignIn(a).of = a
                 /\ Editor!SignIn(a).chain = made + 1 /\ Editor!SignIn(a).at = made + 1
           /\ \A l \in Editor!Logins :
                 /\ Editor!Renewed(l) \in Editor!Logins /\ Editor!Renewed(l).of = l.of
                 /\ Editor!Renewed(l).chain = l.chain /\ Editor!Renewed(l).at = made + 1
                 /\ Editor!Chain(Editor!Renewed(l)) = Editor!Chain(l)
  BY EditorAssumption DEF Editor!SignIn, Editor!Renewed, Editor!Logins, Editor!Chain

LEMMA RecordFacts ==
    /\ Editor!Idle \in EventRecord /\ Editor!Idle.at = "idle" /\ Editor!Idle.how = "none"
    /\ Editor!Closed \in ClaudeRecord /\ Editor!Closed.at = "closed"
    /\ Editor!NoCarry \in CarryRecord /\ Editor!NoCarry.text = Editor!NoLogin
  BY DEF Editor!Idle, EventRecord, Editor!Closed, ClaudeRecord, Editor!NoCarry, CarryRecord

LEMMA FolderFacts ==
    /\ Editor!NoFolder \in [record : Accounts \cup {None}, login : Editor!Logins \cup {Editor!NoLogin},
                     says : Accounts \cup {None}]
    /\ \A a \in Accounts \cup {None}, l \in Editor!Logins \cup {Editor!NoLogin} :
          Editor!BuiltFor(a, l) \in [record : Accounts \cup {None}, login : Editor!Logins \cup {Editor!NoLogin},
                             says : Accounts \cup {None}]
  BY DEF Editor!NoFolder, Editor!BuiltFor

LEMMA EventSet ==
    ASSUME EventTypes, NEW e \in Events, NEW rec \in EventRecord,
           rec.at \in {"asks", "renews", "sending", "replaces"} \/ rec.how = "renew"
           => rec.account \in Accounts,
           rec.at \in {"asks", "sending", "replaces"} => rec.login \in Editor!Logins,
           ev' = [ev EXCEPT ![e] = rec]
    PROVE  EventTypes'
  BY DEF EventTypes

\* What a step that only changes the folder's login leaves, and one that starts it anew.
FolderGets(l) ==
    folder'.login = l /\ folder'.record = folder.record /\ folder'.says = folder.says
FolderIsFor(a, l) ==
    folder'.login = l /\ folder'.record = a /\ folder'.says = a
Gets(a, l) ==
    profile'[a] = l /\ \A b \in Accounts \ {a} : profile'[b] = profile[b]
EventIs(e, at) ==
    /\ ev'[e].at = at /\ ev'[e].how = ev[e].how
    /\ ev'[e].account = ev[e].account /\ ev'[e].login = ev[e].login
OthersGoOn(e) == \A f \in Events \ {e} : ev'[f] = ev[f]

LEMMA CrossedStays ==
  EditorTypes /\ [Editor!Next]_(Editor!vars) => crossed \subseteq crossed'
<1> SUFFICES ASSUME EditorTypes, [Editor!Next]_(Editor!vars) PROVE crossed \subseteq
                    crossed'
  OBVIOUS
<1> USE EditorAssumption DEF Editor!disk, Editor!place, Editor!queue, Editor!history,
        Editor!vars
<1>1. ASSUME Editor!ChatOpens \/ Editor!ChatCloses \/ Editor!RenewBegins \/
             Editor!RenewEnds \/ Editor!SignedIn \/ Editor!CarryReads \/
             Editor!CarryWrites
      PROVE  crossed \subseteq crossed'
  BY <1>1 DEF Editor!ChatOpens, Editor!ChatCloses, Editor!RenewBegins, Editor!RenewEnds,
     Editor!SignedIn, Editor!CarryReads, Editor!CarryWrites
<1>2. ASSUME NEW a \in Accounts, Editor!SignsIn(a) \/ Editor!Switches(a) \/
             Editor!RenewedElsewhere(a)
      PROVE  crossed \subseteq crossed'
  BY <1>2 DEF Editor!SignsIn, Editor!Switches, Editor!RenewedElsewhere
<1>3. ASSUME NEW e \in Events, Editor!Creates(e) \/ Editor!TakesOver(e) \/
             Editor!OtherAnswered(e) \/ Editor!TakesUp(e) \/ Editor!OwnerUnknown(e) \/
             Editor!Sends(e) \/ Editor!Answered(e) \/ Editor!Replaces(e)
      PROVE  crossed \subseteq crossed'
  BY <1>3 DEF Editor!Creates, Editor!TakesOver, Editor!OtherAnswered, Editor!TakesUp,
     Editor!OwnerUnknown, Editor!Sends, Editor!Answered, Editor!Replaces
<1>4. ASSUME Editor!TurnsOff PROVE crossed \subseteq crossed'
  BY <1>4 DEF Editor!TurnsOff, Editor!Retire, Editor!LinkLeaves
<1>5. ASSUME NEW e \in Events, Editor!LooksAtLink(e) PROVE crossed \subseteq crossed'
  BY <1>5 DEF Editor!LooksAtLink, Editor!StaysLinked, Editor!LinkLeaves
<1>6. ASSUME NEW e \in Events, Editor!LinkAnswered(e) PROVE crossed \subseteq crossed'
  BY <1>6 DEF Editor!LinkAnswered, Editor!MovesIn, Editor!StaysLinked, Editor!LinkLeaves
<1>7. ASSUME NEW e \in Events, Editor!OwnerAnswers(e) PROVE crossed \subseteq crossed'
  BY <1>7 DEF Editor!OwnerAnswers
<1>8. ASSUME NEW e \in Events, Editor!Refreshes(e) PROVE crossed \subseteq crossed'
  BY <1>8 DEF Editor!Refreshes, Editor!SignInMet
<1>9. ASSUME NEW e \in Events, Editor!Moves(e) PROVE crossed \subseteq crossed'
  BY <1>9 DEF Editor!Moves, Editor!MovesTo, Editor!SignInMet
<1>10. ASSUME NEW e \in Events, NEW how \in {"switch", "refresh", "setUp", "launch"},
            Editor!Begins(e, how)
      PROVE  crossed \subseteq crossed'
  BY <1>10 DEF Editor!Begins, Editor!Retire, Editor!LinkLeaves
<1>11. ASSUME NEW e \in Events, NEW a \in Accounts, Editor!RenewsIdle(e, a)
      PROVE  crossed \subseteq crossed'
  BY <1>11 DEF Editor!RenewsIdle
<1>12. CASE UNCHANGED Editor!vars
  BY <1>12
<1>13. QED
  BY <1>1, <1>2, <1>3, <1>4, <1>5, <1>6, <1>7, <1>8, <1>9, <1>10, <1>11, <1>12 DEF
     Editor!Next

LEMMA DiskTypesKept == EditorTypes /\ [Editor!Next]_(Editor!vars) => DiskTypes'
<1> SUFFICES ASSUME EditorTypes, [Editor!Next]_(Editor!vars) PROVE DiskTypes'
  OBVIOUS
<1> USE EditorAssumption DEF Editor!disk, Editor!place, Editor!queue, Editor!history,
        Editor!vars
<1>1. ASSUME Editor!ChatOpens \/ Editor!ChatCloses \/ Editor!RenewBegins \/
             Editor!CarryReads PROVE DiskTypes'
  BY <1>1 DEF Editor!ChatOpens, Editor!ChatCloses, Editor!RenewBegins, Editor!CarryReads,
     EditorTypes, DiskTypes
<1>2. ASSUME NEW a \in Accounts, Editor!Switches(a) PROVE DiskTypes'
  BY <1>2 DEF Editor!Switches, EditorTypes, DiskTypes
<1>3. ASSUME NEW e \in Events, Editor!LooksAtLink(e) \/ Editor!TakesOver(e) \/
             Editor!TakesUp(e) \/ Editor!OwnerUnknown(e) \/ Editor!Sends(e)
      PROVE  DiskTypes'
  BY <1>3 DEF Editor!LooksAtLink, Editor!StaysLinked, Editor!TakesOver, Editor!TakesUp,
     Editor!OwnerUnknown, Editor!Sends, EditorTypes, DiskTypes
<1>4. ASSUME Editor!RenewEnds PROVE DiskTypes'
  BY <1>4, NewLogins DEF Editor!RenewEnds, EditorTypes, DiskTypes, ClaudeTypes
<1>5. ASSUME Editor!SignedIn PROVE DiskTypes'
  BY <1>5, LoginFacts DEF Editor!SignedIn, EditorTypes, DiskTypes, ClaudeTypes
<1>6. ASSUME Editor!TurnsOff PROVE DiskTypes'
  BY <1>6, FolderFacts DEF Editor!TurnsOff, Editor!Retire, Editor!SavedHome, EditorTypes,
     DiskTypes
<1>7. ASSUME Editor!CarryWrites PROVE DiskTypes'
  BY <1>7 DEF Editor!CarryWrites, Editor!CarriedInto, EditorTypes, DiskTypes, CarryTypes,
     CarryRecord
<1>8. ASSUME NEW a \in Accounts, Editor!SignsIn(a) PROVE DiskTypes'
  BY <1>8, NewLogins DEF Editor!SignsIn, EditorTypes, DiskTypes
<1>9. ASSUME NEW a \in Accounts, Editor!RenewedElsewhere(a) PROVE DiskTypes'
  BY <1>9, NewLogins DEF Editor!RenewedElsewhere, EditorTypes, DiskTypes
<1>10. ASSUME NEW e \in Events, Editor!Creates(e) PROVE DiskTypes'
  <2>1. folder' \in {folder, [folder EXCEPT !.record = None, !.says = None]}
    BY <1>10 DEF Editor!Creates
  <2>2. UNCHANGED <<made, editorSpent, profile>>
    BY <1>10 DEF Editor!Creates
  <2>3. QED
    BY <2>1, <2>2 DEF EditorTypes, DiskTypes
<1>11. ASSUME NEW e \in Events, Editor!LinkAnswered(e) PROVE DiskTypes'
  BY <1>11, LoginFacts, FolderFacts DEF Editor!LinkAnswered, Editor!MovesIn,
     Editor!StaysLinked, Editor!InUse, EditorTypes, DiskTypes, PlaceTypes
<1>12. ASSUME NEW e \in Events, Editor!OtherAnswered(e) PROVE DiskTypes'
  <2>1. \/ UNCHANGED <<profile, folder>>
        \/ /\ folder' = Editor!BuiltFor(ev[e].login.of, folder.login)
           /\ \/ UNCHANGED profile
              \/ /\ ev[e].login.of # None
                 /\ profile' = [profile EXCEPT ![ev[e].login.of] = folder.login]
    BY <1>12 DEF Editor!OtherAnswered
  <2>2. ev[e].login.of \in Accounts \cup {None} /\ UNCHANGED <<made, editorSpent>>
    BY <1>12, LoginFacts DEF Editor!OtherAnswered, EditorTypes, EventTypes, EventRecord
  <2>3. QED
    BY <2>1, <2>2, FolderFacts DEF EditorTypes, DiskTypes
<1>13. ASSUME NEW e \in Events, Editor!OwnerAnswers(e) PROVE DiskTypes'
  BY <1>13 DEF Editor!OwnerAnswers, EditorTypes, DiskTypes
<1>14. ASSUME NEW e \in Events, Editor!Refreshes(e) PROVE DiskTypes'
  BY <1>14 DEF Editor!Refreshes, EditorTypes, DiskTypes
<1>15. ASSUME NEW e \in Events, Editor!Moves(e) PROVE DiskTypes'
  BY <1>15 DEF Editor!Moves, Editor!MovesTo, Editor!SavedHome, Editor!SignInMet,
     EditorTypes, DiskTypes, PlaceTypes
<1>16. ASSUME NEW e \in Events, Editor!Answered(e) PROVE DiskTypes'
  <2>1. ev[e].account \in Accounts /\ ev[e].at = "sending"
    BY <1>16 DEF Editor!Answered, EditorTypes, EventTypes
  <2>2. CASE UNCHANGED <<made, editorSpent, profile>>
    BY <1>16, <2>2 DEF Editor!Answered, EditorTypes, DiskTypes
  <2>3. CASE /\ made # MaxMade /\ profile[ev[e].account] = ev[e].login
             /\ made' = made + 1 /\ editorSpent' = editorSpent \cup {ev[e].login}
             /\ profile' = [profile EXCEPT ![ev[e].account] = Editor!Renewed(ev[e].login)]
    <3>1. made < MaxMade /\ made \in 0..MaxMade
      BY <2>3 DEF EditorTypes, DiskTypes
    <3>2. ev[e].login \in Editor!Logins
      BY <2>1 DEF EditorTypes, EventTypes
    <3>3. QED
      BY <1>16, <2>1, <2>3, <3>1, <3>2, NewLogins DEF Editor!Answered, EditorTypes,
         DiskTypes
  <2>4. QED
    BY <1>16, <2>2, <2>3 DEF Editor!Answered
<1>17. ASSUME NEW e \in Events, Editor!Replaces(e) PROVE DiskTypes'
  BY <1>17 DEF Editor!Replaces, EditorTypes, DiskTypes, EventTypes
<1>18. ASSUME NEW e \in Events, NEW how \in {"switch", "refresh", "setUp", "launch"},
            Editor!Begins(e, how)
      PROVE  DiskTypes'
  BY <1>18, FolderFacts DEF Editor!Begins, Editor!Retire, Editor!SavedHome, EditorTypes,
     DiskTypes
<1>19. ASSUME NEW e \in Events, NEW a \in Accounts, Editor!RenewsIdle(e, a) PROVE DiskTypes'
  BY <1>19 DEF Editor!RenewsIdle, EditorTypes, DiskTypes
<1>20. CASE UNCHANGED Editor!vars
  BY <1>20 DEF EditorTypes, DiskTypes
<1>21. QED
  BY <1>1, <1>2, <1>3, <1>4, <1>5, <1>6, <1>7, <1>8, <1>9, <1>10, <1>11, <1>12, <1>13,
     <1>14, <1>15, <1>16, <1>17, <1>18, <1>19, <1>20 DEF Editor!Next

LEMMA PlaceTypesKept == EditorTypes /\ [Editor!Next]_(Editor!vars) => PlaceTypes'
<1> SUFFICES ASSUME EditorTypes, [Editor!Next]_(Editor!vars) PROVE PlaceTypes'
  OBVIOUS
<1> USE EditorAssumption DEF Editor!disk, Editor!place, Editor!queue, Editor!history,
        Editor!vars
<1>1. ASSUME Editor!CarryReads PROVE PlaceTypes'
  BY <1>1 DEF Editor!CarryReads, EditorTypes, PlaceTypes
<1>2. ASSUME NEW a \in Accounts, Editor!RenewedElsewhere(a) PROVE PlaceTypes'
  BY <1>2 DEF Editor!RenewedElsewhere, EditorTypes, PlaceTypes
<1>3. ASSUME NEW e \in Events, Editor!TakesOver(e) \/ Editor!TakesUp(e) \/
             Editor!OwnerAnswers(e) \/ Editor!OwnerUnknown(e)
      PROVE  PlaceTypes'
  BY <1>3 DEF Editor!TakesOver, Editor!TakesUp, Editor!OwnerAnswers, Editor!OwnerUnknown,
     EditorTypes, PlaceTypes
<1>4. ASSUME Editor!ChatOpens PROVE PlaceTypes'
  BY <1>4 DEF Editor!ChatOpens, EditorTypes, PlaceTypes
<1>5. ASSUME Editor!ChatCloses PROVE PlaceTypes'
  BY <1>5 DEF Editor!ChatCloses, EditorTypes, PlaceTypes
<1>6. ASSUME Editor!RenewBegins PROVE PlaceTypes'
  BY <1>6 DEF Editor!RenewBegins, Editor!Here, EditorTypes, PlaceTypes, Editor!Places
<1>7. ASSUME Editor!RenewEnds PROVE PlaceTypes'
  BY <1>7 DEF Editor!RenewEnds, EditorTypes, PlaceTypes
<1>8. ASSUME Editor!SignedIn PROVE PlaceTypes'
  BY <1>8 DEF Editor!SignedIn, EditorTypes, PlaceTypes
<1>9. ASSUME Editor!TurnsOff PROVE PlaceTypes'
  BY <1>9, LoginFacts, NewLogins, RecordFacts, FolderFacts DEF Editor!TurnsOff,
     Editor!Retire, Editor!LinkLeaves, Editor!ChatOpen, Editor!SavedHome, EditorTypes,
     PlaceTypes, EventTypes, DiskTypes, Editor!Places, ClaudeTypes
<1>10. ASSUME Editor!CarryWrites PROVE PlaceTypes'
  BY <1>10 DEF Editor!CarryWrites, EditorTypes, PlaceTypes
<1>11. ASSUME NEW a \in Accounts, Editor!SignsIn(a) PROVE PlaceTypes'
  BY <1>11 DEF Editor!SignsIn, EditorTypes, PlaceTypes
<1>12. ASSUME NEW a \in Accounts, Editor!Switches(a) PROVE PlaceTypes'
  BY <1>12 DEF Editor!Switches, EditorTypes, PlaceTypes
<1>13. ASSUME NEW e \in Events, Editor!Creates(e) PROVE PlaceTypes'
  BY <1>13 DEF Editor!Creates, EditorTypes, PlaceTypes
<1>14. ASSUME NEW e \in Events, Editor!LooksAtLink(e) PROVE PlaceTypes'
  BY <1>14 DEF Editor!LooksAtLink, Editor!StaysLinked, EditorTypes, PlaceTypes
<1>15. ASSUME NEW e \in Events, Editor!LinkAnswered(e) PROVE PlaceTypes'
  BY <1>15 DEF Editor!LinkAnswered, Editor!MovesIn, Editor!StaysLinked, Editor!Goes,
     EditorTypes, PlaceTypes
<1>16. ASSUME NEW e \in Events, Editor!OtherAnswered(e) PROVE PlaceTypes'
  BY <1>16 DEF Editor!OtherAnswered, EditorTypes, PlaceTypes
<1>17. ASSUME NEW e \in Events, Editor!Refreshes(e) PROVE PlaceTypes'
  BY <1>17 DEF Editor!Refreshes, EditorTypes, PlaceTypes
<1>18. ASSUME NEW e \in Events, Editor!Moves(e) PROVE PlaceTypes'
  BY <1>18 DEF Editor!Moves, Editor!MovesTo, Editor!SavedHome, Editor!SignInMet,
     EditorTypes, PlaceTypes, Editor!Places, ClaudeTypes
<1>19. ASSUME NEW e \in Events, Editor!Sends(e) PROVE PlaceTypes'
  BY <1>19 DEF Editor!Sends, EditorTypes, PlaceTypes
<1>20. ASSUME NEW e \in Events, Editor!Answered(e) PROVE PlaceTypes'
  BY <1>20 DEF Editor!Answered, Editor!Unlocks, EditorTypes, PlaceTypes
<1>21. ASSUME NEW e \in Events, Editor!Replaces(e) PROVE PlaceTypes'
  BY <1>21 DEF Editor!Replaces, Editor!Unlocks, EditorTypes, PlaceTypes
<1>22. ASSUME NEW e \in Events, NEW how \in {"switch", "refresh", "setUp", "launch"},
            Editor!Begins(e, how)
      PROVE  PlaceTypes'
  BY <1>22 DEF Editor!Begins, Editor!Retire, EditorTypes, PlaceTypes
<1>23. ASSUME NEW e \in Events, NEW a \in Accounts, Editor!RenewsIdle(e, a) PROVE
              PlaceTypes'
  BY <1>23 DEF Editor!RenewsIdle, EditorTypes, PlaceTypes
<1>24. CASE UNCHANGED Editor!vars
  BY <1>24 DEF EditorTypes, PlaceTypes
<1>25. QED
  BY <1>1, <1>2, <1>3, <1>4, <1>5, <1>6, <1>7, <1>8, <1>9, <1>10, <1>11, <1>12, <1>13,
     <1>14, <1>15, <1>16, <1>17, <1>18, <1>19, <1>20, <1>21, <1>22, <1>23, <1>24 DEF
     Editor!Next

LEMMA EventTypesKept == EditorTypes /\ [Editor!Next]_(Editor!vars) => EventTypes'
<1> SUFFICES ASSUME EditorTypes, [Editor!Next]_(Editor!vars) PROVE EventTypes'
  OBVIOUS
<1> USE EditorAssumption DEF Editor!disk, Editor!place, Editor!queue, Editor!history,
        Editor!vars
<1>1. ASSUME Editor!ChatOpens \/ Editor!ChatCloses \/ Editor!RenewBegins \/
             Editor!RenewEnds \/ Editor!SignedIn \/ Editor!TurnsOff
            \/ Editor!CarryReads \/ Editor!CarryWrites
      PROVE  EventTypes'
  BY <1>1 DEF Editor!ChatOpens, Editor!ChatCloses, Editor!RenewBegins, Editor!RenewEnds,
     Editor!SignedIn, Editor!TurnsOff, Editor!CarryReads, Editor!CarryWrites, EditorTypes,
     EventTypes
<1>2. ASSUME NEW a \in Accounts, Editor!SignsIn(a) \/ Editor!Switches(a) \/
             Editor!RenewedElsewhere(a)
      PROVE  EventTypes'
  BY <1>2 DEF Editor!SignsIn, Editor!Switches, Editor!RenewedElsewhere, EditorTypes,
     EventTypes
<1>3. ASSUME NEW e \in Events, Editor!Creates(e) PROVE EventTypes'
  BY <1>3, RecordFacts DEF Editor!Creates, Editor!Goes, Editor!Ends, EditorTypes,
     EventTypes, EventRecord
<1>4. ASSUME NEW e \in Events, Editor!LooksAtLink(e) PROVE EventTypes'
  BY <1>4, RecordFacts DEF Editor!LooksAtLink, Editor!StaysLinked, Editor!Ends,
     EditorTypes, EventTypes, EventRecord
<1>5. ASSUME NEW e \in Events, Editor!LinkAnswered(e) PROVE EventTypes'
  BY <1>5, RecordFacts DEF Editor!LinkAnswered, Editor!MovesIn, Editor!StaysLinked,
     Editor!Goes, Editor!Ends, EditorTypes, EventTypes, EventRecord
<1>6. ASSUME NEW e \in Events, Editor!TakesOver(e) PROVE EventTypes'
  BY <1>6, RecordFacts DEF Editor!TakesOver, Editor!Ends, EditorTypes, EventTypes,
     EventRecord
<1>7. ASSUME NEW e \in Events, Editor!OtherAnswered(e) PROVE EventTypes'
  BY <1>7, RecordFacts DEF Editor!OtherAnswered, Editor!Goes, Editor!Ends, EditorTypes,
     EventTypes, EventRecord
<1>8. ASSUME NEW e \in Events, Editor!TakesUp(e) PROVE EventTypes'
  <2>1. CASE ev' = [ev EXCEPT ![e] = [ev[e] EXCEPT !.at = "asks", !.login = folder.login,
                                                   !.account = folder.record]]
             /\ folder.record # None /\ folder.login # Editor!NoLogin
    <3>1. PICK rec : rec = [ev[e] EXCEPT !.at = "asks", !.login = folder.login,
                                     !.account = folder.record]
      OBVIOUS
    <3>2. /\ folder.record \in Accounts /\ folder.login \in Editor!Logins
          /\ ev[e] \in EventRecord
      BY <2>1 DEF EditorTypes, EventTypes, DiskTypes
    <3>3. rec \in EventRecord /\ rec.account \in Accounts /\ rec.login \in Editor!Logins
      BY <3>1, <3>2 DEF EventRecord
    <3>4. QED
      BY <2>1, <3>1, <3>3, EventSet DEF EditorTypes
  <2>2. CASE ev' = [ev EXCEPT ![e].at = Editor!After(e)]
    <3>1. PICK rec : rec = [ev[e] EXCEPT !.at = Editor!After(e)]
      OBVIOUS
    <3>2. /\ rec \in EventRecord /\ rec.account = ev[e].account /\ rec.how = ev[e].how
          /\ rec.at \in {"renews", "refreshes"}
          /\ (rec.at = "renews" => ev[e].how = "renew")
      BY <3>1 DEF Editor!After, EditorTypes, EventTypes, EventRecord
    <3>3. rec.at = "renews" \/ rec.how = "renew" => rec.account \in Accounts
      BY <3>2 DEF EditorTypes, EventTypes
    <3>4. ev' = [ev EXCEPT ![e] = rec]
      BY <2>2, <3>1
    <3>5. QED
      BY <3>2, <3>3, <3>4, EventSet DEF EditorTypes
  <2>3. QED
    BY <1>8, <2>1, <2>2 DEF Editor!TakesUp, Editor!NewerThanStored
<1>9. ASSUME NEW e \in Events, Editor!OwnerAnswers(e) PROVE EventTypes'
  <2>1. PICK rec : rec = [ev[e] EXCEPT !.at = Editor!After(e), !.login = Editor!NoLogin]
    OBVIOUS
  <2>2. /\ rec \in EventRecord /\ rec.account = ev[e].account /\ rec.how = ev[e].how
        /\ rec.at = Editor!After(e)
    BY <2>1 DEF Editor!After, EditorTypes, EventTypes, EventRecord
  <2>3. rec.account \in Accounts
    BY <1>9, <2>2 DEF Editor!OwnerAnswers, EditorTypes, EventTypes
  <2>4. ev' = [ev EXCEPT ![e] = rec]
    BY <1>9, <2>1 DEF Editor!OwnerAnswers, EditorTypes, EventTypes
  <2>5. QED
    BY <2>2, <2>3, <2>4, EventSet DEF Editor!After, EditorTypes
<1>10. ASSUME NEW e \in Events, Editor!OwnerUnknown(e) PROVE EventTypes'
  BY <1>10, RecordFacts DEF Editor!OwnerUnknown, Editor!Ends, EditorTypes, EventTypes,
     EventRecord
<1>11. ASSUME NEW e \in Events, Editor!Refreshes(e) PROVE EventTypes'
  BY <1>11, RecordFacts DEF Editor!Refreshes, Editor!Ends, Editor!Goes, EditorTypes,
     EventTypes, EventRecord, PlaceTypes
<1>12. ASSUME NEW e \in Events, Editor!Moves(e) PROVE EventTypes'
  BY <1>12, RecordFacts DEF Editor!Moves, Editor!Ends, EditorTypes, EventTypes
<1>13. ASSUME NEW e \in Events, Editor!Sends(e) PROVE EventTypes'
  BY <1>13, RecordFacts DEF Editor!Sends, Editor!Ends, EditorTypes, EventTypes, EventRecord
<1>14. ASSUME NEW e \in Events, Editor!Answered(e) PROVE EventTypes'
  BY <1>14, RecordFacts DEF Editor!Answered, Editor!Ends, Editor!Goes, EditorTypes,
     EventTypes, EventRecord
<1>15. ASSUME NEW e \in Events, Editor!Replaces(e) PROVE EventTypes'
  BY <1>15, RecordFacts DEF Editor!Replaces, Editor!Ends, EditorTypes, EventTypes
<1>16. ASSUME NEW e \in Events, NEW how \in {"switch", "refresh", "setUp", "launch"},
            Editor!Begins(e, how)
      PROVE  EventTypes'
  <2>1. PICK rec : rec = [Editor!Idle EXCEPT !.at = "looks", !.how = how]
    OBVIOUS
  <2>2. rec \in EventRecord /\ rec.at = "looks" /\ rec.how = how
    BY <2>1 DEF Editor!Idle, EventRecord
  <2>3. ev' \in {ev, [ev EXCEPT ![e] = rec]}
    BY <1>16, <2>1 DEF Editor!Begins
  <2>4. QED
    BY <2>2, <2>3 DEF EditorTypes, EventTypes
<1>17. ASSUME NEW e \in Events, NEW a \in Accounts, Editor!RenewsIdle(e, a) PROVE
              EventTypes'
  <2>1. PICK rec : rec = [Editor!Idle EXCEPT !.at = "takesUp", !.how = "renew", !.account = a]
    OBVIOUS
  <2>2. rec \in EventRecord /\ rec.account = a /\ rec.at = "takesUp"
    BY <2>1 DEF Editor!Idle, EventRecord
  <2>3. ev' = [ev EXCEPT ![e] = rec]
    BY <1>17, <2>1 DEF Editor!RenewsIdle
  <2>4. QED
    BY <2>2, <2>3, EventSet DEF EditorTypes
<1>18. CASE UNCHANGED Editor!vars
  BY <1>18 DEF EditorTypes, EventTypes
<1>19. QED
  BY <1>1, <1>2, <1>3, <1>4, <1>5, <1>6, <1>7, <1>8, <1>9, <1>10, <1>11, <1>12, <1>13,
     <1>14, <1>15, <1>16, <1>17, <1>18 DEF Editor!Next

LEMMA ClaudeTypesKept == EditorTypes /\ [Editor!Next]_(Editor!vars) => ClaudeTypes'
<1> SUFFICES ASSUME EditorTypes, [Editor!Next]_(Editor!vars) PROVE ClaudeTypes'
  OBVIOUS
<1> USE EditorAssumption DEF Editor!disk, Editor!place, Editor!queue, Editor!history,
        Editor!vars
<1>1. ASSUME Editor!TurnsOff \/ Editor!CarryReads \/ Editor!CarryWrites PROVE ClaudeTypes'
  BY <1>1 DEF Editor!TurnsOff, Editor!CarryReads, Editor!CarryWrites, EditorTypes,
     ClaudeTypes
<1>2. ASSUME NEW a \in Accounts, Editor!Switches(a) \/ Editor!RenewedElsewhere(a) PROVE
             ClaudeTypes'
  BY <1>2 DEF Editor!Switches, Editor!RenewedElsewhere, EditorTypes, ClaudeTypes
<1>3. ASSUME NEW e \in Events, Editor!Creates(e) \/ Editor!LooksAtLink(e) \/
             Editor!LinkAnswered(e) \/ Editor!TakesOver(e) \/ Editor!OtherAnswered(e) \/
             Editor!TakesUp(e) \/ Editor!OwnerAnswers(e) \/ Editor!OwnerUnknown(e) \/
             Editor!Refreshes(e) \/ Editor!Moves(e) \/ Editor!Sends(e) \/
             Editor!Answered(e) \/ Editor!Replaces(e)
      PROVE  ClaudeTypes'
  BY <1>3 DEF Editor!Creates, Editor!LooksAtLink, Editor!StaysLinked, Editor!LinkAnswered,
     Editor!MovesIn, Editor!TakesOver, Editor!OtherAnswered, Editor!TakesUp, Editor!After,
     Editor!OwnerAnswers, Editor!OwnerUnknown, Editor!Refreshes, Editor!SignInMet,
     Editor!Moves, Editor!MovesTo, Editor!Sends, Editor!Locked, Editor!Answered,
     Editor!Unlocks, Editor!Replaces, EditorTypes, ClaudeTypes, ClaudeRecord
<1>4. ASSUME Editor!ChatOpens PROVE ClaudeTypes'
  BY <1>4, RecordFacts DEF Editor!ChatOpens, ClaudeTypes, ClaudeRecord
<1>5. ASSUME Editor!ChatCloses PROVE ClaudeTypes'
  BY <1>5, RecordFacts DEF Editor!ChatCloses, ClaudeTypes
<1>6. ASSUME Editor!RenewBegins PROVE ClaudeTypes'
  BY <1>6 DEF Editor!RenewBegins, Editor!InUse, Editor!Here, EditorTypes, ClaudeTypes,
     ClaudeRecord, DiskTypes, PlaceTypes, Editor!Places
<1>7. ASSUME Editor!RenewEnds PROVE ClaudeTypes'
  BY <1>7, RecordFacts DEF Editor!RenewEnds, ClaudeTypes, ClaudeRecord
<1>8. ASSUME Editor!SignedIn PROVE ClaudeTypes'
  BY <1>8, RecordFacts DEF Editor!SignedIn, ClaudeTypes, ClaudeRecord
<1>9. ASSUME NEW a \in Accounts, Editor!SignsIn(a) PROVE ClaudeTypes'
  BY <1>9, LoginFacts, NewLogins, RecordFacts, FolderFacts DEF Editor!SignsIn, EditorTypes,
     ClaudeTypes, ClaudeRecord, DiskTypes, PlaceTypes, Editor!Places
<1>10. ASSUME NEW e \in Events, NEW how \in {"switch", "refresh", "setUp", "launch"},
            Editor!Begins(e, how)
      PROVE  ClaudeTypes'
  BY <1>10 DEF Editor!Begins, EditorTypes, ClaudeTypes
<1>11. ASSUME NEW e \in Events, NEW a \in Accounts, Editor!RenewsIdle(e, a) PROVE
              ClaudeTypes'
  BY <1>11 DEF Editor!RenewsIdle, EditorTypes, ClaudeTypes
<1>12. CASE UNCHANGED Editor!vars
  BY <1>12 DEF EditorTypes, ClaudeTypes
<1>13. QED
  BY <1>1, <1>2, <1>3, <1>4, <1>5, <1>6, <1>7, <1>8, <1>9, <1>10, <1>11, <1>12 DEF
     Editor!Next

LEMMA CarryTypesKept == EditorTypes /\ [Editor!Next]_(Editor!vars) => CarryTypes'
<1> SUFFICES ASSUME EditorTypes, [Editor!Next]_(Editor!vars) PROVE CarryTypes'
  OBVIOUS
<1> USE EditorAssumption DEF Editor!disk, Editor!place, Editor!queue, Editor!history,
        Editor!vars
<1>1. ASSUME Editor!ChatOpens \/ Editor!ChatCloses \/ Editor!RenewBegins \/
             Editor!RenewEnds \/ Editor!SignedIn \/ Editor!TurnsOff
      PROVE  CarryTypes'
  BY <1>1 DEF Editor!ChatOpens, Editor!ChatCloses, Editor!RenewBegins, Editor!RenewEnds,
     Editor!SignedIn, Editor!TurnsOff, EditorTypes, CarryTypes
<1>2. ASSUME NEW a \in Accounts, Editor!SignsIn(a) \/ Editor!Switches(a) PROVE CarryTypes'
  BY <1>2 DEF Editor!SignsIn, Editor!Switches, EditorTypes, CarryTypes
<1>3. ASSUME NEW e \in Events, Editor!Creates(e) \/ Editor!LooksAtLink(e) \/
             Editor!LinkAnswered(e) \/ Editor!TakesOver(e) \/ Editor!OtherAnswered(e) \/
             Editor!TakesUp(e) \/ Editor!OwnerAnswers(e) \/ Editor!OwnerUnknown(e) \/
             Editor!Refreshes(e) \/ Editor!Moves(e) \/ Editor!Sends(e) \/
             Editor!Answered(e)
      PROVE  CarryTypes'
  BY <1>3 DEF Editor!Creates, Editor!LooksAtLink, Editor!StaysLinked, Editor!LinkAnswered,
     Editor!MovesIn, Editor!TakesOver, Editor!OtherAnswered, Editor!TakesUp,
     Editor!OwnerAnswers, Editor!OwnerUnknown, Editor!Refreshes, Editor!Moves,
     Editor!ToMove, Editor!Sends, Editor!Answered, Editor!Unlocks, EditorTypes, CarryTypes
<1>4. ASSUME Editor!CarryReads PROVE CarryTypes'
  BY <1>4 DEF Editor!CarryReads, EditorTypes, CarryTypes, CarryRecord, DiskTypes
<1>5. ASSUME Editor!CarryWrites PROVE CarryTypes'
  BY <1>5, RecordFacts DEF Editor!CarryWrites, EditorTypes, CarryTypes
<1>6. ASSUME NEW a \in Accounts, Editor!RenewedElsewhere(a) PROVE CarryTypes'
  BY <1>6 DEF Editor!RenewedElsewhere, EditorTypes, CarryTypes, DiskTypes
<1>7. ASSUME NEW e \in Events, Editor!Replaces(e) PROVE CarryTypes'
  <2>1. ev[e].account \in Accounts /\ ev[e].login \in Editor!Logins
    BY <1>7 DEF Editor!Replaces, EditorTypes, EventTypes
  <2>2. QED
    BY <1>7, <2>1 DEF Editor!Replaces, EditorTypes, CarryTypes
<1>8. ASSUME NEW e \in Events, NEW how \in {"switch", "refresh", "setUp", "launch"},
            Editor!Begins(e, how)
      PROVE  CarryTypes'
  BY <1>8 DEF Editor!Begins, EditorTypes, CarryTypes
<1>9. ASSUME NEW e \in Events, NEW a \in Accounts, Editor!RenewsIdle(e, a) PROVE CarryTypes'
  BY <1>9 DEF Editor!RenewsIdle, EditorTypes, CarryTypes
<1>10. CASE UNCHANGED Editor!vars
  BY <1>10 DEF EditorTypes, CarryTypes
<1>11. QED
  BY <1>1, <1>2, <1>3, <1>4, <1>5, <1>6, <1>7, <1>8, <1>9, <1>10 DEF Editor!Next

LEMMA RenewEndsDoes ==
    ASSUME EditorTypes, Editor!RenewEnds
    PROVE  /\ claude.at = "renewing" /\ claude'.at = "idle"
           /\ claude.sends \in Editor!Logins
           /\ UNCHANGED <<linked, carrier, carries, ev, forgone, crossed>>
           /\ (path = "link" => linked \in Accounts)
           /\ \A p \in Editor!Places : \/ editorLock'[p] = editorLock[p]
                                \/ /\ (p = Editor!Here \/ editorLock[p] = "claude")
                                   /\ editorLock'[p] = "free"
           /\ \/ UNCHANGED <<made, editorSpent, profile, folder, path>>
              \/ /\ claude.sends \notin editorSpent /\ made < MaxMade
                 /\ editorSpent' = editorSpent \cup {claude.sends}
                 /\ made' = made + 1
                 /\ path' = IF path = "missing" THEN "other" ELSE path
                 /\ \/ /\ path = "link" /\ ~Mac /\ folder.login = Editor!NoLogin
                       /\ Gets(linked, Editor!Renewed(claude.sends)) /\ UNCHANGED folder
                    \/ /\ FolderGets(Editor!Renewed(claude.sends))
                       /\ path = "link" => Mac \/ folder.login # Editor!NoLogin
                       /\ IF path = "link" /\ profile[linked] = claude.sends THEN Gets(linked, Editor!NoLogin)
                          ELSE UNCHANGED profile
<1> USE EditorAssumption DEF Editor!disk, Editor!place, Editor!queue, Editor!history,
        Editor!vars
<1>1. claude.at = "renewing" /\ claude'.at = "idle" /\ claude.sends \in Editor!Logins
  BY DEF Editor!RenewEnds, EditorTypes, ClaudeTypes
<1>2. /\ UNCHANGED <<linked, carrier, carries, ev, forgone, crossed>>
      /\ (path = "link" => linked \in Accounts)
  BY DEF Editor!RenewEnds, EditorTypes, PlaceTypes
<1>3. \A p \in Editor!Places : \/ editorLock'[p] = editorLock[p]
                        \/ /\ (p = Editor!Here \/ editorLock[p] = "claude")
                           /\ editorLock'[p] = "free"
  BY DEF Editor!RenewEnds
<1>4. \/ UNCHANGED <<made, editorSpent, profile, folder, path>>
      \/ /\ claude.sends \notin editorSpent /\ made < MaxMade
         /\ editorSpent' = editorSpent \cup {claude.sends}
         /\ made' = made + 1
         /\ path' = IF path = "missing" THEN "other" ELSE path
         /\ \/ /\ path = "link" /\ ~Mac /\ folder.login = Editor!NoLogin
               /\ Gets(linked, Editor!Renewed(claude.sends)) /\ UNCHANGED folder
            \/ /\ FolderGets(Editor!Renewed(claude.sends))
               /\ path = "link" => Mac \/ folder.login # Editor!NoLogin
               /\ IF path = "link" /\ profile[linked] = claude.sends THEN Gets(linked, Editor!NoLogin)
                  ELSE UNCHANGED profile
  BY DEF Editor!RenewEnds, FolderGets, Gets, EditorTypes, DiskTypes, PlaceTypes
<1>5. QED
  BY <1>1, <1>2, <1>3, <1>4

LEMMA CarryWritesDoes ==
    ASSUME EditorTypes, Editor!CarryWrites
    PROVE  /\ carrier # Editor!NoCarry /\ carrier' = Editor!NoCarry
           /\ carries' \subseteq carries
           /\ UNCHANGED <<made, editorSpent, profile, path, linked, claude, editorLock, ev, forgone, crossed>>
           /\ \/ UNCHANGED folder
              \/ /\ Editor!Held = carrier.retired /\ editorLock["editor"] = "free"
                 /\ FolderGets(carrier.text)
<1> USE EditorAssumption DEF Editor!disk, Editor!place, Editor!queue, Editor!history,
        Editor!vars
<1>1. carrier # Editor!NoCarry /\ carrier' = Editor!NoCarry /\ carries' \subseteq carries
  BY DEF Editor!CarryWrites
<1>2. UNCHANGED <<made, editorSpent, profile, path, linked, claude, editorLock, ev, forgone, crossed>>
  BY DEF Editor!CarryWrites
<1>3. \/ UNCHANGED folder
      \/ /\ Editor!Held = carrier.retired /\ editorLock["editor"] = "free"
         /\ FolderGets(carrier.text)
  BY DEF Editor!CarryWrites, Editor!CarriedInto, FolderGets, EditorTypes, DiskTypes
<1>4. QED
  BY <1>1, <1>2, <1>3

LEMMA RefreshesDoes ==
    ASSUME EditorTypes, NEW e \in Events, Editor!Refreshes(e)
    PROVE  /\ ev[e].at = "refreshes"
           /\ UNCHANGED <<made, editorSpent, profile, linked, claude, editorLock, carries, carrier, forgone>>
           /\ path' = (IF path = "missing" THEN "other" ELSE path)
           /\ \/ UNCHANGED folder
              \/ /\ path = "folder" /\ folder.record \in Accounts
                 /\ Editor!DecidePull(folder.record)
                 /\ editorLock["editor"] = "free" /\ FolderGets(profile[folder.record])
                 /\ crossed' = {} => claude.at # "signing"
           /\ OthersGoOn(e) /\ (ev'[e] = Editor!Idle \/ EventIs(e, "moves"))
<1> USE EditorAssumption DEF Editor!disk, Editor!place, Editor!queue, Editor!history,
        Editor!vars
<1>1. /\ ev[e].at = "refreshes"
      /\ UNCHANGED <<made, editorSpent, profile, linked, claude, editorLock, carries, carrier, forgone>>
  BY DEF Editor!Refreshes
<1>2. path' = (IF path = "missing" THEN "other" ELSE path)
  BY DEF Editor!Refreshes
<1>3. \/ UNCHANGED folder
      \/ /\ path = "folder" /\ folder.record \in Accounts
         /\ Editor!DecidePull(folder.record)
         /\ editorLock["editor"] = "free" /\ FolderGets(profile[folder.record])
         /\ crossed' = {} => claude.at # "signing"
  BY DEF Editor!Refreshes, Editor!SignInMet, FolderGets, EditorTypes, DiskTypes, EventRecord
<1>4. OthersGoOn(e) /\ (ev'[e] = Editor!Idle \/ EventIs(e, "moves"))
  BY DEF Editor!Refreshes, Editor!Ends, Editor!Goes, EventIs, OthersGoOn, EditorTypes,
     EventTypes, EventRecord
<1>5. QED
  BY <1>1, <1>2, <1>3, <1>4

LEMMA ReplacesDoes ==
    ASSUME EditorTypes, NEW e \in Events, Editor!Replaces(e)
    PROVE  /\ ev[e].at = "replaces"
           /\ UNCHANGED <<made, editorSpent, profile, path, linked, claude, carrier, forgone, crossed>>
           /\ ev[e].account \in Accounts /\ ev[e].login \in Editor!Logins
           /\ ev'[e] = Editor!Idle /\ OthersGoOn(e)
           /\ \A p \in Editor!Places : editorLock'[p] = IF editorLock[p] = e THEN "free" ELSE editorLock[p]
           /\ \/ UNCHANGED <<folder, carries>>
              \/ /\ Editor!Held = ev[e].login /\ FolderGets(profile[ev[e].account])
                 /\ UNCHANGED carries
              \/ /\ carries' = carries \cup {<<ev[e].login, ev[e].account>>}
                 /\ UNCHANGED folder
<1> USE EditorAssumption DEF Editor!disk, Editor!place, Editor!queue, Editor!history,
        Editor!vars
<1>1. /\ ev[e].at = "replaces"
      /\ UNCHANGED <<made, editorSpent, profile, path, linked, claude, carrier, forgone, crossed>>
  BY DEF Editor!Replaces
<1>2. ev[e].account \in Accounts /\ ev[e].login \in Editor!Logins
  BY DEF Editor!Replaces, EditorTypes, EventTypes
<1>3. ev'[e] = Editor!Idle /\ OthersGoOn(e)
  BY DEF Editor!Replaces, Editor!Ends, OthersGoOn, EditorTypes, EventTypes
<1>4. \A p \in Editor!Places : editorLock'[p] = IF editorLock[p] = e THEN "free" ELSE editorLock[p]
  BY DEF Editor!Replaces, Editor!Unlocks
<1>5. \/ UNCHANGED <<folder, carries>>
      \/ /\ Editor!Held = ev[e].login /\ FolderGets(profile[ev[e].account])
         /\ UNCHANGED carries
      \/ carries' = carries \cup {<<ev[e].login, ev[e].account>>} /\ UNCHANGED folder
  BY DEF Editor!Replaces, FolderGets, EditorTypes, DiskTypes
<1>6. QED
  BY <1>1, <1>2, <1>3, <1>4, <1>5

LEMMA AnsweredDoes ==
    ASSUME EditorTypes, NEW e \in Events, Editor!Answered(e)
    PROVE  /\ ev[e].at = "sending"
           /\ UNCHANGED <<folder, path, linked, claude, carries, carrier, forgone, crossed>>
           /\ ev[e].account \in Accounts /\ ev[e].login \in Editor!Logins /\ OthersGoOn(e)
           /\ \/ /\ ev'[e] = Editor!Idle
                 /\ \A p \in Editor!Places : editorLock'[p] = IF editorLock[p] = e THEN "free" ELSE editorLock[p]
              \/ /\ EventIs(e, "replaces") /\ editorLock["editor"] = e
                 /\ UNCHANGED editorLock
                 /\ editorSpent' = editorSpent \cup {ev[e].login}
           /\ \/ UNCHANGED <<made, editorSpent, profile>>
              \/ /\ profile[ev[e].account] = ev[e].login /\ ev[e].login \notin editorSpent
                 /\ made < MaxMade
                 /\ made' = made + 1 /\ editorSpent' = editorSpent \cup {ev[e].login}
                 /\ Gets(ev[e].account, Editor!Renewed(ev[e].login))
<1> USE EditorAssumption DEF Editor!disk, Editor!place, Editor!queue, Editor!history,
        Editor!vars
<1>1. /\ ev[e].at = "sending"
      /\ UNCHANGED <<folder, path, linked, claude, carries, carrier, forgone, crossed>>
  BY DEF Editor!Answered
<1>2. ev[e].account \in Accounts /\ ev[e].login \in Editor!Logins /\ OthersGoOn(e)
  BY DEF Editor!Answered, Editor!Ends, Editor!Goes, OthersGoOn, EditorTypes, EventTypes
<1>3. \/ /\ ev'[e] = Editor!Idle
         /\ \A p \in Editor!Places : editorLock'[p] = IF editorLock[p] = e THEN "free" ELSE editorLock[p]
      \/ /\ EventIs(e, "replaces") /\ editorLock["editor"] = e /\ UNCHANGED editorLock
         /\ editorSpent' = editorSpent \cup {ev[e].login}
  BY DEF Editor!Answered, Editor!Ends, Editor!Unlocks, Editor!Goes, EventIs, EditorTypes,
     EventTypes, EventRecord
<1>4. \/ UNCHANGED <<made, editorSpent, profile>>
      \/ /\ profile[ev[e].account] = ev[e].login /\ ev[e].login \notin editorSpent
         /\ made < MaxMade
         /\ made' = made + 1 /\ editorSpent' = editorSpent \cup {ev[e].login}
         /\ Gets(ev[e].account, Editor!Renewed(ev[e].login))
  <2>1. CASE /\ ~(ev[e].login \in editorSpent \/ made = MaxMade \/ profile[ev[e].account] # ev[e].login)
             /\ made' = made + 1 /\ editorSpent' = editorSpent \cup {ev[e].login}
             /\ profile' = [profile EXCEPT ![ev[e].account] = Editor!Renewed(ev[e].login)]
    <3>1. made < MaxMade
      BY <2>1 DEF EditorTypes, DiskTypes
    <3>2. Gets(ev[e].account, Editor!Renewed(ev[e].login))
      BY <1>2, <2>1 DEF Gets, EditorTypes, DiskTypes
    <3>3. QED
      BY <2>1, <3>1, <3>2
  <2>2. CASE UNCHANGED <<made, editorSpent, profile>>
    BY <2>2
  <2>3. QED
    BY <2>1, <2>2 DEF Editor!Answered
<1>5. QED
  BY <1>1, <1>2, <1>3, <1>4

LEMMA CreatesDoes ==
    ASSUME EditorTypes, NEW e \in Events, Editor!Creates(e)
    PROVE  /\ path = "missing"
           /\ UNCHANGED <<made, editorSpent, profile, linked, claude, editorLock, carries, carrier, forgone, crossed>>
           /\ \/ UNCHANGED <<path, folder>> /\ ev'[e] = Editor!Idle
              \/ /\ path' = "folder" /\ folder'.login = folder.login
                 /\ folder'.record = None /\ folder'.says = None
                 /\ EventIs(e, "takesUp") /\ ev[e].at = "looks"
           /\ OthersGoOn(e)
<1> USE EditorAssumption DEF Editor!disk, Editor!place, Editor!queue, Editor!history,
        Editor!vars
<1>1. /\ path = "missing"
      /\ UNCHANGED <<made, editorSpent, profile, linked, claude, editorLock, carries, carrier, forgone, crossed>>
  BY DEF Editor!Creates
<1>2. \/ UNCHANGED <<path, folder>> /\ ev'[e] = Editor!Idle
      \/ /\ path' = "folder" /\ folder'.login = folder.login /\ folder'.record = None
         /\ folder'.says = None
         /\ EventIs(e, "takesUp") /\ ev[e].at = "looks"
  <2>1. Editor!Goes(e, "takesUp") => EventIs(e, "takesUp")
    BY DEF Editor!Goes, EventIs, EditorTypes, EventTypes
  <2>2. Editor!Ends(e) => ev'[e] = Editor!Idle
    BY DEF Editor!Ends, EditorTypes, EventTypes
  <2>3. QED
    BY <2>1, <2>2 DEF Editor!Creates, EditorTypes, DiskTypes
<1>3. OthersGoOn(e)
  BY DEF Editor!Creates, Editor!Goes, Editor!Ends, OthersGoOn, EditorTypes, EventTypes
<1>4. QED
  BY <1>1, <1>2, <1>3

LEMMA SignsInDoes ==
    ASSUME EditorTypes, NEW a \in Accounts, Editor!SignsIn(a)
    PROVE  /\ claude.at = "idle" /\ claude'.at = "signing"
           /\ claude'.sends = Editor!SignIn(a) /\ path \in {"folder", "other"}
           /\ made < MaxMade /\ made' = made + 1
           /\ forgone' = forgone \cup {Editor!Chain(folder.login)}
           /\ UNCHANGED <<editorSpent, profile, path, linked, editorLock, carries, carrier, ev, crossed>>
           /\ FolderGets(Editor!SignIn(a))
<1> USE EditorAssumption DEF Editor!disk, Editor!place, Editor!queue, Editor!history,
        Editor!vars
<1>1. /\ claude.at = "idle" /\ claude'.at = "signing" /\ claude'.sends = Editor!SignIn(a)
      /\ path \in {"folder", "other"}
  BY DEF Editor!SignsIn
<1>2. /\ made < MaxMade /\ made' = made + 1
      /\ forgone' = forgone \cup {Editor!Chain(folder.login)}
  BY DEF Editor!SignsIn
<1>3. UNCHANGED <<editorSpent, profile, path, linked, editorLock, carries, carrier, ev, crossed>>
  BY DEF Editor!SignsIn
<1>4. FolderGets(Editor!SignIn(a))
  BY DEF Editor!SignsIn, FolderGets
<1>5. QED
  BY <1>1, <1>2, <1>3, <1>4

LEMMA MovesDoes ==
    ASSUME EditorTypes, NEW e \in Events, Editor!Moves(e)
    PROVE  /\ ev[e].at = "moves"
           /\ UNCHANGED <<made, editorSpent, linked, claude, editorLock, carries, carrier, forgone>>
           /\ active \in Accounts /\ ev'[e] = Editor!Idle /\ OthersGoOn(e)
           /\ \/ UNCHANGED <<profile, folder, path, crossed>>
              \/ /\ path # "missing" /\ path' = "folder"
                 /\ FolderIsFor(active, profile'[active])
                 /\ editorLock["editor"] = "free"
                 /\ (crossed' = {} => claude.at # "signing")
                 /\ folder.record # active \/ folder.login = Editor!NoLogin
                 /\ \/ /\ UNCHANGED profile
                       /\ \/ folder.record \in {active, None} \/ folder.says # folder.record
                          \/ ~Editor!NewerThanStored(folder.login, folder.record)
                    \/ /\ folder.record \in Accounts \ {active}
                       /\ Editor!NewerThanStored(folder.login, folder.record)
                       /\ folder.says = folder.record /\ Gets(folder.record, folder.login)
<1> USE EditorAssumption DEF Editor!disk, Editor!place, Editor!queue, Editor!history,
        Editor!vars
<1>1. /\ ev[e].at = "moves"
      /\ UNCHANGED <<made, editorSpent, linked, claude, editorLock, carries, carrier, forgone>>
  BY DEF Editor!Moves
<1>2. active \in Accounts /\ ev'[e] = Editor!Idle /\ OthersGoOn(e)
  BY DEF Editor!Moves, Editor!Ends, OthersGoOn, EditorTypes, PlaceTypes, EventTypes
<1>3. \/ UNCHANGED <<profile, folder, path, crossed>>
      \/ /\ path # "missing" /\ path' = "folder" /\ FolderIsFor(active, profile'[active])
         /\ editorLock["editor"] = "free" /\ (crossed' = {} => claude.at # "signing")
         /\ folder.record # active \/ folder.login = Editor!NoLogin
         /\ \/ /\ UNCHANGED profile
               /\ \/ folder.record \in {active, None} \/ folder.says # folder.record
                  \/ ~Editor!NewerThanStored(folder.login, folder.record)
            \/ /\ folder.record \in Accounts \ {active}
               /\ Editor!NewerThanStored(folder.login, folder.record)
               /\ folder.says = folder.record /\ Gets(folder.record, folder.login)
  BY DEF Editor!Moves, Editor!ToMove, Editor!MovesTo, Editor!SavedHome, Editor!SignInMet,
     FolderIsFor, Gets, EditorTypes, DiskTypes, PlaceTypes
<1>4. QED
  BY <1>1, <1>2, <1>3

LEMMA TurnsOffDoes ==
    ASSUME EditorTypes, Editor!TurnsOff
    PROVE  /\ UNCHANGED <<made, editorSpent, linked, claude, editorLock, carries, carrier, ev, forgone>>
           /\ \/ UNCHANGED <<profile, folder, path, crossed>>
              \/ /\ path = "link" /\ path' = "missing" /\ UNCHANGED <<profile, folder>>
                 /\ crossed' = {} => claude.at # "renewing"
              \/ /\ path = "folder" /\ path' = "missing" /\ claude.at = "closed"
                 /\ folder' = Editor!NoFolder
                 /\ \/ /\ UNCHANGED profile
                       /\ \/ folder.record = None \/ folder.says # folder.record
                          \/ ~Editor!NewerThanStored(folder.login, folder.record)
                    \/ /\ folder.record \in Accounts
                       /\ Editor!NewerThanStored(folder.login, folder.record)
                       /\ folder.says = folder.record /\ Gets(folder.record, folder.login)
<1> USE EditorAssumption DEF Editor!disk, Editor!place, Editor!queue, Editor!history,
        Editor!vars
<1>1. UNCHANGED <<made, editorSpent, linked, claude, editorLock, carries, carrier, ev, forgone>>
  BY DEF Editor!TurnsOff, Editor!Retire
<1>2. \/ UNCHANGED <<profile, folder, path, crossed>>
      \/ /\ path = "link" /\ path' = "missing" /\ UNCHANGED <<profile, folder>>
         /\ crossed' = {} => claude.at # "renewing"
      \/ /\ path = "folder" /\ path' = "missing" /\ claude.at = "closed"
         /\ folder' = Editor!NoFolder
         /\ \/ /\ UNCHANGED profile
               /\ \/ folder.record = None \/ folder.says # folder.record
                  \/ ~Editor!NewerThanStored(folder.login, folder.record)
            \/ /\ folder.record \in Accounts
               /\ Editor!NewerThanStored(folder.login, folder.record)
               /\ folder.says = folder.record /\ Gets(folder.record, folder.login)
  BY DEF Editor!TurnsOff, Editor!Retire, Editor!LinkLeaves, Editor!ChatOpen,
     Editor!SavedHome, Gets, EditorTypes, DiskTypes
<1>3. QED
  BY <1>1, <1>2

LEMMA BeginsDoes ==
    ASSUME EditorTypes, NEW e \in Events, NEW how \in {"switch", "refresh", "setUp", "launch"}, Editor!Begins(e, how)
    PROVE  /\ UNCHANGED <<made, editorSpent, linked, claude, editorLock, carries, carrier, forgone>>
           /\ \/ UNCHANGED <<profile, folder, path, crossed>>
              \/ /\ path = "link" /\ path' = "missing" /\ UNCHANGED <<profile, folder>>
                 /\ crossed' = {} => claude.at # "renewing"
              \/ /\ path = "folder" /\ path' = "missing" /\ claude.at = "closed"
                 /\ folder' = Editor!NoFolder
                 /\ \/ /\ UNCHANGED profile
                       /\ \/ folder.record = None \/ folder.says # folder.record
                          \/ ~Editor!NewerThanStored(folder.login, folder.record)
                    \/ /\ folder.record \in Accounts
                       /\ Editor!NewerThanStored(folder.login, folder.record)
                       /\ folder.says = folder.record /\ Gets(folder.record, folder.login)
           /\ OthersGoOn(e) /\ (ev'[e] = ev[e] \/ (ev'[e].at = "looks" /\ ev'[e].how = how))
<1> USE EditorAssumption DEF Editor!disk, Editor!place, Editor!queue, Editor!history,
        Editor!vars
<1>1. UNCHANGED <<made, editorSpent, linked, claude, editorLock, carries, carrier, forgone>>
  BY DEF Editor!Begins, Editor!Retire
<1>2. \/ UNCHANGED <<profile, folder, path, crossed>>
      \/ /\ path = "link" /\ path' = "missing" /\ UNCHANGED <<profile, folder>>
         /\ crossed' = {} => claude.at # "renewing"
      \/ /\ path = "folder" /\ path' = "missing" /\ claude.at = "closed"
         /\ folder' = Editor!NoFolder
         /\ \/ /\ UNCHANGED profile
               /\ \/ folder.record = None \/ folder.says # folder.record
                  \/ ~Editor!NewerThanStored(folder.login, folder.record)
            \/ /\ folder.record \in Accounts
               /\ Editor!NewerThanStored(folder.login, folder.record)
               /\ folder.says = folder.record /\ Gets(folder.record, folder.login)
  BY DEF Editor!Begins, Editor!Retire, Editor!Idle, Editor!LinkLeaves, Editor!ChatOpen,
     Editor!SavedHome, Editor!NoFolder, Editor!NoLogin, FolderGets, FolderIsFor, Gets,
     EventIs, OthersGoOn, EditorTypes, DiskTypes, PlaceTypes, EventTypes
<1>3. OthersGoOn(e) /\ (ev'[e] = ev[e] \/ (ev'[e].at = "looks" /\ ev'[e].how = how))
  <2>1. PICK rec : rec = [Editor!Idle EXCEPT !.at = "looks", !.how = how]
    OBVIOUS
  <2>2. rec.at = "looks" /\ rec.how = how
    BY <2>1
  <2>3. ev' \in {ev, [ev EXCEPT ![e] = rec]}
    BY <2>1 DEF Editor!Begins
  <2>4. QED
    BY <2>2, <2>3 DEF OthersGoOn, EditorTypes, EventTypes
<1>4. QED
  BY <1>1, <1>2, <1>3

LEMMA LinkAnsweredDoes ==
    ASSUME EditorTypes, NEW e \in Events, Editor!LinkAnswered(e)
    PROVE  /\ UNCHANGED <<made, editorSpent, claude, editorLock, carries, carrier, forgone>>
           /\ OthersGoOn(e)
           /\ \/ UNCHANGED <<path, folder, profile>> /\ ev'[e] = Editor!Idle
              \/ /\ path = "link" /\ path' = "folder" /\ linked \in Accounts
                 /\ EventIs(e, "takesUp")
                 /\ editorLock[linked] = "free" /\ folder.login = ev[e].login
                 /\ UNCHANGED <<linked, crossed>>
                 /\ IF folder.login = Editor!NoLogin
                    THEN UNCHANGED profile /\ FolderIsFor(linked, profile[linked])
                    ELSE /\ FolderIsFor(folder.login.of, folder.login)
                         /\ IF Editor!NewerThanStored(folder.login, folder.login.of)
                            THEN Gets(folder.login.of, folder.login) ELSE UNCHANGED profile
           /\ \/ UNCHANGED <<linked, crossed>>
              \/ /\ path' = "link" /\ linked' = active
                 /\ (crossed' = {} => linked' = linked \/ claude.at # "renewing")
<1> USE EditorAssumption DEF Editor!disk, Editor!place, Editor!queue, Editor!history,
        Editor!vars
<1>1. /\ UNCHANGED <<made, editorSpent, claude, editorLock, carries, carrier, forgone>>
      /\ OthersGoOn(e)
  BY DEF Editor!LinkAnswered, Editor!MovesIn, Editor!StaysLinked, Editor!Goes,
     Editor!Ends, OthersGoOn, EditorTypes, EventTypes
<1>2. \/ UNCHANGED <<path, folder, profile>> /\ ev'[e] = Editor!Idle
      \/ /\ path = "link" /\ path' = "folder" /\ linked \in Accounts
         /\ EventIs(e, "takesUp")
         /\ editorLock[linked] = "free" /\ folder.login = ev[e].login
         /\ UNCHANGED <<linked, crossed>>
         /\ IF folder.login = Editor!NoLogin
            THEN UNCHANGED profile /\ FolderIsFor(linked, profile[linked])
            ELSE /\ FolderIsFor(folder.login.of, folder.login)
                 /\ IF Editor!NewerThanStored(folder.login, folder.login.of)
                    THEN Gets(folder.login.of, folder.login) ELSE UNCHANGED profile
  <2>1. Editor!Goes(e, "takesUp") => EventIs(e, "takesUp")
    BY DEF Editor!Goes, EventIs, EditorTypes, EventTypes
  <2>2. CASE Editor!StaysLinked(e)
    BY <2>2 DEF Editor!StaysLinked, Editor!Ends, EditorTypes, EventTypes
  <2>3. CASE Editor!MovesIn(e, ev[e].login.of)
    <3>1. linked \in Accounts
      BY <2>3 DEF Editor!MovesIn, EditorTypes, PlaceTypes
    <3>2. CASE folder.login = Editor!NoLogin
      BY <2>1, <2>3, <3>1, <3>2 DEF Editor!MovesIn, Editor!BuiltFor, Editor!InUse,
         FolderIsFor
    <3>3. CASE folder.login # Editor!NoLogin
      <4>1. folder.login.of \in Accounts
        BY <3>3, LoginFacts DEF EditorTypes, DiskTypes
      <4>2. QED
        BY <2>1, <2>3, <3>1, <3>3, <4>1 DEF Editor!MovesIn, Editor!BuiltFor, Editor!InUse,
           FolderIsFor, Gets, EditorTypes, DiskTypes
    <3>4. QED
      BY <3>2, <3>3
  <2>4. QED
    BY <2>2, <2>3 DEF Editor!LinkAnswered
<1>3. \/ UNCHANGED <<linked, crossed>>
      \/ /\ path' = "link" /\ linked' = active
         /\ (crossed' = {} => linked' = linked \/ claude.at # "renewing")
  BY DEF Editor!LinkAnswered, Editor!MovesIn, Editor!StaysLinked, Editor!LinkLeaves
<1>4. QED
  BY <1>1, <1>2, <1>3

LEMMA LooksAtLinkDoes ==
    ASSUME EditorTypes, NEW e \in Events, Editor!LooksAtLink(e)
    PROVE  /\ UNCHANGED <<made, editorSpent, profile, folder, path, claude, editorLock, carries, carrier, forgone>>
           /\ OthersGoOn(e)
           /\ \/ UNCHANGED <<linked, crossed>>
              \/ /\ path' = "link" /\ linked' = active
                 /\ (crossed' = {} => linked' = linked \/ claude.at # "renewing")
           /\ \/ ev'[e] = Editor!Idle
              \/ ev'[e].at = "asksLink" /\ ev[e].at = "looks" /\ ev'[e].how = ev[e].how
<1> USE EditorAssumption DEF Editor!disk, Editor!place, Editor!queue, Editor!history,
        Editor!vars
<1>1. /\ UNCHANGED <<made, editorSpent, profile, folder, path, claude, editorLock, carries, carrier, forgone>>
      /\ OthersGoOn(e)
  BY DEF Editor!LooksAtLink, Editor!StaysLinked, Editor!Ends, OthersGoOn, EditorTypes,
     EventTypes
<1>2. \/ UNCHANGED <<linked, crossed>>
      \/ /\ path' = "link" /\ linked' = active
         /\ (crossed' = {} => linked' = linked \/ claude.at # "renewing")
  BY DEF Editor!LooksAtLink, Editor!StaysLinked, Editor!LinkLeaves, EventRecord
<1>3. \/ ev'[e] = Editor!Idle
      \/ ev'[e].at = "asksLink" /\ ev[e].at = "looks" /\ ev'[e].how = ev[e].how
  BY DEF Editor!LooksAtLink, Editor!StaysLinked, Editor!Ends, EditorTypes, EventTypes,
     EventRecord
<1>4. QED
  BY <1>1, <1>2, <1>3

LEMMA OtherAnsweredDoes ==
    ASSUME EditorTypes, NEW e \in Events, Editor!OtherAnswered(e)
    PROVE  /\ UNCHANGED <<made, editorSpent, linked, claude, editorLock, carries, carrier, forgone, crossed>>
           /\ OthersGoOn(e)
           /\ \/ UNCHANGED <<path, folder, profile>> /\ ev'[e] = Editor!Idle
              \/ /\ path = "other" /\ path' = "folder" /\ EventIs(e, "takesUp")
                 /\ claude.at = "closed"
                 /\ folder.login = ev[e].login /\ FolderIsFor(folder.login.of, folder.login)
                 /\ IF folder.login # Editor!NoLogin /\ Editor!NewerThanStored(folder.login, folder.login.of)
                    THEN Gets(folder.login.of, folder.login) ELSE UNCHANGED profile
<1> USE EditorAssumption DEF Editor!disk, Editor!place, Editor!queue, Editor!history,
        Editor!vars
<1>1. /\ UNCHANGED <<made, editorSpent, linked, claude, editorLock, carries, carrier, forgone, crossed>>
      /\ OthersGoOn(e)
  BY DEF Editor!OtherAnswered, Editor!Goes, Editor!Ends, OthersGoOn, EditorTypes, EventTypes
<1>2. \/ UNCHANGED <<path, folder, profile>> /\ ev'[e] = Editor!Idle
      \/ /\ path = "other" /\ path' = "folder" /\ EventIs(e, "takesUp")
         /\ claude.at = "closed"
         /\ folder.login = ev[e].login /\ FolderIsFor(folder.login.of, folder.login)
         /\ IF folder.login # Editor!NoLogin /\ Editor!NewerThanStored(folder.login, folder.login.of)
            THEN Gets(folder.login.of, folder.login) ELSE UNCHANGED profile
  BY LoginFacts DEF Editor!OtherAnswered, Editor!ChatOpen, Editor!BuiltFor, Editor!Goes,
     Editor!Ends, FolderIsFor, Gets, EventIs, EditorTypes, DiskTypes, EventTypes,
     EventRecord
<1>3. QED
  BY <1>1, <1>2

LEMMA OwnerAnswersDoes ==
    ASSUME EditorTypes, NEW e \in Events, Editor!OwnerAnswers(e)
    PROVE  /\ UNCHANGED <<made, editorSpent, folder, path, linked, claude, editorLock, carries, carrier, forgone>>
           /\ ev[e].at = "asks" /\ ev[e].account \in Accounts
           /\ ev[e].login \in Editor!Logins /\ OthersGoOn(e)
           /\ ev'[e].at = Editor!After(e) /\ ev'[e].how = ev[e].how
           /\ ev'[e].account = ev[e].account
           /\ \/ UNCHANGED <<profile, crossed>>
              \/ /\ ev[e].login.of = ev[e].account /\ folder.login = ev[e].login
                 /\ path \in {"folder", "other"} /\ Gets(ev[e].account, ev[e].login)
                 /\ crossed' = {} => \/ Editor!NewerThanStored(ev[e].login, ev[e].account)
                                    \/ ev[e].login = profile[ev[e].account]
<1> USE EditorAssumption DEF Editor!disk, Editor!place, Editor!queue, Editor!history,
        Editor!vars
<1>1. UNCHANGED <<made, editorSpent, folder, path, linked, claude, editorLock, carries, carrier, forgone>>
  BY DEF Editor!OwnerAnswers
<1>2. /\ ev[e].at = "asks" /\ ev[e].account \in Accounts /\ ev[e].login \in Editor!Logins
      /\ OthersGoOn(e)
  BY DEF Editor!OwnerAnswers, OthersGoOn, EditorTypes, EventTypes
<1>3. /\ ev'[e].at = Editor!After(e) /\ ev'[e].how = ev[e].how
      /\ ev'[e].account = ev[e].account
  BY DEF Editor!OwnerAnswers, EditorTypes, EventTypes
<1>4. \/ UNCHANGED <<profile, crossed>>
      \/ /\ ev[e].login.of = ev[e].account /\ folder.login = ev[e].login
         /\ path \in {"folder", "other"} /\ Gets(ev[e].account, ev[e].login)
         /\ crossed' = {} => \/ Editor!NewerThanStored(ev[e].login, ev[e].account)
                            \/ ev[e].login = profile[ev[e].account]
  BY DEF Editor!OwnerAnswers, Editor!NoLogin, EditorTypes, EventTypes, EventRecord
<1>5. QED
  BY <1>1, <1>2, <1>3, <1>4

Copies == UNCHANGED <<made, editorSpent>> /\ Stored' \subseteq Stored \cup {Editor!NoLogin}
RenewsOne ==
    \E old \in Editor!Logins :
        /\ old \in Stored \ editorSpent /\ made < MaxMade /\ made' = made + 1
        /\ editorSpent' = editorSpent \cup {old}
        /\ Stored' \subseteq Stored \cup {Editor!NoLogin, Editor!Renewed(old)}
Signs ==
    \E a \in Accounts :
        /\ made < MaxMade /\ made' = made + 1 /\ editorSpent' = editorSpent
        /\ Stored' \subseteq Stored \cup {Editor!SignIn(a)}

LEMMA StoredType ==
  EditorTypes => Stored \subseteq Editor!Logins \cup {Editor!NoLogin} /\ editorSpent
     \subseteq Editor!Logins /\ made \in 0..MaxMade
  BY DEF EditorTypes, DiskTypes, CarryTypes, CarryRecord, Stored

LEMMA CopyOrder ==
    ASSUME EditorTypes, OrderInv, Copies PROVE OrderInv'
<1> USE EditorAssumption
<1>1. /\ Stored \subseteq Editor!Logins \cup {Editor!NoLogin}
      /\ editorSpent \subseteq Editor!Logins /\ made \in 0..MaxMade
  BY StoredType
<1>2. MadeOK'
  BY <1>1, LoginFacts DEF Copies, OrderInv, MadeOK
<1>3. NewestLive'
  BY <1>1, LoginFacts, ChainFacts DEF Copies, OrderInv, NewestLive
<1>4. OneLive'
  BY <1>1, LoginFacts, ChainFacts DEF Copies, OrderInv, OneLive
<1>5. QED
  BY <1>2, <1>3, <1>4 DEF OrderInv

LEMMA RenewOrder ==
    ASSUME EditorTypes, OrderInv, RenewsOne PROVE OrderInv'
<1> USE EditorAssumption
<1>1. /\ Stored \subseteq Editor!Logins \cup {Editor!NoLogin}
      /\ editorSpent \subseteq Editor!Logins /\ made \in 0..MaxMade
  BY StoredType
<1>2. PICK old \in Editor!Logins :
        /\ old \in Stored \ editorSpent /\ made < MaxMade /\ made' = made + 1
        /\ editorSpent' = editorSpent \cup {old}
        /\ Stored' \subseteq Stored \cup {Editor!NoLogin, Editor!Renewed(old)}
  BY DEF RenewsOne
<1>3. PICK new \in Editor!Logins :
        new = Editor!Renewed(old) /\ new.chain = old.chain /\ new.at = made + 1 /\ Editor!Chain(new) = Editor!Chain(old)
  BY <1>1, <1>2, NewLogins
<1>4. \A l \in Stored \cup editorSpent : l.at <= made /\ l.chain <= made /\ l.at \in Nat /\ l.chain \in Nat
  BY <1>1, LoginFacts DEF OrderInv, MadeOK
<1>5. MadeOK'
  BY <1>1, <1>2, <1>3, <1>4, LoginFacts DEF MadeOK
<1>6. \A l \in Stored \ editorSpent' : Editor!Chain(l) # Editor!Chain(old)
  BY <1>2 DEF OrderInv, OneLive
<1>7. Stored' \ editorSpent' \subseteq (Stored \ editorSpent') \cup {Editor!NoLogin, new}
  BY <1>2, <1>3
<1>8. \A k \in Editor!Logins : Editor!Chain(k) # Editor!Chain(Editor!NoLogin)
  BY LoginFacts, ChainFacts
<1>9. NewestLive'
  <2> SUFFICES ASSUME NEW l \in Stored' \ editorSpent', NEW k \in editorSpent',
                      Editor!Chain(l) = Editor!Chain(k)
               PROVE  k.at < l.at
    BY DEF NewestLive
  <2>1. CASE l \in Stored \ editorSpent'
    BY <1>2, <1>6, <2>1 DEF OrderInv, NewestLive
  <2>2. CASE l = new
    BY <1>1, <1>2, <1>3, <1>4, <2>2
  <2>3. CASE l = Editor!NoLogin
    BY <1>1, <1>2, <1>8, <2>3
  <2>4. QED
    BY <1>7, <2>1, <2>2, <2>3
<1>10. OneLive'
  <2> SUFFICES ASSUME NEW l \in Stored' \ editorSpent', NEW k \in Stored' \ editorSpent',
                      Editor!Chain(l) = Editor!Chain(k)
               PROVE  l = k
    BY DEF OneLive
  <2>1. CASE l \in Stored \ editorSpent' /\ k \in Stored \ editorSpent'
    BY <1>2, <2>1 DEF OrderInv, OneLive
  <2>2. CASE l = new \/ k = new
    BY <1>1, <1>2, <1>3, <1>6, <1>7, <1>8, <2>2
  <2>3. CASE l = Editor!NoLogin \/ k = Editor!NoLogin
    BY <1>1, <1>3, <1>7, <1>8, <2>3
  <2>4. QED
    BY <1>7, <2>1, <2>2, <2>3
<1>11. QED
  BY <1>5, <1>9, <1>10 DEF OrderInv

LEMMA SignOrder ==
    ASSUME EditorTypes, OrderInv, Signs PROVE OrderInv'
<1> USE EditorAssumption
<1>1. /\ Stored \subseteq Editor!Logins \cup {Editor!NoLogin}
      /\ editorSpent \subseteq Editor!Logins /\ made \in 0..MaxMade
  BY StoredType
<1>2. PICK a \in Accounts :
        /\ made < MaxMade /\ made' = made + 1 /\ editorSpent' = editorSpent
        /\ Stored' \subseteq Stored \cup {Editor!SignIn(a)}
  BY DEF Signs
<1>3. PICK new \in Editor!Logins : new = Editor!SignIn(a) /\ new.chain = made + 1 /\ new.at = made + 1
  BY <1>1, <1>2, NewLogins
<1>4. \A l \in Stored \cup editorSpent : l.at <= made /\ l.chain <= made /\ l.at \in Nat /\ l.chain \in Nat
  BY <1>1, LoginFacts DEF OrderInv, MadeOK
<1>5. \A l \in Stored \cup editorSpent : Editor!Chain(l) # Editor!Chain(new)
  BY <1>1, <1>3, <1>4, ChainFacts
<1>6. MadeOK'
  BY <1>1, <1>2, <1>3, <1>4 DEF MadeOK
<1>7. NewestLive'
  BY <1>2, <1>3, <1>5 DEF OrderInv, NewestLive
<1>8. OneLive'
  BY <1>2, <1>3, <1>5 DEF OrderInv, OneLive
<1>9. QED
  BY <1>6, <1>7, <1>8 DEF OrderInv

LEMMA StoredSteps ==
  EditorTypes /\ Good /\ [Editor!Next]_(Editor!vars) /\ crossed' = {} => (Copies \/
     RenewsOne \/ Signs)
<1> SUFFICES ASSUME EditorTypes, Good, [Editor!Next]_(Editor!vars), crossed' = {} PROVE
                    (Copies \/ RenewsOne \/ Signs)
  OBVIOUS
<1> USE EditorAssumption DEF Editor!disk, Editor!place, Editor!queue, Editor!history,
        Editor!vars
<1>1. ASSUME Editor!ChatOpens \/ Editor!ChatCloses \/ Editor!RenewBegins PROVE (Copies \/
             RenewsOne \/ Signs)
  BY <1>1 DEF Editor!ChatOpens, Editor!ChatCloses, Editor!RenewBegins, Copies, Stored
<1>2. ASSUME NEW a \in Accounts, Editor!Switches(a) PROVE (Copies \/ RenewsOne \/ Signs)
  BY <1>2 DEF Editor!Switches, Copies, Stored
<1>3. ASSUME NEW e \in Events, Editor!LooksAtLink(e) \/ Editor!TakesOver(e) \/
             Editor!TakesUp(e) \/ Editor!OwnerUnknown(e) \/ Editor!Sends(e)
      PROVE  (Copies \/ RenewsOne \/ Signs)
  BY <1>3 DEF Editor!LooksAtLink, Editor!StaysLinked, Editor!TakesOver, Editor!TakesUp,
     Editor!OwnerUnknown, Editor!Sends, Copies, Stored
<1>4. ASSUME Editor!RenewEnds PROVE (Copies \/ RenewsOne \/ Signs)
  <2>1. /\ UNCHANGED carrier /\ claude.sends \in Editor!Logins
        /\ (path = "link" => linked \in Accounts)
    BY <1>4 DEF Editor!RenewEnds, EditorTypes, ClaudeTypes, PlaceTypes
  <2>2. claude.sends \in Stored
    BY <1>4, <2>1 DEF Editor!RenewEnds, Good, RenewingInv, Editor!InUse, Stored
  <2>3. CASE UNCHANGED <<made, editorSpent, profile, folder>>
    BY <2>1, <2>3 DEF Copies, Stored
  <2>4. CASE ~UNCHANGED <<made, editorSpent, profile, folder>>
    <3>1. /\ claude.sends \notin editorSpent /\ made # MaxMade /\ made' = made + 1
          /\ editorSpent' = editorSpent \cup {claude.sends}
          /\ \/ /\ path = "link"
                /\ profile' = [profile EXCEPT ![linked] = Editor!Renewed(claude.sends)]
                /\ UNCHANGED folder
             \/ /\ folder' = [folder EXCEPT !.login = Editor!Renewed(claude.sends)]
                /\ \/ UNCHANGED profile
                   \/ /\ path = "link"
                      /\ profile' = [profile EXCEPT ![linked] = Editor!NoLogin]
      BY <1>4, <2>4 DEF Editor!RenewEnds
    <3>2. Stored' \subseteq Stored \cup {Editor!NoLogin, Editor!Renewed(claude.sends)}
      BY <2>1, <3>1 DEF Stored, EditorTypes, DiskTypes
    <3>3. made < MaxMade
      BY <3>1 DEF EditorTypes, DiskTypes
    <3>4. QED
      BY <2>1, <2>2, <3>1, <3>2, <3>3 DEF RenewsOne
  <2>5. QED
    BY <2>3, <2>4
<1>5. ASSUME Editor!SignedIn PROVE (Copies \/ RenewsOne \/ Signs)
  BY <1>5 DEF Editor!SignedIn, Copies, Stored
<1>6. ASSUME Editor!TurnsOff PROVE (Copies \/ RenewsOne \/ Signs)
  BY <1>6 DEF Editor!TurnsOff, Editor!Retire, Editor!SavedHome, Editor!NoFolder, Copies,
     Stored, EditorTypes, DiskTypes
<1>7. ASSUME Editor!CarryReads PROVE (Copies \/ RenewsOne \/ Signs)
  BY <1>7 DEF Editor!CarryReads, Copies, Stored, EditorTypes, CarryTypes
<1>8. ASSUME Editor!CarryWrites PROVE (Copies \/ RenewsOne \/ Signs)
  BY <1>8, RecordFacts DEF Editor!CarryWrites, Editor!CarriedInto, Copies, Stored,
     EditorTypes, DiskTypes
<1>9. ASSUME NEW a \in Accounts, Editor!SignsIn(a) PROVE (Copies \/ RenewsOne \/ Signs)
  BY <1>9 DEF Editor!SignsIn, Stored, Signs
<1>10. ASSUME NEW a \in Accounts, Editor!RenewedElsewhere(a)
      PROVE  (Copies \/ RenewsOne \/ Signs)
  BY <1>10 DEF Editor!RenewedElsewhere, Stored, EditorTypes, DiskTypes, RenewsOne
<1>11. ASSUME NEW e \in Events, Editor!Creates(e) PROVE (Copies \/ RenewsOne \/ Signs)
  <2>1. folder'.login = folder.login
    BY <1>11 DEF Editor!Creates, EditorTypes, DiskTypes
  <2>2. UNCHANGED <<made, editorSpent, profile, carrier>>
    BY <1>11 DEF Editor!Creates
  <2>3. QED
    BY <2>1, <2>2 DEF Copies, Stored
<1>12. ASSUME NEW e \in Events, Editor!LinkAnswered(e) PROVE (Copies \/ RenewsOne \/ Signs)
  BY <1>12 DEF Editor!LinkAnswered, Editor!MovesIn, Editor!StaysLinked, Editor!BuiltFor,
     Editor!InUse, Copies, Stored, EditorTypes, DiskTypes, PlaceTypes
<1>13. ASSUME NEW e \in Events, Editor!OtherAnswered(e) PROVE (Copies \/ RenewsOne \/ Signs)
  BY <1>13 DEF Editor!OtherAnswered, Editor!BuiltFor, Copies, Stored, EditorTypes, DiskTypes
<1>14. ASSUME NEW e \in Events, Editor!OwnerAnswers(e) PROVE (Copies \/ RenewsOne \/ Signs)
  BY <1>14 DEF Editor!OwnerAnswers, Copies, Stored, EditorTypes, DiskTypes
<1>15. ASSUME NEW e \in Events, Editor!Refreshes(e) PROVE (Copies \/ RenewsOne \/ Signs)
  BY <1>15 DEF Editor!Refreshes, Copies, Stored, EditorTypes, DiskTypes
<1>16. ASSUME NEW e \in Events, Editor!Moves(e) PROVE (Copies \/ RenewsOne \/ Signs)
  BY <1>16 DEF Editor!Moves, Editor!MovesTo, Editor!SavedHome, Editor!SignInMet, Copies,
     Stored, EditorTypes, DiskTypes, PlaceTypes
<1>17. ASSUME NEW e \in Events, Editor!Answered(e) PROVE (Copies \/ RenewsOne \/ Signs)
  <2>1. /\ UNCHANGED <<folder, carrier>> /\ ev[e].account \in Accounts
        /\ ev[e].login \in Editor!Logins
    BY <1>17 DEF Editor!Answered, EditorTypes, EventTypes
  <2>2. CASE UNCHANGED <<made, editorSpent, profile>>
    BY <2>1, <2>2 DEF Copies, Stored
  <2>3. CASE ~UNCHANGED <<made, editorSpent, profile>>
    <3>1. /\ made # MaxMade /\ made' = made + 1
          /\ editorSpent' = editorSpent \cup {ev[e].login}
          /\ ev[e].login \notin editorSpent /\ profile[ev[e].account] = ev[e].login
          /\ profile' = [profile EXCEPT ![ev[e].account] = Editor!Renewed(ev[e].login)]
      BY <1>17, <2>3 DEF Editor!Answered
    <3>2. /\ Stored' \subseteq Stored \cup {Editor!Renewed(ev[e].login)}
          /\ ev[e].login \in Stored
      BY <2>1, <3>1 DEF Stored
    <3>3. made < MaxMade
      BY <3>1 DEF EditorTypes, DiskTypes
    <3>4. QED
      BY <2>1, <3>1, <3>2, <3>3 DEF RenewsOne
  <2>4. QED
    BY <2>2, <2>3
<1>18. ASSUME NEW e \in Events, Editor!Replaces(e) PROVE (Copies \/ RenewsOne \/ Signs)
  BY <1>18 DEF Editor!Replaces, Copies, Stored, EditorTypes, DiskTypes, EventTypes
<1>19. ASSUME NEW e \in Events, NEW how \in {"switch", "refresh", "setUp", "launch"},
            Editor!Begins(e, how)
      PROVE  (Copies \/ RenewsOne \/ Signs)
  BY <1>19 DEF Editor!Begins, Editor!Retire, Editor!SavedHome, Editor!NoFolder, Copies,
     Stored, EditorTypes, DiskTypes
<1>20. ASSUME NEW e \in Events, NEW a \in Accounts, Editor!RenewsIdle(e, a)
      PROVE  (Copies \/ RenewsOne \/ Signs)
  BY <1>20 DEF Editor!RenewsIdle, Copies, Stored
<1>21. CASE UNCHANGED Editor!vars
  BY <1>21 DEF Copies, Stored
<1>22. QED
  BY <1>1, <1>2, <1>3, <1>4, <1>5, <1>6, <1>7, <1>8, <1>9, <1>10, <1>11, <1>12, <1>13,
     <1>14, <1>15, <1>16, <1>17, <1>18, <1>19, <1>20, <1>21 DEF Editor!Next

LEMMA OwnInvKept ==
  EditorTypes /\ Good /\ [Editor!Next]_(Editor!vars) /\ crossed' = {} => OwnInv'
<1> SUFFICES ASSUME EditorTypes, Good, [Editor!Next]_(Editor!vars), crossed' = {} PROVE
                    OwnInv'
  OBVIOUS
<1> USE EditorAssumption DEF Editor!disk, Editor!place, Editor!queue, Editor!history,
        Editor!vars
<1>1. ASSUME Editor!ChatOpens \/ Editor!ChatCloses \/ Editor!RenewBegins \/
             Editor!SignedIn \/ Editor!CarryReads \/ Editor!CarryWrites
      PROVE  OwnInv'
  BY <1>1 DEF Editor!ChatOpens, Editor!ChatCloses, Editor!RenewBegins, Editor!SignedIn,
     Editor!CarryReads, Editor!CarryWrites, Good, OwnInv
<1>2. ASSUME NEW a \in Accounts, Editor!SignsIn(a) \/ Editor!Switches(a) PROVE OwnInv'
  BY <1>2 DEF Editor!SignsIn, Editor!Switches, Good, OwnInv
<1>3. ASSUME NEW e \in Events, Editor!Creates(e) \/ Editor!LooksAtLink(e) \/
             Editor!TakesOver(e) \/ Editor!TakesUp(e) \/ Editor!OwnerUnknown(e) \/
             Editor!Refreshes(e) \/ Editor!Sends(e) \/ Editor!Replaces(e)
      PROVE  OwnInv'
  BY <1>3 DEF Editor!Creates, Editor!LooksAtLink, Editor!StaysLinked, Editor!TakesOver,
     Editor!TakesUp, Editor!OwnerUnknown, Editor!Refreshes, Editor!Sends, Editor!Replaces,
     Good, OwnInv
<1>4. ASSUME Editor!RenewEnds PROVE OwnInv'
  BY <1>4, RenewEndsDoes, LoginFacts, NewLogins DEF Gets, Good, OwnInv, RenewingInv,
     DiskTypes, Editor!InUse, EditorTypes
<1>5. ASSUME Editor!TurnsOff PROVE OwnInv'
  BY <1>5, TurnsOffDoes DEF Gets, Good, OwnInv, SaysInv
<1>6. ASSUME NEW a \in Accounts, Editor!RenewedElsewhere(a) PROVE OwnInv'
  BY <1>6, NewLogins DEF Editor!RenewedElsewhere, Good, OwnInv, DiskTypes, EditorTypes
<1>7. ASSUME NEW e \in Events, Editor!LinkAnswered(e) PROVE OwnInv'
  BY <1>7, LinkAnsweredDoes DEF Gets, Good, OwnInv
<1>8. ASSUME NEW e \in Events, Editor!OtherAnswered(e) PROVE OwnInv'
  BY <1>8, OtherAnsweredDoes DEF Gets, Good, OwnInv
<1>9. ASSUME NEW e \in Events, Editor!OwnerAnswers(e) PROVE OwnInv'
  BY <1>9, OwnerAnswersDoes DEF Gets, Good, OwnInv
<1>10. ASSUME NEW e \in Events, Editor!Moves(e) PROVE OwnInv'
  BY <1>10, MovesDoes DEF Gets, Good, OwnInv, SaysInv
<1>11. ASSUME NEW e \in Events, Editor!Answered(e) PROVE OwnInv'
  BY <1>11, AnsweredDoes, NewLogins DEF Gets, Good, OwnInv, DiskTypes, EditorTypes
<1>12. ASSUME NEW e \in Events, NEW how \in {"switch", "refresh", "setUp", "launch"},
            Editor!Begins(e, how)
      PROVE  OwnInv'
  BY <1>12, BeginsDoes DEF Gets, Good, OwnInv, SaysInv
<1>13. ASSUME NEW e \in Events, NEW a \in Accounts, Editor!RenewsIdle(e, a) PROVE OwnInv'
  BY <1>13 DEF Editor!RenewsIdle, Good, OwnInv
<1>14. CASE UNCHANGED Editor!vars
  BY <1>14 DEF Good, OwnInv
<1>15. QED
  BY <1>1, <1>2, <1>3, <1>4, <1>5, <1>6, <1>7, <1>8, <1>9, <1>10, <1>11, <1>12, <1>13,
     <1>14 DEF Editor!Next

LEMMA ShapeInvKept ==
  EditorTypes /\ Good /\ [Editor!Next]_(Editor!vars) /\ crossed' = {} => ShapeInv'
<1> SUFFICES ASSUME EditorTypes, Good, [Editor!Next]_(Editor!vars), crossed' = {} PROVE
                    ShapeInv'
  OBVIOUS
<1> USE EditorAssumption DEF Editor!disk, Editor!place, Editor!queue, Editor!history,
        Editor!vars
<1>1. ASSUME Editor!ChatCloses \/ Editor!RenewBegins \/ Editor!CarryReads PROVE ShapeInv'
  BY <1>1 DEF Editor!ChatCloses, Editor!RenewBegins, Editor!CarryReads, Good, ShapeInv
<1>2. ASSUME NEW a \in Accounts, Editor!Switches(a) \/ Editor!RenewedElsewhere(a) PROVE
             ShapeInv'
  BY <1>2 DEF Editor!Switches, Editor!RenewedElsewhere, Good, ShapeInv
<1>3. ASSUME NEW e \in Events, Editor!LooksAtLink(e) \/ Editor!TakesOver(e) \/
             Editor!TakesUp(e) \/ Editor!OwnerAnswers(e) \/ Editor!OwnerUnknown(e) \/
             Editor!Sends(e) \/ Editor!Answered(e)
      PROVE  ShapeInv'
  BY <1>3 DEF Editor!LooksAtLink, Editor!StaysLinked, Editor!TakesOver, Editor!TakesUp,
     Editor!OwnerAnswers, Editor!OwnerUnknown, Editor!Sends, Editor!Answered, Good,
     ShapeInv
<1>4. ASSUME Editor!ChatOpens PROVE ShapeInv'
  BY <1>4 DEF Editor!ChatOpens, Good, ShapeInv
<1>5. ASSUME Editor!RenewEnds PROVE ShapeInv'
  BY <1>5, RenewEndsDoes, LoginFacts, NewLogins DEF FolderGets, Good, ShapeInv,
     DiskTypes, EditorTypes
<1>6. ASSUME Editor!SignedIn PROVE ShapeInv'
  BY <1>6, LoginFacts DEF Editor!SignedIn, Good, ShapeInv, SigningInv, ClaudeTypes,
     EditorTypes
<1>7. ASSUME Editor!TurnsOff PROVE ShapeInv'
  BY <1>7, TurnsOffDoes DEF Good, ShapeInv, Editor!NoFolder
<1>8. ASSUME Editor!CarryWrites PROVE ShapeInv'
  BY <1>8, CarryWritesDoes, LoginFacts DEF FolderGets, Good, ShapeInv, CarryInv,
     DiskTypes, Editor!Held, EditorTypes
<1>9. ASSUME NEW a \in Accounts, Editor!SignsIn(a) PROVE ShapeInv'
  BY <1>9, SignsInDoes, LoginFacts, NewLogins DEF FolderGets, Good, ShapeInv, DiskTypes,
     EditorTypes
<1>10. ASSUME NEW e \in Events, Editor!Creates(e) PROVE ShapeInv'
  BY <1>10, CreatesDoes DEF Good, ShapeInv
<1>11. ASSUME NEW e \in Events, Editor!LinkAnswered(e) PROVE ShapeInv'
  BY <1>11, LinkAnsweredDoes DEF FolderIsFor, Good, ShapeInv
<1>12. ASSUME NEW e \in Events, Editor!OtherAnswered(e) PROVE ShapeInv'
  BY <1>12, OtherAnsweredDoes DEF FolderIsFor, Good, ShapeInv
<1>13. ASSUME NEW e \in Events, Editor!Refreshes(e) PROVE ShapeInv'
  BY <1>13, RefreshesDoes DEF FolderGets, Good, ShapeInv, Editor!DecidePull
<1>14. ASSUME NEW e \in Events, Editor!Moves(e) PROVE ShapeInv'
  BY <1>14, MovesDoes DEF FolderIsFor, Good, ShapeInv
<1>15. ASSUME NEW e \in Events, Editor!Replaces(e) PROVE ShapeInv'
  BY <1>15, ReplacesDoes, LoginFacts, ChainFacts DEF FolderGets, Good, ShapeInv,
     EventInv, CuredInv, Editor!Held
<1>16. ASSUME NEW e \in Events, NEW how \in {"switch", "refresh", "setUp", "launch"},
            Editor!Begins(e, how)
      PROVE  ShapeInv'
  BY <1>16, BeginsDoes DEF Good, ShapeInv, Editor!NoFolder
<1>17. ASSUME NEW e \in Events, NEW a \in Accounts, Editor!RenewsIdle(e, a) PROVE ShapeInv'
  BY <1>17 DEF Editor!RenewsIdle, Good, ShapeInv
<1>18. CASE UNCHANGED Editor!vars
  BY <1>18 DEF Good, ShapeInv
<1>19. QED
  BY <1>1, <1>2, <1>3, <1>4, <1>5, <1>6, <1>7, <1>8, <1>9, <1>10, <1>11, <1>12, <1>13,
     <1>14, <1>15, <1>16, <1>17, <1>18 DEF Editor!Next

LEMMA RenewingInvKept ==
  EditorTypes /\ Good /\ [Editor!Next]_(Editor!vars) /\ crossed' = {} => RenewingInv'
<1> SUFFICES ASSUME EditorTypes, Good, [Editor!Next]_(Editor!vars), crossed' = {} PROVE
                    RenewingInv'
  OBVIOUS
<1> USE EditorAssumption DEF Editor!disk, Editor!place, Editor!queue, Editor!history,
        Editor!vars
<1>1. ASSUME Editor!CarryReads PROVE RenewingInv'
  BY <1>1 DEF Editor!CarryReads, Good, RenewingInv, Editor!InUse, Editor!Here
<1>2. ASSUME NEW a \in Accounts, Editor!Switches(a) PROVE RenewingInv'
  BY <1>2 DEF Editor!Switches, Good, RenewingInv, Editor!InUse, Editor!Here
<1>3. ASSUME NEW e \in Events, Editor!TakesOver(e) \/ Editor!TakesUp(e) \/
             Editor!OwnerUnknown(e)
      PROVE  RenewingInv'
  BY <1>3 DEF Editor!TakesOver, Editor!TakesUp, Editor!OwnerUnknown, Good, RenewingInv,
     Editor!InUse, Editor!Here
<1>4. ASSUME Editor!ChatOpens PROVE RenewingInv'
  BY <1>4 DEF Editor!ChatOpens, RenewingInv
<1>5. ASSUME Editor!ChatCloses PROVE RenewingInv'
  BY <1>5, RecordFacts DEF Editor!ChatCloses, RenewingInv
<1>6. ASSUME Editor!RenewBegins PROVE RenewingInv'
  BY <1>6 DEF Editor!RenewBegins, Editor!InUse, Editor!Here, RenewingInv, Editor!Places,
     EditorTypes, PlaceTypes
<1>7. ASSUME Editor!RenewEnds PROVE RenewingInv'
  BY <1>7, RenewEndsDoes DEF RenewingInv
<1>8. ASSUME Editor!SignedIn PROVE RenewingInv'
  BY <1>8 DEF Editor!SignedIn, RenewingInv
<1>9. ASSUME Editor!TurnsOff PROVE RenewingInv'
  BY <1>9, TurnsOffDoes DEF Good, RenewingInv, Editor!InUse, Editor!Here
<1>10. ASSUME Editor!CarryWrites PROVE RenewingInv'
  BY <1>10, CarryWritesDoes, LoginFacts DEF Good, RenewingInv, Editor!InUse, Editor!Here,
     EditorTypes, CarryInv, DiskTypes, Editor!Held
<1>11. ASSUME NEW a \in Accounts, Editor!SignsIn(a) PROVE RenewingInv'
  BY <1>11, SignsInDoes DEF RenewingInv
<1>12. ASSUME NEW a \in Accounts, Editor!RenewedElsewhere(a) PROVE RenewingInv'
  BY <1>12 DEF Editor!RenewedElsewhere, Good, RenewingInv, Editor!InUse, Editor!Here
<1>13. ASSUME NEW e \in Events, Editor!Creates(e) PROVE RenewingInv'
  BY <1>13, CreatesDoes DEF Good, RenewingInv, Editor!InUse, Editor!Here
<1>14. ASSUME NEW e \in Events, Editor!LooksAtLink(e) PROVE RenewingInv'
  BY <1>14, LooksAtLinkDoes DEF Good, RenewingInv, Editor!InUse, Editor!Here
<1>15. ASSUME NEW e \in Events, Editor!LinkAnswered(e) PROVE RenewingInv'
  BY <1>15, LinkAnsweredDoes DEF Good, RenewingInv, Editor!InUse, Editor!Here
<1>16. ASSUME NEW e \in Events, Editor!OtherAnswered(e) PROVE RenewingInv'
  BY <1>16, OtherAnsweredDoes DEF Good, RenewingInv, Editor!InUse, Editor!Here
<1>17. ASSUME NEW e \in Events, Editor!OwnerAnswers(e) PROVE RenewingInv'
  BY <1>17, OwnerAnswersDoes DEF Good, RenewingInv, Editor!InUse, Editor!Here
<1>18. ASSUME NEW e \in Events, Editor!Refreshes(e) PROVE RenewingInv'
  BY <1>18, RefreshesDoes DEF Good, RenewingInv, Editor!InUse, Editor!Here
<1>19. ASSUME NEW e \in Events, Editor!Moves(e) PROVE RenewingInv'
  BY <1>19, MovesDoes DEF Good, RenewingInv, Editor!InUse, Editor!Here, EventInv
<1>20. ASSUME NEW e \in Events, Editor!Sends(e) PROVE RenewingInv'
  BY <1>20 DEF Editor!Sends, Good, RenewingInv, Editor!InUse, Editor!Here, EditorTypes,
     ClaudeTypes
<1>21. ASSUME NEW e \in Events, Editor!Answered(e) PROVE RenewingInv'
  BY <1>21, AnsweredDoes DEF Gets, Good, RenewingInv, Editor!InUse, Editor!Here,
     Editor!Places, EditorTypes, EventInv, PlaceTypes
<1>22. ASSUME NEW e \in Events, Editor!Replaces(e) PROVE RenewingInv'
  BY <1>22, ReplacesDoes, LoginFacts DEF Good, RenewingInv, Editor!InUse, Editor!Here,
     EditorTypes, ClaudeTypes, EventInv, Editor!Held
<1>23. ASSUME NEW e \in Events, NEW how \in {"switch", "refresh", "setUp", "launch"},
            Editor!Begins(e, how)
      PROVE  RenewingInv'
  BY <1>23, BeginsDoes DEF Good, RenewingInv, Editor!InUse, Editor!Here
<1>24. ASSUME NEW e \in Events, NEW a \in Accounts, Editor!RenewsIdle(e, a) PROVE
              RenewingInv'
  BY <1>24 DEF Editor!RenewsIdle, Good, RenewingInv, Editor!InUse, Editor!Here
<1>25. CASE UNCHANGED Editor!vars
  BY <1>25 DEF Good, RenewingInv, Editor!InUse, Editor!Here
<1>26. QED
  BY <1>1, <1>2, <1>3, <1>4, <1>5, <1>6, <1>7, <1>8, <1>9, <1>10, <1>11, <1>12, <1>13,
     <1>14, <1>15, <1>16, <1>17, <1>18, <1>19, <1>20, <1>21, <1>22, <1>23, <1>24, <1>25
     DEF Editor!Next

LEMMA SigningInvKept ==
  EditorTypes /\ Good /\ [Editor!Next]_(Editor!vars) /\ crossed' = {} => SigningInv'
<1> SUFFICES ASSUME EditorTypes, Good, [Editor!Next]_(Editor!vars), crossed' = {} PROVE
                    SigningInv'
  OBVIOUS
<1> USE EditorAssumption DEF Editor!disk, Editor!place, Editor!queue, Editor!history,
        Editor!vars
<1>1. ASSUME Editor!CarryReads PROVE SigningInv'
  BY <1>1 DEF Editor!CarryReads, Good, SigningInv
<1>2. ASSUME NEW a \in Accounts, Editor!Switches(a) \/ Editor!RenewedElsewhere(a) PROVE
             SigningInv'
  BY <1>2 DEF Editor!Switches, Editor!RenewedElsewhere, Good, SigningInv
<1>3. ASSUME NEW e \in Events, Editor!LooksAtLink(e) \/ Editor!TakesOver(e) \/
             Editor!TakesUp(e) \/ Editor!OwnerAnswers(e) \/ Editor!OwnerUnknown(e) \/
             Editor!Sends(e) \/ Editor!Answered(e)
      PROVE  SigningInv'
  BY <1>3 DEF Editor!LooksAtLink, Editor!StaysLinked, Editor!TakesOver, Editor!TakesUp,
     Editor!OwnerAnswers, Editor!OwnerUnknown, Editor!Sends, Editor!Answered, Good,
     SigningInv
<1>4. ASSUME Editor!ChatOpens PROVE SigningInv'
  BY <1>4 DEF Editor!ChatOpens, SigningInv
<1>5. ASSUME Editor!ChatCloses PROVE SigningInv'
  BY <1>5, RecordFacts DEF Editor!ChatCloses, SigningInv
<1>6. ASSUME Editor!RenewBegins PROVE SigningInv'
  BY <1>6 DEF Editor!RenewBegins, SigningInv
<1>7. ASSUME Editor!RenewEnds PROVE SigningInv'
  BY <1>7, RenewEndsDoes DEF SigningInv
<1>8. ASSUME Editor!SignedIn PROVE SigningInv'
  BY <1>8 DEF Editor!SignedIn, SigningInv
<1>9. ASSUME Editor!TurnsOff PROVE SigningInv'
  BY <1>9, TurnsOffDoes DEF Good, SigningInv
<1>10. ASSUME Editor!CarryWrites PROVE SigningInv'
  BY <1>10, CarryWritesDoes, LoginFacts, ChainFacts DEF FolderGets, Good, SigningInv,
     CarryInv, DiskTypes, Editor!Held, EditorTypes
<1>11. ASSUME NEW a \in Accounts, Editor!SignsIn(a) PROVE SigningInv'
  BY <1>11, SignsInDoes DEF FolderGets, SigningInv
<1>12. ASSUME NEW e \in Events, Editor!Creates(e) PROVE SigningInv'
  BY <1>12, CreatesDoes DEF Good, SigningInv
<1>13. ASSUME NEW e \in Events, Editor!LinkAnswered(e) PROVE SigningInv'
  BY <1>13, LinkAnsweredDoes DEF Good, SigningInv
<1>14. ASSUME NEW e \in Events, Editor!OtherAnswered(e) PROVE SigningInv'
  BY <1>14, OtherAnsweredDoes DEF Good, SigningInv
<1>15. ASSUME NEW e \in Events, Editor!Refreshes(e) PROVE SigningInv'
  BY <1>15, RefreshesDoes DEF Good, SigningInv
<1>16. ASSUME NEW e \in Events, Editor!Moves(e) PROVE SigningInv'
  BY <1>16, MovesDoes DEF Good, SigningInv
<1>17. ASSUME NEW e \in Events, Editor!Replaces(e) PROVE SigningInv'
  BY <1>17, ReplacesDoes, LoginFacts, ChainFacts DEF FolderGets, Good, SigningInv,
     CuredInv, EventInv, Editor!Held
<1>18. ASSUME NEW e \in Events, NEW how \in {"switch", "refresh", "setUp", "launch"},
            Editor!Begins(e, how)
      PROVE  SigningInv'
  BY <1>18, BeginsDoes DEF Good, SigningInv
<1>19. ASSUME NEW e \in Events, NEW a \in Accounts, Editor!RenewsIdle(e, a) PROVE
              SigningInv'
  BY <1>19 DEF Editor!RenewsIdle, Good, SigningInv
<1>20. CASE UNCHANGED Editor!vars
  BY <1>20 DEF Good, SigningInv
<1>21. QED
  BY <1>1, <1>2, <1>3, <1>4, <1>5, <1>6, <1>7, <1>8, <1>9, <1>10, <1>11, <1>12, <1>13,
     <1>14, <1>15, <1>16, <1>17, <1>18, <1>19, <1>20 DEF Editor!Next

LEMMA SaysInvKept ==
  EditorTypes /\ Good /\ [Editor!Next]_(Editor!vars) /\ crossed' = {} => SaysInv'
<1> SUFFICES ASSUME EditorTypes, Good, [Editor!Next]_(Editor!vars), crossed' = {} PROVE
                    SaysInv'
  OBVIOUS
<1> USE EditorAssumption DEF Editor!disk, Editor!place, Editor!queue, Editor!history,
        Editor!vars
<1>1. ASSUME Editor!CarryReads PROVE SaysInv'
  BY <1>1 DEF Editor!CarryReads, Good, SaysInv
<1>2. ASSUME NEW a \in Accounts, Editor!Switches(a) \/ Editor!RenewedElsewhere(a) PROVE
             SaysInv'
  BY <1>2 DEF Editor!Switches, Editor!RenewedElsewhere, Good, SaysInv
<1>3. ASSUME NEW e \in Events, Editor!LooksAtLink(e) \/ Editor!TakesOver(e) \/
             Editor!TakesUp(e) \/ Editor!OwnerAnswers(e) \/ Editor!OwnerUnknown(e) \/
             Editor!Sends(e) \/ Editor!Answered(e)
      PROVE  SaysInv'
  BY <1>3 DEF Editor!LooksAtLink, Editor!StaysLinked, Editor!TakesOver, Editor!TakesUp,
     Editor!OwnerAnswers, Editor!OwnerUnknown, Editor!Sends, Editor!Answered, Good,
     SaysInv
<1>4. ASSUME Editor!ChatOpens PROVE SaysInv'
  BY <1>4 DEF Editor!ChatOpens, Good, SaysInv
<1>5. ASSUME Editor!ChatCloses PROVE SaysInv'
  BY <1>5 DEF Editor!ChatCloses, Good, SaysInv
<1>6. ASSUME Editor!RenewBegins PROVE SaysInv'
  BY <1>6 DEF Editor!RenewBegins, Good, SaysInv
<1>7. ASSUME Editor!RenewEnds PROVE SaysInv'
  BY <1>7, RenewEndsDoes, NewLogins DEF FolderGets, Good, SaysInv, RenewingInv,
     ShapeInv, DiskTypes, Editor!InUse, EditorTypes
<1>8. ASSUME Editor!SignedIn PROVE SaysInv'
  BY <1>8 DEF Editor!SignedIn, Good, SaysInv, SigningInv
<1>9. ASSUME Editor!TurnsOff PROVE SaysInv'
  BY <1>9, TurnsOffDoes DEF Good, SaysInv, Editor!NoFolder
<1>10. ASSUME Editor!CarryWrites PROVE SaysInv'
  BY <1>10, CarryWritesDoes, LoginFacts, ChainFacts DEF FolderGets, Good, SaysInv,
     CarryInv, Editor!Held
<1>11. ASSUME NEW a \in Accounts, Editor!SignsIn(a) PROVE SaysInv'
  BY <1>11, SignsInDoes DEF SaysInv
<1>12. ASSUME NEW e \in Events, Editor!Creates(e) PROVE SaysInv'
  BY <1>12, CreatesDoes DEF Good, SaysInv
<1>13. ASSUME NEW e \in Events, Editor!LinkAnswered(e) PROVE SaysInv'
  BY <1>13, LinkAnsweredDoes DEF FolderIsFor, Good, SaysInv, OwnInv
<1>14. ASSUME NEW e \in Events, Editor!OtherAnswered(e) PROVE SaysInv'
  BY <1>14, OtherAnsweredDoes DEF FolderIsFor, Good, SaysInv
<1>15. ASSUME NEW e \in Events, Editor!Refreshes(e) PROVE SaysInv'
  BY <1>15, RefreshesDoes DEF FolderGets, Good, SaysInv, ShapeInv, OwnInv, Editor!DecidePull
<1>16. ASSUME NEW e \in Events, Editor!Moves(e) PROVE SaysInv'
  BY <1>16, MovesDoes DEF FolderIsFor, Gets, Good, SaysInv, OwnInv
<1>17. ASSUME NEW e \in Events, Editor!Replaces(e) PROVE SaysInv'
  BY <1>17, ReplacesDoes, LoginFacts DEF FolderGets, Good, SaysInv, OwnInv, EventInv,
     Editor!Held
<1>18. ASSUME NEW e \in Events, NEW how \in {"switch", "refresh", "setUp", "launch"},
            Editor!Begins(e, how)
      PROVE  SaysInv'
  BY <1>18, BeginsDoes DEF Good, SaysInv, Editor!NoFolder
<1>19. ASSUME NEW e \in Events, NEW a \in Accounts, Editor!RenewsIdle(e, a) PROVE SaysInv'
  BY <1>19 DEF Editor!RenewsIdle, Good, SaysInv
<1>20. CASE UNCHANGED Editor!vars
  BY <1>20 DEF Good, SaysInv
<1>21. QED
  BY <1>1, <1>2, <1>3, <1>4, <1>5, <1>6, <1>7, <1>8, <1>9, <1>10, <1>11, <1>12, <1>13,
     <1>14, <1>15, <1>16, <1>17, <1>18, <1>19, <1>20 DEF Editor!Next

LEMMA EventInvKept ==
  EditorTypes /\ Good /\ [Editor!Next]_(Editor!vars) /\ crossed' = {} => EventInv'
<1> SUFFICES ASSUME EditorTypes, Good, [Editor!Next]_(Editor!vars), crossed' = {} PROVE
                    EventInv'
  OBVIOUS
<1> USE EditorAssumption DEF Editor!disk, Editor!place, Editor!queue, Editor!history,
        Editor!vars
<1>1. ASSUME Editor!ChatCloses \/ Editor!SignedIn \/ Editor!CarryReads \/
             Editor!CarryWrites PROVE EventInv'
  BY <1>1 DEF Editor!ChatCloses, Editor!SignedIn, Editor!CarryReads, Editor!CarryWrites,
     Good, EventInv
<1>2. ASSUME NEW a \in Accounts, Editor!SignsIn(a) \/ Editor!Switches(a) PROVE EventInv'
  BY <1>2 DEF Editor!SignsIn, Editor!Switches, Good, EventInv
<1>3. ASSUME Editor!ChatOpens PROVE EventInv'
  BY <1>3 DEF Editor!ChatOpens, Good, EventInv
<1>4. ASSUME Editor!RenewBegins PROVE EventInv'
  BY <1>4 DEF Editor!RenewBegins, Good, EventInv
<1>5. ASSUME Editor!RenewEnds PROVE EventInv'
  BY <1>5, RenewEndsDoes DEF Good, EventInv, RenewingInv, EventTypes, Editor!Places,
     EditorTypes
<1>6. ASSUME Editor!TurnsOff PROVE EventInv'
  BY <1>6, TurnsOffDoes DEF Good, EventInv
<1>7. ASSUME NEW a \in Accounts, Editor!RenewedElsewhere(a) PROVE EventInv'
  BY <1>7 DEF Editor!RenewedElsewhere, Good, EventInv
<1>8. ASSUME NEW e \in Events, Editor!Creates(e) PROVE EventInv'
  BY <1>8, CreatesDoes, RecordFacts DEF EventIs, OthersGoOn, Good, EventInv
<1>9. ASSUME NEW e \in Events, Editor!LooksAtLink(e) PROVE EventInv'
  BY <1>9, LooksAtLinkDoes, RecordFacts DEF OthersGoOn, Good, EventInv
<1>10. ASSUME NEW e \in Events, Editor!LinkAnswered(e) PROVE EventInv'
  BY <1>10, LinkAnsweredDoes, RecordFacts DEF EventIs, OthersGoOn, Good, EventInv
<1>11. ASSUME NEW e \in Events, Editor!TakesOver(e) PROVE EventInv'
  BY <1>11, RecordFacts DEF Editor!TakesOver, Editor!Ends, Good, EventInv, EventTypes,
     EventRecord, EditorTypes
<1>12. ASSUME NEW e \in Events, Editor!OtherAnswered(e) PROVE EventInv'
  BY <1>12, OtherAnsweredDoes, RecordFacts DEF EventIs, OthersGoOn, Good, EventInv
<1>13. ASSUME NEW e \in Events, Editor!TakesUp(e) PROVE EventInv'
  BY <1>13 DEF Editor!TakesUp, Editor!After, Good, EventInv
<1>14. ASSUME NEW e \in Events, Editor!OwnerAnswers(e) PROVE EventInv'
  BY <1>14, OwnerAnswersDoes DEF OthersGoOn, Editor!After, Good, EventInv
<1>15. ASSUME NEW e \in Events, Editor!OwnerUnknown(e) PROVE EventInv'
  BY <1>15, RecordFacts DEF Editor!OwnerUnknown, Editor!Ends, Good, EventInv, EventTypes,
     EventRecord, EditorTypes
<1>16. ASSUME NEW e \in Events, Editor!Refreshes(e) PROVE EventInv'
  BY <1>16, RefreshesDoes, RecordFacts DEF EventIs, OthersGoOn, Good, EventInv
<1>17. ASSUME NEW e \in Events, Editor!Moves(e) PROVE EventInv'
  BY <1>17, MovesDoes, RecordFacts DEF OthersGoOn, Good, EventInv
<1>18. ASSUME NEW e \in Events, Editor!Sends(e) PROVE EventInv'
  <2>1. ev[e].at = "renews" /\ ev[e].account \in Accounts
    BY <1>18 DEF Editor!Sends, EditorTypes, EventTypes
  <2>2. CASE ev' = [ev EXCEPT ![e] = Editor!Idle] /\ UNCHANGED editorLock
    BY <1>18, <2>2, RecordFacts DEF Editor!Sends, Good, EventInv
  <2>3. CASE /\ profile[ev[e].account] # Editor!NoLogin
             /\ \A p \in Editor!Locked(ev[e].account) : editorLock[p] = "free"
             /\ editorLock' = [p \in Editor!Places |-> IF p \in Editor!Locked(ev[e].account) THEN e ELSE editorLock[p]]
             /\ ev' = [ev EXCEPT ![e].at = "sending", ![e].login = profile[ev[e].account]]
    <3>1. /\ ev'[e].at = "sending" /\ ev'[e].login = profile[ev[e].account]
          /\ ev'[e].account = ev[e].account /\ ev'[e].how = ev[e].how
          /\ \A f \in Events \ {e} : ev'[f] = ev[f]
      BY <2>3 DEF EditorTypes, EventTypes
    <3>2. \A f \in Events, p \in Editor!Places : editorLock[p] = f => editorLock'[p] = f
      BY <2>3
    <3>3. editorLock'[ev[e].account] = e
      BY <2>1, <2>3 DEF Editor!Locked, Editor!Places
    <3>4. profile[ev[e].account].of = ev[e].account
      BY <2>1, <2>3, LoginFacts DEF Good, OwnInv, EditorTypes, DiskTypes
    <3>5. \A f \in Events : ev[f].at \in {"sending", "replaces"} => ev[f].account \in Editor!Places
      BY DEF EditorTypes, EventTypes, Editor!Places
    <3>6. QED
      BY <1>18, <3>1, <3>2, <3>3, <3>4, <3>5 DEF Editor!Sends, Editor!Places, Good, EventInv
  <2>4. QED
    BY <1>18, <2>2, <2>3 DEF Editor!Sends, Editor!Ends
<1>19. ASSUME NEW e \in Events, Editor!Answered(e) PROVE EventInv'
  BY <1>19, AnsweredDoes, RecordFacts DEF EventIs, OthersGoOn, Good, EventInv,
     EventTypes, Editor!Places, EditorTypes
<1>20. ASSUME NEW e \in Events, Editor!Replaces(e) PROVE EventInv'
  BY <1>20, ReplacesDoes, RecordFacts DEF OthersGoOn, Good, EventInv, EventTypes,
     Editor!Places, EditorTypes
<1>21. ASSUME NEW e \in Events, NEW how \in {"switch", "refresh", "setUp", "launch"},
            Editor!Begins(e, how)
      PROVE  EventInv'
  BY <1>21, BeginsDoes DEF OthersGoOn, Good, EventInv
<1>22. ASSUME NEW e \in Events, NEW a \in Accounts, Editor!RenewsIdle(e, a) PROVE EventInv'
  BY <1>22 DEF Editor!RenewsIdle, Good, EventInv
<1>23. CASE UNCHANGED Editor!vars
  BY <1>23 DEF Good, EventInv
<1>24. QED
  BY <1>1, <1>2, <1>3, <1>4, <1>5, <1>6, <1>7, <1>8, <1>9, <1>10, <1>11, <1>12, <1>13,
     <1>14, <1>15, <1>16, <1>17, <1>18, <1>19, <1>20, <1>21, <1>22, <1>23 DEF Editor!Next

LEMMA AskInvKept ==
  EditorTypes /\ Good /\ [Editor!Next]_(Editor!vars) /\ crossed' = {} => AskInv'
<1> SUFFICES ASSUME EditorTypes, Good, [Editor!Next]_(Editor!vars), crossed' = {} PROVE
                    AskInv'
  OBVIOUS
<1> USE EditorAssumption DEF Editor!disk, Editor!place, Editor!queue, Editor!history,
        Editor!vars
<1>1. ASSUME Editor!ChatCloses \/ Editor!RenewBegins \/ Editor!CarryReads PROVE AskInv'
  BY <1>1 DEF Editor!ChatCloses, Editor!RenewBegins, Editor!CarryReads, Good, AskInv
<1>2. ASSUME NEW a \in Accounts, Editor!Switches(a) PROVE AskInv'
  BY <1>2 DEF Editor!Switches, Good, AskInv
<1>3. ASSUME Editor!ChatOpens PROVE AskInv'
  BY <1>3 DEF Editor!ChatOpens, Good, AskInv
<1>4. ASSUME Editor!RenewEnds PROVE AskInv'
  BY <1>4, RenewEndsDoes, LoginFacts, NewLogins DEF FolderGets, Good, AskInv, DiskTypes,
     EventTypes, EditorTypes
<1>5. ASSUME Editor!SignedIn PROVE AskInv'
  BY <1>5 DEF Editor!SignedIn, Good, AskInv
<1>6. ASSUME Editor!TurnsOff PROVE AskInv'
  BY <1>6, TurnsOffDoes, LoginFacts DEF Good, AskInv, EventTypes, Editor!NoFolder,
     EditorTypes
<1>7. ASSUME Editor!CarryWrites PROVE AskInv'
  BY <1>7, CarryWritesDoes, LoginFacts, ChainFacts DEF FolderGets, Good, AskInv,
     AtHomeInv, CuredInv, CarryInv, CarryTypes, CarryRecord, Editor!Held, EditorTypes
<1>8. ASSUME NEW a \in Accounts, Editor!SignsIn(a) PROVE AskInv'
  BY <1>8, SignsInDoes, LoginFacts, NewLogins DEF FolderGets, Good, AskInv, DiskTypes,
     EventTypes, EditorTypes
<1>9. ASSUME NEW a \in Accounts, Editor!RenewedElsewhere(a) PROVE AskInv'
  BY <1>9, LoginFacts DEF Editor!RenewedElsewhere, Good, AskInv, DiskTypes, EventTypes,
     EditorTypes
<1>10. ASSUME NEW e \in Events, Editor!Creates(e) PROVE AskInv'
  <2>1. UNCHANGED made /\ folder'.login = folder.login /\ path = "missing"
    BY <1>10, CreatesDoes
  <2>2. \A f \in Events : ev'[f].at = "asks" => ev'[f] = ev[f]
    BY <1>10, CreatesDoes, RecordFacts DEF EventIs, OthersGoOn
  <2>3. QED
    BY <2>1, <2>2 DEF Good, AskInv
<1>11. ASSUME NEW e \in Events, Editor!LooksAtLink(e) PROVE AskInv'
  BY <1>11, LooksAtLinkDoes, RecordFacts DEF OthersGoOn, Good, AskInv
<1>12. ASSUME NEW e \in Events, Editor!LinkAnswered(e) PROVE AskInv'
  BY <1>12, LinkAnsweredDoes, LoginFacts, RecordFacts DEF FolderIsFor, EventIs,
     OthersGoOn, Good, AskInv, OwnInv, DiskTypes, EditorTypes
<1>13. ASSUME NEW e \in Events, Editor!TakesOver(e) PROVE AskInv'
  BY <1>13, RecordFacts DEF Editor!TakesOver, Editor!Ends, Good, AskInv, EventTypes,
     EventRecord, EditorTypes
<1>14. ASSUME NEW e \in Events, Editor!OtherAnswered(e) PROVE AskInv'
  BY <1>14, OtherAnsweredDoes, RecordFacts DEF FolderIsFor, EventIs, OthersGoOn, Good,
     AskInv
<1>15. ASSUME NEW e \in Events, Editor!TakesUp(e) PROVE AskInv'
  BY <1>15 DEF Editor!TakesUp, Editor!After, Good, AskInv, OrderInv, MadeOK, Stored
<1>16. ASSUME NEW e \in Events, Editor!OwnerAnswers(e) PROVE AskInv'
  BY <1>16, OwnerAnswersDoes DEF OthersGoOn, Editor!After, Good, AskInv
<1>17. ASSUME NEW e \in Events, Editor!OwnerUnknown(e) PROVE AskInv'
  BY <1>17, RecordFacts DEF Editor!OwnerUnknown, Editor!Ends, Good, AskInv, EventTypes,
     EventRecord, EditorTypes
<1>18. ASSUME NEW e \in Events, Editor!Refreshes(e) PROVE AskInv'
  BY <1>18, RefreshesDoes, RecordFacts DEF FolderGets, EventIs, OthersGoOn, Good,
     AskInv, OwnInv, EventTypes, EditorTypes
<1>19. ASSUME NEW e \in Events, Editor!Moves(e) PROVE AskInv'
  BY <1>19, MovesDoes, RecordFacts DEF FolderIsFor, Gets, OthersGoOn, Good, AskInv,
     OwnInv, EventTypes, EditorTypes
<1>20. ASSUME NEW e \in Events, Editor!Sends(e) PROVE AskInv'
  BY <1>20, RecordFacts DEF Editor!Sends, Editor!Ends, Good, AskInv, EventTypes,
     EventRecord, EditorTypes
<1>21. ASSUME NEW e \in Events, Editor!Answered(e) PROVE AskInv'
  BY <1>21, AnsweredDoes, LoginFacts, RecordFacts DEF EventIs, OthersGoOn, Good, AskInv,
     DiskTypes, EventTypes, EditorTypes
<1>22. ASSUME NEW e \in Events, Editor!Replaces(e) PROVE AskInv'
  BY <1>22, ReplacesDoes, LoginFacts, RecordFacts, ChainFacts DEF FolderGets,
     OthersGoOn, Good, AskInv, EventInv, AtHomeInv, CuredInv, Editor!Held
<1>23. ASSUME NEW e \in Events, NEW how \in {"switch", "refresh", "setUp", "launch"},
            Editor!Begins(e, how)
      PROVE  AskInv'
  BY <1>23, BeginsDoes, LoginFacts DEF OthersGoOn, Good, AskInv, EventTypes,
     Editor!NoFolder, EditorTypes
<1>24. ASSUME NEW e \in Events, NEW a \in Accounts, Editor!RenewsIdle(e, a) PROVE AskInv'
  BY <1>24 DEF Editor!RenewsIdle, Good, AskInv
<1>25. CASE UNCHANGED Editor!vars
  BY <1>25 DEF Good, AskInv
<1>26. QED
  BY <1>1, <1>2, <1>3, <1>4, <1>5, <1>6, <1>7, <1>8, <1>9, <1>10, <1>11, <1>12, <1>13,
     <1>14, <1>15, <1>16, <1>17, <1>18, <1>19, <1>20, <1>21, <1>22, <1>23, <1>24, <1>25
     DEF Editor!Next

LEMMA CarryInvKept ==
  EditorTypes /\ Good /\ [Editor!Next]_(Editor!vars) /\ crossed' = {} => CarryInv'
<1> SUFFICES ASSUME EditorTypes, Good, [Editor!Next]_(Editor!vars), crossed' = {} PROVE
                    CarryInv'
  OBVIOUS
<1> USE EditorAssumption DEF Editor!disk, Editor!place, Editor!queue, Editor!history,
        Editor!vars
<1>1. ASSUME Editor!ChatOpens \/ Editor!ChatCloses \/ Editor!RenewBegins \/
             Editor!SignedIn \/ Editor!TurnsOff
      PROVE  CarryInv'
  BY <1>1 DEF Editor!ChatOpens, Editor!ChatCloses, Editor!RenewBegins, Editor!SignedIn,
     Editor!TurnsOff, Editor!Retire, Good, CarryInv
<1>2. ASSUME NEW a \in Accounts, Editor!SignsIn(a) \/ Editor!Switches(a) PROVE CarryInv'
  BY <1>2 DEF Editor!SignsIn, Editor!Switches, Good, CarryInv
<1>3. ASSUME NEW e \in Events, Editor!Creates(e) \/ Editor!LooksAtLink(e) \/
             Editor!LinkAnswered(e) \/ Editor!TakesOver(e) \/ Editor!OtherAnswered(e) \/
             Editor!TakesUp(e) \/ Editor!OwnerAnswers(e) \/ Editor!OwnerUnknown(e) \/
             Editor!Refreshes(e) \/ Editor!Moves(e) \/ Editor!Sends(e)
      PROVE  CarryInv'
  BY <1>3 DEF Editor!Creates, Editor!LooksAtLink, Editor!StaysLinked, Editor!LinkAnswered,
     Editor!MovesIn, Editor!TakesOver, Editor!OtherAnswered, Editor!TakesUp,
     Editor!OwnerAnswers, Editor!OwnerUnknown, Editor!Refreshes, Editor!SignInMet,
     Editor!Moves, Editor!MovesTo, Editor!Sends, Good, CarryInv
<1>4. ASSUME Editor!RenewEnds PROVE CarryInv'
  BY <1>4, RenewEndsDoes DEF Good, CarryInv
<1>5. ASSUME Editor!CarryReads PROVE CarryInv'
  BY <1>5, LoginFacts, ChainFacts DEF Editor!CarryReads, Editor!Held, Good, CarryInv,
     CuredInv, DiskTypes, EditorTypes
<1>6. ASSUME Editor!CarryWrites PROVE CarryInv'
  BY <1>6, CarryWritesDoes DEF Good, CarryInv
<1>7. ASSUME NEW a \in Accounts, Editor!RenewedElsewhere(a) PROVE CarryInv'
  BY <1>7, LoginFacts DEF Editor!RenewedElsewhere, Good, CarryInv, OwnInv, DiskTypes,
     EditorTypes
<1>8. ASSUME NEW e \in Events, Editor!Answered(e) PROVE CarryInv'
  BY <1>8, AnsweredDoes DEF Good, CarryInv
<1>9. ASSUME NEW e \in Events, Editor!Replaces(e) PROVE CarryInv'
  BY <1>9, ReplacesDoes DEF Good, CarryInv, EventInv
<1>10. ASSUME NEW e \in Events, NEW how \in {"switch", "refresh", "setUp", "launch"},
            Editor!Begins(e, how)
      PROVE  CarryInv'
  BY <1>10, BeginsDoes DEF Good, CarryInv
<1>11. ASSUME NEW e \in Events, NEW a \in Accounts, Editor!RenewsIdle(e, a) PROVE CarryInv'
  BY <1>11 DEF Editor!RenewsIdle, Good, CarryInv
<1>12. CASE UNCHANGED Editor!vars
  BY <1>12 DEF Good, CarryInv
<1>13. QED
  BY <1>1, <1>2, <1>3, <1>4, <1>5, <1>6, <1>7, <1>8, <1>9, <1>10, <1>11, <1>12 DEF
     Editor!Next

LEMMA AtHomeInvKept ==
  EditorTypes /\ Good /\ [Editor!Next]_(Editor!vars) /\ crossed' = {} => AtHomeInv'
<1> SUFFICES ASSUME EditorTypes, Good, [Editor!Next]_(Editor!vars), crossed' = {} PROVE
                    AtHomeInv'
  OBVIOUS
<1> USE EditorAssumption DEF Editor!disk, Editor!place, Editor!queue, Editor!history,
        Editor!vars
<1>1. ASSUME Editor!ChatCloses \/ Editor!RenewBegins \/ Editor!CarryReads PROVE AtHomeInv'
  BY <1>1 DEF Editor!ChatCloses, Editor!RenewBegins, Editor!CarryReads, Good, AtHomeInv
<1>2. ASSUME NEW a \in Accounts, Editor!Switches(a) PROVE AtHomeInv'
  BY <1>2 DEF Editor!Switches, Good, AtHomeInv
<1>3. ASSUME NEW e \in Events, Editor!LooksAtLink(e) \/ Editor!TakesOver(e) \/
             Editor!TakesUp(e) \/ Editor!OwnerUnknown(e) \/ Editor!Sends(e)
      PROVE  AtHomeInv'
  BY <1>3 DEF Editor!LooksAtLink, Editor!StaysLinked, Editor!TakesOver, Editor!TakesUp,
     Editor!OwnerUnknown, Editor!Sends, Good, AtHomeInv
<1>4. ASSUME Editor!ChatOpens PROVE AtHomeInv'
  BY <1>4 DEF Editor!ChatOpens, Good, AtHomeInv
<1>5. ASSUME Editor!RenewEnds PROVE AtHomeInv'
  BY <1>5, RenewEndsDoes, LoginFacts, NewLogins, ChainFacts DEF FolderGets, Gets, Good,
     AtHomeInv, OwnInv, RenewingInv, DiskTypes, Editor!InUse, EditorTypes
<1>6. ASSUME Editor!SignedIn PROVE AtHomeInv'
  BY <1>6 DEF Editor!SignedIn, Good, AtHomeInv
<1>7. ASSUME Editor!TurnsOff PROVE AtHomeInv'
  BY <1>7, TurnsOffDoes DEF Good, AtHomeInv, Editor!NoFolder
<1>8. ASSUME Editor!CarryWrites PROVE AtHomeInv'
  BY <1>8, CarryWritesDoes, LoginFacts DEF FolderGets, Good, AtHomeInv, CarryInv,
     DiskTypes, Editor!Held, EditorTypes
<1>9. ASSUME NEW a \in Accounts, Editor!SignsIn(a) PROVE AtHomeInv'
  <2>1. \A c \in Accounts : profile[c].chain <= made /\ UNCHANGED profile /\ made \in Nat
    BY <1>9, SignsInDoes DEF Good, OrderInv, MadeOK, Stored, EditorTypes, DiskTypes
  <2>2. folder'.login.chain = made + 1
    BY <1>9, SignsInDoes, NewLogins DEF FolderGets, EditorTypes, DiskTypes
  <2>3. QED
    BY <2>1, <2>2, ChainFacts DEF AtHomeInv
<1>10. ASSUME NEW a \in Accounts, Editor!RenewedElsewhere(a) PROVE AtHomeInv'
  BY <1>10, NewLogins DEF Editor!RenewedElsewhere, Good, AtHomeInv, DiskTypes, EditorTypes
<1>11. ASSUME NEW e \in Events, Editor!Creates(e) PROVE AtHomeInv'
  BY <1>11, CreatesDoes DEF Good, AtHomeInv
<1>12. ASSUME NEW e \in Events, Editor!LinkAnswered(e) PROVE AtHomeInv'
  BY <1>12, LinkAnsweredDoes, LoginFacts, ChainFacts DEF FolderIsFor, Gets, Good,
     AtHomeInv, OwnInv, DiskTypes, EditorTypes
<1>13. ASSUME NEW e \in Events, Editor!OtherAnswered(e) PROVE AtHomeInv'
  BY <1>13, OtherAnsweredDoes DEF FolderIsFor, Gets, Good, AtHomeInv
<1>14. ASSUME NEW e \in Events, Editor!OwnerAnswers(e) PROVE AtHomeInv'
  BY <1>14, OwnerAnswersDoes DEF Gets, Good, AtHomeInv, AskInv
<1>15. ASSUME NEW e \in Events, Editor!Refreshes(e) PROVE AtHomeInv'
  BY <1>15, RefreshesDoes, LoginFacts, ChainFacts DEF FolderGets, Good, AtHomeInv,
     OwnInv, DiskTypes, EditorTypes
<1>16. ASSUME NEW e \in Events, Editor!Moves(e) PROVE AtHomeInv'
  BY <1>16, MovesDoes, LoginFacts, ChainFacts DEF FolderIsFor, Gets, Good, AtHomeInv,
     OwnInv, DiskTypes, EditorTypes
<1>17. ASSUME NEW e \in Events, Editor!Answered(e) PROVE AtHomeInv'
  BY <1>17, AnsweredDoes, NewLogins DEF Gets, Good, AtHomeInv, DiskTypes, EditorTypes
<1>18. ASSUME NEW e \in Events, Editor!Replaces(e) PROVE AtHomeInv'
  BY <1>18, ReplacesDoes, LoginFacts DEF FolderGets, Good, AtHomeInv, EventInv,
     CuredInv, Editor!Held
<1>19. ASSUME NEW e \in Events, NEW how \in {"switch", "refresh", "setUp", "launch"},
            Editor!Begins(e, how)
      PROVE  AtHomeInv'
  BY <1>19, BeginsDoes DEF Good, AtHomeInv, Editor!NoFolder
<1>20. ASSUME NEW e \in Events, NEW a \in Accounts, Editor!RenewsIdle(e, a) PROVE AtHomeInv'
  BY <1>20 DEF Editor!RenewsIdle, Good, AtHomeInv
<1>21. CASE UNCHANGED Editor!vars
  BY <1>21 DEF Good, AtHomeInv
<1>22. QED
  BY <1>1, <1>2, <1>3, <1>4, <1>5, <1>6, <1>7, <1>8, <1>9, <1>10, <1>11, <1>12, <1>13,
     <1>14, <1>15, <1>16, <1>17, <1>18, <1>19, <1>20, <1>21 DEF Editor!Next

LEMMA KeptInvKept ==
  EditorTypes /\ Good /\ [Editor!Next]_(Editor!vars) /\ crossed' = {} => KeptInv'
<1> SUFFICES ASSUME EditorTypes, Good, [Editor!Next]_(Editor!vars), crossed' = {} PROVE
                    KeptInv'
  OBVIOUS
<1> USE EditorAssumption DEF Editor!disk, Editor!place, Editor!queue, Editor!history,
        Editor!vars
<1>1. ASSUME Editor!ChatOpens \/ Editor!ChatCloses \/ Editor!RenewBegins \/
             Editor!CarryReads PROVE KeptInv'
  BY <1>1 DEF Editor!ChatOpens, Editor!ChatCloses, Editor!RenewBegins, Editor!CarryReads,
     Good, KeptInv
<1>2. ASSUME NEW a \in Accounts, Editor!Switches(a) PROVE KeptInv'
  BY <1>2 DEF Editor!Switches, Good, KeptInv
<1>3. ASSUME NEW e \in Events, Editor!LooksAtLink(e) \/ Editor!TakesOver(e) \/
             Editor!TakesUp(e) \/ Editor!OwnerUnknown(e) \/ Editor!Sends(e)
      PROVE  KeptInv'
  BY <1>3 DEF Editor!LooksAtLink, Editor!StaysLinked, Editor!TakesOver, Editor!TakesUp,
     Editor!OwnerUnknown, Editor!Sends, Good, KeptInv
<1>4. ASSUME Editor!RenewEnds PROVE KeptInv'
  BY <1>4, RenewEndsDoes, LoginFacts, NewLogins, ChainFacts DEF FolderGets, Gets, Good,
     KeptInv, OwnInv, OrderInv, MadeOK, Stored, RenewingInv, DiskTypes, Editor!InUse,
     EditorTypes
<1>5. ASSUME Editor!SignedIn PROVE KeptInv'
  BY <1>5 DEF Editor!SignedIn, Good, KeptInv
<1>6. ASSUME Editor!TurnsOff PROVE KeptInv'
  BY <1>6, TurnsOffDoes, LoginFacts, ChainFacts DEF Gets, Good, KeptInv, OwnInv,
     AtHomeInv, ShapeInv, OrderInv, NewestLive, Stored, SaysInv, CuredInv, DiskTypes,
     Editor!NewerThanStored, EditorTypes
<1>7. ASSUME Editor!CarryWrites PROVE KeptInv'
  BY <1>7, CarryWritesDoes DEF Good, KeptInv, AtHomeInv, CarryInv, Editor!Held
<1>8. ASSUME NEW a \in Accounts, Editor!SignsIn(a) PROVE KeptInv'
  BY <1>8, SignsInDoes DEF Good, KeptInv
<1>9. ASSUME NEW a \in Accounts, Editor!RenewedElsewhere(a) PROVE KeptInv'
  BY <1>9, LoginFacts, NewLogins, ChainFacts DEF Editor!RenewedElsewhere, Good, KeptInv,
     OwnInv, OrderInv, MadeOK, Stored, DiskTypes, EditorTypes
<1>10. ASSUME NEW e \in Events, Editor!Creates(e) PROVE KeptInv'
  BY <1>10, CreatesDoes DEF Good, KeptInv
<1>11. ASSUME NEW e \in Events, Editor!LinkAnswered(e) PROVE KeptInv'
  BY <1>11, LinkAnsweredDoes, LoginFacts, ChainFacts DEF Gets, Good, KeptInv, AtHomeInv,
     CuredInv, DiskTypes, EditorTypes
<1>12. ASSUME NEW e \in Events, Editor!OtherAnswered(e) PROVE KeptInv'
  BY <1>12, OtherAnsweredDoes DEF FolderIsFor, Gets, Good, KeptInv, AtHomeInv, CuredInv
<1>13. ASSUME NEW e \in Events, Editor!OwnerAnswers(e) PROVE KeptInv'
  BY <1>13, OwnerAnswersDoes, LoginFacts DEF Gets, Good, KeptInv, OrderInv, NewestLive,
     Stored, CuredInv, DiskTypes, Editor!NewerThanStored, EditorTypes
<1>14. ASSUME NEW e \in Events, Editor!Refreshes(e) PROVE KeptInv'
  BY <1>14, RefreshesDoes, LoginFacts DEF Good, KeptInv, AtHomeInv, OrderInv,
     NewestLive, Stored, DiskTypes, Editor!DecidePull, EditorTypes
<1>15. ASSUME NEW e \in Events, Editor!Moves(e) PROVE KeptInv'
  BY <1>15, MovesDoes, LoginFacts, ChainFacts DEF Gets, Good, KeptInv, OwnInv,
     AtHomeInv, ShapeInv, OrderInv, NewestLive, Stored, SaysInv, CuredInv, DiskTypes,
     Editor!NewerThanStored, EditorTypes
<1>16. ASSUME NEW e \in Events, Editor!Answered(e) PROVE KeptInv'
  BY <1>16, AnsweredDoes, LoginFacts, NewLogins, ChainFacts DEF Gets, Good, KeptInv,
     OwnInv, OrderInv, MadeOK, Stored, DiskTypes, EditorTypes
<1>17. ASSUME NEW e \in Events, Editor!Replaces(e) PROVE KeptInv'
  BY <1>17, ReplacesDoes, LoginFacts DEF Good, KeptInv, EventInv, Editor!Held
<1>18. ASSUME NEW e \in Events, NEW how \in {"switch", "refresh", "setUp", "launch"},
            Editor!Begins(e, how)
      PROVE  KeptInv'
  BY <1>18, BeginsDoes, LoginFacts, ChainFacts DEF Gets, Good, KeptInv, OwnInv,
     AtHomeInv, ShapeInv, OrderInv, NewestLive, Stored, SaysInv, CuredInv, DiskTypes,
     Editor!NewerThanStored, EditorTypes
<1>19. ASSUME NEW e \in Events, NEW a \in Accounts, Editor!RenewsIdle(e, a) PROVE KeptInv'
  BY <1>19 DEF Editor!RenewsIdle, Good, KeptInv
<1>20. CASE UNCHANGED Editor!vars
  BY <1>20 DEF Good, KeptInv
<1>21. QED
  BY <1>1, <1>2, <1>3, <1>4, <1>5, <1>6, <1>7, <1>8, <1>9, <1>10, <1>11, <1>12, <1>13,
     <1>14, <1>15, <1>16, <1>17, <1>18, <1>19, <1>20 DEF Editor!Next

LEMMA CuredInvKept ==
  EditorTypes /\ Good /\ [Editor!Next]_(Editor!vars) /\ crossed' = {} => CuredInv'
<1> SUFFICES ASSUME EditorTypes, Good, [Editor!Next]_(Editor!vars), crossed' = {} PROVE
                    CuredInv'
  OBVIOUS
<1> USE EditorAssumption DEF Editor!disk, Editor!place, Editor!queue, Editor!history,
        Editor!vars
<1>1. ASSUME Editor!ChatOpens \/ Editor!ChatCloses \/ Editor!RenewBegins \/
             Editor!CarryReads PROVE CuredInv'
  BY <1>1 DEF Editor!ChatOpens, Editor!ChatCloses, Editor!RenewBegins, Editor!CarryReads,
     Good, CuredInv
<1>2. ASSUME NEW a \in Accounts, Editor!Switches(a) PROVE CuredInv'
  BY <1>2 DEF Editor!Switches, Good, CuredInv
<1>3. ASSUME NEW e \in Events, Editor!LooksAtLink(e) \/ Editor!TakesOver(e) \/
             Editor!TakesUp(e) \/ Editor!OwnerUnknown(e) \/ Editor!Sends(e)
      PROVE  CuredInv'
  BY <1>3 DEF Editor!LooksAtLink, Editor!StaysLinked, Editor!TakesOver, Editor!TakesUp,
     Editor!OwnerUnknown, Editor!Sends, Good, CuredInv
<1>4. ASSUME Editor!RenewEnds PROVE CuredInv'
  BY <1>4, RenewEndsDoes, LoginFacts, NewLogins DEF FolderGets, Good, CuredInv,
     OrderInv, MadeOK, Stored, RenewingInv, DiskTypes, Editor!InUse, EditorTypes
<1>5. ASSUME Editor!SignedIn PROVE CuredInv'
  BY <1>5 DEF Editor!SignedIn, Good, CuredInv
<1>6. ASSUME Editor!TurnsOff PROVE CuredInv'
  BY <1>6, TurnsOffDoes, LoginFacts DEF Good, CuredInv, DiskTypes, Editor!NoFolder,
     EditorTypes
<1>7. ASSUME Editor!CarryWrites PROVE CuredInv'
  BY <1>7, CarryWritesDoes, LoginFacts, ChainFacts DEF FolderGets, Good, CuredInv,
     CarryInv, DiskTypes, Editor!Held, EditorTypes
<1>8. ASSUME NEW a \in Accounts, Editor!SignsIn(a) PROVE CuredInv'
  BY <1>8, SignsInDoes, NewLogins DEF FolderGets, Good, CuredInv, OrderInv, MadeOK,
     DiskTypes, EditorTypes
<1>9. ASSUME NEW a \in Accounts, Editor!RenewedElsewhere(a) PROVE CuredInv'
  BY <1>9, LoginFacts, NewLogins DEF Editor!RenewedElsewhere, Good, CuredInv, OwnInv,
     OrderInv, MadeOK, Stored, DiskTypes, EditorTypes
<1>10. ASSUME NEW e \in Events, Editor!Creates(e) PROVE CuredInv'
  BY <1>10, CreatesDoes DEF Good, CuredInv
<1>11. ASSUME NEW e \in Events, Editor!LinkAnswered(e) PROVE CuredInv'
  BY <1>11, LinkAnsweredDoes, LoginFacts, ChainFacts DEF FolderIsFor, Good, CuredInv,
     OwnInv, KeptInv, AtHomeInv, DiskTypes, EditorTypes
<1>12. ASSUME NEW e \in Events, Editor!OtherAnswered(e) PROVE CuredInv'
  BY <1>12, OtherAnsweredDoes, LoginFacts DEF FolderIsFor, Good, CuredInv, AtHomeInv,
     DiskTypes, EditorTypes
<1>13. ASSUME NEW e \in Events, Editor!OwnerAnswers(e) PROVE CuredInv'
  BY <1>13, OwnerAnswersDoes, LoginFacts DEF Gets, Good, CuredInv, OrderInv, NewestLive,
     Stored, DiskTypes, Editor!NewerThanStored, EditorTypes
<1>14. ASSUME NEW e \in Events, Editor!Refreshes(e) PROVE CuredInv'
  BY <1>14, RefreshesDoes, LoginFacts DEF FolderGets, Good, CuredInv, OwnInv, KeptInv,
     OrderInv, NewestLive, Stored, DiskTypes, Editor!DecidePull, EditorTypes
<1>15. ASSUME NEW e \in Events, Editor!Moves(e) PROVE CuredInv'
  BY <1>15, MovesDoes, LoginFacts, ChainFacts DEF FolderIsFor, Gets, Good, CuredInv,
     OwnInv, KeptInv, AtHomeInv, DiskTypes, EditorTypes
<1>16. ASSUME NEW e \in Events, Editor!Answered(e) PROVE CuredInv'
  BY <1>16, AnsweredDoes, LoginFacts, NewLogins DEF Gets, Good, CuredInv, OwnInv,
     OrderInv, MadeOK, Stored, DiskTypes, EditorTypes
<1>17. ASSUME NEW e \in Events, Editor!Replaces(e) PROVE CuredInv'
  BY <1>17, ReplacesDoes, LoginFacts, ChainFacts DEF FolderGets, Good, CuredInv,
     EventInv, Editor!Held
<1>18. ASSUME NEW e \in Events, NEW how \in {"switch", "refresh", "setUp", "launch"},
            Editor!Begins(e, how)
      PROVE  CuredInv'
  BY <1>18, BeginsDoes, LoginFacts DEF Good, CuredInv, DiskTypes, Editor!NoFolder,
     EditorTypes
<1>19. ASSUME NEW e \in Events, NEW a \in Accounts, Editor!RenewsIdle(e, a) PROVE CuredInv'
  BY <1>19 DEF Editor!RenewsIdle, Good, CuredInv
<1>20. CASE UNCHANGED Editor!vars
  BY <1>20 DEF Good, CuredInv
<1>21. QED
  BY <1>1, <1>2, <1>3, <1>4, <1>5, <1>6, <1>7, <1>8, <1>9, <1>10, <1>11, <1>12, <1>13,
     <1>14, <1>15, <1>16, <1>17, <1>18, <1>19, <1>20 DEF Editor!Next

LEMMA OrderKept ==
  EditorTypes /\ Good /\ [Editor!Next]_(Editor!vars) /\ crossed' = {} => OrderInv'
  BY StoredSteps, CopyOrder, RenewOrder, SignOrder DEF Good

LEMMA EditorInit == Editor!Init => EditorTypes /\ Good
<1> SUFFICES ASSUME Editor!Init PROVE EditorTypes /\ Good
  OBVIOUS
<1> USE EditorAssumption
<1>1. PICK start \in [Accounts -> Editor!Logins] :
        /\ profile = start
        /\ \A a \in Accounts : start[a].of = a /\ start[a].chain = 0 /\ start[a].at = 0
  BY DEF Editor!Init, Editor!Logins
<1>2. /\ \/ path = "link" /\ linked = active /\ folder = Editor!NoFolder
         \/ /\ path = "folder" /\ linked = None
            /\ folder = Editor!BuiltFor(active, profile[active])
         \/ path = "missing" /\ linked = None /\ folder = Editor!NoFolder
      /\ active \in Accounts /\ claude = Editor!Closed /\ carrier = Editor!NoCarry
      /\ carries = {}
      /\ made = 0 /\ editorSpent = {} /\ named = TRUE
      /\ editorLock = [p \in Editor!Places |-> "free"]
      /\ pending = {} /\ ev = [e \in Events |-> Editor!Idle] /\ forgone = {}
  BY DEF Editor!Init
<1>3. DiskTypes
  BY <1>1, <1>2, FolderFacts DEF DiskTypes
<1>4. PlaceTypes
  BY <1>2 DEF PlaceTypes
<1>5. EventTypes /\ ClaudeTypes /\ CarryTypes
  BY <1>2, RecordFacts DEF EventTypes, ClaudeTypes, CarryTypes
<1>6. EditorTypes
  BY <1>3, <1>4, <1>5 DEF EditorTypes
<1>7. folder.login = Editor!NoLogin \/ (path = "folder" /\ folder.login = profile[active])
  BY <1>2 DEF Editor!NoFolder, Editor!BuiltFor
<1>8. OrderInv
  <2>1. Stored \subseteq {profile[a] : a \in Accounts} \cup {Editor!NoLogin}
    BY <1>2, <1>7, RecordFacts DEF Stored
  <2>2. MadeOK
    BY <1>1, <1>2, <2>1, LoginFacts DEF MadeOK
  <2>3. NewestLive
    BY <1>2 DEF NewestLive
  <2>4. OneLive
    <3> SUFFICES ASSUME NEW l \in Stored, NEW k \in Stored, Editor!Chain(l) =
                        Editor!Chain(k) PROVE l = k
      BY DEF OneLive
    <3>1. l.of = k.of
      BY ChainFacts
    <3>2. QED
      BY <1>1, <2>1, <3>1, LoginFacts
  <2>5. QED
    BY <2>2, <2>3, <2>4 DEF OrderInv
<1>9. OwnInv
  BY <1>1 DEF OwnInv
<1>10. ShapeInv /\ SaysInv
  BY <1>1, <1>2 DEF ShapeInv, SaysInv, Editor!NoFolder, Editor!BuiltFor
<1>11. RenewingInv /\ SigningInv
  BY <1>2, RecordFacts DEF RenewingInv, SigningInv
<1>12. EventInv /\ AskInv
  BY <1>2, RecordFacts DEF EventInv, AskInv
<1>13. AtHomeInv
  BY <1>1, <1>2, <1>7, ChainFacts DEF AtHomeInv, Editor!BuiltFor
<1>14. KeptInv /\ CuredInv /\ CarryInv
  BY <1>2 DEF KeptInv, CuredInv, CarryInv
<1>15. QED
  BY <1>6, <1>8, <1>9, <1>10, <1>11, <1>12, <1>13, <1>14 DEF Good


\* A renewal's result is not lost, a profile holds nobody else's login, and a folder left
\* on a spent login is given its account's at the next refresh (editor/folder.ts,
\* folder-login.ts): for any accounts, processes and renewals, whatever waits for what,
\* while nothing overtook a sign-in, a renewal or a login being taken up.
THEOREM EditorKeepsLogins ==
    Editor!Init /\ [][Editor!Next]_(Editor!vars) => []EditorInv
<1> USE EditorAssumption
<1>1. EditorIInv => Editor!Inv
  <2> SUFFICES ASSUME EditorIInv PROVE Editor!Inv
    OBVIOUS
  <2>1. Editor!TypeOK
    BY DEF EditorIInv, EditorTypes, DiskTypes, PlaceTypes, Editor!TypeOK
  <2>2. Editor!RenewalsKept
    BY DEF EditorIInv, Good, KeptInv, Editor!RenewalsKept, Editor!KeptSomewhere
  <2>3. Editor!NoStrangers
    BY DEF EditorIInv, Good, OwnInv, Editor!NoStrangers
  <2>4. Editor!EditorCurable
    <3> SUFFICES ASSUME crossed = {}, folder.record # None, folder.login \in editorSpent,
                        folder.login.of = folder.record, folder.says = folder.record,
                        Editor!Chain(folder.login) \notin forgone
                 PROVE  /\ Editor!DecidePull(folder.record)
                        /\ profile[folder.record] \notin editorSpent
      BY DEF Editor!EditorCurable
    <3>1. /\ Editor!Chain(profile[folder.record]) = Editor!Chain(folder.login)
          /\ profile[folder.record] \notin editorSpent /\ folder.record \in Accounts
      BY DEF EditorIInv, Good, CuredInv, EditorTypes, DiskTypes
    <3>2. folder.login.at < profile[folder.record].at
      BY <3>1 DEF EditorIInv, Good, OrderInv, NewestLive, Stored
    <3>3. folder.login \in Editor!Logins
      BY DEF EditorIInv, EditorTypes, DiskTypes
    <3>4. profile[folder.record] # Editor!NoLogin
      BY <3>1, <3>3, ChainFacts, LoginFacts
    <3>5. profile[folder.record].at > folder.login.at
      BY <3>1, <3>2, <3>3, <3>4
    <3>6. QED
      BY <3>1, <3>4, <3>5 DEF Editor!DecidePull
  <2>5. QED
    BY <2>1, <2>2, <2>3, <2>4 DEF Editor!Inv
<1>2. EditorIInv /\ [Editor!Next]_(Editor!vars) => EditorIInv'
  <2>1. EditorTypes /\ [Editor!Next]_(Editor!vars) => EditorTypes'
    BY DiskTypesKept, PlaceTypesKept, EventTypesKept, ClaudeTypesKept, CarryTypesKept
       DEF EditorTypes
  <2>2. EditorTypes /\ Good /\ [Editor!Next]_(Editor!vars) /\ crossed' = {} => Good'
    BY OrderKept, OwnInvKept, ShapeInvKept, RenewingInvKept, SigningInvKept,
       SaysInvKept, EventInvKept, AskInvKept, AtHomeInvKept, KeptInvKept, CuredInvKept,
       CarryInvKept DEF Good
  <2>3. QED
    BY <2>1, <2>2, CrossedStays DEF EditorIInv
<1>3. QED
  BY EditorInit, <1>1, <1>2, PTL DEF EditorInv, EditorIInv

=============================================================================
