------------------------ MODULE SwitchRequestsProofs ------------------------
(***************************************************************************)
(* Proofs about requests to switch, for any number of sessions, commands   *)
(* and requests: the account in use is always announced, a request left to *)
(* a session killed earlier never moves a later one, and the last word     *)
(* said of a session stands once nothing is under way.                     *)
(***************************************************************************)
EXTENDS SwitchRequests, TLAPS

\* What a session announces, by what it does.
LeaseOf(p) ==
    /\ proc[p] = "none" => current[p] = None /\ lease[p] = {}
    /\ proc[p] = "between" =>
         lease[p] = IF current[p] = None THEN {} ELSE {current[p]}
    /\ AtRest(p) \/ proc[p] \in {"moving", "switching"} => current[p] # None
    /\ AtRest(p) \/ proc[p] = "switching" =>
         lease[p] = {current[p]} /\ freshest[p] = current[p]
    /\ proc[p] = "moving" =>
         /\ lease[p] = {current[p], move[p].account}
         /\ current[p] # move[p].account
    /\ lease[p] # {} => freshest[p] \in lease[p]
LeaseInv == \A p \in Pids : LeaseOf(p)

\* Nothing of an earlier session is left in a request file a session looks at.
LeftoverInv == \A p \in Pids : ~leftover[p]

\* A command under way is about an account.
AccountInv == \A c \in Commands : cmd[c].step # "idle" => cmd[c].account \in Accounts

TInv == TypeOK /\ LeaseInv /\ LeftoverInv /\ AccountInv

\* What a command is still to write is not what a session looks at, or moves
\* for, nor what another is still to write.
Writing(c) == cmd[c].step \in {"ask", "write"}
NewTo(c, p) ==
    /\ request[p] # None => request[p].at # cmd[c].at
    /\ move[p] # None => move[p].at # cmd[c].at
StampInv ==
    /\ \A p \in Pids : /\ request[p] # None => request[p].at <= asks
                       /\ move[p] # None => move[p].at <= asks
    /\ \A c \in Commands : cmd[c].at <= asks
    /\ \A c \in Commands, p \in Pids : Writing(c) /\ p \in cmd[c].todo => NewTo(c, p)
    /\ \A c, d \in Commands : Writing(c) /\ Writing(d) /\ c # d => cmd[c].at # cmd[d].at

\* A command that says where everybody is to be, in its second half or first.
TakesBack(c) == cmd[c].step \in {"write", "clear"}

\* What is plainly said of p is that it is to be on a.
Said(p, a) == word[p] # None /\ word[p].plain /\ word[p].account = a

\* What commands may still do to a session of which something is plainly said:
\* it has been at rest since before one that takes moves back began; what they
\* have still to ask of it is that account, and they take back moves from it
\* only where that is the account it is on.
CommandsOf(p, a) ==
    \A c \in Commands :
        /\ TakesBack(c) => AtRest(p)
        /\ cmd[c].step \in {"ask", "write"} /\ p \in cmd[c].todo => cmd[c].account = a
        /\ cmd[c].step = "write" /\ p \in cmd[c].on => cmd[c].account = a /\ current[p] = a
        /\ cmd[c].step = "clear" /\ p \in cmd[c].todo =>
             cmd[c].account = a /\ current[p] = a
        /\ cmd[c].step = "write" /\ current[p] = cmd[c].account => cmd[c].account = a
CommandsInv == \A p \in Pids, a \in Accounts : Said(p, a) => CommandsOf(p, a)

\* Why a session gets to the account plainly said of it: a command has still to
\* ask for it; it is asked for; what else is asked will be taken back, or was
\* moved for and is being taken; or nothing is asked, and it is there, or on its
\* way.
Asked(p, a) ==
    \E c \in Commands : /\ cmd[c].step \in {"ask", "write"} /\ p \in cmd[c].todo
                        /\ cmd[c].account = a
TakenBack(p, a) ==
    \E c \in Commands : /\ cmd[c].account = a
                        /\ \/ cmd[c].step = "write"
                           \/ cmd[c].step = "clear" /\ p \in cmd[c].todo
BeingTaken(p) == proc[p] = "taking" /\ request[p] = move[p]
GetsThere(p, a) ==
    \/ Asked(p, a)
    \/ request[p] # None /\ request[p].account = a /\ ~BeingTaken(p)
    \/ /\ AtRest(p) /\ current[p] = a
       /\ request[p] = None \/ BeingTaken(p) \/ TakenBack(p, a)
    \/ proc[p] \in {"between", "switching"} /\ next[p] = a /\ request[p] = None
WordInv ==
    \A p \in Pids, a \in Accounts : Said(p, a) => Alive(p) /\ GetsThere(p, a)

IInv == TInv /\ StampInv /\ CommandsInv /\ WordInv

-----------------------------------------------------------------------------
(* Types *)

CommandType ==
    [step : {"idle", "ask", "write", "clear"}, account : Accounts \cup {None},
     at : 0 .. MaxAsks, mode : {"seamless", "restart"}, todo : SUBSET Pids, on : SUBSET Pids]

LEMMA TypeInit == Init => TInv
  BY SwitchRequestsAssumption 
  DEF Init, TInv, TypeOK, LeaseInv, LeaseOf, AtRest, LeftoverInv, AccountInv, Idle

\* The types of what only commands change.
LEMMA TypeOfCommands ==
    ASSUME TInv, NEW c \in Commands, CommandStep(c)
    PROVE  TInv'
<1> USE SwitchRequestsAssumption
<1>1. Idle \in CommandType
  BY DEF Idle, CommandType
<1>2. cmd \in [Commands -> CommandType]
  BY DEF TInv, TypeOK, CommandType
<1>3. ASSUME NEW step \in {"ask", "write"}, NEW acc \in Accounts,
             NEW mode \in {"seamless", "restart"}, NEW told, NEW todo \in SUBSET Pids,
             NEW on \in SUBSET Pids, Begins(c, step, acc, mode, told, todo, on)
      PROVE  /\ cmd' \in [Commands -> CommandType] /\ asks' \in 0 .. MaxAsks
             /\ word' \in [Pids -> [account : Accounts, plain : BOOLEAN] \cup {None}]
             /\ AccountInv'
             /\ UNCHANGED <<session, files, due>>
  <2>1. asks + 1 \in 0 .. MaxAsks
    BY <1>3 DEF Begins, TInv, TypeOK
  <2>2. cmd' \in [Commands -> CommandType]
    BY <1>2, <1>3, <2>1 DEF Begins, CommandType
  <2>3. ASSUME NEW w \in [account : Accounts, plain : BOOLEAN] \cup {None}
        PROVE  Blurred(w) \in [account : Accounts, plain : BOOLEAN] \cup {None}
    BY DEF Blurred
  <2>4. word' \in [Pids -> [account : Accounts, plain : BOOLEAN] \cup {None}]
    BY <1>3, <2>3 DEF Begins, TInv, TypeOK, NoCommand
  <2>5. AccountInv'
    BY <1>2, <1>3 DEF Begins, TInv, AccountInv
  <2>6. QED
    BY <1>3, <2>1, <2>2, <2>4, <2>5 DEF Begins
<1>4. ASSUME Asks(c)
      PROVE  /\ cmd' \in [Commands -> CommandType] /\ asks' \in 0 .. MaxAsks
             /\ word' \in [Pids -> [account : Accounts, plain : BOOLEAN] \cup {None}]
             /\ AccountInv' /\ active' \in Accounts /\ UNCHANGED <<session, files, due>>
  <2>1. CASE AsksOne(c)
    <3>1. PICK p \in Seen, acc \in Accounts, mode \in {"seamless", "restart"} :
             Begins(c, "ask", acc, mode, {p}, {p}, {}) /\ UNCHANGED active
      BY <2>1 DEF AsksOne
    <3>2. {p} \in SUBSET Pids /\ {} \in SUBSET Pids
      BY DEF Seen
    <3>3. active' \in Accounts
      BY <3>1 DEF TInv, TypeOK
    <3>4. QED
      BY <1>3, <3>1, <3>2, <3>3
  <2>2. CASE AsksAll(c)
    <3>1. PICK acc \in Accounts, mode \in {"seamless", "restart"} :
             /\ Begins(c, "write", acc, mode, Seen, Others(acc), Seen \ Others(acc))
             /\ active' = acc
      BY <2>2 DEF AsksAll
    <3>2. Others(acc) \in SUBSET Pids /\ Seen \ Others(acc) \in SUBSET Pids
      BY DEF Seen, Others
    <3>3. QED
      BY <1>3, <3>1, <3>2
  <2>3. CASE AsksNone(c)
    <3>1. PICK acc \in Accounts :
             /\ Begins(c, "write", acc, "seamless", {p \in Seen : current[p] = acc}, {},
                       Seen \ Others(acc))
             /\ active' = acc
      BY <2>3 DEF AsksNone
    <3>2. Seen \ Others(acc) \in SUBSET Pids /\ {} \in SUBSET Pids
      BY DEF Seen
    <3>3. QED
      BY <1>3, <3>1, <3>2
  <2>4. CASE AsksLeavers(c)
    BY <1>3, <2>4 DEF AsksLeavers, Seen, Others
  <2>5. QED
    BY <1>4, <2>1, <2>2, <2>3, <2>4 DEF Asks
<1>5. CASE Asks(c)
  BY <1>4, <1>5
  DEF TInv, TypeOK, LeaseInv, LeaseOf, AtRest, LeftoverInv, session, files, CommandType
<1>6. CASE Writes(c)
  <2>1. PICK p \in cmd[c].todo :
           /\ request' = [request EXCEPT ![p] = [account |-> cmd[c].account, at |-> cmd[c].at,
                                                 mode |-> cmd[c].mode]]
           /\ leftover' = [leftover EXCEPT ![p] = FALSE]
           /\ cmd' = [cmd EXCEPT ![c].todo = @ \ {p}]
    BY <1>6 DEF Writes
  <2>2. UNCHANGED <<session, active, due, asks, word>> /\ p \in Pids
    BY <1>2, <1>6 DEF Writes, CommandType
  <2>3. cmd' \in [Commands -> CommandType]
    BY <1>2, <2>1 DEF CommandType
  <2>4. cmd[c].account \in Accounts
    BY <1>6 DEF TInv, AccountInv, Writes
  <2>5. request' \in [Pids -> Requests \cup {None}]
    BY <1>2, <2>1, <2>2, <2>4 DEF TInv, TypeOK, Requests, CommandType
  <2>6. AccountInv'
    BY <1>2, <1>6, <2>1 DEF TInv, AccountInv, CommandType
  <2>7. leftover' \in [Pids -> BOOLEAN] /\ LeftoverInv'
    BY <2>1, <2>2 DEF TInv, TypeOK, LeftoverInv
  <2>8. LeaseInv'
    BY <2>2 DEF TInv, LeaseInv, LeaseOf, AtRest, session
  <2>9. QED
    BY <2>1, <2>2, <2>3, <2>5, <2>6, <2>7, <2>8
    DEF TInv, TypeOK, LeaseInv, LeaseOf, AtRest, LeftoverInv, session, CommandType
<1>7. CASE LooksAgain(c)
  <2>1. cmd' \in [Commands -> CommandType]
    <3>1. ToStay(c) \in SUBSET Pids /\ cmd[c] \in CommandType
      BY <1>2 DEF ToStay, CommandType
    <3>2. cmd' = [cmd EXCEPT ![c] = [@ EXCEPT !.step = "clear", !.todo = ToStay(c), !.on = {}]]
      BY <1>2, <1>7 DEF LooksAgain, CommandType
    <3>3. [cmd[c] EXCEPT !.step = "clear", !.todo = ToStay(c), !.on = {}] \in CommandType
      BY <3>1 DEF CommandType
    <3>4. QED
      BY <1>2, <3>2, <3>3
  <2>2. AccountInv'
    BY <1>2, <1>7 DEF LooksAgain, TInv, AccountInv, CommandType
  <2>3. QED
    BY <1>7, <2>1, <2>2
    DEF LooksAgain, TInv, TypeOK, LeaseInv, LeaseOf, AtRest, LeftoverInv, session, files,
        CommandType
<1>8. CASE Clears(c)
  <2>1. PICK p \in cmd[c].todo : /\ request' = [request EXCEPT ![p] = None]
                                 /\ cmd' = [cmd EXCEPT ![c].todo = @ \ {p}]
    BY <1>8 DEF Clears
  <2>2. cmd' \in [Commands -> CommandType] /\ p \in Pids
    BY <1>2, <2>1 DEF CommandType
  <2>3. AccountInv'
    BY <1>2, <1>8, <2>1 DEF Clears, TInv, AccountInv, CommandType
  <2>4. QED
    BY <1>8, <2>1, <2>2, <2>3
    DEF Clears, TInv, TypeOK, LeaseInv, LeaseOf, AtRest, LeftoverInv, session, CommandType
<1>9. CASE CommandEnds(c)
  <2>1. cmd' \in [Commands -> CommandType]
    BY <1>1, <1>2, <1>9 DEF CommandEnds
  <2>2. AccountInv'
    BY <1>2, <1>9 DEF CommandEnds, TInv, AccountInv, Idle
  <2>3. QED
    BY <1>9, <2>1, <2>2
    DEF CommandEnds, TInv, TypeOK, LeaseInv, LeaseOf, AtRest, LeftoverInv, session, files,
        CommandType
<1>10. QED
  BY <1>5, <1>6, <1>7, <1>8, <1>9 DEF CommandStep

\* The types of what only sessions change: what a step of one keeps of another.
LEMMA SessionsApart ==
    ASSUME TypeOK, NEW p \in Pids, SessionStep(p), NEW q \in Pids, q # p
    PROVE  /\ proc'[q] = proc[q] /\ current'[q] = current[q] /\ next'[q] = next[q]
           /\ lease'[q] = lease[q] /\ freshest'[q] = freshest[q] /\ move'[q] = move[q]
           /\ renewal'[q] = renewal[q] /\ leftover'[q] = leftover[q] /\ word'[q] = word[q]
           /\ request'[q] = request[q] \/ (~Alive(q) /\ request'[q] = None)
<1> USE DEF TypeOK, Announces, Forgets, Blurs, Consumes, LookOver, files, session
<1>1. CASE Starts(p)
  BY <1>1 DEF Starts, Sweeps
<1>2. CASE Launches(p)
  BY <1>2 DEF Launches
<1>3. CASE Ends(p) \/ Killed(p)
  BY <1>3 DEF Ends, Killed, Leaves
<1>4. CASE Ticks(p) \/ AsksItself(p) \/ ClaudeExits(p)
  BY <1>4 DEF Ticks, AsksItself, ClaudeExits
<1>5. CASE Looks(p) \/ Satisfied(p) \/ Unusable(p) \/ Takes(p)
  BY <1>5 DEF Looks, Satisfied, Unusable, Takes
<1>6. CASE RestartsNow(p) \/ RestartsIdle(p)
  BY <1>6 DEF RestartsNow, RestartsIdle, Restarts, Unsettles
<1>7. CASE RenewalStarts(p) \/ RenewalEnds(p)
  BY <1>7 DEF RenewalStarts, RenewalEnds
<1>8. CASE MoveStarts(p)
  BY <1>8 DEF MoveStarts, Unsettles
<1>9. CASE MoveEnds(p) \/ MoveFails(p) \/ MoveHeldUp(p)
  BY <1>9 DEF MoveEnds, MoveFails, MoveHeldUp, MoveOver
<1>10. QED
  BY <1>1, <1>2, <1>3, <1>4, <1>5, <1>6, <1>7, <1>8, <1>9 DEF SessionStep

LEMMA TypeOfSessions ==
    ASSUME TInv, NEW p \in Pids, SessionStep(p)
    PROVE  TInv'
<1> USE SwitchRequestsAssumption
    DEF TInv, TypeOK, AccountInv, Announces, Forgets, Blurs, Consumes, LookOver, AtRest, files,
        session, Alive
<1>1. \A w \in [account : Accounts, plain : BOOLEAN] \cup {None} :
         Blurred(w) \in [account : Accounts, plain : BOOLEAN] \cup {None}
  BY DEF Blurred
<1>2. LeftoverInv'
  <2>1. ~leftover'[p]
    BY DEF SessionStep, Starts, Sweeps, Launches, Ends, Killed, Leaves, Ticks, AsksItself,
       ClaudeExits, Satisfied, Unusable, RestartsNow, RestartsIdle, Restarts, RenewalStarts,
       RenewalEnds, MoveStarts, MoveEnds, MoveFails, MoveHeldUp, Looks, Takes, LeftoverInv
  <2>2. QED
    BY <2>1, SessionsApart DEF LeftoverInv
\* What p announces, once the others are left alone.
<1>3. LeaseOf(p)' => LeaseInv'
  <2>1. \A q \in Pids \ {p} : LeaseOf(q)
    BY DEF LeaseInv
  <2>2. ASSUME NEW q \in Pids \ {p} PROVE LeaseOf(q)'
    <3>1. /\ proc'[q] = proc[q] /\ current'[q] = current[q] /\ lease'[q] = lease[q]
          /\ freshest'[q] = freshest[q] /\ move'[q] = move[q]
      BY SessionsApart
    <3>2. QED
      BY <2>1, <3>1 DEF LeaseOf
  <2>3. QED
    BY <2>2 DEF LeaseInv
<1>4. LeaseOf(p)
  BY DEF LeaseInv
<1>5. CASE Starts(p)
  <2>1. LeaseOf(p)'
    BY <1>4, <1>5 DEF Starts, LeaseOf
  <2>2. QED
    BY <1>1, <1>2, <1>3, <1>5, <2>1 DEF Starts
<1>6. CASE Launches(p)
  <2>1. LeaseOf(p)'
    BY <1>4, <1>6 DEF Launches, LeaseOf
  <2>2. QED
    BY <1>1, <1>2, <1>3, <1>6, <2>1 DEF Launches
<1>7. CASE Ends(p)
  <2>1. LeaseOf(p)'
    BY <1>4, <1>7 DEF Ends, Leaves, LeaseOf
  <2>2. QED
    BY <1>1, <1>2, <1>3, <1>7, <2>1 DEF Ends, Leaves
<1>8. CASE Killed(p)
  <2>1. LeaseOf(p)'
    BY <1>4, <1>8 DEF Killed, Leaves, LeaseOf
  <2>2. QED
    BY <1>1, <1>2, <1>3, <1>8, <2>1 DEF Killed, Leaves
<1>9. CASE Ticks(p)
  <2>1. LeaseOf(p)'
    BY <1>4, <1>9 DEF Ticks, LeaseOf
  <2>2. QED
    BY <1>1, <1>2, <1>3, <1>4, <1>9, <2>1 DEF Ticks, LeaseOf
<1>10. CASE ClaudeExits(p)
  <2>1. LeaseOf(p)'
    BY <1>4, <1>10 DEF ClaudeExits, LeaseOf
  <2>2. QED
    BY <1>1, <1>2, <1>3, <1>10, <2>1 DEF ClaudeExits
<1>11. CASE AsksItself(p)
  <2>1. LeaseOf(p)'
    BY <1>4, <1>11 DEF AsksItself, Requests, LeaseOf
  <2>2. QED
    BY <1>1, <1>2, <1>3, <1>11, <2>1 DEF AsksItself, Requests
<1>12. CASE Satisfied(p)
  <2>1. LeaseOf(p)'
    BY <1>4, <1>12 DEF Satisfied, LeaseOf
  <2>2. QED
    BY <1>1, <1>2, <1>3, <1>12, <2>1 DEF Satisfied
<1>13. CASE Unusable(p)
  <2>1. LeaseOf(p)'
    BY <1>4, <1>13 DEF Unusable, CannotBe, LeaseOf
  <2>2. QED
    BY <1>1, <1>2, <1>3, <1>13, <2>1 DEF Unusable, CannotBe
<1>14. CASE RestartsNow(p)
  <2>1. LeaseOf(p)'
    BY <1>4, <1>14 DEF RestartsNow, Restarts, Unsettles, ToBeMade, Target, Requests, LeaseOf
  <2>2. QED
    BY <1>1, <1>2, <1>3, <1>14, <2>1
    DEF RestartsNow, Restarts, Unsettles, ToBeMade, Target, Requests
<1>15. CASE RestartsIdle(p)
  <2>1. LeaseOf(p)'
    BY <1>4, <1>15
    DEF RestartsIdle, Restarts, Unsettles, InPlace, ToBeMade, Target, Requests, LeaseOf
  <2>2. QED
    BY <1>1, <1>2, <1>3, <1>15, <2>1
    DEF RestartsIdle, Restarts, Unsettles, InPlace, ToBeMade, Target, Requests
<1>16. CASE RenewalStarts(p)
  <2>1. LeaseOf(p)'
    BY <1>4, <1>16 DEF RenewalStarts, InPlace, ToBeMade, Target, Requests, Results, LeaseOf
  <2>2. QED
    BY <1>1, <1>2, <1>3, <1>16, <2>1 DEF RenewalStarts, InPlace, ToBeMade, Target, Requests, Results
<1>17. CASE RenewalEnds(p)
  <2>1. LeaseOf(p)'
    BY <1>4, <1>17 DEF RenewalEnds, Results, LeaseOf
  <2>2. QED
    BY <1>1, <1>2, <1>3, <1>17, <2>1 DEF RenewalEnds, Results
<1>18. CASE MoveStarts(p)
  <2>1. LeaseOf(p)'
    BY <1>4, <1>18 DEF MoveStarts, Unsettles, InPlace, ToBeMade, Target, Requests, LeaseOf
  <2>2. QED
    <3>1. word' \in [Pids -> [account : Accounts, plain : BOOLEAN] \cup {None}]
      BY <1>1, <1>18 DEF MoveStarts, Unsettles
    <3>2. QED
      BY ZenonT(40), <1>2, <1>3, <1>18, <2>1, <3>1 DEF MoveStarts, InPlace, ToBeMade, Target, Requests
<1>19. CASE MoveEnds(p)
  <2>1. LeaseOf(p)'
    BY <1>4, <1>19 DEF MoveEnds, MoveOver, StillMovedFor, Requests, LeaseOf
  <2>2. QED
    BY <1>1, <1>2, <1>3, <1>19, <2>1 DEF MoveEnds, MoveOver, StillMovedFor, Requests
<1>20. CASE MoveFails(p)
  <2>1. LeaseOf(p)'
    BY <1>4, <1>20 DEF MoveFails, MoveOver, StillMovedFor, Requests, LeaseOf
  <2>2. QED
    BY <1>1, <1>2, <1>3, <1>20, <2>1 DEF MoveFails, MoveOver, StillMovedFor, Requests
<1>21. CASE MoveHeldUp(p)
  <2>1. LeaseOf(p)'
    BY <1>4, <1>21 DEF MoveHeldUp, MoveOver, LeaseOf
  <2>2. QED
    BY <1>1, <1>2, <1>3, <1>21, <2>1 DEF MoveHeldUp, MoveOver
<1>23. CASE Looks(p)
  <2>1. LeaseOf(p)'
    BY <1>4, <1>23 DEF Looks, Requests, LeaseOf
  <2>2. QED
    BY <1>1, <1>2, <1>3, <1>23, <2>1 DEF Looks, Requests
<1>24. CASE Takes(p)
  <2>1. LeaseOf(p)'
    BY <1>4, <1>24 DEF Takes, LeaseOf
  <2>2. QED
    BY <1>1, <1>2, <1>3, <1>24, <2>1 DEF Takes
<1>22. QED
  BY <1>5, <1>6, <1>7, <1>8, <1>9, <1>10, <1>11, <1>12, <1>13, <1>14, <1>15, <1>16, <1>17, <1>18,
     <1>19, <1>20, <1>21, <1>23, <1>24
  DEF SessionStep

LEMMA TypeStep == TInv /\ [Next]_vars => TInv'
<1>1. ASSUME TInv, UNCHANGED vars PROVE TInv'
  BY <1>1
  DEF vars, session, files, TInv, TypeOK, LeaseInv, LeaseOf, AtRest, LeftoverInv, AccountInv
<1>2. QED
  BY <1>1, TypeOfCommands, TypeOfSessions DEF Next

\* What a session's folder holds, or may hold, is announced at all times.
THEOREM TypeCorrect == Spec => [](TypeOK /\ Announced)
<1>1. TInv => TypeOK /\ Announced
  BY DEF TInv, TypeOK, LeaseInv, LeaseOf, AtRest, Announced
<1>2. QED
  BY <1>1, TypeInit, TypeStep, PTL DEF Spec

\* A session acts only on what was asked since it started.
THEOREM StaysPut == Spec => FreshSessionsStayPut
<1>1. TInv /\ [Next]_vars =>
        [\A p \in Pids : proc[p] = "running" /\ proc'[p] = "looking" => ~leftover[p]]_vars
  BY DEF TInv, LeftoverInv
<1>2. QED
  BY <1>1, TypeInit, TypeStep, PTL DEF Spec, FreshSessionsStayPut

-----------------------------------------------------------------------------
(* Stamps *)

\* A step of a session reads requests and makes newer ones.
LEMMA StampOfSessions ==
    ASSUME TInv, StampInv, NEW p \in Pids, SessionStep(p)
    PROVE  StampInv'
<1> USE DEF TInv, TypeOK, StampInv, Writing, NewTo, Announces, Forgets, Blurs, Consumes, LookOver,
    files, session
<1>1. UNCHANGED cmd
  BY DEF SessionStep, Starts, Launches, Ends, Killed, Leaves, Ticks, AsksItself, ClaudeExits,
     Looks, Satisfied, Unusable, RestartsNow, RestartsIdle, Restarts, RenewalStarts, RenewalEnds,
     MoveStarts, MoveEnds, MoveFails, MoveHeldUp, Takes
<1>2. CASE AsksItself(p)
  <2>1. PICK acc \in Accounts :
           request' = [request EXCEPT ![p] = [account |-> acc, at |-> asks', mode |-> "seamless"]]
    BY <1>2 DEF AsksItself
  <2>2. asks' = asks + 1 /\ move' = move /\ asks \in Nat
    BY <1>2, SwitchRequestsAssumption DEF AsksItself
  <2>3. request'[p].at = asks + 1
    BY <2>1, <2>2
  <2>4. \A q \in Pids : q # p => request'[q] = request[q]
    BY <2>1
  <2>5. \A q \in Pids : move[q] # None => move[q].at \in Nat
    BY DEF Requests
  <2>6. \A q \in Pids : request[q] # None => request[q].at \in Nat
    BY DEF Requests
  <2>7. \A c \in Commands : cmd[c].at \in Nat
    OBVIOUS
  <2>8. QED
    BY <1>1, <2>2, <2>3, <2>4, <2>5, <2>6, <2>7
<1>3. ASSUME ~AsksItself(p)
      PROVE  /\ asks' = asks
             /\ \A q \in Pids : /\ request'[q] \in {request[q], None}
                                /\ move'[q] \in {move[q], request[q], None}
  BY <1>3
  DEF SessionStep, Starts, Launches, Ends, Killed, Leaves, Ticks, ClaudeExits, Looks, Satisfied,
      Unusable, RestartsNow, RestartsIdle, Restarts, RenewalStarts, RenewalEnds, MoveStarts,
      MoveEnds, MoveFails, MoveHeldUp, MoveOver, Takes
<1>4. QED
  BY <1>1, <1>2, <1>3

\* A command's stamp is its own, and each of its writes carries it.
LEMMA StampOfCommands ==
    ASSUME TInv, StampInv, NEW c \in Commands, CommandStep(c)
    PROVE  StampInv'
<1> USE DEF TInv, TypeOK, StampInv, Writing, NewTo, files, session
<1>1. move' = move /\ \A d \in Commands : d # c => cmd'[d] = cmd[d]
  BY DEF CommandStep, Asks, AsksOne, AsksAll, AsksNone, AsksLeavers, Begins, Writes, LooksAgain,
     Clears, CommandEnds
<1>2. /\ asks \in Nat /\ \A d \in Commands : cmd[d].at \in Nat
      /\ \A q \in Pids : /\ request[q] # None => request[q].at \in Nat
                         /\ move[q] # None => move[q].at \in Nat
  BY SwitchRequestsAssumption DEF Requests
<1>3. CASE Asks(c)
  <2>1. asks' = asks + 1 /\ cmd'[c].at = asks + 1 /\ request' = request
    BY <1>3 DEF Asks, AsksOne, AsksAll, AsksNone, AsksLeavers, Begins
  <2>2. \A d \in Commands : cmd'[d].at <= asks'
    BY <1>1, <1>2, <2>1
  <2>3. \A q \in Pids : /\ request'[q] # None => request'[q].at <= asks'
                        /\ move'[q] # None => move'[q].at <= asks'
    BY <1>1, <1>2, <2>1
  <2>4. \A q \in Pids : NewTo(c, q)'
    BY <1>1, <1>2, <2>1
  <2>5. \A d \in Commands, q \in Pids : Writing(d)' /\ q \in cmd'[d].todo => NewTo(d, q)'
    BY <1>1, <2>1, <2>4
  <2>6. \A d \in Commands : d # c => cmd'[d].at # cmd'[c].at
    BY <1>1, <1>2, <2>1
  <2>7. \A d, e \in Commands : Writing(d)' /\ Writing(e)' /\ d # e => cmd'[d].at # cmd'[e].at
    BY <1>1, <2>6
  <2>8. QED
    BY <2>2, <2>3, <2>5, <2>7
<1>4. ASSUME ~Asks(c)
      PROVE  /\ asks' = asks /\ cmd'[c].at \in {cmd[c].at, 0}
             /\ Writing(c)' => /\ cmd'[c].at = cmd[c].at /\ Writing(c)
                               /\ cmd'[c].todo \subseteq cmd[c].todo
  BY <1>4 DEF CommandStep, Writes, LooksAgain, Clears, CommandEnds, Idle
<1>5. ASSUME ~Asks(c), ~Writes(c)
      PROVE  \A q \in Pids : request'[q] \in {request[q], None}
  BY <1>5 DEF CommandStep, LooksAgain, Clears, CommandEnds
<1>6. ASSUME ~Asks(c)
      PROVE  /\ \A d \in Commands : cmd'[d].at <= asks'
             /\ \A d, e \in Commands :
                   Writing(d)' /\ Writing(e)' /\ d # e => cmd'[d].at # cmd'[e].at
  BY <1>1, <1>2, <1>4, <1>6
<1>7. CASE ~Asks(c) /\ ~Writes(c)
  <2>1. \A d \in Commands, q \in Pids : Writing(d)' /\ q \in cmd'[d].todo => NewTo(d, q)'
    BY <1>1, <1>4, <1>5, <1>7
  <2>2. QED
    BY <1>1, <1>4, <1>5, <1>6, <1>7, <2>1
<1>8. CASE Writes(c)
  <2>1. PICK p \in cmd[c].todo :
           /\ request' = [request EXCEPT ![p] = [account |-> cmd[c].account, at |-> cmd[c].at,
                                                 mode |-> cmd[c].mode]]
           /\ cmd' = [cmd EXCEPT ![c].todo = @ \ {p}]
    BY <1>8 DEF Writes
  <2>2. Writing(c) /\ cmd'[c].todo = cmd[c].todo \ {p} /\ p \in Pids /\ ~Asks(c)
    BY ZenonT(40), <1>8, <2>1
    DEF Writes, Asks, AsksOne, AsksAll, AsksNone, AsksLeavers, Begins
  <2>3. request'[p].at = cmd[c].at /\ \A q \in Pids : q # p => request'[q] = request[q]
    BY <2>1, <2>2
  <2>4. ASSUME NEW d \in Commands, NEW q \in Pids, Writing(d)', q \in cmd'[d].todo
        PROVE  NewTo(d, q)'
    <3>1. Writing(d) /\ q \in cmd[d].todo /\ cmd'[d].at = cmd[d].at
      BY <1>1, <1>4, <2>2, <2>4
    <3>2. NewTo(d, q)
      BY <3>1
    <3>3. CASE q # p
      BY <1>1, <2>3, <3>1, <3>2, <3>3
    <3>4. CASE q = p
      <4>1. d # c
        BY <2>2, <2>4, <3>4
      <4>2. cmd[d].at # cmd[c].at
        BY <2>2, <3>1, <4>1
      <4>3. QED
        BY <1>1, <2>3, <3>1, <3>2, <3>4, <4>2
    <3>5. QED
      BY <3>3, <3>4
  <2>5. \A q \in Pids : request'[q] # None => request'[q].at <= asks'
    BY <1>4, <2>2, <2>3
  <2>6. QED
    BY <1>1, <1>4, <1>6, <2>2, <2>4, <2>5
<1>9. QED
  BY <1>3, <1>7, <1>8

-----------------------------------------------------------------------------
(* The last word *)

\* A session's own steps: what is said of it is kept only where it still gets
\* there, and a step that ends its rest blurs it for every command that takes
\* moves back.
LEMMA WordOfSessions ==
    ASSUME IInv, TInv', NEW p \in Pids, SessionStep(p)
    PROVE  CommandsInv' /\ WordInv'
<1> USE DEF IInv, Said, TakesBack, AtRest, BeingTaken
<1>1. UNCHANGED cmd
  BY DEF SessionStep, Starts, Launches, Ends, Killed, Leaves, Ticks, AsksItself, ClaudeExits,
     Looks, Satisfied, Unusable, RestartsNow, RestartsIdle, Restarts, RenewalStarts, RenewalEnds,
     MoveStarts, MoveEnds, MoveFails, MoveHeldUp, Takes
<1>2. ASSUME NEW q \in Pids, q # p, NEW acc \in Accounts, Said(q, acc)'
      PROVE  /\ CommandsOf(q, acc)'
             /\ (Alive(q) /\ GetsThere(q, acc))'
  <2>1. Said(q, acc) /\ CommandsOf(q, acc) /\ Alive(q) /\ GetsThere(q, acc)
    BY <1>2, SessionsApart DEF TInv, CommandsInv, WordInv
  <2>2. /\ proc'[q] = proc[q] /\ current'[q] = current[q] /\ next'[q] = next[q]
        /\ request'[q] = request[q] /\ move'[q] = move[q]
    BY <1>2, <2>1, SessionsApart DEF TInv
  <2>3. QED
    BY <1>1, <2>1, <2>2 DEF CommandsOf, GetsThere, Asked, TakenBack, Alive
<1>3. ASSUME NEW acc \in Accounts, Said(p, acc)'
      PROVE  /\ CommandsOf(p, acc)'
             /\ (Alive(p) /\ GetsThere(p, acc))'
  <2> USE DEF TInv, TypeOK
  <2>1. Said(p, acc) => CommandsOf(p, acc) /\ Alive(p) /\ GetsThere(p, acc)
    BY DEF CommandsInv, WordInv
  <2>2. CASE Ends(p) \/ Killed(p) \/ AsksItself(p) \/ Unusable(p) \/ MoveFails(p)
    BY <1>3, <2>2 DEF Ends, Killed, Leaves, AsksItself, Unusable, MoveFails, Forgets
  <2>3. CASE Starts(p)
    BY <1>3, <2>1, <2>3 DEF Starts
  <2>4. CASE Ticks(p) \/ RenewalStarts(p) \/ RenewalEnds(p) \/ Looks(p)
    BY <1>1, <1>3, <2>1, <2>4
    DEF Ticks, RenewalStarts, InPlace, ToBeMade, RenewalEnds, Looks, LookOver, files, CommandsOf,
        GetsThere, Asked, TakenBack, Alive
  <2>5. CASE ClaudeExits(p)
    BY <1>1, <1>3, <2>1, <2>5
    DEF ClaudeExits, files, CommandsOf, GetsThere, Asked, TakenBack, Alive
  <2>6. CASE Launches(p)
    <3>1. Said(p, acc) /\ next[p] = current'[p] /\ proc[p] = "between"
      BY <1>3, <2>6 DEF Launches, Forgets
    <3>2. \A c \in Commands : cmd[c].step \notin {"write", "clear"}
      BY <2>1, <3>1 DEF CommandsOf
    <3>3. proc'[p] = "running" /\ request'[p] = request[p]
      BY <2>6 DEF Launches, files
    <3>4. CommandsOf(p, acc)'
      BY <1>1, <2>1, <3>1, <3>2, <3>3 DEF CommandsOf
    <3>5. Asked(p, acc) => Asked(p, acc)'
      BY <1>1 DEF Asked
    <3>6. QED
      BY <2>1, <3>1, <3>3, <3>4, <3>5 DEF GetsThere, Alive
  <2>7. CASE Satisfied(p) \/ Takes(p)
    <3>1. ~Unread(p) /\ Said(p, acc)
      BY <1>3, <2>7 DEF Satisfied, Takes, Blurs, Blurred
    <3>2. /\ proc[p] \in {"looking", "taking"} /\ proc'[p] = "running" /\ current' = current
          /\ request'[p] = None
      BY <2>7 DEF Satisfied, Takes, Consumes, LookOver
    <3>3. CommandsOf(p, acc)'
      BY <1>1, <2>1, <3>1, <3>2 DEF CommandsOf
    <3>4. Asked(p, acc) => Asked(p, acc)'
      BY <1>1 DEF Asked
    <3>5. ~Asked(p, acc) => current[p] = acc
      BY <2>1, <2>7, <3>1, <3>2 DEF GetsThere, Unread, Satisfied, Takes, Target
    <3>6. QED
      BY <2>1, <3>2, <3>3, <3>4, <3>5 DEF GetsThere, Alive
  <2>8. CASE RestartsNow(p) \/ RestartsIdle(p)
    <3>1. Restarts(p) /\ proc[p] = "looking" /\ move[p] # None
      BY <2>8 DEF RestartsNow, RestartsIdle, InPlace, ToBeMade
    <3>2. /\ request[p] = move[p] /\ Said(p, acc)
          /\ \A c \in Commands : cmd[c].step \notin {"write", "clear"}
      <4>1. ~Blurs(p)
        BY <1>3 DEF Blurs, Blurred
      <4>2. request[p] = move[p] /\ Unsettles(p) /\ word' = word
        BY <3>1, <4>1 DEF Restarts, Unsettles
      <4>3. QED
        BY <1>3, <4>1, <4>2 DEF Unsettles
    <3>4. /\ proc'[p] = "switching" /\ request'[p] = None /\ current' = current
          /\ next'[p] = request[p].account
      BY <3>1, <3>2 DEF Restarts, Consumes, LookOver, Target
    <3>5. CommandsOf(p, acc)'
      BY <1>1, <2>1, <3>2, <3>4 DEF CommandsOf
    <3>6. Asked(p, acc) => Asked(p, acc)'
      BY <1>1 DEF Asked
    <3>7. ~TakenBack(p, acc)
      BY <3>2 DEF TakenBack
    <3>8. QED
      BY <2>1, <3>1, <3>2, <3>4, <3>5, <3>6, <3>7 DEF GetsThere, Alive
  <2>9. CASE MoveStarts(p)
    <3>1. proc[p] = "looking" /\ proc'[p] = "moving" /\ request' = request /\ current' = current
      BY <2>9 DEF MoveStarts, InPlace, ToBeMade, files
    <3>2. /\ request[p] # None /\ Said(p, acc)
          /\ \A c \in Commands : cmd[c].step \notin {"write", "clear"}
      BY <1>3, <2>9 DEF MoveStarts, Unsettles, Blurs, Blurred
    <3>5. CommandsOf(p, acc)'
      BY <1>1, <2>1, <3>1, <3>2 DEF CommandsOf
    <3>6. Asked(p, acc) => Asked(p, acc)'
      BY <1>1 DEF Asked
    <3>7. ~TakenBack(p, acc)
      BY <3>2 DEF TakenBack
    <3>8. QED
      BY <2>1, <3>1, <3>2, <3>5, <3>6, <3>7 DEF GetsThere, Alive
  <2>10. CASE MoveEnds(p) \/ MoveHeldUp(p)
    <3>1. /\ proc[p] = "moving" /\ proc'[p] \in {"running", "taking"} /\ Said(p, acc)
          /\ request' = request
      BY <1>3, <2>10 DEF MoveEnds, MoveHeldUp, MoveOver, LookOver, files
    <3>2. \A c \in Commands : cmd[c].step \notin {"write", "clear"}
      BY <2>1, <3>1 DEF CommandsOf
    <3>3. CommandsOf(p, acc)'
      BY <1>1, <2>1, <3>1, <3>2 DEF CommandsOf
    <3>4. Asked(p, acc) => Asked(p, acc)'
      BY <1>1 DEF Asked
    <3>5. proc'[p] = "taking" => current'[p] = request[p].account
      BY <2>10 DEF MoveEnds, MoveHeldUp, MoveOver, LookOver, StillMovedFor
    <3>6. QED
      BY <2>1, <3>1, <3>3, <3>4, <3>5 DEF GetsThere, Alive
  <2>11. QED
    BY <2>2, <2>3, <2>4, <2>5, <2>6, <2>7, <2>8, <2>9, <2>10 DEF SessionStep
<1>4. QED
  BY <1>2, <1>3 DEF CommandsInv, WordInv

\* A command beginning. What it says of a session is plain only where that is
\* at rest and no other command is under way; of one it does not name, what was
\* said before stays plain only where it will ask and take back nothing.
LEMMA WordOfBegins ==
    ASSUME IInv, NEW c \in Commands, NEW step \in {"ask", "write"}, NEW acc \in Accounts,
           NEW mode, NEW told \in SUBSET Seen, NEW todo \in SUBSET told, NEW on,
           Begins(c, step, acc, mode, told, todo, on),
           \A q \in told \ todo : step = "write" /\ (AtRest(q) => current[q] = acc),
           \A q \in on : AtRest(q) => q \in told /\ current[q] = acc,
           \A q \in Pids : step = "write" /\ AtRest(q) /\ current[q] = acc => q \in told
    PROVE  CommandsInv' /\ WordInv'
<1> DEFINE new == [step |-> step, account |-> acc, at |-> asks + 1, mode |-> mode,
                   todo |-> todo, on |-> on]
<1>1. /\ cmd[c].step = "idle" /\ cmd' = [cmd EXCEPT ![c] = new]
      /\ UNCHANGED <<proc, current, next, move, request>>
  BY DEF Begins, session, files
<1>2. cmd'[c] = new /\ \A c2 \in Commands : c2 # c => cmd'[c2] = cmd[c2]
  BY <1>1 DEF IInv, TInv, TypeOK
<1>3. /\ new.step = step /\ new.account = acc /\ new.todo = todo /\ new.on = on
  OBVIOUS
<1> USE DEF AtRest, BeingTaken
<1> HIDE DEF new
<1>4. ASSUME NEW q \in Pids, NEW a \in Accounts, Said(q, a)'
      PROVE  CommandsOf(q, a)' /\ Alive(q)' /\ GetsThere(q, a)'
  <2>1. CASE q \in told
    <3>1. a = acc /\ NoCommand /\ (step = "ask" \/ AtRest(q))
      BY <1>4, <2>1 DEF Begins, Said
    <3>2. \A c2 \in Commands : c2 # c => cmd'[c2].step = "idle"
      BY <1>2, <3>1 DEF NoCommand
    <3>3. q \in on /\ step = "write" => current[q] = acc
      BY <3>1
    <3>4. CommandsOf(q, a)'
      <4>1. /\ cmd'[c].step = step /\ cmd'[c].account = acc /\ cmd'[c].todo = todo
            /\ cmd'[c].on = on
        BY <1>2, <1>3
      <4>2. proc' = proc /\ current' = current
        BY <1>1
      <4>3. QED
        BY <3>1, <3>2, <3>3, <4>1, <4>2 DEF CommandsOf, TakesBack
    <3>5. Alive(q)'
      BY <1>1, <2>1 DEF Seen, Alive
    <3>6. CASE q \in todo
      <4>1. Asked(q, a)'
        BY <1>2, <1>3, <3>1, <3>6 DEF Asked
      <4>2. QED
        BY <3>4, <3>5, <4>1 DEF GetsThere
    <3>7. CASE q \notin todo
      <4>1. step = "write" /\ AtRest(q) /\ current[q] = acc
        BY <2>1, <3>1, <3>7
      <4>2. TakenBack(q, a)'
        BY <1>2, <1>3, <3>1, <4>1 DEF TakenBack
      <4>3. QED
        BY <1>1, <3>1, <3>4, <3>5, <4>1, <4>2 DEF GetsThere
    <3>8. QED
      BY <3>4, <3>5, <3>6, <3>7
  <2>2. CASE q \notin told
    <3>1. Said(q, a) /\ (step = "ask" \/ AtRest(q))
      BY <1>4, <2>2 DEF Begins, Said, Blurred
    <3>2. CommandsOf(q, a) /\ Alive(q) /\ GetsThere(q, a)
      BY <3>1 DEF IInv, CommandsInv, WordInv
    <3>3. q \notin todo /\ (step = "write" => q \notin on /\ current[q] # acc)
      BY <2>2, <3>1
    <3>4. CommandsOf(q, a)'
      <4>1. /\ cmd'[c].step = step /\ cmd'[c].account = acc /\ cmd'[c].todo = todo
            /\ cmd'[c].on = on
        BY <1>2, <1>3
      <4>2. proc' = proc /\ current' = current
        BY <1>1
      <4>3. QED
        BY <1>2, <3>1, <3>2, <3>3, <4>1, <4>2 DEF CommandsOf, TakesBack
    <3>5. Asked(q, a) => Asked(q, a)'
      BY <1>1, <1>2 DEF Asked
    <3>6. TakenBack(q, a) => TakenBack(q, a)'
      BY <1>1, <1>2 DEF TakenBack
    <3>7. QED
      BY <1>1, <3>2, <3>4, <3>5, <3>6 DEF GetsThere, Alive
  <2>3. QED
    BY <2>1, <2>2
<1>5. QED
  BY <1>4 DEF CommandsInv, WordInv

\* Which sessions each kind of command names, asks, and takes to be there.
LEMMA WordOfAsks ==
    ASSUME IInv, NEW c \in Commands, Asks(c)
    PROVE  CommandsInv' /\ WordInv'
<1>1. \A q \in Pids : AtRest(q) => q \in Seen /\ freshest[q] = current[q]
  BY DEF IInv, TInv, LeaseInv, LeaseOf, AtRest, Seen, Alive
<1>2. Seen \subseteq Pids
  BY DEF Seen
<1>3. CASE AsksOne(c)
  <2>1. PICK q \in Seen, acc \in Accounts, mode \in {"seamless", "restart"} :
           Begins(c, "ask", acc, mode, {q}, {q}, {})
    BY <1>3 DEF AsksOne
  <2>2. {q} \in SUBSET Seen
    BY <2>1
  <2>3. QED
    BY <2>1, <2>2, WordOfBegins
<1>4. CASE AsksAll(c)
  <2>1. PICK acc \in Accounts, mode \in {"seamless", "restart"} :
           Begins(c, "write", acc, mode, Seen, Others(acc), Seen \ Others(acc))
    BY <1>4 DEF AsksAll
  <2>2. Others(acc) \in SUBSET Seen
    BY DEF Others
  <2>3. \A q \in Seen \ Others(acc) : AtRest(q) => current[q] = acc
    BY <1>1, <1>2 DEF Others
  <2>4. \A q \in Pids : AtRest(q) /\ current[q] = acc => q \in Seen
    BY <1>1
  <2>5. QED
    BY <2>1, <2>2, <2>3, <2>4, WordOfBegins
<1>5. CASE AsksNone(c)
  <2>1. PICK acc \in Accounts :
           Begins(c, "write", acc, "seamless", {q \in Seen : current[q] = acc}, {},
                  Seen \ Others(acc))
    BY <1>5 DEF AsksNone
  <2> DEFINE there == {q \in Seen : current[q] = acc}
  <2>2. there \in SUBSET Seen /\ {} \in SUBSET there
    OBVIOUS
  <2>3. \A q \in Seen \ Others(acc) : AtRest(q) => q \in there /\ current[q] = acc
    BY <1>1, <1>2 DEF Others
  <2>4. \A q \in Pids : AtRest(q) /\ current[q] = acc => q \in there
    BY <1>1
  <2>5. \A q \in there : current[q] = acc
    OBVIOUS
  <2>6. Begins(c, "write", acc, "seamless", there, {}, Seen \ Others(acc))
    BY <2>1
  <2> HIDE DEF there
  <2>7. QED
    BY <2>2, <2>3, <2>4, <2>5, <2>6, WordOfBegins
<1>6. CASE AsksLeavers(c)
  <2> DEFINE leavers == Seen \ Others(active)
  <2>1. PICK acc \in Accounts :
           Begins(c, "write", acc, "seamless", leavers \cup {q \in Seen : current[q] = acc},
                  leavers, {})
    BY <1>6 DEF AsksLeavers
  <2> DEFINE told == leavers \cup {q \in Seen : current[q] = acc}
  <2>2. told \in SUBSET Seen /\ leavers \in SUBSET told
    OBVIOUS
  <2>3. \A q \in told \ leavers : current[q] = acc
    OBVIOUS
  <2>4. \A q \in Pids : AtRest(q) /\ current[q] = acc => q \in told
    BY <1>1
  <2>5. Begins(c, "write", acc, "seamless", told, leavers, {})
    BY <2>1
  <2> HIDE DEF told, leavers
  <2>6. QED
    BY <2>2, <2>3, <2>4, <2>5, WordOfBegins
<1>7. QED
  BY <1>3, <1>4, <1>5, <1>6 DEF Asks

\* A command's later steps: each of its writes is of the account said, and
\* what it takes back it takes from sessions at rest on that account.
LEMMA WordOfCommands ==
    ASSUME IInv, NEW c \in Commands, CommandStep(c)
    PROVE  CommandsInv' /\ WordInv'
<1> USE DEF AtRest, BeingTaken
<1>1. CASE Asks(c)
  BY <1>1, WordOfAsks
<1>2. ASSUME ~Asks(c), NEW q \in Pids, NEW a \in Accounts, Said(q, a)'
      PROVE  CommandsOf(q, a)' /\ Alive(q)' /\ GetsThere(q, a)'
  <2>1. UNCHANGED <<proc, current, next, lease, move, word>>
    BY <1>2 DEF CommandStep, Writes, LooksAgain, Clears, CommandEnds, session
  <2>2. Said(q, a) /\ CommandsOf(q, a) /\ Alive(q) /\ GetsThere(q, a)
    BY <1>2, <2>1 DEF Said, IInv, CommandsInv, WordInv
  <2>3. \A c2 \in Commands : c2 # c => cmd'[c2] = cmd[c2]
    BY <1>2 DEF CommandStep, Writes, LooksAgain, Clears, CommandEnds, IInv, TInv, TypeOK
  <2>4. Alive(q)'
    BY <2>1, <2>2 DEF Alive
  <2>5. CASE Writes(c)
    <3>1. PICK p \in cmd[c].todo :
             /\ request' = [request EXCEPT ![p] = [account |-> cmd[c].account,
                                                   at |-> cmd[c].at, mode |-> cmd[c].mode]]
             /\ cmd' = [cmd EXCEPT ![c].todo = @ \ {p}]
      BY <2>5 DEF Writes
    <3>2. /\ cmd[c].step \in {"ask", "write"} /\ cmd'[c].step = cmd[c].step
          /\ cmd'[c].account = cmd[c].account /\ cmd'[c].on = cmd[c].on
          /\ cmd'[c].todo = cmd[c].todo \ {p} /\ p \in Pids
      BY <2>5, <3>1 DEF Writes, IInv, TInv, TypeOK
    <3>3. CommandsOf(q, a)'
      BY <2>1, <2>2, <2>3, <3>2 DEF CommandsOf, TakesBack
    <3>4. TakenBack(q, a) => TakenBack(q, a)'
      BY <2>3, <3>2 DEF TakenBack
    <3>5. CASE q = p
      <4>1. cmd[c].account = a
        BY <2>2, <3>1, <3>2, <3>5 DEF CommandsOf
      <4>2. request'[q] # None /\ request'[q].account = a /\ ~BeingTaken(q)'
        <5>1. request'[q] \in Requests /\ request'[q].account = a
          BY <3>1, <3>2, <3>5, <4>1 DEF IInv, TInv, TypeOK, Requests
        <5>2. request'[q] # None
          BY <5>1, SwitchRequestsAssumption
        <5>3. request'[q].at = cmd[c].at /\ (move[q] # None => move[q].at # cmd[c].at)
          BY <3>1, <3>2, <3>5 DEF IInv, StampInv, Writing, NewTo, TInv, TypeOK
        <5>4. QED
          BY <2>1, <5>1, <5>2, <5>3
      <4>3. QED
        BY <2>4, <3>3, <4>2 DEF GetsThere
    <3>6. CASE q # p
      <4>1. request'[q] = request[q]
        BY <3>1, <3>6 DEF IInv, TInv, TypeOK
      <4>2. Asked(q, a) => Asked(q, a)'
        BY <2>3, <3>2, <3>6 DEF Asked
      <4>3. QED
        BY <2>1, <2>2, <2>4, <3>3, <3>4, <4>1, <4>2 DEF GetsThere
    <3>7. QED
      BY <3>5, <3>6
  <2>6. CASE LooksAgain(c)
    <3>1. /\ cmd[c].step = "write" /\ cmd[c].todo = {} /\ cmd'[c].step = "clear"
          /\ cmd'[c].account = cmd[c].account /\ cmd'[c].todo = ToStay(c)
          /\ request' = request
      BY <2>6 DEF LooksAgain, IInv, TInv, TypeOK, files
    <3>2. AtRest(q) /\ lease[q] = {current[q]}
      BY <2>2, <3>1 DEF CommandsOf, TakesBack, IInv, TInv, LeaseInv, LeaseOf
    <3>3. q \in ToStay(c) => cmd[c].account = a /\ current[q] = a
      BY <2>2, <3>1, <3>2 DEF ToStay, CommandsOf
    <3>4. CommandsOf(q, a)'
      BY <2>1, <2>2, <2>3, <3>1, <3>2, <3>3 DEF CommandsOf, TakesBack
    <3>5. Asked(q, a) => Asked(q, a)'
      BY <2>3, <3>1 DEF Asked
    <3>6. TakenBack(q, a) /\ current[q] = a => TakenBack(q, a)'
      <4>1. cmd[c].account = a /\ current[q] = a => q \in ToStay(c)
        BY <2>2, <3>2 DEF ToStay
      <4>2. QED
        BY <2>3, <3>1, <4>1 DEF TakenBack
    <3>7. QED
      BY <2>1, <2>2, <2>4, <3>1, <3>4, <3>5, <3>6 DEF GetsThere
  <2>7. CASE Clears(c)
    <3>1. PICK p \in cmd[c].todo : /\ request' = [request EXCEPT ![p] = None]
                                   /\ cmd' = [cmd EXCEPT ![c].todo = @ \ {p}]
      BY <2>7 DEF Clears
    <3>2. /\ cmd[c].step = "clear" /\ cmd'[c].step = "clear"
          /\ cmd'[c].account = cmd[c].account
          /\ cmd'[c].todo = cmd[c].todo \ {p} /\ p \in Pids
      BY <2>7, <3>1 DEF Clears, IInv, TInv, TypeOK
    <3>3. CommandsOf(q, a)'
      BY <2>1, <2>2, <2>3, <3>2 DEF CommandsOf, TakesBack
    <3>4. CASE q = p
      <4>1. current[q] = a /\ AtRest(q) /\ request'[q] = None
        BY <2>2, <3>1, <3>2, <3>4 DEF CommandsOf, TakesBack, IInv, TInv, TypeOK
      <4>2. QED
        BY <2>1, <2>4, <3>3, <4>1 DEF GetsThere
    <3>5. CASE q # p
      <4>1. request'[q] = request[q]
        BY <3>1, <3>5 DEF IInv, TInv, TypeOK
      <4>2. Asked(q, a) => Asked(q, a)'
        BY <2>3, <3>2 DEF Asked
      <4>3. TakenBack(q, a) => TakenBack(q, a)'
        BY <2>3, <3>2, <3>5 DEF TakenBack
      <4>4. QED
        BY <2>1, <2>2, <2>4, <3>3, <4>1, <4>2, <4>3 DEF GetsThere
    <3>6. QED
      BY <3>4, <3>5
  <2>8. CASE CommandEnds(c)
    <3>1. /\ cmd[c].step \in {"ask", "clear"} /\ cmd[c].todo = {} /\ cmd'[c].step = "idle"
          /\ request' = request
      BY <2>8 DEF CommandEnds, IInv, TInv, TypeOK, Idle, files
    <3>2. CommandsOf(q, a)'
      BY <2>1, <2>2, <2>3, <3>1 DEF CommandsOf, TakesBack
    <3>3. (Asked(q, a) => Asked(q, a)') /\ (TakenBack(q, a) => TakenBack(q, a)')
      BY <2>3, <3>1 DEF Asked, TakenBack
    <3>4. QED
      BY <2>1, <2>2, <2>4, <3>1, <3>2, <3>3 DEF GetsThere
  <2>9. QED
    BY <1>2, <2>5, <2>6, <2>7, <2>8 DEF CommandStep
<1>3. QED
  BY <1>1, <1>2 DEF CommandsInv, WordInv

LEMMA WordStep == IInv /\ [Next]_vars => IInv'
<1>1. ASSUME IInv, UNCHANGED vars PROVE IInv'
  BY <1>1, TypeStep
  DEF vars, session, files, IInv, StampInv, Writing, NewTo, CommandsInv, WordInv, Said,
      CommandsOf, TakesBack,
      GetsThere, BeingTaken, AtRest, Asked, TakenBack, Alive
<1>2. QED
  BY <1>1, TypeStep, StampOfCommands, StampOfSessions, WordOfCommands, WordOfSessions
  DEF Next, IInv

\* The types hold, the account in use is announced, and the last word stands:
\* with no command under way and nothing asked, the only way left to get to the
\* account said last is to be on it.
THEOREM LastWord == Spec => []Inv
<1>1. Init => IInv
  <2>1. Init => CommandsInv /\ WordInv
    BY DEF Init, CommandsInv, WordInv, Said
  <2>2. Init => StampInv
    BY DEF Init, StampInv, Writing, Idle
  <2>3. QED
    BY <2>1, <2>2, TypeInit DEF IInv
<1>2. IInv => Inv
  <2>1. IInv => LastWordStands
    <3>1. ASSUME IInv, NEW p \in Pids, NoCommand, proc[p] = "running", request[p] = None,
                 word[p] # None, word[p].plain
          PROVE  current[p] = word[p].account
      <4>1. word[p].account \in Accounts
        BY <3>1 DEF IInv, TInv, TypeOK
      <4>2. GetsThere(p, word[p].account)
        BY <3>1, <4>1 DEF IInv, WordInv, Said
      <4>3. QED
        BY <3>1, <4>2 DEF GetsThere, BeingTaken, Asked, TakenBack, NoCommand
    <3>2. QED
      BY <3>1 DEF LastWordStands
  <2>2. QED
    BY <2>1 DEF IInv, TInv, TypeOK, LeaseInv, LeaseOf, AtRest, Announced, Inv
<1>3. QED
  BY <1>1, <1>2, WordStep, PTL DEF Spec

=============================================================================
