--------------------------- MODULE SwitchRequests ---------------------------
(***************************************************************************)
(* How somebody moves running sessions to another account                  *)
(* (state/switch-request.ts): commands leave each session a request in a   *)
(* file of its own, named by its pid; the session looks at its file every  *)
(* 400 ms and moves when it can.  Nothing locks the files, and a command   *)
(* learns what a session is on from the announcements ("leases") sessions  *)
(* keep, which a session in the middle of a move holds two of.             *)
(*                                                                         *)
(* The shared request any session would take is left out: nothing writes   *)
(* it any more, and every session removes it as it starts.  A limit's own  *)
(* moves are in CapRelief, visits in ArtifactHop, the swap loop in HotSwap.*)
(***************************************************************************)
EXTENDS Naturals, FiniteSets

CONSTANTS Pids,       \* process ids, used again by later sessions
          Accounts,
          TokenOnly,  \* accounts with only a long-lived token
          SignedOut,  \* accounts with nothing to sign in with
          MayBeDue,   \* accounts whose login may be due for renewal
          Commands,   \* processes somebody runs commands in
          Elsewhere,  \* sessions running on other pids, seen by the commands
          MaxAsks,    \* bound: requests made
          None

Requests == [account : Accounts, at : 0 .. MaxAsks, mode : {"seamless", "restart"}]

ASSUME SwitchRequestsAssumption ==
    /\ TokenOnly \cup SignedOut \cup MayBeDue \subseteq Accounts
    /\ TokenOnly \cap MayBeDue = {} /\ Accounts \ SignedOut # {}
    /\ None \notin Accounts \cup Requests
    /\ Elsewhere \in Nat /\ MaxAsks \in Nat

VARIABLES proc,     \* what the process of each pid does
          current,  \* the account its session is on
          next,     \* the account its Claude is started on next
          lease,    \* the accounts it announces
          freshest, \* the one of them announced last
          move,     \* the request it decides on, moves for or is taking
          renewal,  \* the renewal it made for a request, and its result
          request,  \* the request file of each pid
          active,   \* the account new sessions start on
          due,      \* accounts whose login is due for renewal
          cmd,      \* the commands under way
          asks,     \* the clock: requests stamped so far
          leftover, \* history: the request was there before the session
          word      \* history: what was last said of each session

files == <<request, leftover>>
session == <<proc, current, next, lease, freshest, move, renewal>>
vars == <<session, files, active, due, cmd, asks, word>>

Results == {"open", "done", "busy", "withheld"}
Idle == [step |-> "idle", account |-> None, at |-> 0, mode |-> "seamless",
         todo |-> {}, on |-> {}]

\* Type invariant: the shape of every variable.
TypeOK ==
    /\ proc \in [Pids -> {"none", "between", "running", "looking", "moving", "taking",
                       "switching"}]
    /\ current \in [Pids -> Accounts \cup {None}]
    /\ next \in [Pids -> Accounts \cup {None}]
    /\ lease \in [Pids -> SUBSET Accounts]
    /\ freshest \in [Pids -> Accounts \cup {None}]
    /\ move \in [Pids -> Requests \cup {None}]
    /\ \A p \in Pids : /\ move[p] # None <=> proc[p] \in {"looking", "moving", "taking"}
                       /\ next[p] # None <=> proc[p] \in {"between", "switching"}
    /\ renewal \in [Pids -> [account : Accounts, at : 0 .. MaxAsks, result : Results] \cup {None}]
    /\ request \in [Pids -> Requests \cup {None}]
    /\ active \in Accounts /\ due \subseteq MayBeDue
    /\ cmd \in [Commands -> [step : {"idle", "ask", "write", "clear"}, account : Accounts \cup {None},
                             at : 0 .. MaxAsks, mode : {"seamless", "restart"},
                             todo : SUBSET Pids, on : SUBSET Pids]]
    /\ asks \in 0 .. MaxAsks
    /\ leftover \in [Pids -> BOOLEAN]
    /\ word \in [Pids -> [account : Accounts, plain : BOOLEAN] \cup {None}]

Init ==
    /\ proc = [p \in Pids |-> "none"]
    /\ current = [p \in Pids |-> None] /\ next = [p \in Pids |-> None]
    /\ lease = [p \in Pids |-> {}] /\ freshest = [p \in Pids |-> None]
    /\ move = [p \in Pids |-> None] /\ renewal = [p \in Pids |-> None]
    /\ request = [p \in Pids |-> None]
    /\ active \in Accounts \ SignedOut
    /\ due \in SUBSET MayBeDue
    /\ cmd = [c \in Commands |-> Idle] /\ asks = 0
    /\ leftover = [p \in Pids |-> FALSE]
    /\ word = [p \in Pids |-> None]

-----------------------------------------------------------------------------
(* What the announcements say *)

Alive(p) == proc[p] # "none"

\* Its account is what it announces, whatever request it is looking at.
AtRest(p) == proc[p] \in {"running", "looking", "taking"}

\* The sessions a command sees; it takes each to be on the account it
\* announced last.
Seen == {p \in Pids : Alive(p) /\ lease[p] # {}}

Announces(p, accounts, last) ==
    /\ lease' = [lease EXCEPT ![p] = accounts]
    /\ freshest' = [freshest EXCEPT ![p] = last]

\* What was said of a session stays plain as long as no command that may take
\* moves back is under way while the session is not at rest on an account.
NoCommand == \A c \in Commands : cmd[c].step = "idle"
Blurred(w) == IF w = None THEN None ELSE [w EXCEPT !.plain = FALSE]
Blurs(p) == word' = [word EXCEPT ![p] = Blurred(@)]
Unsettles(p) ==
    IF \A c \in Commands : cmd[c].step \in {"idle", "ask"} THEN UNCHANGED word ELSE Blurs(p)
Forgets(p) == word' = [word EXCEPT ![p] = None]

-----------------------------------------------------------------------------
(* Commands *)

\* Somebody says `told` are to be on a; the command has read the leases and
\* goes on to write to `todo`, having seen `on` there already.
Begins(c, step, a, mode, told, todo, on) ==
    /\ cmd[c].step = "idle" /\ asks < MaxAsks
    /\ asks' = asks + 1
    /\ cmd' = [cmd EXCEPT ![c] = [step |-> step, account |-> a, at |-> asks + 1,
                                  mode |-> mode, todo |-> todo, on |-> on]]
    /\ word' = [p \in Pids |->
                 IF p \in told
                 THEN [account |-> a,
                       plain |-> NoCommand /\ (step = "ask" \/ AtRest(p))]
                 ELSE IF step = "ask" \/ AtRest(p) THEN word[p]
                      ELSE Blurred(word[p])]
    /\ UNCHANGED <<session, files, due>>

\* `ccx use --session`, `--here`, and /ccx in the session: one session is
\* asked, and the account new sessions start on is left alone.
AsksOne(c) ==
    \E p \in Seen, a \in Accounts, mode \in {"seamless", "restart"} :
        /\ Begins(c, "ask", a, mode, {p}, {p}, {})
        /\ UNCHANGED active

Others(a) == {p \in Seen : freshest[p] # a}

\* `ccx use --all` and the dashboard: every session not seen on a is asked.
\* With one session running, `ccx use` alone does the same.
AsksAll(c) ==
    \E a \in Accounts, mode \in {"seamless", "restart"} :
        /\ Begins(c, "write", a, mode, Seen, Others(a), Seen \ Others(a))
        /\ active' = a

\* `ccx use` with several running: none moves, and one seen on a stays.
AsksNone(c) ==
    /\ Cardinality(Seen) + Elsewhere > 1
    /\ \E a \in Accounts :
        /\ Begins(c, "write", a, "seamless", {p \in Seen : current[p] = a}, {}, Seen \ Others(a))
        /\ active' = a

\* `ccx auto`: the sessions on the account being left are asked.
AsksLeavers(c) ==
    \E a \in Accounts \ {active} :
        LET leavers == Seen \ Others(active) IN
        /\ Begins(c, "write", a, "seamless", leavers \cup {p \in Seen : current[p] = a}, leavers, {})
        /\ active' = a

Asks(c) == AsksOne(c) \/ AsksAll(c) \/ AsksNone(c) \/ AsksLeavers(c)

\* Each request is a write of its own: a command that only asks ends with it,
\* one that says where everybody is to be goes on to take moves back.
Writes(c) ==
    /\ cmd[c].step \in {"ask", "write"}
    /\ \E p \in cmd[c].todo :
        /\ request' = [request EXCEPT ![p] = [account |-> cmd[c].account, at |-> cmd[c].at,
                                              mode |-> cmd[c].mode]]
        /\ leftover' = [leftover EXCEPT ![p] = FALSE]
        /\ cmd' = [cmd EXCEPT ![c].todo = @ \ {p}]
    /\ UNCHANGED <<session, active, due, asks, word>>

\* A move still waiting is taken back from the sessions seen on the account at
\* first and from those announcing it now: every lease counts, not only the
\* freshest of each process, so a session in a move is on both its accounts.
ToStay(c) == cmd[c].on \cup {p \in Pids : Alive(p) /\ cmd[c].account \in lease[p]}

LooksAgain(c) ==
    /\ cmd[c].step = "write" /\ cmd[c].todo = {}
    /\ cmd' = [cmd EXCEPT ![c].step = "clear", ![c].todo = ToStay(c), ![c].on = {}]
    /\ UNCHANGED <<session, files, active, due, asks, word>>

Clears(c) ==
    /\ cmd[c].step = "clear"
    /\ \E p \in cmd[c].todo :
        /\ request' = [request EXCEPT ![p] = None]
        /\ cmd' = [cmd EXCEPT ![c].todo = @ \ {p}]
    /\ UNCHANGED <<session, leftover, active, due, asks, word>>

CommandEnds(c) ==
    /\ cmd[c].step \in {"ask", "clear"} /\ cmd[c].todo = {}
    /\ cmd' = [cmd EXCEPT ![c] = Idle]
    /\ UNCHANGED <<session, files, active, due, asks, word>>

-----------------------------------------------------------------------------
(* A session starting and ending *)

\* Mutant: only the requests of the dead are swept, this pid being alive.
SweepsOthers(p) == {q \in Pids : q # p /\ ~Alive(q)}

\* A session drops what was asked of an earlier one of its pid, and what was
\* asked of those killed before they could, and is to start on the account
\* active now.
Sweeps(p) == {q \in Pids : q = p \/ ~Alive(q)}

Starts(p) ==
    /\ ~Alive(p)
    /\ proc' = [proc EXCEPT ![p] = "between"]
    /\ next' = [next EXCEPT ![p] = active]
    /\ request' = [q \in Pids |-> IF q \in Sweeps(p) THEN None ELSE request[q]]
    /\ leftover' = [leftover EXCEPT ![p] = request'[p] # None]
    /\ UNCHANGED <<current, lease, freshest, move, renewal, active, due, cmd, asks, word>>

\* Its Claude starts: the account is announced, its login installed, and the
\* one before given up.  What the loop meant to start on may turn out
\* unusable, and then it starts on another (HotSwap).  Only a first start
\* makes it the active account: every restart here was asked of this session.
Launches(p) ==
    /\ proc[p] = "between"
    /\ \E a \in Accounts \ SignedOut :
        /\ proc' = [proc EXCEPT ![p] = "running"]
        /\ current' = [current EXCEPT ![p] = a]
        /\ Announces(p, {a}, a)
        /\ active' = IF current[p] = None THEN a ELSE active
        /\ IF a = next[p] THEN UNCHANGED word ELSE Forgets(p)
    /\ next' = [next EXCEPT ![p] = None]
    /\ UNCHANGED <<move, renewal, files, due, cmd, asks>>

\* The process is gone, killed or ended, and with it what it announced.
Leaves(p) ==
    /\ proc' = [proc EXCEPT ![p] = "none"]
    /\ current' = [current EXCEPT ![p] = None]
    /\ next' = [next EXCEPT ![p] = None]
    /\ Announces(p, {}, None)
    /\ move' = [move EXCEPT ![p] = None]
    /\ renewal' = [renewal EXCEPT ![p] = None]
    /\ Forgets(p)
    /\ UNCHANGED <<active, due, cmd, asks>>

\* Its Claude ends by itself, and the session drops its own request.
Ends(p) ==
    /\ proc[p] = "running"
    /\ Leaves(p)
    /\ request' = [request EXCEPT ![p] = None]
    /\ UNCHANGED leftover

Killed(p) ==
    /\ Alive(p)
    /\ Leaves(p)
    /\ UNCHANGED files

\* Every 400 ms: the announcement of the account it is on is refreshed.
Ticks(p) ==
    /\ proc[p] \in {"running", "moving", "switching"}
    /\ Announces(p, lease[p] \cup {current[p]}, current[p])
    /\ UNCHANGED <<proc, current, next, move, renewal, files, active, due, cmd, asks, word>>

\* A look at a request runs to its end before anything else of the session
\* does, but not before what others do to its file.
Occupied(p) == proc[p] \in {"looking", "taking"}

\* The session itself asks to be moved early, from an account running out.
\* Its usage was awaited meanwhile: it may have moved, even to a, by now.
AsksItself(p) ==
    /\ Alive(p) /\ ~Occupied(p) /\ asks < MaxAsks
    /\ asks' = asks + 1
    /\ \E a \in Accounts \ SignedOut :
        /\ request' = [request EXCEPT ![p] = [account |-> a, at |-> asks', mode |-> "seamless"]]
        /\ active' = a
    /\ leftover' = [leftover EXCEPT ![p] = FALSE]
    /\ Forgets(p)
    /\ UNCHANGED <<session, due, cmd>>

-----------------------------------------------------------------------------
(* A session looking at its request (switchWatch) *)

Target(p) == move[p].account
TakesToken(p, a) == current[p] \in TokenOnly \/ a \in TokenOnly
NeedsRenewal(p, a) == ~TakesToken(p, a) /\ a \in due
RenewedFor(p, asked) ==
    renewal[p] # None /\ renewal[p].account = asked.account /\ renewal[p].at = asked.at

\* A renewal under way for it is waited for: such a look changes nothing, and
\* is left out.
IsRenewing(p, asked) ==
    /\ asked.account # current[p] /\ asked.account \notin SignedOut
    /\ asked.mode = "seamless" /\ NeedsRenewal(p, asked.account)
    /\ RenewedFor(p, asked) /\ renewal[p].result = "open"

\* The request is read, while nothing else decides the session's account.
Looks(p) ==
    /\ proc[p] = "running" /\ request[p] # None
    /\ ~IsRenewing(p, request[p])
    /\ proc' = [proc EXCEPT ![p] = "looking"]
    /\ move' = [move EXCEPT ![p] = request[p]]
    /\ UNCHANGED <<current, next, lease, freshest, renewal, files, active, due, cmd, asks, word>>

LookOver(p, state) == proc' = [proc EXCEPT ![p] = state] /\ move' = [move EXCEPT ![p] = None]

\* The file is removed as it is by now, also when that is another request.
Consumes(p) == request' = [request EXCEPT ![p] = None] /\ UNCHANGED leftover
Unread(p) == request[p] \notin {None, move[p]}

Satisfied(p) ==
    /\ proc[p] = "looking" /\ Target(p) = current[p]
    /\ Consumes(p) /\ LookOver(p, "running")
    /\ IF Unread(p) THEN Blurs(p) ELSE UNCHANGED word
    /\ UNCHANGED <<current, next, lease, freshest, renewal, active, due, cmd, asks>>

CannotBe(p) == proc[p] = "looking" /\ Target(p) # current[p] /\ Target(p) \in SignedOut

\* Mutant: a request that cannot be honoured is left where it is.
UnusableLeft(p) ==
    /\ CannotBe(p)
    /\ LookOver(p, "running") /\ Forgets(p)
    /\ UNCHANGED <<current, next, lease, freshest, renewal, files, active, due, cmd, asks>>

Unusable(p) ==
    /\ CannotBe(p)
    /\ Consumes(p) /\ LookOver(p, "running") /\ Forgets(p)
    /\ UNCHANGED <<current, next, lease, freshest, renewal, active, due, cmd, asks>>

ToBeMade(p) == proc[p] = "looking" /\ Target(p) # current[p] /\ Target(p) \notin SignedOut

\* Claude is ended, and started on the account asked for once it has exited.
Restarts(p) ==
    /\ Consumes(p) /\ LookOver(p, "switching")
    /\ next' = [next EXCEPT ![p] = Target(p)]
    /\ IF request[p] = move[p] THEN Unsettles(p) ELSE Blurs(p)
    /\ UNCHANGED <<current, lease, freshest, renewal, active, due, cmd, asks>>

RestartsNow(p) == ToBeMade(p) /\ move[p].mode = "restart" /\ Restarts(p)

InPlace(p) == ToBeMade(p) /\ move[p].mode = "seamless"

\* A renewal is started once for a request, and again a while after one that
\* did not happen.
RenewalStarts(p) ==
    /\ InPlace(p) /\ NeedsRenewal(p, Target(p))
    /\ RenewedFor(p, move[p]) => renewal[p].result \in {"busy", "withheld"}
    /\ renewal' = [renewal EXCEPT ![p] = [account |-> Target(p), at |-> move[p].at,
                                          result |-> "open"]]
    /\ LookOver(p, "running")
    /\ UNCHANGED <<current, next, lease, freshest, files, active, due, cmd, asks, word>>

\* Its answer comes whatever the session does meanwhile; a renewed login can
\* still read as due.
RenewalEnds(p) ==
    /\ renewal[p] # None /\ renewal[p].result = "open" /\ ~Occupied(p)
    /\ \E r \in Results \ {"open"} :
        /\ renewal' = [renewal EXCEPT ![p].result = r]
        /\ due' \in IF r = "done" THEN {due, due \ {renewal[p].account}} ELSE {due}
    /\ UNCHANGED <<proc, current, next, lease, freshest, move, files, active, cmd, asks, word>>

\* Only a restart can take it there, and nothing in the session would be cut
\* off by one: Claude is idle, and nothing is typed.
RestartsIdle(p) ==
    /\ InPlace(p)
    /\ \/ TakesToken(p, Target(p))
       \/ /\ NeedsRenewal(p, Target(p))
          /\ RenewedFor(p, move[p]) /\ renewal[p].result \in {"done", "withheld"}
    /\ Restarts(p)

\* A move under the running Claude: the account is announced first.  Found
\* busy at once, nothing happens, and the next look tries again.
MoveStarts(p) ==
    /\ InPlace(p) /\ ~TakesToken(p, Target(p)) /\ ~NeedsRenewal(p, Target(p))
    /\ proc' = [proc EXCEPT ![p] = "moving"]
    /\ Announces(p, lease[p] \cup {Target(p)}, Target(p))
    /\ IF request[p] = None THEN Blurs(p) ELSE Unsettles(p)
    /\ UNCHANGED <<current, next, move, renewal, files, active, due, cmd, asks>>

\* Mutant: the request is taken, whichever it is by now.
AnyIsMovedFor(p) == request[p] # None

\* The request is taken only if it is still the one moved for.
StillMovedFor(p) ==
    request[p] # None /\ request[p].account = move[p].account /\ request[p].at = move[p].at

\* consumeMovedFor's look, and then its removal.
MoveOver(p) ==
    IF StillMovedFor(p)
    THEN /\ proc' = [proc EXCEPT ![p] = "taking"]
         /\ move' = [move EXCEPT ![p] = request[p]]
    ELSE LookOver(p, "running")

Takes(p) ==
    /\ proc[p] = "taking"
    /\ Consumes(p) /\ LookOver(p, "running")
    /\ IF Unread(p) THEN Blurs(p) ELSE UNCHANGED word
    /\ UNCHANGED <<current, next, lease, freshest, renewal, active, due, cmd, asks>>

MoveEnds(p) ==
    /\ proc[p] = "moving"
    /\ MoveOver(p)
    /\ current' = [current EXCEPT ![p] = move[p].account]
    /\ Announces(p, lease[p] \ {current[p]}, move[p].account)
    /\ renewal' = [renewal EXCEPT ![p] = None]
    /\ UNCHANGED <<next, files, active, due, cmd, asks, word>>

\* Rolled back: still on its account, and the request is taken all the same.
MoveFails(p) ==
    /\ proc[p] = "moving"
    /\ MoveOver(p)
    /\ Announces(p, lease[p] \ {move[p].account}, current[p])
    /\ Forgets(p)
    /\ UNCHANGED <<current, next, renewal, files, active, due, cmd, asks>>

\* Its Claude holds its login's locks: nothing was written, the request stays.
MoveHeldUp(p) ==
    /\ proc[p] = "moving"
    /\ LookOver(p, "running")
    /\ Announces(p, lease[p] \ {move[p].account}, current[p])
    /\ UNCHANGED <<current, next, renewal, files, active, due, cmd, asks, word>>

ClaudeExits(p) ==
    /\ proc[p] = "switching"
    /\ proc' = [proc EXCEPT ![p] = "between"]
    /\ UNCHANGED <<current, next, lease, freshest, move, renewal, files, active, due, cmd, asks,
                   word>>

-----------------------------------------------------------------------------

SessionStep(p) ==
    \/ Starts(p) \/ Launches(p) \/ Ends(p) \/ Killed(p) \/ Ticks(p) \/ AsksItself(p)
    \/ Looks(p) \/ Satisfied(p) \/ Unusable(p) \/ RestartsNow(p) \/ RestartsIdle(p)
    \/ RenewalStarts(p) \/ RenewalEnds(p)
    \/ MoveStarts(p) \/ MoveEnds(p) \/ MoveFails(p) \/ MoveHeldUp(p) \/ Takes(p)
    \/ ClaudeExits(p)

CommandStep(c) == Asks(c) \/ Writes(c) \/ LooksAgain(c) \/ Clears(c) \/ CommandEnds(c)

Next == (\E p \in Pids : SessionStep(p)) \/ (\E c \in Commands : CommandStep(c))

Spec == Init /\ [][Next]_vars

\* What a look at the request comes to, and a command's next step.
Acts(p) ==
    \/ Looks(p) \/ Satisfied(p) \/ Unusable(p) \/ RestartsNow(p) \/ RenewalStarts(p)
    \/ MoveStarts(p) \/ Takes(p)
Goes(c) == Writes(c) \/ LooksAgain(c) \/ Clears(c) \/ CommandEnds(c)

\* Timers look and launches go on; a renewal something else is making is over
\* in the end, a session is idle again and again for as long as a restart
\* asks, and its Claude does not hold its locks at every move.
Fairness ==
    /\ \A p \in Pids :
        /\ WF_vars(Launches(p) \/ ClaudeExits(p)) /\ WF_vars(Acts(p))
        /\ SF_vars(RenewalEnds(p) /\ renewal'[p].result # "busy")
        /\ SF_vars(RestartsIdle(p)) /\ SF_vars(MoveEnds(p) \/ MoveFails(p))
    /\ \A c \in Commands : WF_vars(Goes(c))

FairSpec == Spec /\ Fairness

-----------------------------------------------------------------------------
(* Properties *)

\* A session acts only on what was asked since it started: a request left to a
\* session killed earlier is never what a later one of the same pid decides on.
FreshSessionsStayPut ==
    [][\A p \in Pids : proc[p] = "running" /\ proc'[p] = "looking" => ~leftover[p]]_vars

\* The account whose login is in the session's folder, or may be, is always
\* announced while Claude runs: nobody else renews it meanwhile.
Announced ==
    \A p \in Pids :
        /\ current[p] # None => current[p] \in lease[p]
        /\ proc[p] = "moving" => move[p].account \in lease[p]

\* Once nothing is waiting or under way, a session is on the account it was
\* last said to be on: by a command asking it alone, at any time, or by one
\* saying where everybody is to be that met it at rest on an account, and met
\* no other command.  Neither an earlier move waiting, nor the end of one,
\* nor what is taken back from others undoes it.  The one way to lose it is in
\* the middle of a look: between the reading of a request and its removal
\* another is written, and removed unread; or, before it is made, taken back.
LastWordStands ==
    \A p \in Pids :
        /\ NoCommand /\ proc[p] = "running" /\ request[p] = None
        /\ word[p] # None /\ word[p].plain
        => current[p] = word[p].account

\* The types hold, the account in use is announced, and the last word stands.
Inv == TypeOK /\ Announced /\ LastWordStands

\* Every request of a session that goes on is settled: made, or taken as met,
\* as one that cannot be, or unread with the one before it.
RequestsSettle ==
    \A p \in Pids : request[p] # None /\ Alive(p) ~> request[p] = None \/ ~Alive(p)

=============================================================================
