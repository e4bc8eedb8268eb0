----------------------------- MODULE CapRelief -----------------------------
(***************************************************************************)
(* What one launch of Claude makes of a usage limit (launcher/pty-session  *)
(* with verifyCap and onCapConfirmed of commands/session): a turn that was *)
(* refused is checked by asking the account, and a limit it confirms moves *)
(* the session in place, under the running Claude, or ends it so that the  *)
(* swap loop relaunches it.  All the while Claude can exit, by itself or   *)
(* closed, the person can ask for another account, subagents meet the same *)
(* limit, and a check of the login can be out.                             *)
(*                                                                         *)
(* Times are orderings: a timer may fire at any moment after it was set.   *)
(* Left out: which destination is picked (HotSwap, and any account here),  *)
(* a limit on one model (never moved in place: one of the reasons for      *)
(* which NotMoved stands), visits to another account, the keyboard, and    *)
(* what pty-session.ts does when a switch took over while a limit was      *)
(* decided, which SwitchesWait shows never happens in a session.           *)
(***************************************************************************)
EXTENDS Naturals, FiniteSets

CONSTANTS Accounts, None,
          Walls,        \* refusals after which a session counts as stuck
          MaxRefusals,  \* bound: turns refused in a launch
          MaxTries,     \* the tries a move makes at Claude's locks
          SlowMoves     \* moves under Claude that take time, by what asks for them

ASSUME CapReliefAssumption ==
    /\ None \notin Accounts \cup [side : BOOLEAN]
    /\ None \notin [side : BOOLEAN, of : Accounts, as : Accounts]
    /\ Walls \in Nat \ {0} /\ MaxRefusals \in Nat /\ MaxTries \in Nat
    /\ SlowMoves \subseteq {"switch", "relief"}

VARIABLES
    \* the launch (pty-session.ts)
    child,      \* Claude, and how far its exit has been dealt with
    killDue,    \* it is to be ended shortly
    check,      \* the check in flight: who met the limit, whose login is asked,
                \* and the account the session was taken to be on
    pending,    \* the confirmed limit not yet acted on
    unprobed,   \* a refusal of the main thread is held
    meanwhile,  \* it was refused while a subagent's refusal was checked
    mainPaused, \* the main thread's refusals are not asked about for now
    sidePaused, \* nor a subagent's
    walls,      \* separate refusals of the main thread, nothing changed since
    cap,        \* the limit that ends the launch, and its weight
    switching,  \* the launch is ended for a switch
    loginCheck, \* a check of the login is in flight
    signedOut,  \* the login was found finished
    carryOn,    \* a prompt is to be typed, and Claude waits for it
    outcome,    \* what the launch came to
    \* the session (session.ts)
    on,         \* current: the account the session is on
    metOn,      \* limitMetOn: the account a confirmed limit was met on
    deciding,   \* capConfirmedAt: it has not been acted on
    move,       \* the move under way, and what asked for it
    relief,     \* reliefMove: the move made for the limit
    tries,      \* how often it found Claude's locks taken
    recorded,   \* how often each account was put on the ledger
    \* the world, and what happened
    spent,      \* the accounts that are out
    refusals, mainRefused, answers, owed,
    crossed     \* an account was asked while a move was under way

launch == <<killDue, switching, loginCheck, signedOut, outcome>>
evidence == <<check, pending, unprobed, meanwhile, mainPaused, sidePaused, walls>>
session == <<on, metOn, deciding, move, relief, tries, recorded>>
history == <<refusals, mainRefused, answers, owed>>
world == <<spent, crossed>>
vars == <<child, launch, evidence, cap, carryOn, session, world, history>>

Running == child \in {"up", "gone"}  \* as far as ccx was told
Alive == child = "up"

\* Type invariant: the shape of every variable.
TypeOK ==
    /\ child \in {"up", "gone", "exited", "awaits", "lastAsk", "closing", "final", "done"}
    /\ check \in {None} \cup [side : BOOLEAN, of : Accounts, as : Accounts]
    /\ pending \in {None} \cup [side : BOOLEAN]
    /\ {killDue, unprobed, meanwhile, mainPaused, sidePaused, switching} \subseteq BOOLEAN
    /\ {loginCheck, signedOut, carryOn, deciding, mainRefused, crossed} \subseteq BOOLEAN
    /\ walls \in 0 .. Walls - 1 /\ tries \in 0 .. MaxTries /\ refusals \in 0 .. MaxRefusals
    /\ cap \in {"none", "hold", "confirmed"}
    /\ outcome \in {"none", "switch", "capped", "hold", "needs-login", "ok"}
    /\ on \in Accounts /\ metOn \in Accounts \cup {None}
    /\ move \in {None} \cup [to : Accounts, for : {"switch", "relief"}]
    /\ relief \in {None} \cup [to : Accounts, state : {"moving", "moved", "failed", "busy"}]
    /\ recorded \in [Accounts -> Nat] /\ answers \in [Accounts -> Nat]
    /\ spent \subseteq Accounts /\ owed \subseteq Accounts

Init ==
    /\ child = "up" /\ killDue = FALSE
    /\ check = None /\ pending = None /\ unprobed = FALSE /\ meanwhile = FALSE
    /\ mainPaused = FALSE /\ sidePaused = FALSE /\ walls = 0
    /\ cap = "none" /\ switching = FALSE /\ outcome = "none"
    /\ loginCheck = FALSE /\ signedOut = FALSE /\ carryOn = FALSE
    /\ on \in Accounts /\ metOn = None /\ deciding = FALSE
    /\ move = None /\ relief = None /\ tries = 0
    /\ recorded = [a \in Accounts |-> 0]
    /\ spent \in SUBSET Accounts
    /\ refusals = 0 /\ mainRefused = FALSE /\ answers = [a \in Accounts |-> 0] /\ owed = {}
    /\ crossed = FALSE

-----------------------------------------------------------------------------
(* Refused turns *)

\* A check put while a move is under way may ask the wrong login (Properties).
NotesCrossing ==
    crossed' = (crossed \/ (move # None /\ check' # None /\ check' # check))

\* Whose login the session's folder may hold when it is asked.
FolderLogin == {on} \cup IF move = None THEN {} ELSE {move.to}

\* checkRefusal: ask the account, or hold the main thread's refusal.
Checks(side) ==
    IF check # None \/ mainPaused
    THEN /\ unprobed' = (unprobed \/ ~side)
         /\ meanwhile' = (meanwhile \/ (~side /\ check # None /\ check.side))
         /\ UNCHANGED check
    ELSE /\ check' = [side |-> side, of |-> on, as |-> on]
         /\ unprobed' = (unprobed /\ side)
         /\ UNCHANGED meanwhile

\* Refused turns are read while nothing is being decided, and never while the
\* login in the folder is changing.
Reads ==
    /\ cap = "none" /\ ~switching /\ pending = None
    /\ move = None
    /\ refusals < MaxRefusals /\ refusals' = refusals + 1

SubagentRefused ==
    /\ Running /\ Reads
    /\ IF sidePaused THEN UNCHANGED <<check, unprobed, meanwhile>> ELSE Checks(TRUE)
    /\ UNCHANGED <<child, launch, pending, mainPaused, sidePaused, walls, cap, carryOn,
                   session, world, mainRefused, answers, owed>>

\* `apart`: not the same one still on the screen; `long`: over long enough.
\* Once exited, what Claude wrote last is still read from the screen.
MainRefused(apart, long) ==
    /\ Running \/ child = "exited"
    /\ Reads
    /\ mainRefused' = TRUE
    /\ IF apart /\ walls = Walls - 1 /\ long
       THEN /\ cap' = "hold" /\ walls' = 0
            /\ killDue' = (killDue \/ Running)
            /\ UNCHANGED <<check, unprobed, meanwhile>>
       ELSE /\ walls' = IF apart /\ walls < Walls - 1 THEN walls + 1 ELSE walls
            /\ Checks(FALSE)
            /\ UNCHANGED <<cap, killDue>>
    /\ UNCHANGED <<child, switching, loginCheck, signedOut, outcome, pending, mainPaused,
                   sidePaused, carryOn, session, world, answers, owed>>

PauseEnds ==
    /\ mainPaused \/ sidePaused
    /\ \/ mainPaused' = FALSE /\ UNCHANGED sidePaused
       \/ sidePaused' = FALSE /\ UNCHANGED mainPaused
    /\ UNCHANGED <<child, launch, check, pending, unprobed, meanwhile, walls, cap, carryOn,
                   session, world, history>>

-----------------------------------------------------------------------------
(* The account's answer *)

\* checkMainRefusedMeanwhile: the main thread's refusal held while a subagent's
\* was checked gets a check of its own.
TakesUpMain ==
    /\ meanwhile' = FALSE
    /\ IF meanwhile /\ unprobed /\ Running /\ ~switching /\ cap = "none" /\ ~mainPaused
       THEN /\ \E a \in FolderLogin : check' = [side |-> FALSE, of |-> a, as |-> on]
            /\ unprobed' = FALSE
       ELSE check' = None /\ UNCHANGED unprobed

\* verifyCap says no, or could not ask.
Refuted ==
    /\ check # None /\ child # "lastAsk"
    /\ IF check.side
       THEN sidePaused' = TRUE /\ UNCHANGED mainPaused /\ TakesUpMain
       ELSE /\ mainPaused' = TRUE /\ check' = None
            /\ UNCHANGED <<sidePaused, unprobed, meanwhile>>
    /\ UNCHANGED <<child, launch, pending, walls, cap, carryOn, session, spent, history>>
    /\ NotesCrossing

\* Whose limit an answer found: the account the login was found to be of when it
\* was not the one expected, else the one the session is on by now.
MetOn == IF check.of # check.as THEN check.of ELSE on

\* verifyCap says it is out.
Answers ==
    /\ check.of \in spent
    /\ answers' = [answers EXCEPT ![check.of] = @ + 1]
    /\ metOn' = MetOn
    /\ walls' = IF check.side THEN walls ELSE 0
    /\ UNCHANGED <<refusals, mainRefused>>

\* Whose limit a confirmed one is, once it has been found.
Owner == IF metOn = None THEN on ELSE metOn

Records(a) ==
    /\ recorded' = [recorded EXCEPT ![a] = @ + 1]
    /\ owed' = owed \ {a}

\* The move is not made here but after a grace, in which Claude may exit.
ConfirmedRunning ==
    /\ check # None /\ Running /\ ~switching
    /\ Answers
    /\ deciding' = TRUE
    /\ owed' = owed \cup (IF check.side THEN {} ELSE {check.of})
    /\ pending' = [side |-> check.side]
    /\ unprobed' = (unprobed \/ ~check.side)
    /\ check' = None
    /\ UNCHANGED <<child, launch, meanwhile, mainPaused, sidePaused, cap, carryOn, on, move,
                   relief, tries, recorded, world>>

\* Mutant: taken up only while Claude runs.
ConfirmedExitedLate ==
    /\ check # None /\ child \in {"exited", "awaits"} /\ ~switching
    /\ Answers
    /\ deciding' = TRUE
    /\ owed' = owed \cup (IF check.side THEN {} ELSE {check.of})
    /\ check' = None
    /\ UNCHANGED <<child, launch, pending, unprobed, meanwhile, mainPaused, sidePaused, cap,
                   carryOn, on, move, relief, tries, recorded, world>>

\* Claude has exited meanwhile: the exit waits for this.
ConfirmedExited ==
    /\ check # None /\ child \in {"exited", "awaits"} /\ ~switching
    /\ Answers
    /\ deciding' = TRUE
    /\ IF check.side
       THEN /\ sidePaused' = TRUE /\ TakesUpMain
            /\ UNCHANGED <<cap, owed>>
       ELSE /\ cap' = "confirmed" /\ owed' = owed \cup {check.of}
            /\ check' = None
            /\ UNCHANGED <<sidePaused, unprobed, meanwhile>>
    /\ UNCHANGED <<child, launch, pending, mainPaused, carryOn, on, move, relief, tries,
                   recorded, spent>>
    /\ NotesCrossing

-----------------------------------------------------------------------------
(* Acting on a confirmed limit: attemptCapRelief and onCapConfirmed *)

\* The grace, or a wait before another try, is over.
Decides == pending # None /\ child \in {"up", "gone", "exited"}

\* Something else ends the launch already: the limit is let go.
LetsGo ==
    /\ Decides /\ cap # "none"
    /\ pending' = None
    /\ UNCHANGED <<child, launch, check, unprobed, meanwhile, mainPaused, sidePaused, walls,
                   cap, carryOn, session, world, history>>

Relieves == Decides /\ cap = "none" /\ Alive

\* A destination is picked and the move started.  It is asked about again.
StartsMove(a) ==
    /\ Relieves /\ relief = None /\ move = None
    /\ a # Owner
    /\ IF "relief" \in SlowMoves
       THEN /\ move' = [to |-> a, for |-> "relief"]
            /\ relief' = [to |-> a, state |-> "moving"]
            /\ UNCHANGED on
       ELSE /\ on' = a /\ relief' = [to |-> a, state |-> "moved"]
            /\ UNCHANGED move
    /\ UNCHANGED <<child, launch, evidence, cap, carryOn, metOn, deciding, tries, recorded,
                   world, history>>

\* Mutant: how long it has waited is forgotten with each move.
TriesAgainUncounted ==
    /\ Relieves /\ relief # None /\ relief.state = "busy"
    /\ relief' = None
    /\ UNCHANGED <<child, launch, evidence, cap, carryOn, on, metOn, deciding, move, tries,
                   recorded, world, history>>

\* Claude's locks were taken, and for less than a while: the next try starts anew.
TriesAgain ==
    /\ Relieves /\ relief # None /\ relief.state = "busy"
    /\ tries < MaxTries /\ tries' = tries + 1
    /\ relief' = None
    /\ UNCHANGED <<child, launch, evidence, cap, carryOn, on, metOn, deciding, move, recorded,
                   world, history>>

\* Moved: the limit is recorded where it was met, and the session carries on.
Relieved(prompt) ==
    /\ Relieves /\ relief # None /\ relief.state = "moved"
    /\ Records(Owner)
    /\ metOn' = None /\ deciding' = FALSE /\ relief' = None /\ tries' = 0
    /\ pending' = None /\ unprobed' = FALSE /\ meanwhile' = FALSE /\ walls' = 0
    /\ mainPaused' = TRUE
    /\ carryOn' = prompt
    /\ UNCHANGED <<child, launch, check, sidePaused, cap, on, move, world, refusals,
                   mainRefused, answers>>

\* A subagent's limit that moved nothing: nothing ends for it, and nothing is
\* recorded.
Left ==
    /\ metOn' = None /\ pending' = None
    /\ sidePaused' = TRUE /\ TakesUpMain
    /\ UNCHANGED <<cap, killDue, mainPaused, recorded, owed>>

\* The main thread's: the launch ends with it, and the swap loop records it.
Restarts ==
    /\ pending' = None
    /\ cap' = "confirmed"
    /\ killDue' = (killDue \/ Alive)
    /\ UNCHANGED <<metOn, check, unprobed, meanwhile, sidePaused, mainPaused, recorded, owed>>

\* Claude is gone, there is nowhere to go in place, or the move failed.
NotMoved ==
    /\ Decides /\ cap = "none"
    /\ Alive /\ relief # None =>
          relief.state = "failed" \/ (relief.state = "busy" /\ tries = MaxTries)
    /\ deciding' = FALSE /\ relief' = None /\ tries' = 0
    /\ IF pending.side THEN Left ELSE Restarts
    /\ UNCHANGED <<child, switching, loginCheck, signedOut, outcome, walls, carryOn, on, move,
                   spent, refusals, mainRefused, answers>>
    /\ NotesCrossing

-----------------------------------------------------------------------------
(* Moves under Claude, and switches *)

MoveEnds(how) ==
    /\ move # None
    /\ how \in {"moved", "failed", "busy"}
    /\ on' = IF how = "moved" THEN move.to ELSE on
    /\ relief' = IF relief = None \/ move.for = "switch" THEN relief ELSE [relief EXCEPT !.state = how]
    /\ move' = None
    /\ UNCHANGED <<child, launch, evidence, cap, carryOn, metOn, deciding, tries, recorded,
                   world, history>>

\* switchWatch: a request waits while a limit is being decided, or a move is made.
MaySwitch ==
    /\ Running /\ cap = "none" /\ ~switching
    /\ move = None /\ check = None /\ ~deciding

SwitchInPlace(a) ==
    /\ MaySwitch /\ a # on
    /\ IF "switch" \in SlowMoves
       THEN move' = [to |-> a, for |-> "switch"] /\ UNCHANGED on
       ELSE on' = a /\ UNCHANGED move
    /\ UNCHANGED <<child, launch, evidence, cap, carryOn, metOn, deciding, relief, tries,
                   recorded, world, history>>

EndsForSwitch ==
    /\ switching' = TRUE /\ killDue' = TRUE
    /\ UNCHANGED <<child, loginCheck, signedOut, outcome, evidence, cap, session, world, history>>

SwitchByRestart == MaySwitch /\ EndsForSwitch /\ UNCHANGED carryOn

\* The prompt could not be typed: the launch is ended to hand it over.
CarryOnGivesUp ==
    /\ carryOn /\ Running
    /\ cap = "none" /\ ~switching /\ pending = None /\ check = None
    /\ EndsForSwitch /\ carryOn' = FALSE

CarryOnDone ==
    /\ carryOn /\ Running
    /\ cap = "none" /\ ~switching /\ pending = None /\ check = None
    /\ carryOn' = FALSE
    /\ UNCHANGED <<child, launch, evidence, cap, session, world, history>>

\* "Please run /login", confirmed at the token endpoint before it counts.
LoginRefused ==
    /\ Running /\ cap = "none" /\ pending = None /\ move = None
    /\ ~switching /\ ~loginCheck /\ ~signedOut
    /\ loginCheck' = TRUE
    /\ UNCHANGED <<child, killDue, switching, signedOut, outcome, evidence, cap, carryOn,
                   session, world, history>>

LoginAnswer(finished) ==
    /\ loginCheck /\ loginCheck' = FALSE
    /\ signedOut' = (signedOut \/ (finished /\ ~switching))
    /\ killDue' = (killDue \/ (finished /\ ~switching /\ Running))
    /\ UNCHANGED <<child, switching, outcome, evidence, cap, carryOn, session, world, history>>

-----------------------------------------------------------------------------
(* The exit *)

\* Claude ends, by itself or closed; or it is ended.
ClaudeEnds ==
    /\ Alive /\ child' = "gone"
    /\ UNCHANGED <<launch, evidence, cap, carryOn, session, world, history>>

Killed == killDue /\ ClaudeEnds

\* ccx hears of it, up to a second later.
Exits ==
    /\ child = "gone" /\ child' = "exited"
    /\ UNCHANGED <<launch, evidence, cap, carryOn, session, world, history>>

\* verifyHeldThenFinalize: what was held, or is read last, is asked about.
AsksLast ==
    \E late \in BOOLEAN, login \in BOOLEAN, a \in FolderLogin :
       /\ late \/ login => move = None
       /\ mainRefused' = (mainRefused \/ late)
       /\ loginCheck' = (loginCheck \/ (login /\ ~signedOut))
       /\ IF unprobed \/ late
          THEN child' = "lastAsk" /\ check' = [side |-> FALSE, of |-> a, as |-> on]
          ELSE child' = "closing" /\ check' = None

\* What the exit waits for, once what Claude wrote last has arrived.
Settles ==
    /\ child = "exited" /\ pending = None
    /\ IF switching \/ (cap # "none" /\ check = None)
       THEN child' = "closing" /\ UNCHANGED <<check, mainRefused, loginCheck>>
       ELSE IF check # None
       THEN child' = "awaits" /\ UNCHANGED <<check, mainRefused, loginCheck>>
       ELSE AsksLast
    /\ UNCHANGED <<killDue, switching, signedOut, outcome, pending, unprobed, meanwhile,
                   mainPaused, sidePaused, walls, cap, carryOn, session, spent, refusals,
                   answers, owed>>
    /\ NotesCrossing

\* A limit confirmed and not yet acted on: nothing is left to move.
SettlesPending ==
    /\ child = "exited" /\ pending # None
    /\ pending' = None /\ relief' = None /\ deciding' = FALSE
    /\ metOn' = IF pending.side THEN None ELSE metOn
    /\ cap' = IF pending.side THEN cap ELSE "confirmed"
    /\ IF cap' # "none"
       THEN child' = "closing" /\ UNCHANGED <<check, mainRefused, loginCheck>>
       ELSE AsksLast
    /\ UNCHANGED <<killDue, switching, signedOut, outcome, unprobed, meanwhile, mainPaused,
                   sidePaused, walls, carryOn, on, move, tries, spent, refusals, answers, recorded, owed>>
    /\ NotesCrossing

\* Mutant: what is held is put to another check that is waited for.
AwaitedAgain ==
    /\ child = "awaits" /\ check = None
    /\ IF cap = "confirmed" \/ ~unprobed
       THEN child' = "closing" /\ UNCHANGED check
       ELSE check' = [side |-> FALSE, of |-> on, as |-> on] /\ UNCHANGED child
    /\ UNCHANGED <<launch, pending, unprobed, meanwhile, mainPaused, sidePaused, walls, cap,
                   carryOn, session, world, history>>

\* The check in flight at the exit has been answered.
Awaited ==
    /\ child = "awaits" /\ check = None
    /\ IF cap = "confirmed"
       THEN child' = "closing" /\ UNCHANGED <<check, mainRefused, loginCheck>>
       ELSE AsksLast
    /\ UNCHANGED <<killDue, switching, signedOut, outcome, pending, unprobed, meanwhile,
                   mainPaused, sidePaused, walls, cap, carryOn, session, spent, refusals,
                   answers, owed>>
    /\ NotesCrossing

LastAnswer(limited) ==
    /\ child = "lastAsk" /\ child' = "closing"
    /\ check' = None
    /\ IF limited
       THEN /\ check.of \in spent
            /\ answers' = [answers EXCEPT ![check.of] = @ + 1]
            /\ owed' = owed \cup {check.of}
            /\ cap' = "confirmed" /\ metOn' = MetOn /\ deciding' = TRUE
       ELSE UNCHANGED <<answers, owed, cap, metOn, deciding>>
    /\ UNCHANGED <<launch, pending, unprobed, meanwhile, mainPaused, sidePaused, walls,
                   carryOn, on, move, relief, tries, recorded, world, refusals, mainRefused>>

\* finalize: a check of the login still out is waited for.
Finalizes ==
    /\ child = "closing" /\ ~loginCheck
    /\ child' = "final"
    /\ outcome' = CASE switching -> "switch"
                    [] ~switching /\ cap = "confirmed" -> "capped"
                    [] ~switching /\ cap = "hold" -> "hold"
                    [] ~switching /\ cap = "none" /\ signedOut -> "needs-login"
                    [] OTHER -> "ok"
    /\ UNCHANGED <<killDue, switching, loginCheck, signedOut, evidence, cap, carryOn, session,
                   world, history>>

\* The swap loop, once a move still under way is over (runChild), records the
\* limit that ended the launch.
SwapLoop ==
    /\ child = "final" /\ move = None
    /\ child' = "done" /\ deciding' = FALSE
    /\ IF outcome = "capped" THEN Records(Owner) ELSE UNCHANGED <<recorded, owed>>
    /\ UNCHANGED <<launch, evidence, cap, carryOn, on, metOn, move, relief, tries, world,
                   refusals, mainRefused, answers>>

Done == child = "done" /\ UNCHANGED vars

-----------------------------------------------------------------------------

Acts ==
    \/ LetsGo \/ TriesAgain \/ NotMoved
    \/ \E a \in Accounts : StartsMove(a)
    \/ \E prompt \in BOOLEAN : Relieved(prompt)

Answered == Refuted \/ ConfirmedRunning \/ ConfirmedExited

Ended ==
    \/ Exits \/ Settles \/ SettlesPending \/ Awaited \/ Finalizes \/ SwapLoop
    \/ \E limited \in BOOLEAN : LastAnswer(limited)

Next ==
    \/ Acts \/ Answered \/ Ended
    \/ \E finished \in BOOLEAN : LoginAnswer(finished)
    \/ SubagentRefused \/ PauseEnds
    \/ \E apart, long \in BOOLEAN : MainRefused(apart, long)
    \/ \E how \in {"moved", "failed", "busy"} : MoveEnds(how)
    \/ \E a \in Accounts : SwitchInPlace(a)
    \/ SwitchByRestart \/ CarryOnGivesUp \/ CarryOnDone \/ LoginRefused
    \/ ClaudeEnds \/ Killed
    \/ Done

Spec == Init /\ [][Next]_vars

\* Timers fire, and every request out, every move under way ends.
FairSpec ==
    /\ Spec
    /\ WF_vars(Acts) /\ WF_vars(Answered) /\ WF_vars(Ended)
    /\ WF_vars(\E how \in {"moved", "failed", "busy"} : MoveEnds(how))
    /\ WF_vars(\E finished \in BOOLEAN : LoginAnswer(finished))
    /\ WF_vars(Killed)

-----------------------------------------------------------------------------
(* Properties *)

\* A limit of the main thread that the account confirmed is on the ledger when
\* the launch is over, however Claude's exit, a switch or a move crossed it:
\* but when the account was asked while a move was under way, or a hold had
\* been raised for refusals that stayed unproven.
ConfirmedIsRecorded == child = "done" /\ ~crossed /\ cap # "hold" => owed = {}

\* Nothing is recorded of an account but what it answered itself, once for each
\* answer: neither twice for one limit, nor of an account the session was moved
\* to before the limit was acted on, but when it was asked while a move was
\* under way.
RecordedIsAnswered == ~crossed => \A a \in Accounts : recorded[a] <= answers[a]

\* What a subagent meets never ends the launch: a limit ends it only when the
\* main thread was refused in it.
SubagentsEndNothing == cap # "none" => mainRefused

\* The main thread's refusal held for a subagent's check is not left waiting for
\* Claude to exit: that check, or the decision it led to, is still to come.
MainIsTakenUp ==
    Running /\ meanwhile /\ cap = "none" => unprobed /\ (pending # None \/ (check # None /\ check.side))

\* A limit being checked or acted on is never taken over by a switch, whose
\* outcome would record nothing.
SwitchesWait == switching => check = None /\ pending = None

\* The types hold, a confirmed limit is recorded once, of its account, and
\* neither a switch, an exit nor a subagent keeps it from being answered.
Inv ==
    /\ TypeOK /\ SwitchesWait /\ SubagentsEndNothing
    /\ ConfirmedIsRecorded /\ RecordedIsAnswered /\ MainIsTakenUp

\* A confirmed limit is acted on, and a launch that ended comes to an end.
LimitsAreSettled == pending # None ~> pending = None
ExitsAreSettled == child = "gone" ~> child = "done"

=============================================================================
