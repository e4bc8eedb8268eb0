-------------------------- MODULE HeadlessSession --------------------------
(***************************************************************************)
(* One launch of Claude for a worker (launcher/headless-session.ts): it    *)
(* reads Claude's own record of refused turns, which another Claude may    *)
(* write into too, and what Claude prints, in whatever order they arrive;  *)
(* asks the account about each refusal, one at a time; and is stopped by a *)
(* confirmed limit, a switch asked for, a login found finished, or the end *)
(* of the worker.  Refusals are numbered in the record's order.            *)
(*                                                                         *)
(* The processes Claude started are taken to end with it (endTree, left    *)
(* out), and the gate a visit for a page closes is ArtifactHop's.          *)
(***************************************************************************)
EXTENDS Naturals, Sequences, SequencesExt, FiniteSets

CONSTANT MaxRefusals   \* bound: refusals the launch's record gets

VARIABLES
    phase,     \* "running"; "draining": exited, its output still coming; "waiting"
    ended,     \* the exit code the worker is being ended with, or 0
    code,      \* Claude's exit code, then the launch's
    outcome,   \* how the launch ended
    out,       \* the account refuses requests
    loginDead, \* its login no longer works
    ignored,   \* limits are not acted on: nowhere to go
    record,    \* whose each refusal of the record is
    printed,   \* the refusals whose output has arrived
    readable,  \* the record can be read
    read,      \* how many of its refusals have been read
    asks,      \* the check under way, the one held after it, the one to repeat
    loginTurn, \* a turn turned away for the login: written, being checked, read
    capped, switchTo, signedOut,  \* what the launch was stopped for
    interruptedBy,                \* the exit code it was ended with
    lost       \* history: a check failed, or the wait for it ran out

evidence == <<record, printed, read, asks, loginTurn>>
account == <<out, loginDead, ignored, readable>>
ending == <<phase, ended, code, outcome, interruptedBy>>
vars == <<evidence, account, ending, capped, switchTo, signedOut, lost>>

NoAsk == 0
TextOnly == MaxRefusals + 1
NoAsks == [checking |-> NoAsk, held |-> NoAsk, again |-> NoAsk]

\* Type invariant: the shape of every variable.
TypeOK ==
    /\ phase \in {"running", "draining", "waiting", "over"}
    /\ ended \in {0, 124, 143} /\ code \in {0, 1, 124, 143} /\ interruptedBy \in {0, ended}
    /\ outcome \in {"none", "ok", "capped", "switch", "needs-login", "no-conversation"}
    /\ {out, loginDead, ignored, readable, capped, switchTo, signedOut, lost} \subseteq BOOLEAN
    /\ record \in Seq({"own", "subagent", "other"}) /\ Len(record) <= MaxRefusals
    /\ printed \subseteq DOMAIN record /\ read \in 0..Len(record)
    /\ asks \in [checking : 0..TextOnly, held : 0..TextOnly, again : 0..MaxRefusals]
    /\ loginTurn \in {"none", "written", "checking", "read"}

\* One already ended starts nothing: "over" from the start.
Init ==
    /\ ended \in {0, 143} /\ interruptedBy = 0
    /\ phase = IF ended = 0 THEN "running" ELSE "over"
    /\ code = ended
    /\ outcome = IF ended = 0 THEN "none" ELSE "ok"
    /\ out \in BOOLEAN /\ loginDead \in BOOLEAN /\ ignored \in BOOLEAN /\ readable \in BOOLEAN
    /\ record = <<>> /\ printed = {} /\ read = 0 /\ asks = NoAsks /\ loginTurn = "none"
    /\ capped = FALSE /\ switchTo = FALSE /\ signedOut = FALSE /\ lost = FALSE

-----------------------------------------------------------------------------
(* Evidence of a limit *)

MayAsk == ~capped /\ ~switchTo /\ interruptedBy = 0 /\ ~ignored

\* One question at a time; of those met meanwhile, the newest is kept.
Asked(a, x) == IF a.checking = NoAsk THEN [a EXCEPT !.checking = x] ELSE [a EXCEPT !.held = x]

\* The refusals the record has gained, but a subagent's.
Unread == {i \in read + 1..Len(record) : record[i] # "subagent"}

\* checkRecord's questions, of one after the other: the first when none is under
\* way, and the last of those met meanwhile.
AskedOfRecord(a) ==
    LET asked == IF a.checking = NoAsk THEN [a EXCEPT !.checking = Min(Unread)] ELSE a
        met == Unread \ {asked.checking}
    IN  IF ~readable \/ ~MayAsk \/ signedOut \/ Unread = {} THEN a
        ELSE IF met = {} THEN asked ELSE [asked EXCEPT !.held = Max(met)]

\* checkRecord: what the record has gained is read, and asked about.
CheckRecord(a) ==
    /\ asks' = a
    /\ IF readable /\ ~capped /\ ~switchTo /\ interruptedBy = 0 /\ ~signedOut
       THEN /\ read' = Len(record)
            /\ loginTurn' = IF loginTurn = "written" THEN "checking" ELSE loginTurn
       ELSE UNCHANGED <<read, loginTurn>>

\* The check under way is answered; the one held, if any, is asked next.
Answered(yes, repeat) ==
    /\ capped' = (capped \/ (yes /\ ~switchTo))
    /\ asks' = [checking |-> IF MayAsk /\ ~capped' THEN asks.held ELSE NoAsk,
                held |-> NoAsk,
                again |-> IF repeat THEN asks.checking ELSE asks.again]
    /\ UNCHANGED <<record, printed, read, loginTurn, account, ending, switchTo, signedOut>>

LaunchRuns == phase \in {"running", "draining", "waiting"}

\* The account is out, and the refusal asked about is this run's by its output.
Confirms ==
    /\ LaunchRuns /\ asks.checking # NoAsk
    /\ out
    /\ asks.checking = TextOnly \/ asks.checking \in printed
    /\ Answered(TRUE, FALSE)
    /\ UNCHANGED lost

\* The account is not out: nothing else is asked of the refusal.
Denies ==
    /\ LaunchRuns /\ asks.checking # NoAsk
    /\ ~out
    /\ Answered(FALSE, FALSE)
    /\ UNCHANGED lost

\* All but its output speaks for the refusal: kept for another look.
NotShownYet ==
    /\ LaunchRuns /\ asks.checking # NoAsk
    /\ out
    /\ asks.checking # TextOnly /\ asks.checking \notin printed
    /\ Answered(FALSE, TRUE)
    /\ UNCHANGED lost

CheckFails ==
    /\ LaunchRuns /\ asks.checking # NoAsk
    /\ Answered(FALSE, FALSE)
    /\ lost' = TRUE

\* verifySignedOut: only a login confirmed finished ends the launch.
LoginAnswered ==
    /\ LaunchRuns /\ loginTurn = "checking"
    /\ loginTurn' = "read"
    /\ signedOut' = (loginDead /\ ~switchTo /\ interruptedBy = 0)
    /\ UNCHANGED <<record, printed, read, asks, account, ending, capped, switchTo, lost>>

-----------------------------------------------------------------------------
(* While Claude runs *)

Stopped == capped \/ switchTo \/ signedOut \/ interruptedBy # 0

\* The timer: a switch asked for, else the record.
TakesSwitch ==
    /\ phase = "running" /\ interruptedBy = 0 /\ ~capped /\ ~switchTo
    /\ switchTo' = TRUE
    /\ UNCHANGED <<evidence, account, ending, capped, signedOut, lost>>

Polls ==
    /\ phase = "running" /\ interruptedBy = 0
    /\ read < Len(record) \/ loginTurn = "written"
    /\ CheckRecord(AskedOfRecord(asks))
    /\ UNCHANGED <<record, printed, account, ending, capped, switchTo, signedOut, lost>>

\* Claude records a refused turn; another Claude in the record may as well.
Refused(whose) ==
    /\ phase = "running" /\ Len(record) < MaxRefusals
    /\ whose # "other" => out
    /\ record' = Append(record, whose)
    /\ UNCHANGED <<printed, read, asks, loginTurn, account, ending, capped, switchTo,
                   signedOut, lost>>

\* The output of one of this run's own turns arrives.
ShowsRefusal(i) ==
    /\ phase \in {"running", "draining"}
    /\ i \in DOMAIN record \ printed /\ record[i] = "own"
    /\ printed' = printed \cup {i}
    /\ UNCHANGED <<record, read, asks, loginTurn, account, ending, capped, switchTo,
                   signedOut, lost>>

TurnedAway ==
    /\ phase = "running" /\ loginDead /\ loginTurn = "none"
    /\ loginTurn' = "written"
    /\ UNCHANGED <<record, printed, read, asks, account, ending, capped, switchTo, signedOut,
                   lost>>

-----------------------------------------------------------------------------
(* The end of a launch *)

\* Claude exits: stopped, or of its own accord.  With a refused turn it fails.
Exits ==
    /\ phase = "running"
    /\ phase' = "draining"
    /\ code' \in IF Stopped \/ \E i \in DOMAIN record : record[i] = "own" THEN {1} ELSE {0, 1}
    /\ UNCHANGED <<evidence, account, ended, outcome, interruptedBy, capped, switchTo,
                   signedOut, lost>>

\* Mutant: the refusal not yet printed when asked about is not asked about again.
FinishOnce ==
    /\ phase = "draining"
    /\ phase' = "waiting"
    /\ LET recorded == AskedOfRecord(asks)
           read_ == IF ~readable /\ code # 0 /\ MayAsk /\ printed # {}
                    THEN Asked(recorded, TextOnly) ELSE recorded
       IN CheckRecord([read_ EXCEPT !.again = NoAsk])
    /\ UNCHANGED <<record, printed, account, ended, code, outcome, interruptedBy, capped,
                   switchTo, signedOut, lost>>

\* finish: once the output has closed, or has kept it waiting too long.  What
\* the record gained is read, what lacked its output is asked about again, and
\* the output stands in for a record that could not be read.
Finish ==
    /\ phase = "draining"
    /\ phase' = "waiting"
    /\ LET recorded == AskedOfRecord(asks)
           again == IF asks.again \in printed /\ MayAsk
                    THEN Asked(recorded, asks.again) ELSE recorded
           read_ == IF ~readable /\ code # 0 /\ MayAsk /\ printed # {}
                    THEN Asked(again, TextOnly) ELSE again
       IN CheckRecord([read_ EXCEPT !.again = NoAsk])
    /\ UNCHANGED <<record, printed, account, ended, code, outcome, interruptedBy, capped,
                   switchTo, signedOut, lost>>

\* The most telling of what happened decides.
OutcomeOf ==
    IF switchTo /\ interruptedBy = 0 THEN "switch"
    ELSE IF capped THEN "capped"
    ELSE IF interruptedBy # 0 THEN "ok"
    ELSE IF signedOut THEN "needs-login" ELSE "ok"

Resolves ==
    /\ outcome' = OutcomeOf
    /\ code' = IF OutcomeOf = "ok" /\ interruptedBy # 0 THEN interruptedBy ELSE code
    /\ phase' = "over"
    /\ UNCHANGED <<evidence, account, ended, interruptedBy, capped, switchTo, signedOut>>

Settled == asks.checking = NoAsk /\ loginTurn # "checking"

Settles == phase = "waiting" /\ Settled /\ Resolves /\ UNCHANGED lost

\* The wait for an answer, short for a worker being ended, is over.
GivesUp == phase = "waiting" /\ ~Settled /\ Resolves /\ lost' = TRUE

\* A resume of a conversation that was never written: nothing else happens.
FindsNoConversation ==
    /\ phase = "running" /\ record = <<>> /\ loginTurn = "none" /\ ~Stopped
    /\ outcome' = "no-conversation" /\ phase' = "over" /\ code' = 1
    /\ UNCHANGED <<evidence, account, ended, interruptedBy, capped, switchTo, signedOut, lost>>

\* Interruption.end, a signal or the worker's timeout: it ends Claude, and is
\* too late for one that is done.
Ends(with) ==
    /\ ended = 0
    /\ ended' = with
    /\ interruptedBy' = IF phase = "running" THEN with ELSE interruptedBy
    /\ UNCHANGED <<evidence, account, phase, code, outcome, capped, switchTo, signedOut, lost>>

-----------------------------------------------------------------------------

Progress ==
    \/ Confirms \/ Denies \/ NotShownYet \/ LoginAnswered
    \/ Stopped /\ Exits
    \/ Finish \/ Settles \/ GivesUp

Next ==
    \/ Progress \/ CheckFails \/ TakesSwitch \/ Polls \/ Exits
    \/ \E whose \in {"own", "subagent", "other"} : Refused(whose)
    \/ \E i \in 1..MaxRefusals : ShowsRefusal(i)
    \/ TurnedAway \/ FindsNoConversation
    \/ \E with \in {124, 143} : Ends(with)

Spec == Init /\ [][Next]_vars /\ WF_vars(Progress)

-----------------------------------------------------------------------------
(* Properties *)

\* A launch is put down to a limit only when its account is out and the
\* refusal was this run's own, not another Claude's in the same record
\* (headless-session.ts, evidence).
CappedIsTrue == capped => out /\ \E i \in printed : record[i] = "own"

\* A refusal of this run that its record holds last, and that its output shows
\* in the end, is not taken for an ordinary failure, however late the output
\* came, unless the account's answer did not (headless-session.ts, finish).
LimitIsNotMissed ==
    phase = "over" /\ outcome = "ok" /\ interruptedBy = 0 /\ readable /\ record # <<>>
        => ignored \/ lost \/ Len(record) \notin printed

\* A limit this run paid to confirm is reported, also by a worker being ended,
\* unless it is moving away anyway; and a login still good ends no run
\* (headless-session.ts, finish).
OutcomeIsTrue ==
    phase = "over" =>
        /\ capped => outcome \in {"capped", "switch"}
        /\ outcome = "needs-login" => loginDead
        /\ interruptedBy # 0 => outcome \in {"ok", "capped"} /\ (outcome = "ok" => code = ended)

Inv == TypeOK /\ CappedIsTrue /\ LimitIsNotMissed /\ OutcomeIsTrue

\* A launch whose worker is ended is over, whatever is being asked or waited
\* for (headless-session.ts, finish).
EndedLaunchEnds == ended # 0 ~> phase = "over"

=============================================================================
