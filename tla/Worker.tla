------------------------------- MODULE Worker -------------------------------
(***************************************************************************)
(* A worker (ccx worker, commands/worker.ts): the launches its swap loop   *)
(* makes, what each printed, and the one report the program that asked     *)
(* gets.  A launch is HeadlessSession's, here reduced to what it prints    *)
(* and how it ends; which account comes next is HotSwap's.                 *)
(***************************************************************************)
EXTENDS Naturals, FiniteSets

CONSTANT MaxLaunches   \* bound: launches of one worker

VARIABLES
    output,    \* the shape of output asked for
    phase,     \* "between" launches, "running" one, "reporting", "over", "killed"
    launches,  \* how many there have been
    onAccount, \* whether each launch moved to another account, by launch
    ended,     \* the exit code the worker is being ended with, or 0
    code,      \* the exit code of the run
    stopped,   \* the launch is being ended with the worker
    resort,    \* the launch is a last resort: on an account with no room left
    limited,   \* a limit has been confirmed in it
    answer,    \* what the last launch printed, of whole lines
    partial,   \* and of the line not yet ended, by the launch that began it
    passedOn,  \* history: the kinds of lines handed to the caller
    report     \* what the worker came to

vars == <<output, phase, launches, onAccount, ended, code, stopped, resort, limited,
          answer, partial, passedOn, report>>
printed == <<answer, partial, passedOn>>
launch == <<resort, limited>>
run == <<output, onAccount, report>>

NoPart == [kind |-> "none", of |-> 0]

\* Type invariant: the shape of every variable.
TypeOK ==
    /\ output \in {"json", "stream-json", "text"}
    /\ phase \in {"between", "running", "reporting", "over", "killed"}
    /\ launches \in 0..MaxLaunches /\ onAccount \subseteq 1..launches
    /\ ended \in {0, 124, 143} /\ code \in {0, 1, 2, 124, 143}
    /\ {stopped, resort, limited} \subseteq BOOLEAN
    /\ answer \in {"nothing", "words", "result"}
    /\ partial \in [kind : {"none", "cut", "result"}, of : 0..MaxLaunches]
    /\ passedOn \subseteq {"line", "glued"}
    /\ report \in [answered : BOOLEAN, code : 0..255, why : {"answered", "ended", "none"}, moves : Nat]

NoReport == [answered |-> FALSE, code |-> 2, why |-> "none", moves |-> 0]

\* A brief, flag, folder, time or account that will not do is refused at once.
Init ==
    /\ output \in {"json", "stream-json", "text"}
    /\ phase \in {"between", "over"}
    /\ launches = 0 /\ onAccount = {} /\ ended = 0 /\ code = 2 /\ stopped = FALSE
    /\ resort = FALSE /\ limited = FALSE
    /\ answer = "nothing" /\ partial = NoPart /\ passedOn = {}
    /\ report = NoReport

-----------------------------------------------------------------------------
(* Launches *)

\* Mutant: a line an earlier launch was ended in the middle of is kept.
ClearsAnswer == answer' = "nothing" /\ UNCHANGED <<partial, passedOn>>

\* onLaunch: the answer is what the launch that finished printed.
ClearsOutput == answer' = "nothing" /\ partial' = NoPart /\ UNCHANGED passedOn

\* The swap loop starts Claude, on the account it was on or on the next, as a
\* last resort when no account has room.
Launches(moved) ==
    /\ phase = "between" /\ ended = 0 /\ launches < MaxLaunches
    /\ phase' = "running" /\ launches' = launches + 1 /\ code' = 0
    /\ launches = 0 => moved
    /\ onAccount' = IF moved THEN onAccount \cup {launches + 1} ELSE onAccount
    /\ resort' \in BOOLEAN /\ limited' = FALSE
    /\ ClearsOutput
    /\ UNCHANGED <<output, ended, stopped, report>>

\* The account says it is out; of a last resort that counts only if there is
\* somewhere to go by now.  An end that came first does not take it back.
FindsLimit ==
    /\ phase = "running" /\ ~limited
    /\ limited' = TRUE
    /\ UNCHANGED <<run, phase, launches, ended, code, stopped, resort, printed>>

\* The launch is over: out of room, switched or signed out, so the next is due.
\* Of one that was ended only a limit is told; of a last resort, only a login.
MovesOn ==
    /\ phase = "running" /\ phase' = "between"
    /\ stopped => limited
    /\ resort => ~limited
    /\ UNCHANGED <<run, launches, ended, code, stopped, launch, printed>>

\* The launch is over, and so is the run.  One that was ended has the end's
\* code, but one found out of room has Claude's own, which the loop takes from
\* a last resort as it is.
Finishes(with) ==
    /\ phase = "running" /\ phase' = "reporting"
    /\ limited => resort
    /\ code' = IF stopped /\ ~limited THEN ended ELSE with
    /\ UNCHANGED <<run, launches, ended, stopped, launch, printed>>

\* An ended worker starts nothing more, and what was printed stays.
StartsNothing ==
    /\ phase = "between" /\ ended # 0
    /\ phase' = "reporting" /\ code' = ended
    /\ UNCHANGED <<run, launches, ended, stopped, launch, printed>>

\* The swap loop has nothing to start, and says so; of an ended worker it does
\* not ask.
NothingToStart ==
    /\ phase = "between" /\ ended = 0
    /\ phase' = "reporting" /\ code' = 1
    /\ UNCHANGED <<run, launches, ended, stopped, launch, printed>>

-----------------------------------------------------------------------------
(* What Claude prints *)

LineOf == IF partial.of \in {0, launches} THEN "line" ELSE "glued"

\* onStdout: of a stream only whole lines are passed on.
Prints(part, kind, passes) ==
    /\ phase = "running"
    /\ answer # "result" /\ partial.kind # "result"
    /\ partial' = part /\ answer' = kind
    /\ passedOn' = passedOn \cup (IF output = "stream-json" THEN passes ELSE {})
    /\ UNCHANGED <<run, phase, launches, ended, code, stopped, launch>>

PrintsPart == partial.kind = "none" /\ Prints([kind |-> "cut", of |-> launches], answer, {})
PrintsEvent == Prints(NoPart, "words", {LineOf})
PrintsResult == Prints(NoPart, "result", {LineOf})
PrintsUnendedResult == Prints([kind |-> "result", of |-> launches], answer, {})

-----------------------------------------------------------------------------
(* The end of the worker *)

\* Interruption.end, a signal or the timeout: the first counts.  It stops the
\* launch under way, unless its Claude is done already.
Ends(with) ==
    /\ phase \notin {"over", "killed"} /\ ended = 0
    /\ ended' = with
    /\ stopped' \in (IF phase = "running" THEN BOOLEAN ELSE {FALSE})
    /\ UNCHANGED <<run, phase, launches, code, launch, printed>>

\* A second signal while ending: the process exits at once.
Killed ==
    /\ phase \notin {"over", "killed"} /\ ended # 0
    /\ phase' = "killed"
    /\ UNCHANGED <<run, launches, ended, code, stopped, launch, printed>>

\* Whether Claude gave the answer, by the shape of output.
GaveAnswer ==
    IF output = "text" THEN code = 0 \/ answer # "nothing" \/ partial # NoPart
    ELSE answer = "result" \/ partial.kind = "result"

\* Why there is none: the end of the worker, when it is what stopped the work.
Why == IF ended # 0 /\ ended = code THEN "ended" ELSE IF GaveAnswer THEN "answered" ELSE "none"

\* A last event without its line ending is passed on; half of one is dropped.
\* No answer is a failure, whatever Claude's own exit said, and a stay on one
\* account over several launches is one stay.
Reports ==
    /\ phase = "reporting" /\ phase' = "over"
    /\ report' = [answered |-> GaveAnswer /\ Why = "answered", why |-> Why,
                  code |-> IF Why # "answered" /\ code = 0 THEN 1 ELSE code,
                  moves |-> IF onAccount = {} THEN 0 ELSE Cardinality(onAccount) - 1]
    /\ passedOn' = passedOn \cup
           (IF output = "stream-json" /\ partial.kind = "result" THEN {LineOf} ELSE {})
    /\ UNCHANGED <<output, launches, onAccount, ended, code, stopped, launch, answer, partial>>

-----------------------------------------------------------------------------

Next ==
    \/ \E moved \in BOOLEAN : Launches(moved)
    \/ FindsLimit \/ MovesOn \/ \E with \in {0, 1, 143} : Finishes(with)
    \/ StartsNothing \/ NothingToStart
    \/ PrintsPart \/ PrintsEvent \/ PrintsResult \/ PrintsUnendedResult
    \/ \E with \in {124, 143} : Ends(with)
    \/ Killed \/ Reports

Spec == Init /\ [][Next]_vars

-----------------------------------------------------------------------------
(* Properties *)

\* The program that reads the exit code is told the truth: a worker ended while
\* Claude worked or with work left to start says so, unless that launch was a
\* last resort found out of room; one that exits 0 was answered, by the launch
\* that ran last (worker.ts, workerCommand).
CodeIsTrue ==
    phase = "over" =>
        /\ stopped => (report.code = ended /\ ~report.answered) \/ (resort /\ limited)
        /\ report.code = 0 => report.answered /\ launches > 0
        /\ report.answered => ended # report.code \/ ended = 0

\* Nothing a launch was ended in the middle of is glued to the next one's lines,
\* and what is told to be the answer was printed by the last launch
\* (worker.ts, onLaunch and onStdout).
LinesAreWhole == "glued" \notin passedOn /\ (partial.kind # "none" => partial.of = launches)

Inv == TypeOK /\ CodeIsTrue /\ LinesAreWhole

=============================================================================
