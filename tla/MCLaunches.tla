------------------------------ MODULE MCLaunches ------------------------------
(***************************************************************************)
(* What launches Claude, for TLC, each part by itself: `subject` is the    *)
(* one that moves.                                                         *)
(***************************************************************************)
EXTENDS HotSwap, TLC

CONSTANTS a, b, c, m, n, p1, p2,
          Registry, Priority, Readings, NoFiveHour, Preference, Weekly, Threshold,
          Hysteresis, HoldBack, WeekLength, Pools, MaxTime, \* of RotationPolicy
          MaxRefusals,   \* of HeadlessSession
          MaxLaunches,   \* of Worker
          Workers        \* of WorkerClaims

ASSUME WorkerAssumption == MaxLaunches \in Nat
ASSUME HeadlessAssumption == MaxRefusals \in Nat

VARIABLES subject,  \* the component that moves; the others rest as they start
    phase, ended, code, runOutcome, out, loginDead, ignored, record, printed, readable,
    read, asks, loginTurn, runCapped, switchTo, signedOut, interruptedBy, lost,
    output, workerPhase, launches, onAccount, workerEnded, workerCode, stopped, resort,
    limited, answer, partial, passedOn, report,
    healthy, pc, reads, seen, claim, expired, lease, claimOn, how,
    now, policyRead, policyOn, left, returned

Headless == INSTANCE HeadlessSession WITH
    outcome <- runOutcome, capped <- runCapped
Work == INSTANCE Worker WITH
    phase <- workerPhase, ended <- workerEnded, code <- workerCode
Claims == INSTANCE WorkerClaims WITH
    on <- claimOn
Policy == INSTANCE RotationPolicy WITH
    read <- policyRead, on <- policyOn

headlessVars == <<phase, ended, code, runOutcome, out, loginDead, ignored, record,
    printed, readable, read, asks, loginTurn, runCapped, switchTo, signedOut,
    interruptedBy, lost>>
workerVars == <<output, workerPhase, launches, onAccount, workerEnded, workerCode,
    stopped, resort, limited, answer, partial, passedOn, report>>
claimsVars == <<healthy, pc, reads, seen, claim, expired, lease, claimOn, how>>
policyVars == <<now, policyRead, policyOn, left, returned>>
allVars == <<subject, vars, headlessVars, workerVars, claimsVars, policyVars>>

MCInit ==
    /\ subject \in {"swapLoop", "headless", "worker", "claims", "policy"}
    /\ Init /\ Headless!Init /\ Work!Init /\ Claims!Init /\ Policy!Init
    /\ subject # "swapLoop" => spent = {} /\ dead = {}
    /\ subject # "headless" => ~out /\ ~loginDead /\ ~ignored /\ ~readable /\ ended = 0
    /\ subject # "worker" => output = "text" /\ workerPhase = "over"
    /\ subject # "claims" => healthy = {}
    /\ subject # "policy" => policyOn = a

MCNext ==
    /\ UNCHANGED subject
    /\ \/ subject = "swapLoop" /\ Next /\ UNCHANGED <<headlessVars, workerVars, claimsVars, policyVars>>
       \/ subject = "headless" /\ Headless!Next /\ UNCHANGED <<vars, workerVars, claimsVars, policyVars>>
       \/ subject = "worker" /\ Work!Next /\ UNCHANGED <<vars, headlessVars, claimsVars, policyVars>>
       \/ subject = "claims" /\ Claims!Next /\ UNCHANGED <<vars, headlessVars, workerVars, policyVars>>
       \/ subject = "policy" /\ Policy!Next /\ UNCHANGED <<vars, headlessVars, workerVars, claimsVars>>

MCSpec ==
    /\ MCInit /\ [][MCNext]_allVars
    /\ WF_vars(subject = "swapLoop" /\ Chooses)
    /\ WF_vars(subject = "swapLoop" /\ (LoginFinished \/ Starts))
    /\ WF_headlessVars(subject = "headless" /\ Headless!Progress)

\* The loop never goes round without running anything.
LoopSettles == subject = "swapLoop" /\ mode = "picking" ~> mode \notin {"picking", "starting"}

\* A launch whose worker is ended is over, whatever is asked or waited for.
LaunchesGoOn == LoopSettles /\ Headless!EndedLaunchEnds

HeadlessInv == Headless!Inv
WorkerInv == Work!Inv
ClaimsInv == Claims!Inv
PolicyInv == subject = "policy" => Policy!Inv

MCRegistry == <<b, a, c>>
MCPriority == a :> 1 @@ b :> 2 @@ c :> 3
MCReadings == a :> ([five : {0, 80, 100}, week : {0, 97}, model : {40, 100}])
           @@ b :> [five : {60, 97}, week : {50}, model : {None}]
MCPreference == <<m, n>>
MCPools == [usable : {{a, b, c}, {a, b}}, spent : {{}, {<<a, m>>}, {<<b, m>>, <<c, m>>}}]
            \cup [usable : {{a, c}}, spent : {{<<c, m>>, <<c, n>>}, {<<a, m>>, <<c, n>>}}]
            \cup {[usable |-> {}, spent |-> {}]}

=============================================================================
