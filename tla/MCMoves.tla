------------------------------- MODULE MCMoves -------------------------------
(***************************************************************************)
(* Sessions moved from account to account, for TLC, each part by itself:   *)
(* `subject` is the one that moves.                                        *)
(***************************************************************************)
EXTENDS SwitchRequests, TLC

CONSTANTS a, b, t, x, p, q, k1, own, home, c1, c2,
          Calls, Tracked, NoAccount, NoCall, MaxLaunches, CallsMissMoves \* of ArtifactHop

VARIABLES subject,  \* the component that moves; the others rest as they start
    claude, launches, hopCurrent, login, route, hopAsks, done, state, movedFor, visit,
    moving, preparing, late, phase, recorded, sentAs, endedSince, owner

Hop == INSTANCE ArtifactHop WITH
    current <- hopCurrent, asks <- hopAsks, Accounts <- {own, home}

hopVars == <<claude, launches, hopCurrent, login, route, hopAsks, done, state,
    movedFor, visit, moving, preparing, late, phase, recorded, sentAs, endedSince,
    owner>>
allVars == <<subject, vars, hopVars>>

MCInit ==
    /\ subject \in {"requests", "hop"}
    /\ Init /\ Hop!Init
    /\ subject # "requests" => active = a /\ due = {}
    /\ subject # "hop" => hopCurrent = own /\ route = [call \in Calls |-> NoAccount]

MCNext ==
    /\ UNCHANGED subject
    /\ \/ subject = "requests" /\ Next /\ UNCHANGED <<hopVars>>
       \/ subject = "hop" /\ Hop!Next /\ UNCHANGED <<vars>>

\* What moves of the two parts whose timers are fair.
fairVars == IF subject = "requests" THEN vars ELSE hopVars

MCSpec ==
    /\ MCInit /\ [][MCNext]_allVars
    /\ \A s \in Pids : WF_fairVars(
            /\ UNCHANGED subject
            /\ \/ subject = "requests" /\ (Launches(s) \/ ClaudeExits(s))
               \/ subject = "hop" /\ (Hop!VisitAges \/ \E k \in Calls : Hop!HoldRunsOut(k)))
    /\ \A s \in Pids : WF_fairVars(
            /\ UNCHANGED subject
            /\ \/ subject = "requests" /\ Acts(s)
               \/ subject = "hop" /\ (Hop!TickReleases \/ Hop!TickEnds \/ Hop!TickGoesBack))
    /\ \A k \in Commands : WF_fairVars(
            /\ UNCHANGED subject
            /\ \/ subject = "requests" /\ Goes(k)
               \/ subject = "hop" /\ (Hop!ChildEnded \/ Hop!ChildEndedAway))
    /\ \A s \in Pids : SF_fairVars(
            /\ UNCHANGED subject
            /\ \/ subject = "requests" /\ RenewalEnds(s) /\ renewal'[s].result # "busy"
               \/ subject = "hop" /\ Hop!LoginBack)
    /\ \A s \in Pids : SF_fairVars(
            /\ UNCHANGED subject
            /\ \/ subject = "requests" /\ RestartsIdle(s)
               \/ subject = "hop" /\ Hop!BackArrives)
    /\ \A s \in Pids : SF_vars(subject = "requests" /\ (MoveEnds(s) \/ MoveFails(s)))

HopInv == Hop!Inv

\* A session that left its account for a page comes back to it.
ComesBack == Hop!ComesBack

=============================================================================
