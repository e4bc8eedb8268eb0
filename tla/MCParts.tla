------------------------------- MODULE MCParts -------------------------------
(***************************************************************************)
(* Parts of the system that are small by themselves, for TLC, each alone:  *)
(* `subject` is the one that moves.                                        *)
(***************************************************************************)
EXTENDS OwnedLock, Sequences, TLC

CONSTANTS t1, t2, t3, p1, p2, p3, p4, p5, c1, c2, a, b, s1, m, n,
          Procs, MaxMade, \* of DirLock
          Conversations, Kept, AnswersIn, MaxAge,
          MaxTime, MaxLines, MaxLogins, \* of RefusedTurn
          Accounts, Believed, Stranger, Models, Timeout,
          BackOffWait, SecondAsk, Budget, MaxSignIns, \* of ConfirmCap
          None,
          Quiet, GateWait, MaxProcs, DeskTime, MaxTurns, MaxHands \* of DesktopHandoff

ASSUME DirLockAssumption == MaxMade \in Nat /\ 0 \notin Procs

VARIABLES subject,  \* the component that moves; the others rest as they start
    dir, madeBy, old, dirPc, mine, judged, paused, robbed,
    now, put, visiting, windows, headless, claude, other, record, half, subRecord,
    startsNew, first, following, main, sub, promptAt, handed, past,
    checkHeadless, login, identity, signIns, crossed, modelInUse, names, proof, phase,
    clock, retryAfter, found, asked, answer, decision,
    deskNow, deskClaude, turns, hands, message, deskRecord, job, launch, procs,
    deskWindows, begun, gaps, deskLost

Dir == INSTANCE DirLock WITH
    pc <- dirPc
Refused == INSTANCE RefusedTurn
Confirm == INSTANCE ConfirmCap WITH
    headless <- checkHeadless
Handoff == INSTANCE DesktopHandoff WITH
    now <- deskNow, claude <- deskClaude, record <- deskRecord,
    windows <- deskWindows, lost <- deskLost, MaxTime <- DeskTime

dirLockVars == <<dir, madeBy, old, dirPc, mine, judged, paused, robbed>>
refusedTurnVars == <<now, put, visiting, windows, headless, claude, other, record,
    half, subRecord, startsNew, first, following, main, sub, promptAt, handed, past>>
confirmVars == <<checkHeadless, login, identity, signIns, crossed, modelInUse, names,
    proof, phase, clock, retryAfter, found, asked, answer, decision>>
handoffVars == <<deskNow, deskClaude, turns, hands, message, deskRecord, job, launch,
    procs, deskWindows, begun, gaps, deskLost>>
allVars == <<subject, vars, dirLockVars, refusedTurnVars, confirmVars, handoffVars>>

MCInit ==
    /\ subject \in {"ownedLock", "dirLock", "refusedTurn", "confirm", "handoff"}
    /\ Init /\ Dir!Init /\ Refused!Init /\ Confirm!Init /\ Handoff!Init
    /\ subject # "refusedTurn" => ~headless /\ ~startsNew /\ other = None
    /\ subject # "confirm" => ~checkHeadless

MCNext ==
    /\ UNCHANGED subject
    /\ \/ subject = "ownedLock" /\ Next /\ UNCHANGED <<dirLockVars, refusedTurnVars, confirmVars, handoffVars>>
       \/ subject = "dirLock" /\ Dir!Next /\ UNCHANGED <<vars, refusedTurnVars, confirmVars, handoffVars>>
       \/ subject = "refusedTurn" /\ Refused!Next /\ UNCHANGED <<vars, dirLockVars, confirmVars, handoffVars>>
       \/ subject = "confirm" /\ Confirm!Next /\ UNCHANGED <<vars, dirLockVars, refusedTurnVars, handoffVars>>
       \/ subject = "handoff" /\ Handoff!Next /\ gaps[c1] \cup gaps[c2] \cup deskLost[c1] \cup deskLost[c2] = {} /\ UNCHANGED <<vars, dirLockVars, refusedTurnVars, confirmVars>>

MCSpec ==
    /\ MCInit /\ [][MCNext]_allVars

\* t1 and t2 share a process, as two changes of one session do.
MCPidOf == t1 :> p1 @@ t2 :> p1 @@ t3 :> p2
MCModels == <<m, n>>
MCTurns == c1 :> 2 @@ c2 :> 0

ASSUME HandoffAssumption ==
    /\ None \notin Conversations /\ None \notin Nat /\ None \notin BOOLEAN
    /\ None \notin Handoff!Stamps /\ None \notin Handoff!Records
    /\ None \notin [stamp : Handoff!Stamps, carries : BOOLEAN]
    /\ None \notin {"prompt", "limit", "swap", "move", "again", "job"}
    /\ MaxProcs \in Nat /\ DeskTime \in Nat /\ MaxHands \in Nat
    /\ MaxTurns \in [Conversations -> Nat] /\ Quiet \in Nat \ {0} /\ GateWait \in Nat

\* Nothing a record or an answer can hold is taken for "none of them", and a question
\* is over within the budget of its check: 4 s and 3 s more, or the probe's 8 s, of
\* CHECK_BUDGET_MS's 10 s (confirm-cap.ts:110, session.ts:183).
ASSUME RefusedAssumption ==
    /\ Conversations # {} /\ None \notin Conversations /\ None \notin Nat
    /\ None \notin [n : Nat, what : {"prompt", "refusal", "sidechain"}, at : Nat,
                    by : {"claude", "other"}, login : Nat, turn : Nat]
    /\ None \notin [offset : Nat, rest : BOOLEAN] /\ None \notin [on : Conversations, here : BOOLEAN]
    /\ Kept \in Nat \ {0} /\ AnswersIn \in Nat /\ MaxAge \in Nat
    /\ MaxTime \in Nat \ {0} /\ MaxLines \in Nat /\ MaxLogins \in Nat \ {0}
ASSUME ConfirmAssumption ==
    /\ Models \in Seq(Confirm!ModelSet) /\ Models # <<>> /\ None \notin Confirm!ModelSet
    /\ None \notin Confirm!People /\ Believed \in Accounts
    /\ None \notin {"room", "spent", "fiveHour", "sevenDay"}
    /\ None \notin Confirm!Answer
    /\ None \notin [proves : BOOLEAN, model : Confirm!ModelSet \cup {None}]
    /\ None \notin [limited : BOOLEAN, model : Confirm!ModelSet \cup {None},
                    resets : Confirm!ModelSet \cup {None, "fiveHour", "sevenDay", "refusal"},
                    how : {"room", "answer", "unverified", "unanswered", "refusal"},
                    owner : Accounts \cup {None}]
    /\ Confirm!ModelSet \cap {"fiveHour", "sevenDay", "refusal"} = {}
    /\ Timeout \in Nat /\ BackOffWait \in Nat /\ SecondAsk \in Nat /\ Budget \in Nat
    /\ Timeout <= Budget /\ BackOffWait + SecondAsk <= Budget

DirInv == Dir!Inv
EvidenceInv == Refused!Inv /\ Confirm!Inv

ArrivesInv == Handoff!Inv

=============================================================================
