------------------------------- MODULE MCLogins -------------------------------
(***************************************************************************)
(* Where logins are kept and renewed, for TLC, each by itself: `subject`   *)
(* is the one that moves.                                                  *)
(***************************************************************************)
EXTENDS Renewal, TLC

CONSTANTS t1, t2, t3, x, y, e1, e2, p1, q, r, v,
          Accounts, Events, MaxMade, MaxCalls, Mac, \* of EditorFolder
          Profiles, Emails, \* of SharedLogin
          Carriers,      \* the processes of SharedLogin
          Measured, MaxTime, Ttl, \* of UsageSnapshot: its accounts
          None

ASSUME CarriedAssumption ==
    /\ MaxLogins \in Nat /\ MaxLogins >= 2 /\ MaxTime \in Nat /\ None \notin Carriers
ASSUME EditorAssumption ==
    /\ None \notin Accounts /\ "editor" \notin Accounts /\ Events \cap {"free", "claude"} = {}
    /\ MaxMade \in Nat /\ MaxCalls \in Nat

VARIABLES subject,  \* the component that moves; the others rest as they start
    made, editorSpent, profile, active, named, path, linked, folder, claude,
    editorLock, pending, carries, carrier, ev, calls, forgone, crossed,
    sharedLogin, sharedSpent, logins, sharedLock, leased, job, given,
    file, registered, now, task, everRead

Editor == INSTANCE EditorFolder WITH
    spent <- editorSpent, lock <- editorLock
Shared == INSTANCE SharedLogin WITH
    login <- sharedLogin, spent <- sharedSpent, lock <- sharedLock, Procs <- Carriers
Usage == INSTANCE UsageSnapshot WITH
    Procs <- Tasks, Accounts <- Measured

editorVars == <<made, editorSpent, profile, active, named, path, linked, folder,
    claude, editorLock, pending, carries, carrier, ev, calls, forgone, crossed>>
sharedVars == <<sharedLogin, sharedSpent, logins, sharedLock, leased, job, given>>
usageVars == <<file, registered, now, task, everRead>>
allVars == <<subject, vars, editorVars, sharedVars, usageVars>>

MCInit ==
    /\ subject \in {"renewal", "editor", "shared", "usage"}
    /\ Init /\ Editor!Init /\ Shared!Init /\ Usage!Init
    /\ subject # "renewal" => active = x
    /\ subject # "editor" => active = x
    /\ subject # "shared" => sharedLogin = [a \in Profiles |-> 1]
    /\ subject # "usage" => file = <<>>

MCNext ==
    /\ UNCHANGED subject
    /\ \/ subject = "renewal" /\ Next /\ UNCHANGED <<editorVars, sharedVars, usageVars>>
       \/ subject = "editor" /\ Editor!Next /\ crossed = {} /\ UNCHANGED <<vars, sharedVars, usageVars>>
       \/ subject = "shared" /\ Shared!Next /\ UNCHANGED <<vars, editorVars, usageVars>>
       \/ subject = "usage" /\ Usage!Next /\ UNCHANGED <<vars, editorVars, sharedVars>>

MCSpec ==
    /\ MCInit /\ [][MCNext]_allVars
    /\ \A t \in Tasks : WF_vars(subject = "renewal" /\ LooksAtKept(t))
    /\ \A t \in Tasks : WF_vars(subject = "renewal" /\ Progress(t))

EditorInv == Editor!Inv
CarriedInv == Shared!Inv /\ Usage!Inv
MCEmails == q :> x @@ r :> None @@ v :> y

=============================================================================
