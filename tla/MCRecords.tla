------------------------------ MODULE MCRecords ------------------------------
(***************************************************************************)
(* The records kept in files for TLC, each by itself: `subject` is the one *)
(* that moves.                                                             *)
(***************************************************************************)
EXTENDS Ledger, TLC

CONSTANTS p1, p2, a, b, a1, a2, m, n, pg, qg, s1,
          None, Absent,
          Models, MaxTime, MaxLimits, Backoff, Order, Default, Preferences, \* of HeadlessRun
          MaxLines, TrimAt, MaxAstray, \* of EventLog
          Sources, MaxRows, CompactAt, CompactTo \* of PageRecord

ASSUME LogAssumption ==
    /\ MaxLines \in Nat /\ TrimAt \in Nat /\ MaxAstray \in Nat
    /\ Absent \notin Seq(Procs \X (1..MaxLines))

ASSUME RunsAssumption ==
    /\ Len(Order) \in Nat /\ DOMAIN Order = 1..Len(Order)
    /\ Preferences \subseteq Seq(Models) /\ Default \in Models
    /\ \A i \in DOMAIN Order : Order[i] # None
    /\ None \notin Models
    /\ MaxTime \in Nat /\ MaxLimits \in Nat /\ Backoff \in Nat \ {0}

VARIABLES subject,  \* the component that moves; the others rest as they start
    preference, modelFirst, signedIn, clock, limits, begun, caps, active, run, told,
    standing,
    live, parked, archive, logHolding, logOverran, logPc, logMade, queued, todo, fd,
    readIn, reader, astray, written, spoiled,
    record, pageClock, renamed, holder, pagePc, row, pageCopy, all, foldedAt, dropped,
    lost

Limits == INSTANCE HeadlessRun WITH
    Runs <- Procs
Log == INSTANCE EventLog WITH
    holding <- logHolding, overran <- logOverran, pc <- logPc, made <- logMade
Page == INSTANCE PageRecord WITH
    clock <- pageClock, pc <- pagePc, copy <- pageCopy, Callers <- Procs,
    Owner <- pg :> a @@ qg :> a, Names <- a :> <<a1, a2>>

limitsVars == <<preference, modelFirst, signedIn, clock, limits, begun, caps, active,
    run, told, standing>>
eventLogVars == <<live, parked, archive, logHolding, logOverran, logPc, logMade,
    queued, todo, fd, readIn, reader, astray, written, spoiled>>
pageRecordVars == <<record, pageClock, renamed, holder, pagePc, row, pageCopy, all,
    foldedAt, dropped, lost>>
allVars == <<subject, vars, limitsVars, eventLogVars, pageRecordVars>>

MCInit ==
    /\ subject \in {"ledger", "limits", "eventLog", "pageRecord"}
    /\ Init /\ Limits!Init /\ Log!Init /\ Page!Init
    /\ subject # "limits" => ~modelFirst /\ signedIn = {b}
    /\ active = b /\ signedIn \in {{b}, {a, b}} /\ (signedIn = {b} <=> preference = <<>>)

MCNext ==
    /\ UNCHANGED subject
    /\ \/ subject = "ledger" /\ Next /\ UNCHANGED <<limitsVars, eventLogVars, pageRecordVars>>
       \/ subject = "limits" /\ Limits!Next /\ UNCHANGED <<vars, eventLogVars, pageRecordVars>>
       \/ /\ subject = "eventLog"
          /\ ~spoiled \* nothing is claimed of a log that is,
          /\ reader.at \notin {"short", "over"} \* and the read is looked at once
          /\ Log!Next /\ UNCHANGED <<vars, limitsVars, pageRecordVars>>
       \/ subject = "pageRecord" /\ Page!Next /\ UNCHANGED <<vars, limitsVars, eventLogVars>>

MCSpec ==
    /\ MCInit /\ [][MCNext]_allVars
    /\ \A p \in Procs : WF_vars(subject = "ledger" /\ Progress(p))

\* A change made is settled in the end.
ChangesSettle == subject = "ledger" => EverythingSettles

RunsInv == Limits!Inv
LogInv == Log!Inv
PagesInv == Page!Inv
MCOrder == <<a, b>>
MCPreferences == {<<>>, <<n>>}
MCThrowing == {<<p1, 1>>}

=============================================================================
