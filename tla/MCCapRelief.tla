----------------------------- MODULE MCCapRelief -----------------------------
(***************************************************************************)
(* A limit met in a session, and carrying on after the move, for TLC, each *)
(* part by itself: `subject` is the one that moves.                        *)
(***************************************************************************)
EXTENDS CapRelief, TLC

CONSTANTS a, b,
          Pickup, Settle, Submit, Answer, Blocked, Retry, IdleFor,
          MaxAttempts, MaxDismissals, MaxMoves, MaxEvents \* of CarryOn

ASSUME CarryOnAssumption ==
    /\ {Pickup, Settle, Submit, Answer, Blocked, Retry, IdleFor} \subseteq Nat
    /\ MaxAttempts \in Nat \ {0} /\ MaxDismissals \in Nat /\ None \notin Nat

VARIABLES subject,  \* the component that moves; the others rest as they start
    promptChild, claude, box, keys, record, quiet, watched, carry, checking, moves,
    events, ends, wrong

Carry == INSTANCE CarryOn WITH
    child <- promptChild

carryOnVars == <<promptChild, claude, box, keys, record, quiet, watched, carry,
    checking, moves, events, ends, wrong>>
allVars == <<subject, vars, carryOnVars>>

MCInit ==
    /\ subject \in {"relief", "carryOn"}
    /\ Init /\ Carry!Init
    /\ subject # "relief" => on = a /\ spent = {}
    /\ subject # "carryOn" => on = a /\ keys = [last |-> "never", moved |-> FALSE] /\ claude.at = "idle"

MCNext ==
    /\ UNCHANGED subject
    /\ \/ subject = "relief" /\ Next /\ UNCHANGED <<carryOnVars>>
       \/ subject = "carryOn" /\ Carry!Next /\ UNCHANGED <<vars>>

MCSpec ==
    /\ MCInit /\ [][MCNext]_allVars
    /\ WF_vars(subject = "relief" /\ Acts)
    /\ WF_vars(subject = "relief" /\ Answered)
    /\ WF_vars(subject = "relief" /\ Ended)
    /\ WF_vars(subject = "relief" /\ (\E how \in {"moved", "failed", "busy"} : MoveEnds(how)))
    /\ WF_vars(subject = "relief" /\ (\E finished \in BOOLEAN : LoginAnswer(finished)))
    /\ WF_vars(subject = "relief" /\ Killed)
    /\ WF_carryOnVars(subject = "carryOn" /\ Carry!Time)
    /\ WF_carryOnVars(subject = "carryOn" /\ Carry!Step)
    /\ WF_carryOnVars(subject = "carryOn" /\ Carry!TurnEnds)
    /\ WF_carryOnVars(subject = "carryOn" /\ Carry!Settles)

CarryOnInv == Carry!Inv

\* A prompt to type is done with.
CarryOnEnds == Carry!CarryOnEnds

=============================================================================
