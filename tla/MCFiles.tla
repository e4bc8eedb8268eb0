------------------------------- MODULE MCFiles -------------------------------
(***************************************************************************)
(* Files ccx changes on the user's behalf, for TLC, each part by itself:   *)
(* `subject` is the one that moves.                                        *)
(***************************************************************************)
EXTENDS UserFiles, TLC

CONSTANTS s, e, w, u, v, i, p1, p2,
          Procs, Quiet, Stalled, Hold, Fetch, MaxUpdates, SettledFor \* of ClaudeRepair

ASSUME RepairAssumption ==
    /\ None \notin Procs /\ None \notin Nat /\ {"person", "nobody"} \cap Procs = {}
    /\ SettledFor \in Nat \ {0} /\ Quiet \in 0..SettledFor
    /\ Stalled \in Nat /\ Fetch \in Nat /\ Fetch < Stalled

VARIABLES subject,  \* the component that moves; the others rest as they start
    folder, program, platform, old, aside, links, npm, pause, updates, changed,
    platformAge, installSeen, failed, installLock, pc, fix, quiet, npmSaid, told,
    crossed, lost

Install == INSTANCE ClaudeRepair WITH
    seen <- installSeen, lock <- installLock

repairVars == <<folder, program, platform, old, aside, links, npm, pause, updates,
    changed, platformAge, installSeen, failed, installLock, pc, fix, quiet, npmSaid,
    told, crossed, lost>>
allVars == <<subject, vars, repairVars>>

MCInit ==
    /\ subject \in {"userFiles", "repair"}
    /\ Init /\ Install!Init
    /\ subject # "userFiles" => user = [value |-> u, list |-> {i}] /\ kind = "settings"
    /\ subject # "repair" => program = "whole" /\ platform = "whole" /\ links

MCNext ==
    /\ UNCHANGED subject
    /\ \/ subject = "userFiles" /\ Next /\ UNCHANGED <<repairVars>>
       \/ subject = "repair" /\ Install!Next /\ UNCHANGED <<vars>>

MCSpec ==
    /\ MCInit /\ [][MCNext]_allVars

Started == {[value |-> u, list |-> {i}]}

InstallInv == Install!Inv

=============================================================================
