---------------------------- MODULE MCOwnedLock ----------------------------
(* Small instances of OwnedLock for TLC: two acquisitions in two processes,  *)
(* or three in three.                                                        *)
EXTENDS OwnedLock, TLC

CONSTANTS t1, t2, t3, p1, p2, p3

MCTwo == t1 :> p1 @@ t2 :> p2
MCThree == t1 :> p1 @@ t2 :> p2 @@ t3 :> p3

=============================================================================
