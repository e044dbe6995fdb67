------------------------------ MODULE MCTurns -------------------------------
(* Two exchanges in which a pair of processes takes turns, side by side:   *)
(* with signals (SigSpeed) and with semaphores (SvshmXfer).  They share    *)
(* nothing, and their steps interleave.                                    *)
EXTENDS SigSpeed, SvshmXfer
BothInit == Init /\ XferInit
BothNext ==
    \/ Next /\ UNCHANGED xferVars
    \/ XferNext /\ UNCHANGED vars
BothSpec == BothInit /\ [][BothNext]_<<vars, xferVars>> /\ Fairness /\ XferFairness
=============================================================================
