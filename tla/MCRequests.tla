------------------------------ MODULE MCRequests ------------------------------
(* Values of the constants of RewardRequests for TLC.                      *)
EXTENDS RewardRequests, TLC

CONSTANTS r1, r2, r3
==============================================================================
