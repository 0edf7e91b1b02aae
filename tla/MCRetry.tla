-------------------------------- MODULE MCRetry --------------------------------
(* Values of the constants of RetryLoop for TLC.                           *)
EXTENDS RetryLoop

\* Rows that need no padding, and padding longer than the batch.
FewOrMany == {2, 9}
==============================================================================
