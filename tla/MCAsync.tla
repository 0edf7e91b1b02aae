------------------------------- MODULE MCAsync --------------------------------
(* Values of the constants of AsyncTraining for TLC.                       *)
EXTENDS AsyncTraining

Both == {FALSE, TRUE}
PartialOnly == {TRUE}
Never == {FALSE}
==============================================================================
