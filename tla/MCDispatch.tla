------------------------------ MODULE MCDispatch -------------------------------
(* Values of the constants of BatchDispatch for TLC.                       *)
EXTENDS BatchDispatch

\* Three ranks, two of them with one data parallel rank; the first collects.
TwoAndOne == <<1, 1, 2>>
FirstOfTwo == <<TRUE, FALSE, TRUE>>
==============================================================================
