----------------------------- MODULE SampleStream -----------------------------
(***************************************************************************)
(* What fully asynchronous training promises, whatever order the samples   *)
(* are generated in and whatever is interrupted, lost or resumed: the      *)
(* weights are trained on whole batches of samples drawn from the data and *)
(* not trained on before, the parameter version grows by one per Trigger   *)
(* batches, and a restart goes on from a saved state.                      *)
(***************************************************************************)
EXTENDS Integers, FiniteSets

CONSTANTS Required, Trigger

VARIABLES
    drawn,   \* number of samples drawn from the data
    trained, \* the samples the weights were trained on
    batches, \* batches trained since the version last grew
    version, \* the parameter version
    saved    \* the state a restart goes on from

vars == <<drawn, trained, batches, version, saved>>

Init ==
    /\ drawn = 1 /\ trained = {} /\ batches = 0 /\ version = 0
    /\ saved = [version |-> 0, drawn |-> 0, trained |-> {}]

Draw == drawn' = drawn + 1 /\ UNCHANGED <<trained, batches, version, saved>>

Train ==
    /\ \E B \in SUBSET (1..drawn \ trained) :
         Cardinality(B) = Required /\ trained' = trained \cup B
    /\ IF batches + 1 < Trigger THEN batches' = batches + 1 /\ UNCHANGED version
       ELSE batches' = 0 /\ version' = version + 1
    /\ UNCHANGED <<drawn, saved>>

\* The last weights get a version of their own.
Close == version' = version + 1 /\ batches' = 0 /\ UNCHANGED <<drawn, trained, saved>>

Save ==
    /\ saved' = [version |-> version, drawn |-> drawn, trained |-> trained]
    /\ UNCHANGED <<drawn, trained, batches, version>>

Restart ==
    /\ drawn' = saved.drawn + 1 /\ trained' = saved.trained
    /\ version' = saved.version /\ batches' = 0
    /\ UNCHANGED saved

Spec == Init /\ [][Draw \/ Train \/ Close \/ Save \/ Restart]_vars
==============================================================================
