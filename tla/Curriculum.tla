----------------------------- MODULE Curriculum -----------------------------
(***************************************************************************)
(* What the training job promises, without processes, files or caches: the *)
(* weights go through the batches of the epochs in order; from time to     *)
(* time they are made durable; after a failure training continues from the *)
(* durable weights.                                                        *)
(***************************************************************************)
EXTENDS Integers, Sequences

CONSTANTS BatchesPerEpoch, TotalEpochs

VARIABLES
    trained, \* the <<epoch, batch>> pairs the weights were trained on
    durable  \* the same for the weights that survive a failure

NextItem == <<Len(trained) \div BatchesPerEpoch, Len(trained) % BatchesPerEpoch>>

Init == trained = <<>> /\ durable = <<>>

Train ==
    /\ Len(trained) < BatchesPerEpoch * TotalEpochs
    /\ trained' = Append(trained, NextItem)
    /\ UNCHANGED durable

Commit == durable' = trained /\ UNCHANGED trained

Recover == trained' = durable /\ UNCHANGED durable

Next == Train \/ Commit \/ Recover

Spec == Init /\ [][Next]_<<trained, durable>>
=============================================================================
