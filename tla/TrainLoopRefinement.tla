------------------------ MODULE TrainLoopRefinement -------------------------
(***************************************************************************)
(* The training loop implements the curriculum: the weights of the running *)
(* process are the trained sequence, those of the checkpoint the tracker   *)
(* names the durable one.  A process that has not loaded anything yet      *)
(* stands for the weights it is about to load.                             *)
(***************************************************************************)
EXTENDS TrainLoop

Items(h) == [i \in DOMAIN h |-> <<h[i].epoch, h[i].batch>>]

DurableItems == IF tracker = NoTracker THEN <<>> ELSE Items(Folder(tracker).actor.steps)

Promise == INSTANCE Curriculum WITH
    trained <- IF pc = "boot" THEN DurableItems ELSE Items(policy),
    durable <- DurableItems

\* Without drops, every crash and resume, every save in its five writes and
\* every epoch start is invisible in the curriculum or one of its steps.
ImplementsCurriculum == Promise!Spec
=============================================================================
