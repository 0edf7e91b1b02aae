---- MODULE MCTutor ----
EXTENDS TutorPipeline

OfflineSeeded == ConstraintModes \cup RewriteModes \cup AdaptiveModes

TwoRows == {1, 2}
Whole == {{1, 2}}

\* Texts that leave room for constraints, and texts beyond the limit.
ShortAndLong == {1, 4}
====
