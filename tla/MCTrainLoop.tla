---- MODULE MCTrainLoop ----
EXTENDS TrainLoopRefinement

\* One generator configuration, and pairs that differ in a field the cache
\* signature covers or in one it does not.
OneConfig == {[signed |-> "a", unsigned |-> "x"]}
SignedConfigs == {[signed |-> "a", unsigned |-> "x"], [signed |-> "b", unsigned |-> "x"]}
UnsignedConfigs == {[signed |-> "a", unsigned |-> "x"], [signed |-> "a", unsigned |-> "y"]}

Never == {FALSE}
AnyTime == {FALSE, TRUE}

\* Files whose write takes long enough for a crash to fall in it.
LargeFiles == {"actor", "data", "adaptive", "cache"}
AllFiles == LargeFiles \cup {"tracker"}
====
