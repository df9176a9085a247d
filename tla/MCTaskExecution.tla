-------------------------- MODULE MCTaskExecution --------------------------
(* Instances of TaskExecution for TLC. *)
EXTENDS TaskExecution

DistinctKeys == [i \in Subs |-> i]
SameKey == [i \in Subs |-> 1]

FullKeys == [i \in Subs |-> IF i = 1 THEN 1 ELSE 2]
FullDup == [i \in Subs |-> IF i = MaxSubs THEN "supersede" ELSE "skip"]

SamePrio == [i \in Subs |-> 1]
SecondUrgent == [i \in Subs |-> IF i = 2 THEN 0 ELSE 1]
TwoUrgent == [i \in Subs |-> IF i = 1 THEN 2 ELSE 0]
LastUrgent == [i \in Subs |-> IF i = MaxSubs THEN 0 ELSE 1]

AllSkip == [i \in Subs |-> "skip"]
LastRejects == [i \in Subs |-> IF i = MaxSubs THEN "reject" ELSE "skip"]
AllSupersede == [i \in Subs |-> "supersede"]

============================================================================
