--------------------------- MODULE MCActiveTasks ----------------------------
(* Scenarios of ActiveTasks for TLC. *)
EXTENDS ActiveTasks

First == CHOOSE t \in Tasks : TRUE

Budget(spawns, reports, bytes, ticks, preempts, stops) ==
    [spawns |-> spawns, reports |-> reports, bytes |-> bytes, ticks |-> ticks,
     preempts |-> preempts, stops |-> stops]

Scenario(ids, mode, retries, avg, gap, limits) ==
    [tasks |-> ids, mode |-> mode, max_retries |-> retries, avg |-> avg,
     gap |-> gap, deltas |-> {2}, marks |-> {1}, totals |-> {3},
     budget |-> limits]

(* Tasks in flight, one of them perhaps being preempted, when the          *)
(* application stops the scheduler.                                        *)
Ending ==
    {Scenario(Tasks, mode, 0, 0, 1, Budget(2, 0, 0, 0, 0, 1)) :
        mode \in {"hard", "graceful"}}

Preempting ==
    {Scenario({First}, mode, 0, 0, 1, Budget(2, 0, 0, 0, 1, 1)) :
        mode \in {"hard", "graceful"}}

(* One task whose bytes are sampled: retried inline, or preempted and      *)
(* dispatched again under the same id.                                     *)
Transfer ==
    {Scenario({First}, "hard", 1, 0, 2, Budget(1, 0, 3, 3, 0, 0)),
     Scenario({First}, "hard", 0, 0, 1, Budget(2, 0, 2, 2, 1, 0))}

(* One task that reports a percentage. *)
Estimate ==
    {Scenario({First}, "hard", 0, avg, 1, Budget(1, 2, 0, 4, 0, 0)) :
        avg \in {0, 3}}

AllScenarios == Ending \cup Preempting \cup Transfer \cup Estimate

=============================================================================
