------------------------------ MODULE MCDispatch ------------------------------
(***************************************************************************)
(* Instances of Dispatch for TLC: three tasks, two of one group, of two    *)
(* types, two slots, scenarios that each stir one part of the system.      *)
(***************************************************************************)
EXTENDS Dispatch, TLC

CONSTANTS g1, none, ty1, ty2

MCTasks == 1..3
MCGroups == {g1}
MCTypes == {ty1, ty2}
MCNames == <<none, g1>>

\* Two tasks of one group, which together read more than the budget allows;
\* the third, of no group, is of the lowest priority.
MCGroupOf == <<g1, g1, none>>
MCTypeOf == <<ty1, ty2, ty2>>
MCPriorityOf == <<128, 64, 192>>
Io(read, rx) == [ch \in Disk \cup Net |-> CASE ch = "read" -> read [] ch = "rx" -> rx
                                              [] OTHER -> 0]
MCIoOf == <<Io(1, 1), Io(3, 0), Io(0, 1)>>
MCThroughput == Io(2, 1)

Plain ==
    [max |-> 2, limit |-> [g \in MCGroups |-> Unlimited], defaultLimit |-> 0,
     weight |-> [g \in MCGroups |-> Unlimited], defaultWeight |-> 1,
     minimum |-> [g \in MCGroups |-> Unlimited], cap |-> [m \in MCTypes |-> Unlimited],
     bucket |-> [s \in MCGroups \cup MCTypes |-> Unlimited], monitored |-> FALSE, fast |-> FALSE]

Quiet == [e \in Events |-> 0]
Scenario(c, q, b) == [conf |-> c, queued |-> q, budget |-> b @@ Quiet]

Weighted == [Plain EXCEPT !.weight[g1] = 2]
Monitored == [Plain EXCEPT !.monitored = TRUE]
Rated == [Plain EXCEPT !.bucket[ty2] = 2, !.bucket[g1] = 1]
Limited1 == [Plain EXCEPT !.limit[g1] = 1]

MCScenarios == {
    \* what is configured comes and goes, on the fast path at first
    Scenario(Plain, 1..3, [weight |-> 1, removals |-> 1, max |-> 1]),
    Scenario(Plain, 1..2, [rate |-> 1, removals |-> 1, lapses |-> 1]),
    Scenario(Plain, {1}, [weight |-> 1, rate |-> 1, removals |-> 1]),
    \* weights, minimums and limits change during fair dispatch
    Scenario(Weighted, 1..3, [limit |-> 1, max |-> 1]),
    Scenario(Weighted, 1..3, [lapses |-> 1, cancels |-> 1]),
    Scenario([Weighted EXCEPT !.limit[g1] = 1], 1..3, [minimum |-> 1, removals |-> 1]),
    \* the slow path under limits, caps, pressure and rates
    Scenario(Monitored, 1..3, [pressures |-> 1, cap |-> 2, cancels |-> 1]),
    Scenario(Monitored, 1..3, [limit |-> 2, lapses |-> 1]),
    Scenario(Limited1, 1..2, [removals |-> 1, limit |-> 1, arrivals |-> 1, ages |-> 1]),
    Scenario(Rated, 1..2, [rate |-> 1, cancels |-> 1]),
    Scenario([Rated EXCEPT !.weight[g1] = 1], 1..3, Quiet)
}

\* A limit is set for a group while the fast path is on.
LimitScenarios == {Scenario(Plain, {}, [limit |-> 1, arrivals |-> 2])}
=============================================================================
