---------------------------- MODULE MCHierarchy ----------------------------
(* Instances of Hierarchy for TLC.  Either the first task has two           *)
(* descendants, side by side or nested, and nothing goes wrong but failures; *)
(* or it has one, and there is one retry, cancel, expired row or kill.       *)
EXTENDS Hierarchy

Calm == [submits |-> 1, spawns |-> 2, errors |-> 0, cancels |-> 0, expiries |-> 0,
         crashes |-> 0]
One(b) == [Calm EXCEPT !.spawns = 1, ![b] = 1]
Mixed == [failFast : {{}, {1}}, budget : {Calm}]
         \cup [failFast : {{}}, budget : {One(b) : b \in {"errors", "cancels", "expiries", "crashes"}}]
OneChild == {[failFast |-> {}, budget |-> [Calm EXCEPT !.spawns = 1]]}

=============================================================================
