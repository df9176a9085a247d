---------------------------- MODULE MCPauseState ----------------------------
(* Bounded instances of PauseState. *)
EXTENDS PauseState

Calm(submits, ops) ==
    [ev \in Events |-> CASE ev = "submits" -> submits
                         [] ev = "ops" -> ops
                         [] OTHER -> 0]

One(ev) == [Calm(1, 2) EXCEPT ![ev] = 1]

(* Two control calls with one event of each kind, and two tasks with one. *)
Mixed == {One("retries"), One("schedules"), One("errors"), One("crashes"), Calm(2, 1)}

Plain == {Calm(1, 2)}
=============================================================================
