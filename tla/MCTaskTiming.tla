---------------------------- MODULE MCTaskTiming ----------------------------
(* Scenarios of TaskTiming for TLC. *)
EXTENDS TaskTiming

Task(name, priority, ttl, from, tag) ==
    [type |-> <<name>>, key |-> Unset, label |-> Unset, priority |-> priority,
     group |-> Unset, ttl |-> ttl, ttl_from |-> from, run_after |-> Unset,
     tags |-> [k \in TagKeys |-> tag]]

Module(on) ==
    [name |-> "m", priority |-> IF on THEN 100 ELSE Unset,
     group |-> IF on THEN "mg" ELSE Unset, ttl |-> IF on THEN 10 ELSE Unset,
     tags |-> [k \in TagKeys |-> IF on THEN "m" ELSE Unset]]

Over(on, parent) ==
    [NoOverrides EXCEPT
        !.priority = IF on THEN 90 ELSE Unset, !.group = IF on THEN "og" ELSE Unset,
        !.ttl = IF on THEN 12 ELSE Unset, !.key = IF on THEN <<"k">> ELSE Unset,
        !.tags = [k \in TagKeys |-> IF on THEN "o" ELSE Unset],
        !.parent = IF parent THEN Parent ELSE Unset]

Plain(task) ==
    [way |-> "domain", task |-> task, over |-> NoOverrides,
     module |-> Module(FALSE), type_ttl |-> Unset, default_ttl |-> Unset,
     strategy |-> Unset, retry_after |-> Unset, max_retries |-> 0]

Budget(submits, ticks, pauses, crashes, deferrals, revivals) ==
    [submits |-> submits, ticks |-> ticks, pauses |-> pauses, crashes |-> crashes,
     deferrals |-> deferrals, revivals |-> revivals]

Aging(interval) == [grace |-> 1, interval |-> interval, floor |-> 64]

Scenario(parent, other, aging, step, limits) ==
    [who |-> [r \in Rows |-> IF r = Parent THEN parent ELSE other],
     aging |-> aging, step |-> step, token_wait |-> 1, budget |-> limits]

(* Every way to submit under every mix of layers, at one moment. *)
Layered ==
    LET parent == Plain(Task("p", 120, 7, "submission", "p"))
        other(way, call, own, module, type, default, under) ==
            [Plain(Task("c", IF own THEN 80 ELSE Unset, IF own THEN 14 ELSE Unset,
                        Unset, IF own THEN "c" ELSE Unset)) EXCEPT
                !.way = way, !.over = Over(call, under), !.module = Module(module),
                !.type_ttl = IF type THEN 16 ELSE Unset,
                !.default_ttl = IF default THEN 18 ELSE Unset]
    IN  {Scenario(parent, other(way, call, own, module, type, default, under),
                  Aging(1), 3, Budget(2, 1, 0, 0, 0, 0)) :
            way \in Ways, call \in BOOLEAN, own \in BOOLEAN,
            module \in BOOLEAN, type \in BOOLEAN, default \in BOOLEAN,
            under \in BOOLEAN}

Strategy(kind) == [kind |-> kind, initial |-> 1, increment |-> 2, max |-> 3]

(* A parent that retries and is paused, and a child with what is left. *)
Retrying(kind) ==
    Scenario([Plain(Task("p", 130, 4, "submission", Unset)) EXCEPT
                  !.strategy = Strategy(kind), !.max_retries = 2],
             [Plain(Task("c", Unset, Unset, Unset, Unset)) EXCEPT !.way = "child"],
             Unset, 1, Budget(1, 5, 1, 1, 1, 0))

FirstAttempt ==
    Scenario([Plain(Task("p", 130, 4, "first_attempt", Unset)) EXCEPT
                  !.strategy = Strategy("constant"), !.max_retries = 1],
             [Plain(Task("c", Unset, Unset, Unset, Unset)) EXCEPT
                  !.way = "child"],
             Unset, 1, Budget(2, 4, 0, 1, 0, 1))

(* Two rows that age, one of them paused for two reasons. *)
Waiting(step, limits) ==
    Scenario(Plain(Task("p", 129, Unset, Unset, Unset)),
             Plain(Task("c", 128, Unset, Unset, Unset)),
             Aging(1), step, limits)

Lived ==
    {Retrying(kind) : kind \in {"linear", "exponential", "jitter"}}
        \cup {FirstAttempt,
              Waiting(1, Budget(2, 3, 2, 1, 0, 0)),
              Waiting(130, Budget(2, 2, 1, 0, 0, 0)),
              [Retrying("constant") EXCEPT !.who[Parent].retry_after = 2]}

AllScenarios == Layered \cup Lived
OnlyFirstAttempt == {FirstAttempt}

=============================================================================
