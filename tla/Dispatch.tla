------------------------------- MODULE Dispatch -------------------------------
(***************************************************************************)
(* Which pending task runs next (scheduler/run_loop.rs, gate.rs, fair.rs,  *)
(* rate_limit.rs, aging.rs, control.rs): the three ways through a dispatch *)
(* pass - popping batches, peeking and asking the gate, weighted fair      *)
(* dispatch in three passes - while tasks arrive, end, age, expire and are *)
(* cancelled, and while limits, weights and rates are changed at run time. *)
(*                                                                         *)
(* A task here is only its place in the queue: TaskExecution has what      *)
(* happens between the claim of a row and its end, and the active map and  *)
(* the running rows are one set.  Group pauses are in PauseState: no group *)
(* is paused in this module.                                               *)
(***************************************************************************)
EXTENDS FairShares, FiniteSets

CONSTANTS
    Tasks,        \* row ids
    GroupOf,      \* row -> group, NoGroup for none
    TypeOf,       \* row -> task type; every type is a module of its own
    PriorityOf,   \* row -> priority, lower is more urgent
    IoOf,         \* row -> expected IO, by channel
    Groups, Types, NoGroup, NoTask,
    Names,        \* the groups and NoGroup in the order of their names
    Ceiling,      \* max_effective_priority; Unlimited if aging is off
    Urgent,       \* urgent_threshold; Unlimited if there is none
    Throughput,   \* channel -> the observed IO per second; 0 if nothing is known
    Scenarios     \* [conf, queued, budget]: the configuration built, the tasks in
                  \* the store, and how often what happens from outside

Events == {"arrivals", "cancels", "lapses", "ages", "pressures", "max", "limit", "weight",
           "minimum", "rate", "cap", "removals"}

ASSUME ScenariosAssumption ==
    \A s \in Scenarios : s.queued \subseteq Tasks /\ s.budget \in [Events -> Nat]

VARIABLES
    task,     \* row -> [st, deferred, aged, lapsed]
    conf,     \* the limits, weights, rates and flags in force
    tokens,   \* scope -> tokens in the bucket
    pressure, \* the aggregate pressure, per cent
    restore,  \* maybe_restore_fast_dispatch: none, checking or storing
    loop,     \* the run loop
    seen,     \* the limits in force since the pass began (history variable)
    raced,    \* a setter came between the check and the store of a restore
    budget

vars == <<task, conf, tokens, pressure, restore, loop, seen, raced, budget>>

GroupKeys == Groups \cup {NoGroup}
Scopes == Types \cup Groups

NoLoop == [pc |-> "idle", pass |-> "none", group |-> NoGroup, todo |-> {}, iter |-> 0,
           alloc |-> [g \in GroupKeys |-> 0], running |-> [g \in GroupKeys |-> 0],
           dispatched |-> 0, max |-> 0, expired |-> {}, cand |-> NoTask]

Limits == Nat \cup {Unlimited}

\* The states the variables range over.
TypeOK ==
    /\ task \in [Tasks -> [st : {"new", "pending", "running", "ended"}, deferred : BOOLEAN,
                           aged : BOOLEAN, lapsed : BOOLEAN]]
    /\ conf.max \in Nat /\ conf.fast \in BOOLEAN /\ conf.monitored \in BOOLEAN
    /\ \A g \in Groups : {conf.limit[g], conf.weight[g], conf.minimum[g]} \subseteq Limits
    /\ \A s \in Scopes : /\ conf.bucket[s] \in Limits
                         /\ tokens[s] \in Nat
                         /\ conf.bucket[s] # Unlimited => tokens[s] <= conf.bucket[s]
    /\ pressure \in {0, 60, 80}
    /\ restore \in {"none", "checking", "storing"}
    /\ loop.pc \in {"idle", "swept", "pop", "popping", "demand", "pending", "group", "peek", "gate", "claim"}
    /\ loop.pass \in {"none", "slow", "fair", "greedy", "urgent"}
    /\ loop.pc \in {"gate", "claim"} <=> loop.cand # NoTask
    /\ loop.expired \subseteq Tasks
    /\ raced \in BOOLEAN

-----------------------------------------------------------------------------
(* Configuration *)

is_configured(c) == \E g \in Groups : c.weight[g] # Unlimited \/ c.minimum[g] # Unlimited

\* The conditions of build() and of maybe_restore_fast_dispatch.
MayBeFast(c) ==
    /\ c.defaultLimit = 0 /\ \A g \in Groups : c.limit[g] = Unlimited
    /\ ~c.monitored
    /\ \A m \in Types : c.cap[m] = Unlimited
    /\ \A s \in Scopes : c.bucket[s] = Unlimited
    /\ ~is_configured(c)

\* What compute_allocation and the gate see of a configuration.
LimitOf(c, g) == IF g = NoGroup THEN Unlimited ELSE limit_for(c.limit, c.defaultLimit, g)
WeightOf(c, g) ==
    IF g = NoGroup THEN c.defaultWeight ELSE weight_for(c.weight, c.defaultWeight, g)
MinimumOf(c, g) == IF g = NoGroup \/ c.minimum[g] = Unlimited THEN 0 ELSE c.minimum[g]

Running == {t \in Tasks : task[t].st = "running"}
InGroup(S, g) == {t \in S : GroupOf[t] = g}
InModule(S, m) == {t \in S : TypeOf[t] = m}

NewTask == [st |-> "new", deferred |-> FALSE, aged |-> FALSE, lapsed |-> FALSE]

Init ==
    /\ \E sc \in Scenarios :
        /\ task = [t \in Tasks |-> IF t \in sc.queued THEN [NewTask EXCEPT !.st = "pending"]
                                   ELSE NewTask]
        /\ conf = [sc.conf EXCEPT !.fast = MayBeFast(sc.conf)]
        /\ tokens = [s \in Scopes |-> IF sc.conf.bucket[s] = Unlimited THEN 0
                                      ELSE sc.conf.bucket[s]]
        /\ budget = sc.budget
    /\ pressure = 0
    /\ restore = "none" /\ raced = FALSE
    /\ loop = NoLoop
    /\ seen = {}

-----------------------------------------------------------------------------
(* The queue *)

\* The priority dispatch goes by (aging.rs and the ORDER BY of the queries):
\* the base less a promotion for every interval waited, but never more urgent
\* than the ceiling, not even if the base is.  A task ages once here, by as
\* much as the ceiling allows.
effective_priority(t) ==
    CASE Ceiling = Unlimited -> PriorityOf[t]
      [] Ceiling # Unlimited /\ task[t].aged -> Ceiling
      [] OTHER -> IF PriorityOf[t] > Ceiling THEN PriorityOf[t] ELSE Ceiling

Eligible == {t \in Tasks : task[t].st = "pending" /\ ~task[t].deferred}

\* ORDER BY priority, id.
Before(s, t) ==
    \/ effective_priority(s) < effective_priority(t)
    \/ effective_priority(s) = effective_priority(t) /\ s < t

First(S) == CHOOSE t \in S : \A s \in S \ {t} : Before(t, s)

\* peek_next_in_group, and peek_next_ungrouped for NoGroup.
peek_next_in_group(g) == InGroup(Eligible, g)

peek_next_urgent == {t \in Eligible : effective_priority(t) <= Urgent}

\* The tasks the query of a pass looks at.
Candidates ==
    CASE loop.pass = "fair"   -> peek_next_in_group(loop.group)
      [] loop.pass = "urgent" -> peek_next_urgent
      [] OTHER                -> Eligible

set_run_after(t) == task' = [task EXCEPT ![t].deferred = @ \/ task[t].st = "pending"]

expire_single(t) == task' = [task EXCEPT ![t].st = "ended"]

-----------------------------------------------------------------------------
(* The gate *)

\* ThrottlePolicy::default_three_tier.
Thresholds == {[from |-> 192, above |-> 50], [from |-> 128, above |-> 75]}

should_throttle(t) ==
    \E r \in Thresholds : PriorityOf[t] >= r.from /\ pressure > r.above

Disk == {"read", "write"}
Net == {"rx", "tx"}

\* The IO expected of the running tasks.
running_io_totals(ch) == Total([t \in Tasks |-> IoOf[t][ch]], Running)

\* With this task it stays within 80 per cent of two seconds of throughput.
WithinBudget(t, ch) ==
    Throughput[ch] = 0 \/ 10 * (running_io_totals(ch) + IoOf[t][ch]) <= 16 * Throughput[ch]

has_io_headroom(t) ==
    conf.monitored /\ (\E ch \in Disk : Throughput[ch] > 0) =>
        \A ch \in Disk : WithinBudget(t, ch)

\* A task without network IO is not asked.
has_net_io_headroom(t) ==
    /\ \E ch \in Net : IoOf[t][ch] > 0
    /\ conf.monitored /\ \E ch \in Net : Throughput[ch] > 0
    => \A ch \in Net : WithinBudget(t, ch)

\* The wrong checks: one task more than the limit of the group.
DeniedLate(t) ==
    \/ should_throttle(t)
    \/ ~has_io_headroom(t) \/ ~has_net_io_headroom(t)
    \/ /\ loop.pass # "fair" /\ LimitOf(conf, GroupOf[t]) # Unlimited
       /\ Cardinality(InGroup(Running, GroupOf[t])) > LimitOf(conf, GroupOf[t])
    \/ /\ conf.cap[TypeOf[t]] # Unlimited
       /\ Cardinality(InModule(Running, TypeOf[t])) >= conf.cap[TypeOf[t]]

\* The checks that use nothing up.  The first pass of fair dispatch leaves
\* the group's limit to the allocation.
Denied(t) ==
    \/ should_throttle(t)
    \/ ~has_io_headroom(t) \/ ~has_net_io_headroom(t)
    \/ /\ loop.pass # "fair" /\ LimitOf(conf, GroupOf[t]) # Unlimited
       /\ Cardinality(InGroup(Running, GroupOf[t])) >= LimitOf(conf, GroupOf[t])
    \/ /\ conf.cap[TypeOf[t]] # Unlimited
       /\ Cardinality(InModule(Running, TypeOf[t])) >= conf.cap[TypeOf[t]]

\* RateLimits::try_acquire.
Limited(s) == s \in Scopes /\ conf.bucket[s] # Unlimited /\ tokens[s] = 0
Acquired(s) == IF s \in Scopes /\ conf.bucket[s] # Unlimited
               THEN [tokens EXCEPT ![s] = @ - 1] ELSE tokens

-----------------------------------------------------------------------------
(* The run loop *)

\* A query of loop.pass follows.
Peeking == [loop EXCEPT !.pc = "peek", !.cand = NoTask]

\* An iteration of loop.pass is used up; the slow path has no count.
NextIteration == IF loop.pass = "slow" THEN Peeking ELSE [Peeking EXCEPT !.iter = @ - 1]

\* The wrong end: the last pass does not count what is running.
EndOfPassUncounted ==
    CASE loop.pass = "fair" -> [loop EXCEPT !.pc = "group", !.cand = NoTask]
      [] loop.pass = "greedy" /\ Urgent # Unlimited ->
            [Peeking EXCEPT !.pass = "urgent", !.iter = loop.max]
      [] OTHER -> NoLoop

\* Pass 2: what is left, by priority.  A task started in pass 1 is counted
\* twice, in the active map and in "dispatched".
GreedyFill ==
    [Peeking EXCEPT !.pass = "greedy", !.group = NoGroup,
                    !.iter = Less(loop.max, Cardinality(Running) + loop.dispatched)]

\* Pass 3: dispatch_urgent with the slots that are free now.
dispatch_urgent ==
    [Peeking EXCEPT !.pass = "urgent", !.iter = Less(loop.max, Cardinality(Running))]

\* The pass, or the turn of the group, is over.
EndOfPass ==
    CASE loop.pass = "fair" -> [loop EXCEPT !.pc = "group", !.cand = NoTask]
      [] loop.pass = "greedy" /\ Urgent # Unlimited -> dispatch_urgent
      [] OTHER -> NoLoop

Lapsed == {t \in Tasks : task[t].st = "pending" /\ task[t].lapsed}

\* maybe_expire_tasks: in some cycles, before dispatching.
maybe_expire_tasks ==
    /\ loop.pc = "idle"
    /\ task' = [t \in Tasks |-> IF t \in Lapsed THEN [task[t] EXCEPT !.st = "ended"]
                                ELSE task[t]]
    /\ loop' = [loop EXCEPT !.pc = "swept"]
    /\ UNCHANGED <<conf, tokens, pressure, restore, seen, raced, budget>>

\* dispatch_pending: what is configured decides on the way.  dispatch_fair
\* tells what is expired by the time at which it starts.
dispatch_pending ==
    /\ loop.pc \in {"idle", "swept"}
    /\ seen' = {conf}
    /\ loop' = CASE is_configured(conf) /\ Cardinality(Running) >= conf.max -> NoLoop
                 [] is_configured(conf) /\ Cardinality(Running) < conf.max ->
                        [loop EXCEPT !.pc = "demand", !.pass = "fair", !.max = conf.max,
                                     !.expired = Lapsed]
                 [] ~is_configured(conf) /\ conf.fast -> [loop EXCEPT !.pc = "pop"]
                 [] OTHER -> [loop EXCEPT !.pc = "peek", !.pass = "slow"]
    /\ UNCHANGED <<task, conf, tokens, pressure, restore, raced, budget>>

\* The wrong count: one slot too few.
CountSlotsShort ==
    /\ loop.pc = "pop" \/ (loop.pc = "peek" /\ loop.pass = "slow" /\ conf.fast)
    /\ LET room == Less(conf.max, Cardinality(Running) + 1)
       IN  loop' = IF room = 0 THEN NoLoop
                   ELSE [loop EXCEPT !.pc = "popping", !.max = conf.max,
                                     !.iter = IF loop.pc = "pop" THEN room ELSE 1]
    /\ UNCHANGED <<task, conf, tokens, pressure, restore, seen, raced, budget>>

\* The fast path counts the free slots: all of them for a batch, one when
\* try_dispatch, on the slow path, finds that the fast path is on meanwhile.
CountSlots ==
    /\ loop.pc = "pop" \/ (loop.pc = "peek" /\ loop.pass = "slow" /\ conf.fast)
    /\ LET room == Less(conf.max, Cardinality(Running))
       IN  loop' = IF room = 0 THEN NoLoop
                   ELSE [loop EXCEPT !.pc = "popping", !.max = conf.max,
                                     !.iter = IF loop.pc = "pop" THEN room ELSE 1]
    /\ UNCHANGED <<task, conf, tokens, pressure, restore, seen, raced, budget>>

\* pop_next for one, pop_next_batch for n: the first that are not expired, in
\* one statement.
FirstOpen(n) ==
    LET open == {t \in Eligible : ~task[t].lapsed}
    IN  {t \in open : Cardinality({s \in open : Before(s, t)}) < n}

pop_next_batch ==
    LET popped == FirstOpen(loop.iter)
    IN  /\ loop.pc = "popping"
        /\ task' = [t \in Tasks |-> IF t \in popped THEN [task[t] EXCEPT !.st = "running"]
                                    ELSE task[t]]
        /\ loop' = IF popped = {} THEN NoLoop
                   ELSE [loop EXCEPT !.iter = 0,
                                     !.pc = IF loop.pass = "slow" THEN "peek" ELSE "pop"]
        /\ UNCHANGED <<conf, tokens, pressure, restore, seen, raced, budget>>

\* dispatch_fair gathers the demand, in two queries, and allocates.
running_counts_per_group ==
    /\ loop.pc = "demand"
    /\ loop' = [loop EXCEPT !.pc = "pending",
                   !.running = [g \in GroupKeys |-> Cardinality(InGroup(Running, g))]]
    /\ UNCHANGED <<task, conf, tokens, pressure, restore, seen, raced, budget>>

merge_demand == [g \in GroupKeys |-> loop.running[g] + Cardinality(InGroup(Eligible, g))]

Allocate ==
    /\ loop.pc = "pending"
    /\ LET demand == merge_demand
           S == {g \in GroupKeys : demand[g] > 0}
       IN  \E order \in SetToSeqs(S) :
            loop' = [loop EXCEPT !.pc = "group", !.todo = S,
                       !.alloc = compute_allocation(loop.max, order, Names, demand,
                                     [g \in GroupKeys |-> MinimumOf(conf, g)],
                                     [g \in GroupKeys |-> WeightOf(conf, g)],
                                     [g \in GroupKeys |-> LimitOf(conf, g)])]
    /\ UNCHANGED <<task, conf, tokens, pressure, restore, seen, raced, budget>>

\* Pass 1 takes the groups one after the other, pass 2 starts when all had
\* their turn.
NextGroup ==
    /\ loop.pc = "group"
    /\ \/ \E g \in loop.todo :
            loop' = [Peeking EXCEPT !.group = g, !.todo = @ \ {g},
                                    !.iter = Less(loop.alloc[g], loop.running[g])]
       \/ loop.todo = {} /\ loop' = GreedyFill
    /\ UNCHANGED <<task, conf, tokens, pressure, restore, seen, raced, budget>>

\* Whether the pass may not look for another task.
NoSlot ==
    CASE loop.pass = "slow" -> Cardinality(Running) >= conf.max
      [] loop.pass = "fair" ->
            loop.iter = 0 \/ Cardinality(Running) + loop.dispatched >= loop.max
      [] OTHER              -> loop.iter = 0

\* The query of the pass; an expired candidate is moved to history and the
\* next one looked for.
Peek ==
    /\ loop.pc = "peek" /\ ~(loop.pass = "slow" /\ conf.fast)
    /\ \/ /\ NoSlot \/ Candidates = {}
          /\ loop' = EndOfPass
          /\ UNCHANGED task
       \/ /\ ~NoSlot /\ Candidates # {}
          /\ LET t == First(Candidates)
             IN  IF IF loop.pass \in {"fair", "greedy"} THEN t \in loop.expired
                    ELSE task[t].lapsed
                 THEN /\ expire_single(t)
                      /\ loop' = NextIteration
                 ELSE /\ loop' = [loop EXCEPT !.pc = "gate", !.cand = t,
                                     !.max = IF loop.pass = "slow" THEN conf.max ELSE @]
                      /\ UNCHANGED task
    /\ UNCHANGED <<conf, tokens, pressure, restore, seen, raced, budget>>

\* DefaultDispatchGate::admit.  The token of the type is gone even if the
\* group has none.
Admit ==
    LET t == loop.cand
        g == GroupOf[t]
    IN  /\ loop.pc = "gate"
        /\ IF Denied(t)
           THEN loop' = EndOfPass /\ UNCHANGED <<task, tokens>>
           ELSE IF Limited(TypeOf[t]) \/ Limited(g)
           THEN /\ tokens' = IF Limited(TypeOf[t]) THEN tokens ELSE Acquired(TypeOf[t])
                /\ set_run_after(t)
                /\ loop' = NextIteration
           ELSE /\ tokens' = [s \in Scopes |->
                                CASE s = TypeOf[t] -> Acquired(TypeOf[t])[s]
                                  [] s = g         -> Acquired(g)[s]
                                  [] OTHER         -> tokens[s]]
                /\ loop' = [loop EXCEPT !.pc = "claim"]
                /\ UNCHANGED task
        /\ UNCHANGED <<conf, pressure, restore, seen, raced, budget>>

\* claim_task: the row may have gone since it was peeked at.  The slow path
\* then ends its pass.
claim_task ==
    LET t == loop.cand
    IN  /\ loop.pc = "claim"
        /\ IF task[t].st = "pending"
           THEN /\ task' = [task EXCEPT ![t].st = "running"]
                /\ loop' = [NextIteration EXCEPT !.dispatched =
                               IF loop.pass = "fair" THEN @ + 1 ELSE @]
           ELSE /\ loop' = IF loop.pass = "slow" THEN NoLoop ELSE NextIteration
                /\ UNCHANGED task
        /\ UNCHANGED <<conf, tokens, pressure, restore, seen, raced, budget>>

LoopStep ==
    \/ maybe_expire_tasks \/ dispatch_pending \/ CountSlots \/ pop_next_batch
    \/ running_counts_per_group \/ NextGroup \/ Peek \/ Admit \/ claim_task

-----------------------------------------------------------------------------
(* Tasks, time and pressure *)

Spend(e) ==
    /\ budget[e] > 0
    /\ budget' = [budget EXCEPT ![e] = @ - 1]

Arrive(t) ==
    /\ task[t].st = "new" /\ Spend("arrivals")
    /\ task' = [task EXCEPT ![t].st = "pending"]
    /\ UNCHANGED <<conf, tokens, pressure, restore, loop, seen, raced>>

\* A pending task is cancelled.
Cancel(t) ==
    /\ task[t].st = "pending" /\ Spend("cancels")
    /\ task' = [task EXCEPT ![t].st = "ended"]
    /\ UNCHANGED <<conf, tokens, pressure, restore, loop, seen, raced>>

\* A running task ends.
End(t) ==
    /\ task[t].st = "running"
    /\ task' = [task EXCEPT ![t] = [NewTask EXCEPT !.st = "ended"]]
    /\ UNCHANGED <<conf, tokens, pressure, restore, loop, seen, raced, budget>>

Lapse(t) ==
    /\ task[t].st = "pending" /\ ~task[t].lapsed /\ Spend("lapses")
    /\ task' = [task EXCEPT ![t].lapsed = TRUE]
    /\ UNCHANGED <<conf, tokens, pressure, restore, loop, seen, raced>>

Age(t) ==
    /\ task[t].st = "pending" /\ ~task[t].aged /\ Ceiling # Unlimited /\ Spend("ages")
    /\ task' = [task EXCEPT ![t].aged = TRUE]
    /\ UNCHANGED <<conf, tokens, pressure, restore, loop, seen, raced>>

\* run_after passes.
Due(t) ==
    /\ task[t].deferred
    /\ task' = [task EXCEPT ![t].deferred = FALSE]
    /\ UNCHANGED <<conf, tokens, pressure, restore, loop, seen, raced, budget>>

\* The bucket gains a token (TokenBucket::refill).
Refill(s) ==
    /\ conf.bucket[s] # Unlimited /\ tokens[s] < conf.bucket[s]
    /\ tokens' = [tokens EXCEPT ![s] = @ + 1]
    /\ UNCHANGED <<task, conf, pressure, restore, loop, seen, raced, budget>>

\* The sources of pressure report something else.
Press(p) ==
    /\ conf.monitored /\ p # pressure /\ Spend("pressures")
    /\ pressure' = p
    /\ UNCHANGED <<task, conf, tokens, restore, loop, seen, raced>>

-----------------------------------------------------------------------------
(* Control at run time *)

\* A change of the configuration is a limit seen by the pass that is on; it
\* may come while a restore has checked and not yet stored.
Configure(c) ==
    /\ conf' = c
    /\ seen' = seen \cup {c}
    /\ raced' = (raced \/ (restore = "storing" /\ ~MayBeFast(c)))
    /\ UNCHANGED <<task, pressure, loop>>

set_max_concurrency(n) ==
    /\ n # conf.max /\ Spend("max")
    /\ Configure([conf EXCEPT !.max = n])
    /\ UNCHANGED <<tokens, restore>>

\* The limits of groups and modules do not touch fast_dispatch.
set_group_limit(g, n) ==
    /\ n # conf.limit[g] /\ Spend("limit")
    /\ Configure([conf EXCEPT !.limit[g] = n])
    /\ UNCHANGED <<tokens, restore>>

set_default_group_concurrency(n) ==
    /\ n # conf.defaultLimit /\ Spend("limit")
    /\ Configure([conf EXCEPT !.defaultLimit = n])
    /\ UNCHANGED <<tokens, restore>>

set_module_concurrency(m, n) ==
    /\ n # conf.cap[m] /\ Spend("cap")
    /\ Configure([conf EXCEPT !.cap[m] = IF n = 0 THEN Unlimited ELSE n])
    /\ UNCHANGED <<tokens, restore>>

\* The wrong set_group_weight: the fast path stays on.
SetWeightOnly(g, w) ==
    /\ w # conf.weight[g] /\ Spend("weight")
    /\ Configure([conf EXCEPT !.weight[g] = w])
    /\ UNCHANGED <<tokens, restore>>

set_group_weight(g, w) ==
    /\ w # conf.weight[g] /\ Spend("weight")
    /\ Configure([conf EXCEPT !.weight[g] = w, !.fast = FALSE])
    /\ UNCHANGED <<tokens, restore>>

set_group_minimum_slots(g, n) ==
    /\ n # conf.minimum[g] /\ Spend("minimum")
    /\ Configure([conf EXCEPT !.minimum[g] = n, !.fast = FALSE])
    /\ UNCHANGED <<tokens, restore>>

reconfigure(available, burst) == Least(available, burst)

\* set_rate_limit and set_group_rate_limit: a new bucket is full, one that
\* exists keeps what it holds, up to the new burst.
set_rate_limit(s, b) ==
    /\ b # conf.bucket[s] /\ Spend("rate")
    /\ Configure([conf EXCEPT !.bucket[s] = b, !.fast = FALSE])
    /\ tokens' = [tokens EXCEPT ![s] = IF conf.bucket[s] = Unlimited THEN b
                                       ELSE reconfigure(@, b)]
    /\ UNCHANGED restore

\* What is removed may leave nothing the gate is needed for.  One removal is
\* under way at a time.
Withdraw(c) ==
    /\ restore = "none" /\ Spend("removals")
    /\ Configure(c)
    /\ restore' = "checking"

remove_group_weight(g) == Withdraw([conf EXCEPT !.weight[g] = Unlimited]) /\ UNCHANGED tokens

reset_group_weights ==
    /\ Withdraw([conf EXCEPT !.weight = [g \in Groups |-> Unlimited],
                           !.minimum = [g \in Groups |-> Unlimited], !.defaultWeight = 1])
    /\ UNCHANGED tokens

remove_rate_limit(s) ==
    /\ Withdraw([conf EXCEPT !.bucket[s] = Unlimited])
    /\ tokens' = [tokens EXCEPT ![s] = 0]

\* remove_group_limit does not look whether fast dispatch is possible again.
remove_group_limit(g) ==
    /\ conf.limit[g] # Unlimited /\ Spend("removals")
    /\ Configure([conf EXCEPT !.limit[g] = Unlimited])
    /\ UNCHANGED <<tokens, restore>>

\* maybe_restore_fast_dispatch: the conditions, then the store.
CheckRestore ==
    /\ restore = "checking"
    /\ restore' = IF MayBeFast(conf) THEN "storing" ELSE "none"
    /\ UNCHANGED <<task, conf, tokens, pressure, loop, seen, raced, budget>>

StoreRestore ==
    /\ restore = "storing"
    /\ conf' = [conf EXCEPT !.fast = TRUE]
    /\ restore' = "none"
    /\ UNCHANGED <<task, tokens, pressure, loop, seen, raced, budget>>

\* The values set; zero takes a default limit or a cap away.
Settings == 1..2

Control ==
    \/ \E n \in Settings :
        \/ set_max_concurrency(n)
        \/ \E g \in Groups : \/ set_group_limit(g, n) \/ set_group_weight(g, n)
                             \/ set_group_minimum_slots(g, n)
        \/ \E s \in Scopes : set_rate_limit(s, n)
    \/ \E n \in Settings \cup {0} :
        \/ set_default_group_concurrency(n)
        \/ \E m \in Types : set_module_concurrency(m, n)
    \/ \E g \in Groups : remove_group_weight(g) \/ remove_group_limit(g)
    \/ \E s \in Scopes : remove_rate_limit(s)
    \/ reset_group_weights
    \/ CheckRestore \/ StoreRestore

Environment(t) == Arrive(t) \/ Cancel(t) \/ End(t) \/ Lapse(t) \/ Age(t) \/ Due(t)

Next ==
    \/ LoopStep \/ Allocate
    \/ \E t \in Tasks : Environment(t)
    \/ \E s \in Scopes : Refill(s)
    \/ \E p \in {0, 60, 80} : Press(p)
    \/ Control

\* The loop polls on its own timer and sweeps when the interval has passed;
\* running tasks end, time passes.  Weak fairness of Allocate, the only step
\* from "pending", is that the loop does not stay there.
Fairness ==
    /\ WF_vars(LoopStep) /\ []<>(loop.pc # "pending") /\ SF_vars(maybe_expire_tasks)
    /\ \A t \in Tasks : WF_vars(End(t) \/ Due(t))
    /\ \A s \in Scopes : WF_vars(Refill(s))

Spec == Init /\ [][Next]_vars /\ Fairness

-----------------------------------------------------------------------------
(* Properties *)

\* The gate is skipped only while nothing is configured that needs it, as the
\* builder decides it and every later change of weights and rates keeps it up;
\* limits set at run time are left out, which do not switch the gate on, and
\* changes that fall between the check and the store of a restore.
FastIsJustified ==
    conf.fast =>
        \/ raced
        \/ MayBeFast([conf EXCEPT !.limit = [g \in Groups |-> Unlimited], !.defaultLimit = 0,
                                  !.cap = [m \in Types |-> Unlimited]])

\* No pass, fast, slow or fair, starts a task beyond the concurrency that was
\* in force when it last looked, or is now.
StartsWithinMax ==
    [][Cardinality(Running') > Cardinality(Running) =>
         Cardinality(Running') <= conf.max \/ Cardinality(Running') <= loop.max]_vars

\* A start never takes a group or a module over the loosest limit in force
\* since the pass began, although the allocation is computed from counts that
\* are old by then and the first fair pass does not ask the gate; a group with
\* a guaranteed minimum above its limit is left out.
StartsWithinLimits ==
    [][/\ \A g \in Groups :
            LET n == Cardinality(InGroup(Running', g))
            IN  n > Cardinality(InGroup(Running, g)) =>
                   \E c \in seen : \/ LimitOf(c, g) = Unlimited
                                   \/ n <= LimitOf(c, g)
                                   \/ \E d \in seen : MinimumOf(d, g) > LimitOf(c, g)
       /\ \A m \in Types :
            LET n == Cardinality(InModule(Running', m))
            IN  n > Cardinality(InModule(Running, m)) =>
                   \E c \in seen : c.cap[m] = Unlimited \/ n <= c.cap[m]]_vars

\* A pending task is dispatched in the end, whatever its group, weight and
\* rate, unless pressure is reported for good.
PendingIsDispatched ==
    \A t \in Tasks : (task[t].st = "pending") ~> (task[t].st # "pending" \/ pressure > 0)
=============================================================================
