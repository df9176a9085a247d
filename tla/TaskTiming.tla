----------------------------- MODULE TaskTiming -----------------------------
(***************************************************************************)
(* The clocks of a task row: when it was created, when its attempt         *)
(* started, when it expires, from when it may run, and how long it was     *)
(* paused.  Two rows, a parent and another task that may be its child,     *)
(* are submitted in one of the ways of the API, wait, run, fail and are    *)
(* retried with backoff, are paused and resumed, expire, and survive a     *)
(* restart of the process, while time passes.                              *)
(*                                                                         *)
(* A scenario fixes the configuration; times are in ticks.  The statements *)
(* of the store are atomic here; TaskExecution and PauseState interleave   *)
(* them with their callers.                                                *)
(***************************************************************************)
EXTENDS SubmissionLayers, FiniteSets

CONSTANTS
    Parent, Other,     \* the two rows
    Reasons,           \* pause reasons
    Scenarios          \* configurations

Rows == {Parent, Other}

VARIABLES
    scenario,   \* the configuration of this run
    now,        \* the wall clock
    up,         \* is the process running
    row,        \* the rows of the tasks table (status "none": not yet there)
    budget,     \* bounds: how often each kind of event may still happen
    \* History, for the properties only:
    awake,      \* ticks each row spent in the table and not paused
    unclocked,  \* ticks each row spent paused with paused_at_ms NULL
    notBefore,  \* from when the backoff lets each row run again
    lastWait,   \* the backoff of the previous retry of each row
    first,      \* when the first attempt of each row started
    heir,       \* did the row take its TTL from its parent
    promised    \* what the layers allow each field of the row, TTLs in ticks

vars == <<scenario, now, up, row, budget, awake, unclocked, notBefore,
          lastWait, first, heir, promised>>

history == <<awake, unclocked, notBefore, lastWait, first, heir, promised>>

Lesser(a, b) == IF a <= b THEN a ELSE b
Greater(a, b) == IF a >= b THEN a ELSE b

Absent ==
    [status |-> "none", type |-> <<>>, label |-> <<>>, key |-> Unset,
     priority |-> NORMAL, group |-> Unset, tags |-> NoTags, parent |-> Unset,
     ttl |-> Unset, ttl_from |-> "submission", expires |-> Unset,
     run_after |-> Unset, created |-> 0, started |-> Unset, retries |-> 0,
     reasons |-> {}, paused_at |-> Unset, pause_duration |-> 0]

InTable(r) ==
    row[r].status \in {"pending", "running", "paused", "waiting"}

-----------------------------------------------------------------------------
(* Priority aging *)

U8 == 255

(* Rust's integer division of non-negative numbers, and its MAX(0, ...). *)
Promotions(w, aging) ==
    Greater(0, now - w.created - w.pause_duration - aging.grace)
        \div aging.interval

(* Mutant: the count of promotions is cast to u8 before it is capped. *)
EffectiveWrapped(w, aging) ==
    LET promotions == Promotions(w, aging) % (U8 + 1)
    IN  Greater(Greater(0, w.priority - promotions), aging.floor)

(* aging::effective_priority: what events and snapshots show. *)
effective_priority(w, aging) ==
    LET promotions == Lesser(Promotions(w, aging), U8)
    IN  Greater(Greater(0, w.priority - promotions), aging.floor)

(* The ORDER BY expression of the queries that choose the next row. *)
SqlPriority(w, aging) ==
    IF aging = Unset THEN w.priority
    ELSE Greater(w.priority - Promotions(w, aging), aging.floor)

(* TaskRecord::effective_priority *)
Shown(w, aging) ==
    IF aging = Unset THEN w.priority ELSE effective_priority(w, aging)

-----------------------------------------------------------------------------
(* Mutant: the exponent counts from the attempt before. *)
DelayForEarly(s, retry_count) ==
    LET grown == IF retry_count = 0 THEN s.initial \div 2
                 ELSE Lesser(s.initial * 2^(retry_count - 1), s.max)
    IN  CASE s.kind = "constant" -> {s.initial}
          [] s.kind = "linear" ->
                {Lesser(s.initial + s.increment * retry_count, s.max)}
          [] s.kind = "exponential" -> {grown}
          [] s.kind = "jitter" -> 0 .. grown

(* BackoffStrategy::delay_for, as the set of delays it may return; the     *)
(* jitter is uniform over it.                                              *)
delay_for(s, retry_count) ==
    LET grown == Lesser(s.initial * 2^retry_count, s.max)
    IN  CASE s.kind = "constant" -> {s.initial}
          [] s.kind = "linear" ->
                {Lesser(s.initial + s.increment * retry_count, s.max)}
          [] s.kind = "exponential" -> {grown}
          [] s.kind = "jitter" -> 0 .. grown

(* The delay of a retry: what the executor asked for, else the strategy of *)
(* the type's policy, else none.                                           *)
RetryDelays(c, retry_count) ==
    IF c.retry_after # Unset THEN {c.retry_after}
    ELSE IF c.strategy = Unset THEN {0}
    ELSE delay_for(c.strategy, retry_count)

(* Reference: how the least delay of a strategy follows from the last.     *)
NextWait(c, retry_count, last) ==
    LET s == c.strategy
    IN  IF c.retry_after # Unset THEN c.retry_after
        ELSE IF s = Unset \/ s.kind = "jitter" THEN 0
        ELSE IF s.kind = "constant" THEN s.initial
        ELSE IF retry_count = 0 THEN Lesser(s.initial, s.max)
        ELSE IF s.kind = "linear" THEN Lesser(last + s.increment, s.max)
        ELSE Lesser(2 * last, s.max)

-----------------------------------------------------------------------------
(* Ways to submit: the submission that reaches the store. *)

Conf(r) == scenario.who[r]

(* With aging a child is no less urgent than its parent is now. *)
Raised(c) ==
    LET own == Given(c.task.priority, NORMAL)
    IN  IF scenario.aging = Unset THEN own
        ELSE Lesser(effective_priority(row[Parent], scenario.aging), own)

(* ChildSpawnBuilder::submit: overrides become explicit fields. *)
ChildSubmission(c) ==
    LET sub == WithKey(from_typed(c.task, now), c.over.key)
    IN  [sub EXCEPT !.priority = Given(c.over.priority, Raised(c)),
                    !.ttl = Given(c.over.ttl, @),
                    !.group = Given(c.over.group, @)]

NoOverrides ==
    [priority |-> Unset, group |-> Unset, ttl |-> Unset, key |-> Unset,
     run_after |-> Unset, parent |-> Unset, tags |-> NoTags]

(* SubmitBuilder::submit without the last call: resolve the layers, then   *)
(* inherit from the row of .parent(id) if it is still in the table.        *)
BuilderSubmission(sub, typed, c, over) ==
    LET resolved == resolve(sub, typed, c.module, over, now)
    IN  IF over.parent # Unset /\ InTable(over.parent)
        THEN Inherit(resolved, row[over.parent], now)
        ELSE resolved

(* ModuleHandle::submit_batch: the parent is the one of the submissions.   *)
BatchSubmission(sub, c) ==
    LET resolved == resolve(sub, Unset, c.module, NoOverrides, now)
    IN  IF resolved.parent # Unset /\ InTable(resolved.parent)
        THEN Inherit(resolved, row[resolved.parent], now)
        ELSE resolved

Ways == {"domain", "module", "child", "children", "spawner"}
Spawning == {"child", "children", "spawner"}

Submission(c) ==
    LET task == c.task
        prepared(sub) == prepare(sub, Parent, row[Parent], now)
        ready(sub) == resolve_ttl(sub, c.type_ttl, c.default_ttl)
    IN  CASE c.way = "domain" ->
               ready(BuilderSubmission(build_typed_submit_builder(task, now),
                                       TypedDefaults(task), c, c.over))
          [] c.way = "module" ->
               ready(BuilderSubmission(from_typed(task, now), Unset, c, c.over))
          [] c.way = "child" ->
               ready(BuilderSubmission(prepared(ChildSubmission(c)),
                                       Unset, c, NoOverrides))
          [] c.way = "children" ->
               ready(BatchSubmission(prepared(from_typed(task, now)), c))
          [] c.way = "spawner" -> prepared(from_typed(task, now))

(* The INSERT of store/submit: TTL in whole seconds, the deadline exact.   *)
Inserted(sub) ==
    [Absent EXCEPT
        !.status = "pending", !.type = sub.type, !.label = sub.label,
        !.key = sub.key, !.priority = sub.priority, !.group = sub.group,
        !.tags = sub.tags, !.parent = sub.parent,
        !.ttl = IF sub.ttl = Unset THEN Unset ELSE sub.ttl \div Second,
        !.ttl_from = sub.ttl_from,
        !.expires = IF sub.ttl_from = "submission" THEN Later(now, sub.ttl)
                                                   ELSE Unset,
        !.run_after = sub.run_after, !.created = now]

-----------------------------------------------------------------------------
(* Reference: the first layer that sets a field gives its value.  On one   *)
(* pair of layers the documents disagree: submit_builder.rs:11-19 puts the *)
(* defaults of the module before the configuration of the type,            *)
(* docs/configuration.md:153, docs/glossary.md:37 and module.rs:29 after   *)
(* it.  Where both set a field and no other layer decides, either value    *)
(* is allowed here; TypeBeforeModule below is about that case.             *)

Fields == Scalars \cup TagKeys

(* The layers of each way to submit, the most important first. *)
Order(c, f) ==
    IF c.way \in Spawning
    THEN <<"call", "own", "parent", "module", "scheduler">>
    ELSE IF c.way = "domain" /\ f \in Scalars
    THEN <<"call", "module", "own", "parent", "scheduler">>
    ELSE <<"call", "own", "module", "parent", "scheduler">>

(* Where the code cannot tell a field that was set to its zero value from  *)
(* one that was not.                                                       *)
Explicit(v, f) == IF f \in Scalars /\ v = Zero(f) THEN Unset ELSE v

At(layer, f) == IF f \in Scalars THEN layer[f] ELSE layer.tags[f]

Layer(c, l, f) ==
    CASE l = "call" ->
           IF c.way \in {"children", "spawner"} THEN Unset
           ELSE IF c.way # "child" THEN At(c.over, f)
           ELSE IF f \in Scalars THEN Explicit(c.over[f], f) ELSE Unset
      [] l = "own" ->
           IF c.way = "domain" THEN At(c.task, f)
           ELSE IF c.way # "child" \/ f # "priority"
           THEN Explicit(At(c.task, f), f)
           ELSE IF c.over.priority = Unset THEN Explicit(Raised(c), f)
           ELSE Unset
      [] l = "module" ->
           IF c.way = "spawner" THEN Unset ELSE At(c.module, f)
      [] l = "parent" ->
           IF \/ ~(c.way \in Spawning \/ c.over.parent # Unset)
              \/ ~InTable(Parent)
              \/ f \in Scalars \ {"ttl"}
           THEN Unset
           ELSE IF f = "ttl" THEN remaining_ttl(row[Parent], now)
           ELSE row[Parent].tags[f]
      [] l = "scheduler" ->
           IF f = "priority" THEN NORMAL
           ELSE IF f # "ttl" \/ c.way = "spawner" THEN Unset
           ELSE Given(c.type_ttl, c.default_ttl)

Winner(c, f) ==
    LET order == Order(c, f)
        set == {i \in DOMAIN order : Layer(c, order[i], f) # Unset}
    IN  IF set = {} THEN "scheduler"
        ELSE order[CHOOSE i \in set : \A j \in set : i <= j]

(* What the configuration of the type says: in the submission or, for the  *)
(* TTL, in the registry.                                                   *)
TypeSays(c, f) ==
    {Layer(c, "own", f), IF f = "ttl" THEN c.type_ttl ELSE Unset} \ {Unset}

Promise(c) ==
    [f \in Fields |->
        {Layer(c, Winner(c, f), f)}
            \cup IF f \in Scalars /\ Winner(c, f) = "module"
                 THEN TypeSays(c, f) ELSE {}]

-----------------------------------------------------------------------------
Init ==
    /\ scenario \in Scenarios
    /\ now = 0
    /\ up = TRUE
    /\ row = [r \in Rows |-> Absent]
    /\ budget = scenario.budget
    /\ awake = [r \in Rows |-> 0]
    /\ unclocked = [r \in Rows |-> 0]
    /\ notBefore = [r \in Rows |-> 0]
    /\ lastWait = [r \in Rows |-> 0]
    /\ first = [r \in Rows |-> Unset]
    /\ heir = [r \in Rows |-> Unset]
    /\ promised = [r \in Rows |-> [f \in Fields |-> {}]]

(* A row enters the table: its clocks start. *)
Insert(r, sub, promise, heritage) ==
    /\ row' = [row EXCEPT ![r] = Inserted(sub)]
    /\ awake' = [awake EXCEPT ![r] = 0]
    /\ unclocked' = [unclocked EXCEPT ![r] = 0]
    /\ notBefore' = [notBefore EXCEPT ![r] = now]
    /\ lastWait' = [lastWait EXCEPT ![r] = 0]
    /\ first' = [first EXCEPT ![r] = Unset]
    /\ heir' = [heir EXCEPT ![r] = heritage]
    /\ promised' = [promised EXCEPT ![r] = promise]

(* The caller submits; an executor spawns while it runs. *)
Submit(r) ==
    LET c == Conf(r)
        heritage == [deadline |-> row[Parent].expires,
                     restarted |-> /\ row[Parent].ttl_from = "first_attempt"
                                   /\ row[Parent].started # first[Parent]]
    IN  /\ up
        /\ row[r].status = "none"
        /\ budget.submits > 0
        /\ budget' = [budget EXCEPT !.submits = @ - 1]
        /\ c.way \in Spawning => row[Parent].status = "running"
        /\ Insert(r, Submission(c), Promise(c),
                  IF Winner(c, "ttl") = "parent" THEN heritage ELSE Unset)
        /\ UNCHANGED <<scenario, now, up>>

(* Scheduler::retry_dead_letter: a new submission from the history row. *)
retry_dead_letter(r) ==
    LET w == row[r]
        c == Conf(r)
        sub == WithKey(new(w.type), IF w.label # w.type THEN w.label ELSE Unset)
        again == [sub EXCEPT !.priority = w.priority, !.tags = w.tags,
                             !.parent = w.parent, !.group = w.group]
    IN  /\ up
        /\ w.status = "dead"
        /\ budget.revivals > 0
        /\ budget' = [budget EXCEPT !.revivals = @ - 1]
        /\ Insert(r, resolve_ttl(again, c.type_ttl, c.default_ttl),
                  [promised[r] EXCEPT !.ttl = {Given(c.type_ttl, c.default_ttl)}],
                  Unset)
        /\ UNCHANGED <<scenario, now, up>>

Due(w) ==
    /\ w.status = "pending"
    /\ w.run_after = Unset \/ w.run_after <= now
    /\ w.expires = Unset \/ w.expires > now

Eligible == {r \in Rows : Due(row[r])}

(* The UPDATE of pop_next: the deadline of a TTL that counts from the      *)
(* first attempt is set once.                                              *)
Popped(w) ==
    [w EXCEPT !.status = "running", !.started = now,
              !.expires = IF /\ w.ttl_from = "first_attempt"
                             /\ w.ttl # Unset
                             /\ @ = Unset
                          THEN now + w.ttl * Second
                          ELSE @]

(* pop_next, for the row that comes first in its order. *)
pop_next(r) ==
    /\ up
    /\ r \in Eligible
    /\ \A q \in Eligible : SqlPriority(row[r], scenario.aging)
                              <= SqlPriority(row[q], scenario.aging)
    /\ row' = [row EXCEPT ![r] = Popped(@)]
    /\ first' = [first EXCEPT ![r] = Given(@, now)]
    /\ UNCHANGED <<scenario, now, up, budget, awake, unclocked, notBefore,
                   lastWait, heir, promised>>

(* The gate had no token: set_run_after on a row that was due. *)
set_run_after(r) ==
    /\ up
    /\ r \in Eligible
    /\ budget.deferrals > 0
    /\ budget' = [budget EXCEPT !.deferrals = @ - 1]
    /\ row' = [row EXCEPT ![r].run_after = now + scenario.token_wait]
    /\ UNCHANGED <<scenario, now, up, history>>

(* A row leaves the table; a parent that waited only for it leaves too.    *)
Leave(rows, to) ==
    [r \in Rows |->
        IF r \in rows THEN [row[r] EXCEPT !.status = to]
        ELSE IF /\ row[r].status = "waiting"
                /\ \A q \in Rows \ rows :
                       row[q].parent = r => ~InTable(q)
        THEN [row[r] EXCEPT !.status = "gone"]
        ELSE row[r]]

(* The executor returns: a parent of rows in the table waits for them. *)
Complete(r) ==
    /\ up
    /\ row[r].status = "running"
    /\ row' = IF \E q \in Rows : row[q].parent = r /\ InTable(q)
              THEN [row EXCEPT ![r].status = "waiting"]
              ELSE Leave({r}, "gone")
    /\ UNCHANGED <<scenario, now, up, budget, history>>

(* The executor fails with a retryable error and retries are left: again   *)
(* at once in the same attempt, or requeue_for_retry with the delay.       *)
Retried(w, delay) ==
    IF delay = 0
    THEN [w EXCEPT !.retries = @ + 1]
    ELSE [w EXCEPT !.status = "pending", !.started = Unset,
                   !.retries = @ + 1, !.run_after = now + delay]

Retry(r) ==
    LET w == row[r]
        wait == NextWait(Conf(r), w.retries, lastWait[r])
    IN  /\ up
        /\ w.status = "running"
        /\ w.retries < Conf(r).max_retries
        /\ \E delay \in RetryDelays(Conf(r), w.retries) :
               row' = [row EXCEPT ![r] = Retried(@, delay)]
        /\ lastWait' = [lastWait EXCEPT ![r] = wait]
        /\ notBefore' = [notBefore EXCEPT ![r] = now + wait]
        /\ UNCHANGED <<scenario, now, up, budget, awake, unclocked, first,
                       heir, promised>>

(* The last failure: dead_letter when the error was retryable. *)
Fail(r) ==
    /\ up
    /\ row[r].status = "running"
    /\ \/ /\ row[r].retries >= Conf(r).max_retries
          /\ row' = Leave({r}, "dead")
       \/ row' = Leave({r}, "gone")
    /\ UNCHANGED <<scenario, now, up, budget, history>>

-----------------------------------------------------------------------------
(* Pause and resume *)

(* Mutant: a second reason restarts the pause. *)
PausedAnew(w, reason) ==
    [w EXCEPT !.status = "paused", !.started = Unset,
              !.reasons = @ \cup {reason},
              !.paused_at = now]

Paused(w, reason) ==
    [w EXCEPT !.status = "paused", !.started = Unset,
              !.reasons = @ \cup {reason},
              !.paused_at = Given(@, now)]

(* pause, pause_group_tasks and their like, for one row. *)
Pause(r, reason) ==
    /\ up
    /\ row[r].status \in {"pending", "running", "paused"}
    /\ reason \notin row[r].reasons
    /\ budget.pauses > 0
    /\ budget' = [budget EXCEPT !.pauses = @ - 1]
    /\ row' = [row EXCEPT ![r] = Paused(@, reason)]
    /\ UNCHANGED <<scenario, now, up, history>>

(* A resume for one reason: with the last one the row is pending again,    *)
(* and the time since paused_at_ms is added to pause_duration_ms.          *)
Resumed(w, reason) ==
    IF w.reasons # {reason}
    THEN [w EXCEPT !.reasons = @ \ {reason}]
    ELSE [w EXCEPT !.status = "pending", !.reasons = {}, !.paused_at = Unset,
                   !.pause_duration =
                       @ + IF w.paused_at = Unset THEN 0 ELSE now - w.paused_at]

Resume(r, reason) ==
    /\ up
    /\ row[r].status = "paused"
    /\ reason \in row[r].reasons
    /\ row' = [row EXCEPT ![r] = Resumed(@, reason)]
    /\ UNCHANGED <<scenario, now, up, budget, history>>

-----------------------------------------------------------------------------
(* expire_tasks: rows past their deadline that do not run, and the pending *)
(* and paused children of those.                                           *)
Expired ==
    {r \in Rows : /\ row[r].status \in {"pending", "paused"}
                  /\ row[r].expires # Unset
                  /\ row[r].expires <= now}

expire_tasks ==
    LET cascade == {q \in Rows : /\ row[q].parent \in Expired
                                 /\ row[q].status \in {"pending", "paused"}}
    IN  /\ up
        /\ Expired # {}
        /\ row' = Leave(Expired \cup cascade, "gone")
        /\ UNCHANGED <<scenario, now, up, budget, history>>

Crash ==
    /\ up
    /\ budget.crashes > 0
    /\ up' = FALSE
    /\ budget' = [budget EXCEPT !.crashes = @ - 1]
    /\ UNCHANGED <<scenario, now, row, history>>

(* recover_running: interrupted rows are pending again; what a paused row  *)
(* waited so far is counted and its pause no longer clocked.               *)
Recovered(w) ==
    CASE w.status = "running" ->
           [w EXCEPT !.status = "pending", !.started = Unset]
      [] w.status = "paused" /\ w.paused_at # Unset ->
           [w EXCEPT !.pause_duration = @ + now - w.paused_at,
                     !.paused_at = Unset]
      [] OTHER -> w

Open ==
    /\ ~up
    /\ up' = TRUE
    /\ row' = [r \in Rows |-> Recovered(row[r])]
    /\ UNCHANGED <<scenario, now, budget, history>>

(* Time passes, also while the process is down. *)
Tick ==
    LET step == scenario.step
        paused(r) == row[r].status = "paused"
    IN  /\ budget.ticks > 0
        /\ budget' = [budget EXCEPT !.ticks = @ - 1]
        /\ now' = now + step
        /\ awake' = [r \in Rows |->
               IF InTable(r) /\ ~paused(r) THEN awake[r] + step ELSE awake[r]]
        /\ unclocked' = [r \in Rows |->
               IF paused(r) /\ row[r].paused_at = Unset
               THEN unclocked[r] + step ELSE unclocked[r]]
        /\ UNCHANGED <<scenario, up, row, notBefore, lastWait, first, heir,
                       promised>>

RowStep(r) ==
    \/ Submit(r)
    \/ retry_dead_letter(r)
    \/ pop_next(r)
    \/ set_run_after(r)
    \/ Complete(r)
    \/ Retry(r)
    \/ Fail(r)
    \/ \E reason \in Reasons : Pause(r, reason) \/ Resume(r, reason)

Next == (\E r \in Rows : RowStep(r)) \/ expire_tasks \/ Crash \/ Open \/ Tick

Spec == Init /\ [][Next]_vars

-----------------------------------------------------------------------------
(* Properties *)

Statuses == {"none", "pending", "running", "paused", "waiting", "gone", "dead"}
Times == Nat \cup {Unset}

(* The columns of a row keep their types; in particular the paused time is *)
(* a number, also after a restart cleared paused_at_ms, and a row is       *)
(* paused exactly when it has a reason to be.                              *)
TypeOK ==
    /\ scenario \in Scenarios
    /\ now \in Nat
    /\ up \in BOOLEAN
    /\ \A r \in Rows :
          /\ row[r].status \in Statuses
          /\ row[r].priority \in 0 .. U8
          /\ {row[r].ttl, row[r].expires, row[r].run_after, row[r].started,
              row[r].paused_at} \subseteq Times
          /\ {row[r].created, row[r].retries, row[r].pause_duration}
                 \subseteq Nat
          /\ row[r].reasons \subseteq Reasons
          /\ InTable(r) => (row[r].status = "paused") = (row[r].reasons # {})

(* The age that promotes a row is the time it waited or ran: pauses do not *)
(* count, however many reasons overlap and however often it is resumed.    *)
(* The one exception is time a row stays paused after a restart, which     *)
(* recover_running stops measuring (store/mod.rs:306).                     *)
AgeIsWaiting ==
    \A r \in Rows : InTable(r) =>
        LET w == row[r]
            pausing == IF w.paused_at = Unset THEN 0 ELSE now - w.paused_at
        IN  now - w.created - w.pause_duration - pausing
                = awake[r] + unclocked[r]

Starts(r) == row[r].status = "pending" /\ row'[r].status = "running"

(* The row that is started is the most urgent one by the priority that     *)
(* events and snapshots show: the order in SQL and the function in Rust    *)
(* agree, at every age and beyond the range of u8.                         *)
UrgentFirst ==
    [][\A r \in Rows : Starts(r) =>
          \A q \in Eligible : Shown(row[r], scenario.aging)
                                 <= Shown(row[q], scenario.aging)]_vars

(* A retry never starts before the backoff of its failure has passed,      *)
(* whatever pauses, deferrals and restarts come in between.                *)
RetryWaits ==
    [][\A r \in Rows : Starts(r) => now >= notBefore[r]]_vars

(* A row whose TTL came from its parent expires no later than the parent,  *)
(* if the parent's TTL counts from its submission or the parent was in its *)
(* first attempt.                                                          *)
InheritedDeadline ==
    \A r \in Rows :
        InTable(r) /\ heir[r] # Unset /\ ~heir[r].restarted
            => row[r].expires # Unset /\ row[r].expires <= heir[r].deadline

(* A child that inherits its TTL never outlives its parent's deadline      *)
(* (docs/configuration.md:231).                                            *)
ChildWithinParent ==
    \A r \in Rows :
        InTable(r) /\ heir[r] # Unset
            => row[r].expires # Unset /\ row[r].expires <= heir[r].deadline


(* The TTL chain of docs/configuration.md:153, "per-task > per-type >      *)
(* domain default > global default > none", for a task submitted through   *)
(* its domain: apply_module_scalar_defaults(true) does not follow it.      *)
TypeBeforeModule ==
    \A r \in Rows :
        LET c == Conf(r)
            ttl == Given(c.over.ttl, Given(c.task.ttl, Given(c.type_ttl,
                       Given(c.module.ttl, c.default_ttl))))
        IN  InTable(r) /\ c.way = "domain" /\ c.over.parent = Unset
                => row[r].ttl = IF ttl = Unset THEN Unset ELSE ttl \div Second

=============================================================================
