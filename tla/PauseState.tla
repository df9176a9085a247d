----------------------------- MODULE PauseState -----------------------------
(***************************************************************************)
(* Pausing and resuming: the scheduler, a module, a task group (until      *)
(* resumed or until a deadline) and preempted tasks, each with its own bit *)
(* in pause_reasons; the paused_groups table with its in-memory mirror; and *)
(* the three ways a row enters the table while they change: a submission,  *)
(* the next instance of a recurring task, and a retry.                     *)
(*                                                                         *)
(* A task is named by its dedup key.  A step is the code between two       *)
(* awaits; every statement outside a transaction is its own step.  One     *)
(* group, one module.  Which pending row is next, and whether a deadline   *)
(* has passed, is left open.                                               *)
(***************************************************************************)
EXTENDS Integers, FiniteSets

CONSTANTS
    MaxTasks,         \* dedup keys
    MaxExecs,         \* executions in a behaviour
    MaxCallers,       \* concurrent callers of the control operations
    MaxOccurrences,   \* recurring_max_executions of every recurring task
    InGroup,          \* the tasks of the group
    InModule,         \* the tasks of the module
    Recurring,        \* the recurring tasks
    NoTask,
    Scenarios         \* how many of each event a behaviour may have

Tasks   == 1 .. MaxTasks
Execs   == 1 .. MaxExecs
Callers == 1 .. MaxCallers
Loop    == 0
Threads == Callers \cup {Loop}

Events == {"submits", "ops", "retries", "schedules", "errors", "crashes"}

ASSUME PauseAssumption ==
    /\ MaxTasks \in Nat /\ MaxExecs \in Nat /\ MaxCallers \in Nat
    /\ MaxOccurrences \in Nat \ {0}
    /\ InGroup \subseteq Tasks /\ InModule \subseteq Tasks
    /\ Recurring \subseteq Tasks
    /\ NoTask \notin Tasks
    /\ Scenarios \subseteq [Events -> Nat]

VARIABLES
    row,      \* the tasks table, by key
    dbGroup,  \* the group's row in paused_groups
    memGroup, \* the group is in the in-memory paused_groups set
    paused,   \* the scheduler's paused flag
    modPaused,\* the module's paused flag
    fast,     \* fast_dispatch
    active,   \* the keys in the active map
    execs,    \* the spawned futures
    loop,     \* the run loop
    op,       \* the control operation each thread is in
    stranded, \* ghost: bits set, or left, that no later resume will clear
    loose,    \* ghost: rows of the paused group that are not held by it
    budget    \* ghost: events left

storeVars == <<row, dbGroup>>
flagVars  == <<memGroup, paused, modPaused, fast>>
vars == <<row, dbGroup, memGroup, paused, modPaused, fast, active, execs,
          loop, op, stranded, loose, budget>>

----------------------------------------------------------------------------
(* Types. *)

(* The bits of PauseReasons. *)
PauseReasons == {"preemption", "module", "global", "group"}

(* id tells two instances of one key apart; n is recurring_execution_count. *)
Row == [status : {"none", "pending", "running", "paused"},
        reasons : SUBSET PauseReasons, id : 0 .. MaxOccurrences - 1,
        n : 0 .. MaxOccurrences - 1, recurringPaused : BOOLEAN]
NoRow == [status |-> "none", reasons |-> {}, id |-> 0, n |-> 0,
          recurringPaused |-> FALSE]

(* rec: what the completion uses of the record read when the row was claimed. *)
RecOf(r) == [id |-> r.id, n |-> r.n, recurringPaused |-> r.recurringPaused]
Exec == [pc : {"none", "running", "requeue", "done"}, key : Tasks \cup {NoTask},
         rec : {RecOf(r) : r \in Row}, cancelled : BOOLEAN]
NoExecution == [pc |-> "none", key |-> NoTask, rec |-> RecOf(NoRow),
                cancelled |-> FALSE]
Ended == [NoExecution EXCEPT !.pc = "done"]

(* todo: the drained tasks still to be cancelled and paused; tokens: the
   executions whose tokens were drained with them; cur: the task whose token is
   cancelled and whose row is not paused yet. *)
Kinds == {"pauseAll", "resumeAll", "pauseModule", "resumeModule",
          "pauseGroup", "resumeGroup", "preempt"}
Op == [kind : Kinds \cup {"none"},
       pc : {"idle", "flag", "mark", "pending", "drain", "pause", "clear1",
             "clear2", "delete", "forget"},
       todo : SUBSET Tasks, tokens : SUBSET Execs, cur : Tasks \cup {NoTask}]
NoOp == [kind |-> "none", pc |-> "idle", todo |-> {}, tokens |-> {}, cur |-> NoTask]

LoopPC == {"idle", "preempted", "resume2", "groups", "fast",
           "slow", "claim", "spawn"}
IdleLoop == [pc |-> "idle", todo |-> {}, cur |-> NoTask, back |-> "slow"]

TypeOK ==
    /\ row \in [Tasks -> Row]
    /\ dbGroup \in {"no", "forever", "until", "due"}
    /\ memGroup \in BOOLEAN /\ paused \in BOOLEAN /\ modPaused \in BOOLEAN
    /\ fast \in BOOLEAN
    /\ active \subseteq Tasks
    /\ execs \in [Execs -> Exec]
    /\ loop \in [pc : LoopPC, todo : SUBSET Tasks, cur : Tasks \cup {NoTask},
                back : {"fast", "slow"}]
    /\ op \in [Threads -> Op]
    /\ stranded \subseteq Tasks \X PauseReasons
    /\ loose \subseteq InGroup
    /\ budget \in [Events -> Nat]

Init ==
    /\ row = [k \in Tasks |-> NoRow]
    /\ dbGroup = "no" /\ memGroup = FALSE
    /\ paused = FALSE /\ modPaused = FALSE /\ fast = TRUE
    /\ active = {}
    /\ execs = [e \in Execs |-> NoExecution]
    /\ loop = IdleLoop
    /\ op = [t \in Threads |-> NoOp]
    /\ stranded = {} /\ loose = {}
    /\ budget \in Scenarios

Spend(ev) == budget[ev] > 0 /\ budget' = [budget EXCEPT ![ev] = @ - 1]

----------------------------------------------------------------------------
(* The statements of the store. *)

Present(k) == row[k].status # "none"

PauseWith(r, reason) == [r EXCEPT !.status = "paused", !.reasons = @ \cup {reason}]

(* Wrong on purpose: a new row does not look at paused_groups. *)
InsertedPending(k, r) == r

(* A new row: paused with the GROUP bit when its group is in paused_groups. *)
Inserted(k, r) ==
    IF k \in InGroup /\ dbGroup # "no" THEN PauseWith(r, "group") ELSE r

(* pause: no status guard. *)
PauseRow(k, reason) ==
    row' = [row EXCEPT ![k] = IF Present(k) THEN PauseWith(@, reason) ELSE @]

(* The rows a bulk statement for a reason is about. *)
Scope(reason) == CASE reason = "group" -> InGroup
                   [] reason = "module" -> InModule
                   [] OTHER -> Tasks

(* First statement of a resume: rows held by this reason alone. *)
ResumeSole(S, reason) ==
    row' = [k \in Tasks |->
               IF k \in S /\ row[k].status = "paused" /\ row[k].reasons = {reason}
               THEN [row[k] EXCEPT !.status = "pending", !.reasons = {}]
               ELSE row[k]]

(* Wrong on purpose: rows with other reasons keep the bit. *)
ClearBitNowhere(S, reason) == row' = row

(* Second statement: the bit goes from the other rows, which stay paused. *)
ClearBit(S, reason) ==
    row' = [k \in Tasks |->
               IF k \in S /\ row[k].status = "paused"
               THEN [row[k] EXCEPT !.reasons = @ \ {reason}]
               ELSE row[k]]

(* pause_tasks_in_group: the bit is added to the rows already paused ... *)
MarkPausedRows(S, reason) ==
    row' = [k \in Tasks |-> IF k \in S /\ row[k].status = "paused"
                            THEN PauseWith(row[k], reason) ELSE row[k]]

(* ... and the pending rows are paused; for a module, one statement for both. *)
PauseRows(S, reason, statuses) ==
    row' = [k \in Tasks |-> IF k \in S /\ row[k].status \in statuses
                            THEN PauseWith(row[k], reason) ELSE row[k]]

----------------------------------------------------------------------------
(* Control operations, each run by a thread t, step by step. *)

Reason(kind) == CASE kind \in {"pauseAll", "resumeAll"} -> "global"
                  [] kind \in {"pauseModule", "resumeModule"} -> "module"
                  [] kind \in {"pauseGroup", "resumeGroup"} -> "group"
                  [] OTHER -> "preemption"

At(t, kind, pc) == op[t].kind = kind /\ op[t].pc = pc
OpTo(t, pc) == op' = [op EXCEPT ![t].pc = pc]
Begin(t, kind, pc) == op' = [op EXCEPT ![t] = [NoOp EXCEPT !.kind = kind, !.pc = pc]]
Finish(t) == op' = [op EXCEPT ![t] = NoOp]

(* The executions of the tasks of S, as the active map has them. *)
TokensOf(S) == {e \in Execs : execs[e].key \in S /\ execs[e].pc = "running"}

(* drain_where: out of the active map, with their tokens. *)
Drain(t, S) ==
    /\ op' = [op EXCEPT ![t] = [@ EXCEPT !.pc = "pause", !.todo = S,
                                         !.tokens = TokensOf(S)]]
    /\ active' = active \ S

CancelTokens(E) ==
    execs' = [e \in Execs |-> IF e \in E THEN [execs[e] EXCEPT !.cancelled = TRUE]
                              ELSE execs[e]]

PauseAll(t) ==
    /\ Begin(t, "pauseAll", "drain")
    /\ paused' = TRUE
    /\ UNCHANGED <<storeVars, memGroup, modPaused, fast>>

ResumeAll(t) ==
    /\ Begin(t, "resumeAll", "clear1")
    /\ paused' = FALSE
    /\ UNCHANGED <<storeVars, memGroup, modPaused, fast>>

PauseModule(t) ==
    /\ Begin(t, "pauseModule", "drain")
    /\ modPaused' = TRUE
    /\ UNCHANGED <<storeVars, memGroup, paused, fast>>

(* Nothing is resumed while the whole scheduler is paused. *)
ResumeModule(t) ==
    /\ IF paused THEN op' = op ELSE Begin(t, "resumeModule", "clear1")
    /\ modPaused' = FALSE
    /\ UNCHANGED <<storeVars, memGroup, paused, fast>>

(* pause_group_state: INSERT OR IGNORE; an existing row ends the call. *)
PauseGroup(t) ==
    /\ \E until \in {"forever", "until"} :
          IF dbGroup # "no"
          THEN UNCHANGED <<dbGroup, op>>
          ELSE dbGroup' = until /\ Begin(t, "pauseGroup", "flag")
    /\ UNCHANGED <<row, flagVars>>

PauseGroupInMemory(t) ==
    /\ At(t, "pauseGroup", "flag")
    /\ memGroup' = TRUE /\ fast' = FALSE
    /\ OpTo(t, "mark")
    /\ UNCHANGED <<storeVars, paused, modPaused, active, execs, loop, budget, loose>>

PauseGroupMark(t) ==
    /\ At(t, "pauseGroup", "mark")
    /\ MarkPausedRows(InGroup, "group")
    /\ OpTo(t, "pending")
    /\ UNCHANGED <<dbGroup, flagVars, active, execs, loop, budget, loose>>

PauseGroupPending(t) ==
    /\ At(t, "pauseGroup", "pending")
    /\ PauseRows(InGroup, "group", {"pending"})
    /\ OpTo(t, "drain")
    /\ loose' = loose \cup {k \in InGroup : /\ row[k].status \in {"running", "paused"}
                                          /\ "group" \notin row[k].reasons}
    /\ UNCHANGED <<dbGroup, flagVars, active, execs, loop, budget>>

(* preempt_below: which active tasks rank below the new one is left open. *)
Preempt(t) ==
    /\ Begin(t, "preempt", "drain")
    /\ UNCHANGED <<storeVars, flagVars>>

(* resume_group: no-op unless the group is in the in-memory set. *)
ResumeGroup(t) ==
    /\ IF memGroup THEN Begin(t, "resumeGroup", "clear1") ELSE op' = op
    /\ UNCHANGED <<storeVars, flagVars>>

StartOp(t) ==
    /\ op[t] = NoOp
    /\ Spend("ops")
    /\ \/ PauseAll(t) \/ ResumeAll(t) \/ PauseModule(t) \/ ResumeModule(t)
       \/ PauseGroup(t) \/ ResumeGroup(t) \/ Preempt(t)
    /\ UNCHANGED <<active, execs, loop, loose>>

DrainActive(t) ==
    /\ op[t].pc = "drain"
    /\ \E S \in SUBSET active :
          /\ op[t].kind # "preempt" => S = active \cap Scope(Reason(op[t].kind))
          /\ Drain(t, S)
    /\ UNCHANGED <<storeVars, flagVars, execs, loop, budget, loose>>

(* cancel_pause_emit, for each drained task: cancel its token ... *)
CancelDrained(t, k) ==
    /\ op[t].pc = "pause" /\ op[t].cur = NoTask /\ k \in op[t].todo
    /\ CancelTokens(op[t].tokens \cap TokensOf({k}))
    /\ op' = [op EXCEPT ![t] = [@ EXCEPT !.todo = @ \ {k}, !.cur = k,
                                         !.tokens = @ \ TokensOf({k})]]
    /\ UNCHANGED <<storeVars, flagVars, active, loop, budget, loose>>

(* ... then one UPDATE, awaited; an error is dropped. *)
PauseDrained(t) ==
    /\ op[t].pc = "pause" /\ op[t].cur # NoTask
    /\ op' = [op EXCEPT ![t].cur = NoTask]
    /\ \/ PauseRow(op[t].cur, Reason(op[t].kind)) /\ budget' = budget
       \/ row' = row /\ Spend("errors")
    /\ loose' = {j \in loose : "group" \notin row'[j].reasons}
    /\ UNCHANGED <<dbGroup, flagVars, active, execs, loop>>

(* The end of a pause.  A module pauses its queued rows now. *)
FinishPause(t) ==
    /\ op[t].pc = "pause" /\ op[t].cur = NoTask /\ op[t].todo = {}
    /\ Finish(t)
    /\ IF op[t].kind = "pauseModule"
       THEN PauseRows(InModule, "module", {"pending", "paused"})
       ELSE row' = row
    /\ UNCHANGED <<dbGroup, flagVars, active, execs, loop, budget, loose>>

ResumeFirst(t) ==
    /\ op[t].pc = "clear1"
    /\ ResumeSole(Scope(Reason(op[t].kind)), Reason(op[t].kind))
    /\ OpTo(t, "clear2")
    /\ UNCHANGED <<dbGroup, flagVars, active, execs, loop, budget, loose>>

ResumeSecond(t) ==
    /\ op[t].pc = "clear2"
    /\ ClearBit(Scope(Reason(op[t].kind)), Reason(op[t].kind))
    /\ IF op[t].kind = "resumeGroup" THEN OpTo(t, "delete") ELSE Finish(t)
    /\ UNCHANGED <<dbGroup, flagVars, active, execs, loop, budget, loose>>

(* resume_group_state *)
ResumeGroupDelete(t) ==
    /\ At(t, "resumeGroup", "delete")
    /\ dbGroup' = "no"
    /\ OpTo(t, "forget")
    /\ UNCHANGED <<row, flagVars, active, execs, loop, budget, loose>>

(* Leave the in-memory set; maybe_restore_fast_dispatch (nothing else asks for
   the gate here). *)
ResumeGroupForget(t) ==
    /\ At(t, "resumeGroup", "forget")
    /\ memGroup' = FALSE /\ fast' = TRUE
    /\ Finish(t)
    /\ UNCHANGED <<storeVars, paused, modPaused, active, execs, loop, budget, loose>>

(* A statement outside cancel_pause_emit fails: the call returns the error. *)
Abort(t) ==
    /\ \/ op[t].pc \in {"mark", "pending", "clear1", "clear2", "delete"}
       \/ At(t, "pauseModule", "pause") /\ op[t].cur = NoTask /\ op[t].todo = {}
    /\ Spend("errors")
    /\ Finish(t)
    /\ loose' = IF Reason(op[t].kind) = "group"
                THEN loose \cup {k \in InGroup : Present(k)} ELSE loose
    /\ UNCHANGED <<storeVars, flagVars, active, execs, loop>>

OpStep(t) ==
    \/ PauseGroupInMemory(t) \/ PauseGroupMark(t) \/ PauseGroupPending(t)
    \/ DrainActive(t) \/ (\E k \in Tasks : CancelDrained(t, k)) \/ PauseDrained(t)
    \/ FinishPause(t)
    \/ ResumeFirst(t) \/ ResumeSecond(t)
    \/ ResumeGroupDelete(t) \/ ResumeGroupForget(t)

----------------------------------------------------------------------------
(* Rows entering the table, and executions. *)

Submit(k) ==
    /\ row[k].status = "none"
    /\ Spend("submits")
    /\ row' = [row EXCEPT ![k] = Inserted(k, [NoRow EXCEPT !.status = "pending"])]
    /\ UNCHANGED <<dbGroup, flagVars, active, execs, loop, op, loose>>

(* complete_inner of a record r: the row goes, and a recurring task with
   occurrences left gets its next instance, whose id may be the same again.
   The row of another instance, or of none, is left alone. *)
Completed(k, r, id) ==
    CASE row[k].id # r.id \/ ~Present(k) -> row[k]
      [] k \in Recurring /\ ~r.recurringPaused /\ r.n + 1 < MaxOccurrences ->
             Inserted(k, [NoRow EXCEPT !.status = "pending", !.id = id, !.n = r.n + 1])
      [] OTHER -> NoRow

ReturnOk(e) ==
    /\ execs[e].pc = "running"
    /\ LET k == execs[e].key  r == execs[e].rec IN
       /\ \E id \in {r.id, r.n + 1} \cap (0 .. MaxOccurrences - 1) :
             row' = [row EXCEPT ![k] = Completed(k, r, id)]
       /\ active' = active \ {k}
       /\ loose' = loose \ (IF row'[k] # row[k] THEN {k} ELSE {})
    /\ execs' = [execs EXCEPT ![e] = Ended]
    /\ UNCHANGED <<dbGroup, flagVars, loop, op, budget>>

(* An error after the token was cancelled: whoever cancelled owns the row. *)
ReturnCancelled(e) ==
    /\ execs[e].pc = "running" /\ execs[e].cancelled
    /\ execs' = [execs EXCEPT ![e] = Ended]
    /\ active' = active \ {execs[e].key}
    /\ UNCHANGED <<storeVars, flagVars, loop, op, budget, loose>>

(* A permanent failure deletes the row; a recurring task ends with it. *)
ReturnFailed(e) ==
    /\ execs[e].pc = "running" /\ ~execs[e].cancelled
    /\ LET k == execs[e].key IN
       /\ row' = [row EXCEPT ![k] = IF @.id = execs[e].rec.id THEN NoRow ELSE @]
       /\ active' = active \ {k}
       /\ loose' = loose \ (IF row'[k] # row[k] THEN {k} ELSE {})
    /\ execs' = [execs EXCEPT ![e] = Ended]
    /\ UNCHANGED <<dbGroup, flagVars, loop, op, budget>>

(* A retryable error: the token is read before the row is written. *)
ReturnRetryable(e) ==
    /\ execs[e].pc = "running" /\ ~execs[e].cancelled
    /\ Spend("retries")
    /\ execs' = [execs EXCEPT ![e].pc = "requeue"]
    /\ UNCHANGED <<storeVars, flagVars, active, loop, op, loose>>

(* requeue_for_retry: no status guard, the reasons stay, and paused_groups is
   not looked at. *)
RequeueForRetry(e) ==
    /\ execs[e].pc = "requeue"
    /\ LET k == execs[e].key IN
       /\ row' = [row EXCEPT ![k] = IF Present(k) /\ @.id = execs[e].rec.id
                                    THEN [@ EXCEPT !.status = "pending"] ELSE @]
       /\ loose' = loose \cup (IF row'[k].status = "pending" THEN {k} \cap InGroup
                                ELSE {})
       /\ active' = active \ {k}
    /\ execs' = [execs EXCEPT ![e] = Ended]
    /\ UNCHANGED <<dbGroup, flagVars, loop, op, budget>>

(* pause_recurring, resume_recurring: the record of a running instance keeps
   the old value. *)
SetRecurringPaused(k) ==
    /\ k \in Recurring /\ Present(k)
    /\ Spend("schedules")
    /\ row' = [row EXCEPT ![k].recurringPaused = ~@]
    /\ UNCHANGED <<dbGroup, flagVars, active, execs, loop, op, loose>>

(* cancel_recurring: an active instance has its token cancelled. *)
CancelRecurring(k) ==
    /\ k \in Recurring /\ Present(k)
    /\ Spend("schedules")
    /\ row' = [row EXCEPT ![k] = NoRow]
    /\ CancelTokens(TokensOf({k} \cap active))
    /\ active' = active \ {k}
    /\ loose' = loose \ {k}
    /\ UNCHANGED <<dbGroup, flagVars, loop, op>>

ExecStep(e) ==
    \/ ReturnOk(e) \/ ReturnCancelled(e) \/ ReturnFailed(e)
    \/ ReturnRetryable(e) \/ RequeueForRetry(e)

----------------------------------------------------------------------------
(* The run loop. *)

LoopTo(pc, todo) == loop' = [loop EXCEPT !.pc = pc, !.todo = todo]

(* poll_and_dispatch: nothing happens while paused; then the preempted rows
   that have no preemptor left (which ones is left open). *)
Poll ==
    /\ loop.pc = "idle" /\ ~paused
    /\ \E S \in SUBSET {k \in Tasks : /\ row[k].status = "paused"
                                      /\ "preemption" \in row[k].reasons} :
          LoopTo("preempted", S)
    /\ UNCHANGED <<storeVars, flagVars, active, execs, op, budget, loose>>

(* resume_preempted: its second statement only when the first found nothing. *)
ResumePreempted(k) ==
    /\ loop.pc = "preempted" /\ k \in loop.todo
    /\ ResumeSole({k}, "preemption")
    /\ loop' = IF row' = row THEN [loop EXCEPT !.pc = "resume2", !.cur = k]
               ELSE [loop EXCEPT !.todo = @ \ {k}]
    /\ UNCHANGED <<dbGroup, flagVars, active, execs, op, budget, loose>>

ResumePreemptedSecond ==
    /\ loop.pc = "resume2"
    /\ ClearBit({loop.cur}, "preemption")
    /\ loop' = [loop EXCEPT !.pc = "preempted", !.todo = @ \ {loop.cur}, !.cur = NoTask]
    /\ UNCHANGED <<dbGroup, flagVars, active, execs, op, budget, loose>>

(* groups_due_for_resume, asked only when the in-memory set is not empty; when
   no group is due, dispatch_pending reads fast_dispatch, once per poll. *)
ResumeDueGroups ==
    /\ loop.pc = "preempted" /\ loop.todo = {}
    /\ IF memGroup /\ dbGroup = "due"
       THEN Begin(Loop, "resumeGroup", "clear1") /\ LoopTo("groups", {})
       ELSE op' = op /\ LoopTo(IF fast THEN "fast" ELSE "slow", {})
    /\ UNCHANGED <<storeVars, flagVars, active, execs, budget, loose>>

DispatchPending ==
    /\ loop.pc = "groups" /\ op[Loop] = NoOp
    /\ LoopTo(IF fast THEN "fast" ELSE "slow", {})
    /\ UNCHANGED <<storeVars, flagVars, active, execs, op, budget, loose>>

(* max_concurrency, or the bound on executions. *)
FreeSlots == Cardinality({e \in Execs : execs[e].pc = "none"})

Pending == {k \in Tasks : row[k].status = "pending"}

Claim(S) == row' = [k \in Tasks |-> IF k \in S THEN [row[k] EXCEPT !.status = "running"]
                                    ELSE row[k]]

(* pop_next_batch: no gate; the loop stays on this path until it finds nothing
   (a pending row may not be due). *)
PopBatch(S) ==
    /\ loop.pc = "fast" /\ S \subseteq Pending /\ Cardinality(S) <= FreeSlots
    /\ Claim(S)
    /\ loop' = IF S = {} THEN IdleLoop
               ELSE [loop EXCEPT !.pc = "spawn", !.todo = S, !.back = "fast"]
    /\ UNCHANGED <<dbGroup, flagVars, active, execs, op, budget, loose>>

(* peek_next, then the gate with a copy of the in-memory set: a row of a
   paused group ends the poll. *)
PeekAndAdmit ==
    /\ loop.pc = "slow"
    /\ \/ /\ FreeSlots > 0
          /\ \E k \in Pending :
             IF memGroup /\ k \in InGroup THEN loop' = IdleLoop ELSE LoopTo("claim", {k})
       \/ loop' = IdleLoop
    /\ UNCHANGED <<storeVars, flagVars, active, execs, op, budget, loose>>

(* claim_task: only a row that is still pending. *)
ClaimTask ==
    /\ loop.pc = "claim"
    /\ Claim(loop.todo \cap Pending)
    /\ loop' = IF loop.todo \subseteq Pending
               THEN [loop EXCEPT !.pc = "spawn", !.back = "slow"]
               ELSE IdleLoop
    /\ UNCHANGED <<dbGroup, flagVars, active, execs, op, budget, loose>>

(* spawn_task: into the active map, with the record read at the claim. *)
SpawnTask(k, e) ==
    /\ loop.pc = "spawn" /\ k \in loop.todo
    /\ execs[e].pc = "none" /\ \A d \in 1 .. e - 1 : execs[d].pc # "none"
    /\ execs' = [execs EXCEPT ![e] = [pc |-> "running", key |-> k, rec |-> RecOf(row[k]),
                                      cancelled |-> FALSE]]
    /\ active' = active \cup {k}
    /\ LoopTo(IF loop.todo = {k} THEN loop.back ELSE "spawn", loop.todo \ {k})
    /\ UNCHANGED <<storeVars, flagVars, op, budget, loose>>

(* The deadline of a time-boxed pause passes. *)
Deadline ==
    /\ dbGroup = "until" /\ dbGroup' = "due"
    /\ UNCHANGED <<row, flagVars, active, execs, loop, op, budget, loose>>

LoopStep ==
    \/ Poll \/ ResumePreemptedSecond \/ ResumeDueGroups \/ DispatchPending
    \/ PeekAndAdmit \/ ClaimTask
    \/ \E k \in Tasks : ResumePreempted(k)
    \/ \E S \in SUBSET Tasks : PopBatch(S)
    \/ \E k \in Tasks, e \in Execs : SpawnTask(k, e)

(* Wrong on purpose: the paused groups are not read back. *)
ReloadNothing == memGroup' = FALSE /\ fast' = TRUE

(* build() reads the paused_groups table. *)
ReloadPausedGroups == memGroup' = (dbGroup # "no") /\ fast' = (dbGroup = "no")

(* The process ends and restarts: recover_running, then build().  The other
   flags start unset. *)
Crash ==
    /\ Spend("crashes")
    /\ row' = [k \in Tasks |-> IF row[k].status = "running"
                               THEN [row[k] EXCEPT !.status = "pending"] ELSE row[k]]
    /\ ReloadPausedGroups
    /\ paused' = FALSE /\ modPaused' = FALSE
    /\ active' = {}
    /\ execs' = [e \in Execs |-> IF execs[e].pc = "none" THEN NoExecution ELSE Ended]
    /\ loop' = IdleLoop
    /\ op' = [t \in Threads |-> NoOp]
    /\ loose' = {k \in InGroup : Present(k) /\ ("group" \in row[k].reasons
                                                => row'[k].status = "pending")}
    /\ UNCHANGED dbGroup

----------------------------------------------------------------------------
(* What keeps a bit set. *)

InForce(reason) == CASE reason = "global" -> paused
                     [] reason = "module" -> modPaused
                     [] reason = "group" -> dbGroup # "no"
                     [] OTHER -> TRUE

InFlight(reason) == \E t \in Threads : op[t] # NoOp /\ Reason(op[t].kind) = reason

(* A resume of this reason is past its first statement. *)
PastFirst(reason) ==
    \/ \E t \in Threads : op[t].pc \in {"clear2", "delete"} /\ Reason(op[t].kind) = reason
    \/ reason = "preemption" /\ loop.pc = "resume2"

(* A changed row that carries a bit nobody will clear: its pause is over, or
   the statement that would have resumed it has already run. *)
Strays == {p \in Tasks \X PauseReasons :
              /\ row'[p[1]] # row[p[1]] /\ row'[p[1]].status = "paused"
              /\ p[2] \in row'[p[1]].reasons
              /\ ~InForce(p[2]) \/ PastFirst(p[2])}

Bits(reasons) == {p \in Tasks \X reasons : p[2] \in row[p[1]].reasons}

(* A module resumed while the scheduler is paused keeps its bits. *)
SkippedByModule == IF modPaused /\ ~modPaused' /\ paused THEN Bits({"module"}) ELSE {}

Note(lost) == stranded' = {p \in stranded \cup Strays \cup lost :
                             row'[p[1]].status = "paused"}

Next ==
    \/ \E t \in Callers : StartOp(t) /\ Note(SkippedByModule)
    \/ \E t \in Threads : OpStep(t) /\ Note({})
    \/ \E t \in Threads : Abort(t) /\ Note(Bits({Reason(op[t].kind)}))
    \/ \E k \in Tasks : (Submit(k) \/ SetRecurringPaused(k) \/ CancelRecurring(k)) /\ Note({})
    \/ \E e \in Execs : ExecStep(e) /\ Note({})
    \/ (LoopStep \/ Deadline) /\ Note({})
    \/ Crash /\ Note(Bits({"global", "module"}))

(* The run loop polls for ever and a call that was made goes on; a task may
   run for ever. *)
Fairness ==
    /\ WF_vars((LoopStep \/ OpStep(Loop)) /\ Note({}))
    /\ WF_vars((\E t \in Callers : OpStep(t)) /\ Note({}))

Spec == Init /\ [][Next]_vars /\ Fairness

----------------------------------------------------------------------------
(* Properties. *)

(* No pause or resume of the group is under way and both copies say paused. *)
GroupHeld == memGroup /\ dbGroup # "no" /\ ~InFlight("group")

(* Once pause_group has returned, no row of the group is pending, whichever way
   it entered the table meanwhile (submitted, next instance of a recurring
   task), except a row that a retry or a restart put back or whose execution
   the drain missed: "Ordering is load-bearing" (control.rs:94). *)
PausedGroupHasNoPending ==
    GroupHeld => \A k \in InGroup : row[k].status = "pending" => k \in loose

(* Every bit of a paused row has a pause in force behind it, or an operation
   that is still running; the bits that lost theirs are exactly those of the
   recorded windows.  So resuming one reason never leaves its bit on a row held
   by another. *)
HeldIsExplained ==
    \A k \in Tasks : row[k].status = "paused" =>
        /\ row[k].reasons = {} => \E r \in PauseReasons : <<k, r>> \in stranded
        /\ \A r \in row[k].reasons : InForce(r) \/ InFlight(r) \/ <<k, r>> \in stranded

(* A pause of the group runs while a resume has yet to leave the in-memory
   set: the resume then removes what the pause added. *)
PauseOverlapsResume ==
    \E t, u \in Threads : op[t].kind = "pauseGroup" /\ At(u, "resumeGroup", "forget")

(* A time-boxed pause ends by itself once its deadline has passed, also across
   a restart and after a failed call (pause_group_until), unless the scheduler
   is paused or a pause ever overlapped the end of a resume. *)
TimedPauseEnds ==
    []~PauseOverlapsResume => ((dbGroup = "due") ~> (dbGroup = "no" \/ paused))

(* When no pause of the group is in force or under way, no row is held by it,
   and a paused row has a reason (resume_group: "Clears the GROUP bit.  Tasks
   with no remaining bits become `pending`"). *)
ResumedGroupIsFree ==
    dbGroup = "no" /\ ~InFlight("group") =>
        \A k \in InGroup : row[k].status = "paused" =>
            row[k].reasons # {} /\ "group" \notin row[k].reasons

=============================================================================
