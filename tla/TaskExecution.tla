--------------------------- MODULE TaskExecution ---------------------------
(***************************************************************************)
(* The execution core of the scheduler: the rows of the tasks table, the   *)
(* futures that execute them, the in-memory active map, the completion and *)
(* failure channels with their leader election, the run loop, submission   *)
(* (with dedup and preemption), cancellation and restart.                  *)
(*                                                                         *)
(* A step is the code between two awaits.  A SQLite transaction, or a      *)
(* single statement outside one, is one step.  The channels carry the      *)
(* whole task record; here a message is the execution that sent it, whose  *)
(* record (id, submission, retry count) no longer changes after the send.  *)
(* Aging, run_after and TTL are not modelled here: any pending row may be   *)
(* the next one, unless AllDue restricts a behaviour to the plain order.   *)
(***************************************************************************)
EXTENDS Integers, FiniteSets

CONSTANTS
    MaxSubs,          \* submissions made in a behaviour
    MaxExecs,         \* executions (spawned futures) in a behaviour
    MaxCancels,       \* cancel() calls in a behaviour
    MaxCrashes,       \* process restarts in a behaviour
    MaxRetries,       \* effective max_retries of every task
    MaxConcurrency,   \* max_concurrency
    PreemptPriority,  \* preempt_priority
    FastDispatch,     \* fast_dispatch: pop without a gate check
    FreshIds,         \* TRUE: only behaviours in which no row id recurs
    AllDue,           \* TRUE: only behaviours in which every pending row is due
    Key,              \* Key[i]: dedup key of submission i
    Prio,             \* Prio[i]: priority of submission i, 0 is the highest
    OnDup             \* OnDup[i]: DuplicateStrategy of submission i

Subs    == 1 .. MaxSubs
Execs   == 1 .. MaxExecs
Cancels == 1 .. MaxCancels
Ids     == Subs            \* row ids: never more rows than submissions
Loop    == 0               \* the run loop, as the owner of a batch
Writers == Execs \cup {Loop}

ASSUME BoundsAssumption ==
    /\ MaxSubs \in Nat /\ MaxExecs \in Nat /\ MaxCancels \in Nat
    /\ MaxCrashes \in Nat /\ MaxRetries \in Nat /\ MaxConcurrency \in Nat
    /\ PreemptPriority \in Nat
    /\ FastDispatch \in BOOLEAN /\ FreshIds \in BOOLEAN
    /\ AllDue \in BOOLEAN

ASSUME SubmissionAssumption ==
    /\ Prio \in [Subs -> Nat]
    /\ OnDup \in [Subs -> {"skip", "supersede", "reject"}]

VARIABLES
    tasks,     \* the tasks table: row id -> row
    history,   \* the task_history table: a set of records
    active,    \* ActiveTaskMap: row id -> execution, 0 when there is no entry
    hasPaused, \* has_paused_tasks
    cchan,     \* completion channel: executions whose message is queued
    fchan,     \* failure channel
    execs,     \* the spawned futures
    nextExec,  \* the next unused execution
    batch,     \* messages drained and not yet written, by drainer
    loop,      \* the run loop
    subs,      \* the submit() callers
    cancels,   \* the cancel() callers
    crashes    \* restarts so far

vars == <<tasks, history, active, hasPaused, cchan, fchan, execs, nextExec,
          batch, loop, subs, cancels, crashes>>

storeVars == <<tasks, history>>
chanVars  == <<cchan, fchan, batch>>
callVars  == <<subs, cancels, crashes>>

----------------------------------------------------------------------------
(* Types. *)

Uid == Subs \cup {0}

Row == [status : {"none", "pending", "running", "paused"},
        uid : Uid, prio : Nat, retry : Nat, requeue : Uid]
NoRow == [status |-> "none", uid |-> 0, prio |-> 0, retry |-> 0, requeue |-> 0]

(* The fields of a TaskRecord that outlive the row it was read from. *)
Rec == [id : Ids, uid : Uid, prio : Nat, retry : Nat]
RecOf(k) == [id |-> k, uid |-> tasks[k].uid, prio |-> tasks[k].prio,
             retry |-> tasks[k].retry]

HistStatus == {"completed", "failed", "dead_letter", "cancelled", "superseded"}
Hist == [uid : Uid, status : HistStatus, src : {"exec", "cancel", "submit"},
         n : Nat]

(* exec: in the executor; inline: before increment_retry; elect: before
   try_lock of the completion channel; commit, fcommit: before writing the
   batch it drained; requeue: before requeue_for_retry; remove: before the
   last active.remove; dead: gone with the process that ran it. *)
ExecPC == {"none", "exec", "inline", "elect", "commit", "requeue", "fcommit",
           "remove", "done", "dead"}
Exec == [pc : ExecPC, id : Ids \cup {0}, uid : Uid, prio : Nat, retry : Nat,
         cancelled : BOOLEAN,
         out : {"none", "completed", "failed", "dead_letter"}]
NoExec == [pc |-> "none", id |-> 0, uid |-> 0, prio |-> 0, retry |-> 0,
           cancelled |-> FALSE, out |-> "none"]

LoopPC == {"idle", "completions", "failures", "list", "clear", "resume",
           "dispatch", "claim", "spawn"}
(* pausing: at the head of cancel_pause_emit's loop over the drained tasks;
   pause: the token of the task of row cur is cancelled, its row not paused. *)
SubPC == {"new", "replaced", "preempt", "pausing", "pause", "done"}
SubOut == {"none", "inserted", "superseding", "upgraded", "requeued",
           "duplicate", "rejected", "merged"}
Caller == [pc : SubPC, out : SubOut, id : Ids \cup {0}, old : Ids \cup {0},
           todo : SUBSET (Ids \X Execs), cur : Ids \cup {0}]
CancelPC == {"new", "record", "queue", "done"}
Canceller == [pc : CancelPC, id : Ids \cup {0}, uid : Uid]

TypeOK ==
    /\ tasks \in [Ids -> Row]
    /\ history \subseteq Hist
    /\ active \in [Ids -> Execs \cup {0}]
    /\ hasPaused \in BOOLEAN
    /\ cchan \subseteq Execs /\ fchan \subseteq Execs
    /\ execs \in [Execs -> Exec]
    /\ nextExec \in Nat \ {0}
    /\ batch \in [Writers -> SUBSET Execs]
    /\ loop \in [pc : LoopPC, recs : SUBSET Rec]
    /\ subs \in [Subs -> Caller]
    /\ cancels \in [Cancels -> Canceller]
    /\ crashes \in Nat

Init ==
    /\ tasks = [k \in Ids |-> NoRow]
    /\ history = {}
    /\ active = [k \in Ids |-> 0]
    /\ hasPaused = FALSE
    /\ cchan = {} /\ fchan = {}
    /\ execs = [e \in Execs |-> NoExec]
    /\ nextExec = 1
    /\ batch = [w \in Writers |-> {}]
    /\ loop = [pc |-> "idle", recs |-> {}]
    /\ subs = [i \in Subs |-> [pc |-> "new", out |-> "none", id |-> 0,
                               old |-> 0, todo |-> {}, cur |-> 0]]
    /\ cancels = [c \in Cancels |-> [pc |-> "new", id |-> 0, uid |-> 0]]
    /\ crashes = 0

----------------------------------------------------------------------------
(* The store. *)

Present == {k \in Ids : tasks[k].status # "none"}

(* INTEGER PRIMARY KEY without AUTOINCREMENT: one more than the largest row
   id in the table, so the id of a deleted newest row is used again. *)
IsNextRowId(k, rows) ==
    /\ \A j \in rows : j < k
    /\ k = 1 \/ (k - 1) \in rows

(* With FreshIds the model keeps only the behaviours in which no submission
   is handed a row id that an earlier submission was handed. *)
Fresh(k) == FreshIds => \A j \in Subs : subs[j].id # k

NewRow(i) == [status |-> "pending", uid |-> i, prio |-> Prio[i], retry |-> 0,
              requeue |-> 0]

SetStatus(k, s) == [tasks EXCEPT ![k].status = s]

ExecRecord(e, s) == [uid |-> execs[e].uid, status |-> s, src |-> "exec", n |-> e]

(* Wrong on purpose: the row is not deleted. *)
CompletedRowKept(r) == [r EXCEPT !.status = "pending", !.requeue = 0]

(* Wrong on purpose: the row is marked instead of deleted. *)
CompletedRowMarked(r) == [r EXCEPT !.status = "completed"]

(* complete_batch_with_resolve: one history record per message; the row is
   deleted unless a duplicate submission set requeue, whatever its status. *)
CompletedRow(r) ==
    IF r.requeue = 0 THEN NoRow
    ELSE [r EXCEPT !.status = "pending", !.uid = r.requeue,
                   !.prio = Prio[r.requeue], !.retry = 0, !.requeue = 0]

CompleteBatch(B) ==
    /\ history' = history \cup {ExecRecord(e, "completed") : e \in B}
    /\ tasks' = [k \in Ids |-> IF \E e \in B : execs[e].id = k
                               THEN CompletedRow(tasks[k]) ELSE tasks[k]]

(* fail_batch: one history record per message; the rows are deleted. *)
FailBatch(B) ==
    /\ history' = history \cup {ExecRecord(e, execs[e].out) : e \in B}
    /\ tasks' = [k \in Ids |-> IF \E e \in B : execs[e].id = k
                               THEN NoRow ELSE tasks[k]]

(* Wrong on purpose: the retry is counted in memory only. *)
IncrementRetryInMemory(k) == tasks' = tasks

(* increment_retry: no status guard. *)
IncrementRetry(k) ==
    tasks' = [tasks EXCEPT ![k] = IF @.status = "none" THEN @
                                  ELSE [@ EXCEPT !.retry = tasks[k].retry + 1]]

(* Wrong on purpose: the row is deleted instead of requeued. *)
RequeueForRetryDrops(k) == tasks' = [tasks EXCEPT ![k] = NoRow]

(* requeue_for_retry: no status guard. *)
RequeueForRetry(k) ==
    tasks' = [tasks EXCEPT ![k] =
                 IF @.status = "none" THEN @
                 ELSE [@ EXCEPT !.status = "pending", !.retry = tasks[k].retry + 1]]

(* Wrong on purpose: only a pending row is paused. *)
PauseRowIfPending(k) ==
    tasks' = [tasks EXCEPT ![k] = IF @.status # "pending" THEN @
                                  ELSE [@ EXCEPT !.status = "paused"]]

(* pause: no status guard. *)
PauseRow(k) ==
    tasks' = [tasks EXCEPT ![k] = IF @.status = "none" THEN @
                                  ELSE [@ EXCEPT !.status = "paused"]]

----------------------------------------------------------------------------
(* The active map. *)

ActiveIds == {k \in Ids : active[k] # 0}

HasPreemptorsFor(p) ==
    \E k \in ActiveIds : /\ execs[active[k]].prio <= PreemptPriority
                         /\ execs[active[k]].prio < p

ActiveRemove(k) == active' = [active EXCEPT ![k] = 0]

----------------------------------------------------------------------------
(* A spawned future. *)

Goto(e, pc) == execs' = [execs EXCEPT ![e].pc = pc]

(* The executor returned Ok: free the slot, then queue the completion. *)
HandleSuccess(e) ==
    /\ execs[e].pc = "exec"
    /\ execs' = [execs EXCEPT ![e] = [@ EXCEPT !.pc = "elect", !.out = "completed"]]
    /\ ActiveRemove(execs[e].id)
    /\ cchan' = cchan \cup {e}
    /\ UNCHANGED <<storeVars, hasPaused, fchan, nextExec, batch, loop, callVars>>

(* Wrong on purpose: the drained messages stay in the channel. *)
ElectLeaderCopies(e) ==
    /\ execs[e].pc = "elect"
    /\ batch' = [batch EXCEPT ![e] = cchan]
    /\ Goto(e, IF cchan = {} THEN "done" ELSE "commit")
    /\ UNCHANGED <<storeVars, active, hasPaused, cchan, fchan, nextExec, loop, callVars>>

(* try_lock succeeds: drain the channel and become the writer of the batch. *)
ElectLeader(e) ==
    /\ execs[e].pc = "elect"
    /\ batch' = [batch EXCEPT ![e] = cchan]
    /\ cchan' = {}
    /\ Goto(e, IF cchan = {} THEN "done" ELSE "commit")
    /\ UNCHANGED <<storeVars, active, hasPaused, fchan, nextExec, loop, callVars>>

(* try_lock fails because another drainer holds the receiver: the message
   stays in the channel for a later drainer. *)
LoseElection(e) ==
    /\ execs[e].pc = "elect"
    /\ Goto(e, "done")
    /\ UNCHANGED <<storeVars, active, hasPaused, chanVars, nextExec, loop, callVars>>

CommitCompletions(e) ==
    /\ execs[e].pc = "commit"
    /\ CompleteBatch(batch[e])
    /\ batch' = [batch EXCEPT ![e] = {}]
    /\ Goto(e, "done")
    /\ UNCHANGED <<active, hasPaused, cchan, fchan, nextExec, loop, callVars>>

(* The executor returned Err after its token was cancelled. *)
ReturnCancelled(e) ==
    /\ execs[e].pc = "exec" /\ execs[e].cancelled
    /\ ActiveRemove(execs[e].id)
    /\ Goto(e, "done")
    /\ UNCHANGED <<storeVars, hasPaused, chanVars, nextExec, loop, callVars>>

(* A retryable error with budget left: retried inline when the delay is zero,
   otherwise requeued with a delay. *)
ReturnRetryable(e) ==
    /\ execs[e].pc = "exec" /\ ~execs[e].cancelled
    /\ execs[e].retry < MaxRetries
    /\ \/ Goto(e, "inline")
       \/ Goto(e, "requeue")
    /\ UNCHANGED <<storeVars, active, hasPaused, chanVars, nextExec, loop, callVars>>

(* The same future runs the executor again, with the retry count it kept.  The
   context it is given has a new token, so it may not see a cancellation. *)
InlineRetry(e) ==
    /\ execs[e].pc = "inline"
    /\ IncrementRetry(execs[e].id)
    /\ execs' = [execs EXCEPT ![e] = [@ EXCEPT !.pc = "exec",
                                               !.retry = execs[e].retry + 1]]
    /\ UNCHANGED <<history, active, hasPaused, chanVars, nextExec, loop, callVars>>

RequeueRetry(e) ==
    /\ execs[e].pc = "requeue"
    /\ RequeueForRetry(execs[e].id)
    /\ Goto(e, "remove")
    /\ UNCHANGED <<history, active, hasPaused, chanVars, nextExec, loop, callVars>>

(* A terminal error (non-retryable, or retries exhausted): queue it, then try
   to drain the failure channel. *)
HandleFailure(e, out) ==
    /\ execs[e].pc = "exec" /\ ~execs[e].cancelled
    /\ out = "dead_letter" => execs[e].retry >= MaxRetries
    /\ \/ /\ batch' = [batch EXCEPT ![e] = fchan \cup {e}]
          /\ fchan' = {}
          /\ execs' = [execs EXCEPT ![e] = [@ EXCEPT !.pc = "fcommit", !.out = out]]
       \/ /\ fchan' = fchan \cup {e}
          /\ batch' = batch
          /\ execs' = [execs EXCEPT ![e] = [@ EXCEPT !.pc = "remove", !.out = out]]
    /\ UNCHANGED <<storeVars, active, hasPaused, cchan, nextExec, loop, callVars>>

CommitFailures(e) ==
    /\ execs[e].pc = "fcommit"
    /\ FailBatch(batch[e])
    /\ batch' = [batch EXCEPT ![e] = {}]
    /\ Goto(e, "remove")
    /\ UNCHANGED <<active, hasPaused, cchan, fchan, nextExec, loop, callVars>>

(* handle_failure frees the slot after the store write. *)
RemoveActive(e) ==
    /\ execs[e].pc = "remove"
    /\ ActiveRemove(execs[e].id)
    /\ Goto(e, "done")
    /\ UNCHANGED <<storeVars, hasPaused, chanVars, nextExec, loop, callVars>>

ExecStep(e) ==
    \/ HandleSuccess(e) \/ ElectLeader(e) \/ LoseElection(e)
    \/ CommitCompletions(e) \/ ReturnCancelled(e) \/ ReturnRetryable(e)
    \/ InlineRetry(e) \/ RequeueRetry(e)
    \/ \E out \in {"failed", "dead_letter"} : HandleFailure(e, out)
    \/ CommitFailures(e) \/ RemoveActive(e)

----------------------------------------------------------------------------
(* The run loop: poll_and_dispatch. *)

LoopTo(pc, recs) == loop' = [pc |-> pc, recs |-> recs]

AfterDrain == IF hasPaused THEN "list" ELSE "dispatch"

(* drain_failures returns at once when the channel is empty. *)
DrainFailures ==
    /\ batch' = [batch EXCEPT ![Loop] = fchan]
    /\ fchan' = {}
    /\ LoopTo(IF fchan = {} THEN AfterDrain ELSE "failures", {})

(* Wrong on purpose: the loop leaves completions to the spawned futures. *)
LoopDrainFailuresOnly ==
    /\ loop.pc = "idle"
    /\ DrainFailures
    /\ UNCHANGED <<storeVars, active, hasPaused, cchan, execs, nextExec, callVars>>

(* drain_completions; when its channel is empty, drain_failures at once (what
   is sent between the two is seen by the next cycle, as if sent after). *)
LoopDrain ==
    /\ loop.pc = "idle"
    /\ \/ /\ cchan # {}
          /\ batch' = [batch EXCEPT ![Loop] = cchan]
          /\ cchan' = {}
          /\ LoopTo("completions", {})
          /\ fchan' = fchan
       \/ /\ cchan = {}
          /\ DrainFailures
          /\ cchan' = cchan
    /\ UNCHANGED <<storeVars, active, hasPaused, execs, nextExec, callVars>>

LoopCommitCompletions ==
    /\ loop.pc = "completions"
    /\ CompleteBatch(batch[Loop])
    /\ DrainFailures
    /\ UNCHANGED <<active, hasPaused, cchan, execs, nextExec, callVars>>

LoopCommitFailures ==
    /\ loop.pc = "failures"
    /\ FailBatch(batch[Loop])
    /\ batch' = [batch EXCEPT ![Loop] = {}]
    /\ LoopTo(AfterDrain, {})
    /\ UNCHANGED <<active, hasPaused, cchan, fchan, execs, nextExec, callVars>>

(* SELECT of the preemption-paused rows; what follows acts on this list. *)
LoopListPaused ==
    /\ loop.pc = "list"
    /\ LET paused == {RecOf(k) : k \in {j \in Ids : tasks[j].status = "paused"}}
       IN LoopTo(IF paused = {} THEN "clear" ELSE "resume", paused)
    /\ UNCHANGED <<storeVars, active, hasPaused, chanVars, execs, nextExec, callVars>>

LoopClearHasPaused ==
    /\ loop.pc = "clear"
    /\ hasPaused' = FALSE
    /\ LoopTo("dispatch", {})
    /\ UNCHANGED <<storeVars, active, chanVars, execs, nextExec, callVars>>

(* resume_preempted, unless a preemptor of the row is still active. *)
LoopResume(r) ==
    /\ loop.pc = "resume" /\ r \in loop.recs
    /\ tasks' = IF ~HasPreemptorsFor(r.prio) /\ tasks[r.id].status = "paused"
                THEN SetStatus(r.id, "pending") ELSE tasks
    /\ LoopTo(IF loop.recs = {r} THEN "dispatch" ELSE "resume", loop.recs \ {r})
    /\ UNCHANGED <<history, active, hasPaused, chanVars, execs, nextExec, callVars>>

Pending == {k \in Ids : tasks[k].status = "pending"}

(* ORDER BY priority, id, over the rows whose run_after has passed. *)
NextInOrder(S) ==
    AllDue => \A k \in S, j \in Pending \ S :
        \/ tasks[k].prio < tasks[j].prio
        \/ tasks[k].prio = tasks[j].prio /\ k < j

(* Wrong on purpose: the claim does not look at the status. *)
LoopPopAnyStatus(S) ==
    /\ loop.pc = "dispatch" /\ FastDispatch
    /\ S # {} /\ S \subseteq Present
    /\ Cardinality(S) + Cardinality(ActiveIds) <= MaxConcurrency
    /\ nextExec + Cardinality(S) <= MaxExecs + 1
    /\ tasks' = [k \in Ids |-> IF k \in S
                               THEN [tasks[k] EXCEPT !.status = "running"]
                               ELSE tasks[k]]
    /\ LoopTo("spawn", {RecOf(k) : k \in S})
    /\ UNCHANGED <<history, active, hasPaused, chanVars, execs, nextExec, callVars>>

(* Fast path: pop_next_batch claims up to the free slots in one statement. *)
LoopPop(S) ==
    /\ loop.pc = "dispatch" /\ FastDispatch
    /\ S # {} /\ S \subseteq Pending /\ NextInOrder(S)
    /\ Cardinality(S) + Cardinality(ActiveIds) <= MaxConcurrency
    /\ nextExec + Cardinality(S) <= MaxExecs + 1
    /\ tasks' = [k \in Ids |-> IF k \in S
                               THEN [tasks[k] EXCEPT !.status = "running"]
                               ELSE tasks[k]]
    /\ LoopTo("spawn", {RecOf(k) : k \in S})
    /\ UNCHANGED <<history, active, hasPaused, chanVars, execs, nextExec, callVars>>

(* Wrong on purpose: off by one in the concurrency limit. *)
LoopPeekOneMore(k) ==
    /\ loop.pc = "dispatch" /\ ~FastDispatch
    /\ k \in Pending
    /\ Cardinality(ActiveIds) <= MaxConcurrency
    /\ nextExec <= MaxExecs
    /\ LoopTo("claim", {RecOf(k)})
    /\ UNCHANGED <<storeVars, active, hasPaused, chanVars, execs, nextExec, callVars>>

(* Slow path: peek, ask the gate, claim.  The record is the peeked one. *)
LoopPeek(k) ==
    /\ loop.pc = "dispatch" /\ ~FastDispatch
    /\ k \in Pending /\ NextInOrder({k})
    /\ Cardinality(ActiveIds) < MaxConcurrency
    /\ nextExec <= MaxExecs
    /\ LoopTo("claim", {RecOf(k)})
    /\ UNCHANGED <<storeVars, active, hasPaused, chanVars, execs, nextExec, callVars>>

(* claim_task: WHERE id = ? AND status = 'pending'. *)
LoopClaim(r) ==
    /\ loop.pc = "claim" /\ r \in loop.recs
    /\ \/ /\ tasks[r.id].status = "pending"
          /\ tasks' = SetStatus(r.id, "running")
          /\ LoopTo("spawn", {r})
       \/ /\ tasks[r.id].status # "pending"
          /\ tasks' = tasks
          /\ LoopTo("idle", {})
    /\ UNCHANGED <<history, active, hasPaused, chanVars, execs, nextExec, callVars>>

(* The gate denies the candidate: it stays pending for a later cycle. *)
LoopDeny ==
    /\ loop.pc = "claim"
    /\ LoopTo("idle", {})
    /\ UNCHANGED <<storeVars, active, hasPaused, chanVars, execs, nextExec, callVars>>

(* spawn_task: insert into the active map, then start the future. *)
LoopSpawn(r) ==
    /\ loop.pc = "spawn" /\ r \in loop.recs
    /\ nextExec \in Execs
    /\ active' = [active EXCEPT ![r.id] = nextExec]
    /\ execs' = [execs EXCEPT ![nextExec] =
                   [pc |-> "exec", id |-> r.id, uid |-> r.uid, prio |-> r.prio,
                    retry |-> r.retry, cancelled |-> FALSE, out |-> "none"]]
    /\ nextExec' = nextExec + 1
    /\ LoopTo(IF loop.recs = {r} THEN "dispatch" ELSE "spawn", loop.recs \ {r})
    /\ UNCHANGED <<storeVars, hasPaused, chanVars, callVars>>

(* Nothing to dispatch in this cycle: no free slot, or no pending row whose
   run_after has passed. *)
LoopSleep ==
    /\ loop.pc = "dispatch"
    /\ LoopTo("idle", {})
    /\ UNCHANGED <<storeVars, active, hasPaused, chanVars, execs, nextExec, callVars>>

LoopStep ==
    \/ LoopDrain \/ LoopCommitCompletions \/ LoopCommitFailures
    \/ LoopListPaused \/ LoopClearHasPaused
    \/ \E r \in loop.recs : LoopResume(r) \/ LoopClaim(r) \/ LoopSpawn(r)
    \/ \E S \in SUBSET Ids : LoopPop(S)
    \/ \E k \in Ids : LoopPeek(k)
    \/ LoopDeny \/ LoopSleep

----------------------------------------------------------------------------
(* submit(). *)

ExistingRow(i) == {k \in Present : Key[tasks[k].uid] = Key[i]}

Preempts(i) == Prio[i] <= PreemptPriority

(* The caller goes on to handle_superseded_active, to preempt_below, or
   returns. *)
SubmitReturns(i, out, k, old) ==
    subs' = [j \in Subs |->
        IF j = i THEN [pc |-> IF out = "superseding" THEN "replaced"
                              ELSE IF out \in {"duplicate", "rejected"}
                                   \/ ~Preempts(i) THEN "done" ELSE "preempt",
                       out |-> out, id |-> k, old |-> old, todo |-> {},
                       cur |-> 0]
        ELSE IF /\ old # 0 /\ tasks[old].requeue = j
                /\ out \in {"requeued", "superseding"}
             THEN [subs[j] EXCEPT !.out = "merged"]
             ELSE subs[j]]

InsertTask(i) ==
    /\ ExistingRow(i) = {}
    /\ \E k \in Ids :
          /\ IsNextRowId(k, Present) /\ Fresh(k)
          /\ tasks' = [tasks EXCEPT ![k] = NewRow(i)]
          /\ SubmitReturns(i, "inserted", k, 0)
    /\ UNCHANGED history

(* DuplicateStrategy::Skip: upgrade the priority of a queued row, or mark a
   running or paused one for another run after this one.  (skip_requeue is
   FALSE: has_running starts TRUE in a store opened from a file.) *)
SkipExisting(i, k) ==
    LET row == tasks[k]
        upgrade == row.status \in {"pending", "paused"} /\ row.prio > Prio[i]
        requeue == /\ row.status \in {"running", "paused"}
                   /\ row.requeue # 0 => Prio[row.requeue] > Prio[i]
    IN  /\ OnDup[i] = "skip"
        /\ \/ /\ upgrade
              /\ tasks' = [tasks EXCEPT ![k].prio = Prio[i]]
              /\ SubmitReturns(i, "upgraded", 0, k)
           \/ /\ ~upgrade /\ requeue
              /\ tasks' = [tasks EXCEPT ![k].requeue = i]
              /\ SubmitReturns(i, "requeued", 0, k)
           \/ /\ ~upgrade /\ ~requeue
              /\ tasks' = tasks
              /\ SubmitReturns(i, "duplicate", 0, k)
        /\ UNCHANGED history

(* DuplicateStrategy::Supersede: replace a queued row in place; delete a
   running row and insert the new one. *)
SupersedeExisting(i, k) ==
    /\ OnDup[i] = "supersede"
    /\ history' = history \cup {[uid |-> tasks[k].uid, status |-> "superseded",
                                 src |-> "submit", n |-> i]}
    /\ \/ /\ tasks[k].status \in {"pending", "paused"}
          /\ tasks' = [tasks EXCEPT ![k] = NewRow(i)]
          /\ SubmitReturns(i, "superseding", k, k)
       \/ /\ tasks[k].status = "running"
          /\ \E m \in Ids :
                /\ IsNextRowId(m, Present \ {k}) /\ Fresh(m)
                /\ tasks' = [tasks EXCEPT ![k] = NoRow, ![m] = NewRow(i)]
                /\ SubmitReturns(i, "superseding", m, k)

RejectDuplicate(i, k) ==
    /\ OnDup[i] = "reject"
    /\ SubmitReturns(i, "rejected", 0, k)
    /\ UNCHANGED storeVars

(* The store transaction of submission i; callers are numbered in the order
   in which their transactions run. *)
Submit(i) ==
    /\ subs[i].pc = "new"
    /\ \A j \in Subs : j < i => subs[j].pc # "new"
    /\ \/ InsertTask(i)
       \/ \E k \in ExistingRow(i) :
             SkipExisting(i, k) \/ SupersedeExisting(i, k) \/ RejectDuplicate(i, k)
    /\ UNCHANGED <<active, hasPaused, chanVars, execs, nextExec, loop,
                   cancels, crashes>>

CancelToken(e) == execs' = [execs EXCEPT ![e].cancelled = TRUE]

(* Cancels whatever execution the replaced row id has in the active map. *)
HandleSupersededActive(i) ==
    /\ subs[i].pc = "replaced"
    /\ \/ /\ active[subs[i].old] # 0
          /\ ActiveRemove(subs[i].old)
          /\ CancelToken(active[subs[i].old])
       \/ /\ active[subs[i].old] = 0
          /\ UNCHANGED <<active, execs>>
    /\ subs' = [subs EXCEPT ![i].pc = IF Preempts(i) THEN "preempt" ELSE "done"]
    /\ UNCHANGED <<storeVars, hasPaused, chanVars, nextExec, loop, cancels, crashes>>

(* preempt_below: drain every active task of lower priority. *)
PreemptBelow(i) ==
    LET drained == {k \in ActiveIds : execs[active[k]].prio > Prio[i]}
    IN  /\ subs[i].pc = "preempt"
        /\ active' = [k \in Ids |-> IF k \in drained THEN 0 ELSE active[k]]
        /\ subs' = [subs EXCEPT ![i] =
                      [@ EXCEPT !.todo = {<<k, active[k]>> : k \in drained},
                                !.pc = IF drained = {} THEN "done" ELSE "pausing"]]
        /\ UNCHANGED <<storeVars, hasPaused, chanVars, execs, nextExec, loop,
                       cancels, crashes>>

(* cancel_pause_emit, for each drained task: cancel its token ... *)
CancelNext(i, d) ==
    /\ subs[i].pc = "pausing" /\ d \in subs[i].todo
    /\ CancelToken(d[2])
    /\ subs' = [subs EXCEPT ![i] =
                  [@ EXCEPT !.pc = "pause", !.cur = d[1],
                            !.todo = subs[i].todo \ {d}]]
    /\ UNCHANGED <<storeVars, active, hasPaused, chanVars, nextExec, loop,
                   cancels, crashes>>

(* ... then pause its row, which the caller awaits. *)
PauseNext(i) ==
    /\ subs[i].pc = "pause"
    /\ PauseRow(subs[i].cur)
    /\ subs' = [subs EXCEPT ![i] = [@ EXCEPT !.pc = "pausing", !.cur = 0]]
    /\ UNCHANGED <<history, active, hasPaused, chanVars, execs, nextExec, loop,
                   cancels, crashes>>

(* Back in submit(): something was preempted. *)
SetHasPaused(i) ==
    /\ subs[i].pc = "pausing" /\ subs[i].todo = {}
    /\ hasPaused' = TRUE
    /\ subs' = [subs EXCEPT ![i].pc = "done"]
    /\ UNCHANGED <<storeVars, active, chanVars, execs, nextExec, loop, cancels,
                   crashes>>

SubmitStep(i) ==
    \/ HandleSupersededActive(i) \/ PreemptBelow(i)
    \/ (\E d \in subs[i].todo : CancelNext(i, d)) \/ PauseNext(i)
    \/ SetHasPaused(i)

----------------------------------------------------------------------------
(* cancel(). *)

(* The caller holds an id that some submission returned.  Take the task out of
   the active map and cancel its token, or find that it has no entry there. *)
CancelStart(c, k) ==
    /\ cancels[c].pc = "new"
    /\ \E i \in Subs : subs[i].id = k
    /\ \A d \in Cancels : d < c => cancels[d].pc # "new"
    /\ \/ /\ active[k] # 0
          /\ CancelToken(active[k])
          /\ cancels' = [cancels EXCEPT ![c] = [pc |-> "record", id |-> k,
                                                uid |-> execs[active[k]].uid]]
       \/ /\ active[k] = 0
          /\ cancels' = [cancels EXCEPT ![c] = [pc |-> "queue", id |-> k, uid |-> 0]]
          /\ execs' = execs
    /\ ActiveRemove(k)
    /\ UNCHANGED <<storeVars, hasPaused, chanVars, nextExec, loop, subs, crashes>>

CancelledRecord(c, u) ==
    [uid |-> u, status |-> "cancelled", src |-> "cancel", n |-> c]

(* cancel_to_history_with_record: the record taken from the active map is
   written to history and the row of that id deleted, unconditionally. *)
CancelToHistoryWithRecord(c) ==
    /\ cancels[c].pc = "record"
    /\ history' = history \cup {CancelledRecord(c, cancels[c].uid)}
    /\ tasks' = [tasks EXCEPT ![cancels[c].id] = NoRow]
    /\ cancels' = [cancels EXCEPT ![c].pc = "done"]
    /\ UNCHANGED <<active, hasPaused, chanVars, execs, nextExec, loop, subs, crashes>>

(* Wrong on purpose: the row is deleted without a record. *)
CancelToHistorySilently(c) ==
    /\ cancels[c].pc = "queue"
    /\ tasks' = [tasks EXCEPT ![cancels[c].id] = NoRow]
    /\ cancels' = [cancels EXCEPT ![c].pc = "done"]
    /\ UNCHANGED <<history, active, hasPaused, chanVars, execs, nextExec, loop,
                   subs, crashes>>

(* cancel_to_history: the row is read in the transaction; FALSE if absent. *)
CancelToHistory(c) ==
    /\ cancels[c].pc = "queue"
    /\ \/ /\ cancels[c].id \in Present
          /\ history' = history \cup {CancelledRecord(c, tasks[cancels[c].id].uid)}
          /\ tasks' = [tasks EXCEPT ![cancels[c].id] = NoRow]
       \/ /\ cancels[c].id \notin Present
          /\ UNCHANGED storeVars
    /\ cancels' = [cancels EXCEPT ![c].pc = "done"]
    /\ UNCHANGED <<active, hasPaused, chanVars, execs, nextExec, loop, subs, crashes>>

CancelStep(c) == CancelToHistoryWithRecord(c) \/ CancelToHistory(c)

----------------------------------------------------------------------------
(* Wrong on purpose: rows are left as the killed process had them. *)
NotRecovered(r) == r

(* recover_running *)
Recovered(r) == [r EXCEPT !.status = IF @ = "running" THEN "pending" ELSE @]

(* Kill the process and open the store again: memory is lost, recover_running
   puts running rows back to pending, and the builder recomputes
   has_paused_tasks. *)
Restart ==
    /\ crashes < MaxCrashes
    /\ crashes' = crashes + 1
    /\ tasks' = [k \in Ids |-> Recovered(tasks[k])]
    /\ hasPaused' = (\E k \in Ids : tasks[k].status = "paused")
    /\ active' = [k \in Ids |-> 0]
    /\ cchan' = {} /\ fchan' = {}
    /\ batch' = [w \in Writers |-> {}]
    /\ execs' = [e \in Execs |->
                   IF execs[e].pc = "none" THEN NoExec
                   ELSE [NoExec EXCEPT !.pc = "dead"]]
    /\ LoopTo("idle", {})
    /\ subs' = [i \in Subs |-> IF subs[i].pc = "new" THEN subs[i]
                               ELSE [subs[i] EXCEPT !.pc = "done",
                                                    !.todo = {}, !.cur = 0]]
    /\ cancels' = [c \in Cancels |-> IF cancels[c].pc = "new" THEN cancels[c]
                                     ELSE [cancels[c] EXCEPT !.pc = "done"]]
    /\ UNCHANGED <<history, nextExec>>

Next ==
    \/ \E e \in Execs : ExecStep(e)
    \/ LoopStep
    \/ \E i \in Subs : Submit(i) \/ SubmitStep(i)
    \/ \E c \in Cancels : CancelStep(c) \/ \E k \in Ids : CancelStart(c, k)
    \/ Restart

Spec == Init /\ [][Next]_vars

LoopSelects(k) == (\E S \in SUBSET Ids : k \in S /\ LoopPop(S)) \/ LoopPeek(k)
LoopClaims(k) == \E r \in loop.recs : r.id = k /\ LoopClaim(r)

(* The run loop wakes at every poll interval, a spawned future and a caller
   are polled until they finish, and an executor returns.  A pending row is
   not passed over for ever: its run_after passes, the finitely many rows
   before it leave, and the gate does not deny it for ever. *)
Fairness ==
    /\ WF_vars(LoopStep)
    /\ \A k \in Ids : SF_vars(LoopSelects(k)) /\ SF_vars(LoopClaims(k))
    /\ \A e \in Execs : WF_vars(ExecStep(e))
    /\ \A i \in Subs : WF_vars(SubmitStep(i))
    /\ \A c \in Cancels : WF_vars(CancelStep(c))

FairSpec == Spec /\ Fairness

----------------------------------------------------------------------------
(* Properties. *)

(* The submissions the caller was told are queued, or queued again. *)
Accepted(i) == subs[i].out \in {"inserted", "superseding", "requeued"}

(* NoTaskLost: an accepted submission stays in the store - as a row, as the
   promise to run a row again, or as a history record - whatever completes,
   fails, is preempted, cancelled or killed. *)
NoTaskLost ==
    \A i \in Subs : Accepted(i) =>
        \/ \E k \in Present : i \in {tasks[k].uid, tasks[k].requeue}
        \/ \E h \in history : h.uid = i

(* TerminalOnce: a submission reaches at most one terminal record, and once
   it has one no row of it is left to be dispatched again. *)
TerminalOnce ==
    /\ \A g, h \in history : g.uid = h.uid => g = h
    /\ \A h \in history : \A k \in Present : tasks[k].uid # h.uid

InExecutor(e) == execs[e].pc \in {"exec", "inline"}

(* OneExecution: no two executors that have not been told to stop work on the
   same submission at the same time. *)
OneExecution ==
    \A e, f \in Execs :
        /\ InExecutor(e) /\ InExecutor(f) /\ execs[e].uid = execs[f].uid
        /\ ~execs[e].cancelled /\ ~execs[f].cancelled
        => e = f

Recorded(e) == \E h \in history : h.src = "exec" /\ h.n = e

Unwritten(e) == e \in cchan \/ e \in fchan \/ \E w \in Writers : e \in batch[w]

(* RunningHasOwner: a row marked running is about to be spawned, is being
   executed, has a result on its way to the store, is about to be deleted by
   cancel(), or is about to be paused by the caller that cancelled the token
   of its execution; so no row stays 'running' for ever with nobody to move
   it. *)
RunningHasOwner ==
    \A k \in Ids : tasks[k].status = "running" =>
        \/ loop.pc = "spawn" /\ \E r \in loop.recs : r.id = k
        \/ \E e \in Execs : /\ execs[e].id = k
                            /\ \/ execs[e].pc \in {"exec", "inline", "requeue"}
                               \/ Unwritten(e)
        \/ \E c \in Cancels : cancels[c].pc = "record" /\ cancels[c].id = k
        \/ \E i \in Subs : subs[i].pc = "pause" /\ subs[i].cur = k

(* RetryInSync: while an execution is the one working on a row, the retry
   count it decides by is the one the store holds, and never exceeds
   max_retries. *)
RetryInSync ==
    \A e \in Execs : InExecutor(e) =>
        /\ execs[e].retry <= MaxRetries
        /\ /\ tasks[execs[e].id].status = "running"
           /\ tasks[execs[e].id].uid = execs[e].uid
           => tasks[execs[e].id].retry = execs[e].retry

ResultInOnePlace(e) ==
    /\ execs[e].out # "none" => Unwritten(e) \/ Recorded(e)
    /\ Unwritten(e) => ~Recorded(e)
    /\ e \in cchan => execs[e].out = "completed"
    /\ e \in fchan => execs[e].out \in {"failed", "dead_letter"}
    /\ \A w \in Writers : e \in batch[w] =>
          /\ e \notin cchan \cup fchan
          /\ \A v \in Writers : e \in batch[v] => v = w
    /\ \A h \in history : h.src = "exec" /\ h.n = e =>
          execs[e].pc = "dead" \/ h.status = execs[e].out

(* OutcomeConserved: a result an executor returned is in exactly one place -
   its channel, the batch of one drainer, or history, with the status it was
   returned with - unless the process was killed before it was written.  The
   leader elections neither lose a message nor give it to two drainers. *)
OutcomeConserved == \A e \in Execs : ResultInOnePlace(e)

(* ActiveWithinLimit: the active map and the rows claimed for it never exceed
   max_concurrency. *)
ActiveWithinLimit ==
    Cardinality(ActiveIds) + (IF loop.pc \in {"claim", "spawn"}
                              THEN Cardinality(loop.recs) ELSE 0)
        <= MaxConcurrency

(* ExecutingWithinLimit: the executors that run at the same time never exceed
   max_concurrency. *)
ExecutingWithinLimit == Cardinality({e \in Execs : InExecutor(e)}) <= MaxConcurrency

(* SupersedeCancelsOld: handle_superseded_active never stops the execution of
   the submission that did the replacing. *)
SupersedeCancelsOld ==
    [][\A i \in Subs : \A e \in Execs :
          subs[i].pc = "replaced" /\ InExecutor(e) /\ execs[e].uid = i
          => (execs'[e].cancelled => execs[e].cancelled)]_vars

(* PausedIsFlagged: while a row is paused by preemption, has_paused_tasks is
   set or a preempting caller is about to set it; otherwise the run loop never
   looks at the row again. *)
PausedIsFlagged ==
    (\E k \in Ids : tasks[k].status = "paused") =>
        hasPaused \/ \E i \in Subs : subs[i].pc \in {"pausing", "pause"}

(* InsertedFinishes: under fair scheduling every submission that was inserted
   reaches a terminal record. *)
InsertedFinishes ==
    \A i \in Subs : subs[i].out = "inserted" ~> \E h \in history : h.uid = i

============================================================================
