----------------------------- MODULE Hierarchy -----------------------------
(***************************************************************************)
(* Parents and children: an executor spawns tasks under its own id (or     *)
(* under its parent's), and its row waits until they are gone.  Whoever    *)
(* writes the end of a child looks at the parent afterwards and either     *)
(* queues its finalize phase or fails it.  The look is a transaction of    *)
(* its own, and queueing is a third step, so the children's handlers, the  *)
(* parent's own handler, a caller who cancels, the run loop and a kill     *)
(* interleave between them.                                                *)
(*                                                                         *)
(* A thread is one execution (the future spawned for a task), the run loop *)
(* or a caller of Scheduler::cancel.  Row ids are not reused here (see     *)
(* TaskExecution), a task has no dependencies (see Dependencies), and      *)
(* nothing is paused (see PauseState).                                     *)
(***************************************************************************)
EXTENDS Naturals, FiniteSets

CONSTANTS
    MaxTasks,     \* bound: tasks over the whole run
    NoTask,
    NoExec,
    MaxExecs,     \* bound: executions over the whole run
    MaxRetries,   \* max_retries of every task
    Scenarios     \* which tasks are submitted with fail_fast; bounds: how many submitted
                  \* and spawned tasks, retryable errors, calls of cancel, expired rows
                  \* and kills there may be with them

Tasks == 1..MaxTasks
Execs == 1..MaxExecs
Loop == 0
Caller == MaxExecs + 1
Threads == 0..(MaxExecs + 1)

ASSUME HierarchyAssumption ==
    /\ NoTask \notin Tasks /\ NoExec \notin Execs
    /\ MaxTasks \in Nat /\ MaxExecs \in Nat /\ MaxRetries \in Nat
    /\ \A s \in Scenarios :
          /\ s.failFast \subseteq Tasks
          /\ s.budget \in [submits : Nat, spawns : Nat, errors : Nat, cancels : Nat,
                           expiries : Nat, crashes : Nat]

VARIABLES
    row,         \* tasks.status, "new" before the submission, "gone" after it
    parent,      \* tasks.parent_id
    failFast,    \* tasks.fail_fast: the tasks submitted with it
    retries,     \* tasks.retry_count
    hist,        \* statuses under which a task is in task_history
    active,      \* ActiveTaskMap: the execution a task's entry belongs to
    finalizers,  \* ActiveTaskMap::pending_finalizers
    channel,     \* completion channel: executions that succeeded
    th,          \* the threads
    forgotten,   \* parents that have lost a child without being looked at
    budget       \* what is left of the bounds

store == <<row, parent, failFast, retries, hist>>
memory == <<active, finalizers, channel>>
ghosts == <<forgotten, budget>>
vars == <<store, memory, th, ghosts>>

Idle == [pc |-> "idle", task |-> NoTask, phase |-> "execute", cancelled |-> FALSE,
         batch |-> {}, par |-> NoTask, running |-> {}, pending |-> {}, err |-> "none"]

Live(t) == row[t] \in {"pending", "running", "waiting"}

Kids(p) == {c \in Tasks : Live(c) /\ parent[c] = p}

\* Where a thread goes when it has nothing left to do.
Finished(d) == IF d \in Execs THEN "done" ELSE "idle"

Goto(d, pc) == th' = [th EXCEPT ![d].pc = pc]

\* A new execution of task t, and its entry in the active map.
SpawnTask(e, t, phase) ==
    /\ th[e].pc = "idle"
    /\ \A d \in Execs : d < e => th[d].pc # "idle"
    /\ th' = [th EXCEPT ![Loop] = Idle,
                        ![e] = [Idle EXCEPT !.pc = "executing", !.task = t, !.phase = phase]]
    /\ active' = [active EXCEPT ![t] = e]

ActiveRemove(t) == active' = [active EXCEPT ![t] = NoExec]

\* The row of t moves to history under a status.
Moved(t, status) ==
    /\ row' = [row EXCEPT ![t] = IF Live(t) THEN "gone" ELSE @]
    /\ hist' = [hist EXCEPT ![t] = @ \cup {status}]

\* Ghost: t ends, and nobody looks at its parent because of it, although t
\* was the last child the parent waited for.
Forget(t) ==
    forgotten' = forgotten \cup {p \in {parent[t]} \cap Tasks :
                                    row[p] = "waiting" /\ Kids(p) \subseteq {t}}

\* One of the bounded events happens.
Spend(b) == budget[b] > 0 /\ budget' = [budget EXCEPT ![b] = @ - 1]

Init ==
    /\ row = [t \in Tasks |-> "new"]
    /\ parent = [t \in Tasks |-> NoTask]
    /\ retries = [t \in Tasks |-> 0]
    /\ hist = [t \in Tasks |-> {}]
    /\ active = [t \in Tasks |-> NoExec]
    /\ finalizers = {} /\ channel = {} /\ forgotten = {}
    /\ th = [d \in Threads |-> Idle]
    /\ \E s \in Scenarios : failFast = s.failFast /\ budget = s.budget

-----------------------------------------------------------------------------
(* Submission and dispatch *)

\* Row ids are handed out in increasing order.
IsNextId(t) == row[t] = "new" /\ \A u \in Tasks : u < t => row[u] # "new"

Submit(t) ==
    /\ IsNextId(t) /\ Spend("submits")
    /\ row' = [row EXCEPT ![t] = "pending"]
    /\ UNCHANGED <<parent, failFast, retries, hist, memory, th, forgotten>>

\* An executor spawns c below p.
Spawn(e, c, p) ==
    /\ th[e].pc = "executing"
    /\ IsNextId(c) /\ Spend("spawns")
    /\ row' = [row EXCEPT ![c] = "pending"]
    /\ parent' = [parent EXCEPT ![c] = p]
    /\ UNCHANGED <<failFast, retries, hist, memory, th, forgotten>>

SpawnChild(e, c) == Spawn(e, c, th[e].task)

SpawnSibling(e, c) ==
    /\ th[e].task # NoTask /\ parent[th[e].task] # NoTask
    /\ Spawn(e, c, parent[th[e].task])

Claim(t) ==
    /\ th[Loop].pc = "idle" /\ row[t] = "pending"
    /\ row' = [row EXCEPT ![t] = "running"]
    /\ th' = [th EXCEPT ![Loop] = [Idle EXCEPT !.pc = "claimed", !.task = t]]
    /\ UNCHANGED <<parent, failFast, retries, hist, memory, ghosts>>

Start(e) ==
    /\ th[Loop].pc = "claimed"
    /\ SpawnTask(e, th[Loop].task, "execute")
    /\ UNCHANGED <<store, finalizers, channel, ghosts>>

-----------------------------------------------------------------------------
(* The handler of a success *)

(* Wrong on purpose: the children are not counted. *)
ReturnOkUncounted(e) ==
    /\ th[e].pc = "executing"
    /\ Goto(e, "sending")
    /\ UNCHANGED <<store, memory, ghosts>>

\* The executor returns Ok: after the execute phase its children are counted.
ReturnOk(e) ==
    /\ th[e].pc = "executing"
    /\ Goto(e, IF th[e].phase = "execute" /\ Kids(th[e].task) # {}
               THEN "setWaiting" ELSE "sending")
    /\ UNCHANGED <<store, memory, ghosts>>

SetWaiting(e) ==
    /\ th[e].pc = "setWaiting"
    /\ row' = [row EXCEPT ![th[e].task] = IF @ = "running" THEN "waiting" ELSE @]
    /\ Goto(e, "leaving")
    /\ UNCHANGED <<parent, failFast, retries, hist, memory, ghosts>>

(* Wrong on purpose: no second look after the row was set waiting. *)
LeaveWaitingBlindly(e) ==
    /\ th[e].pc = "leaving"
    /\ ActiveRemove(th[e].task)
    /\ Goto(e, "done")
    /\ UNCHANGED <<store, finalizers, channel, ghosts>>

LeaveWaiting(e) ==
    /\ th[e].pc = "leaving"
    /\ ActiveRemove(th[e].task)
    /\ Goto(e, "rechecking")
    /\ UNCHANGED <<store, finalizers, channel, ghosts>>

Send(e) ==
    /\ th[e].pc = "sending"
    /\ ActiveRemove(th[e].task)
    /\ channel' = channel \cup {e}
    /\ Goto(e, "electing")
    /\ UNCHANGED <<store, finalizers, ghosts>>

\* The messages of the channel become the batch of one drainer.
TakeBatch(d) ==
    /\ channel # {}
    /\ th' = [th EXCEPT ![d].pc = "committing", ![d].batch = channel]
    /\ channel' = {}

Elect(e) ==
    /\ th[e].pc = "electing"
    /\ \/ TakeBatch(e)
       \/ Goto(e, "done") /\ UNCHANGED channel   \* lost the try_lock, or nothing there
    /\ UNCHANGED <<store, active, finalizers, ghosts>>

DrainCompletions ==
    /\ th[Loop].pc = "idle"
    /\ TakeBatch(Loop)
    /\ UNCHANGED <<store, active, finalizers, ghosts>>

\* One transaction deletes the rows of the batch; the parents come afterwards.
CommitBatch(d) ==
    LET done == {th[m].task : m \in th[d].batch}
        withParent == {m \in th[d].batch : parent[th[m].task] # NoTask} IN
    /\ th[d].pc = "committing"
    /\ row' = [t \in Tasks |-> IF t \in done /\ Live(t) THEN "gone" ELSE row[t]]
    /\ hist' = [t \in Tasks |-> IF t \in done THEN hist[t] \cup {"completed"} ELSE hist[t]]
    /\ th' = [th EXCEPT ![d].pc = IF withParent = {} THEN Finished(d) ELSE "resolving",
                        ![d].batch = withParent]
    /\ UNCHANGED <<parent, failFast, retries, memory, ghosts>>

-----------------------------------------------------------------------------
(* The look at the parent *)

FailedChildren(p) == {c \in Tasks : parent[c] = p /\ "failed" \in hist[c]}

(* Wrong on purpose: the children that are left are not counted. *)
TryResolveParentEarly(d, p, rest) ==
    LET next == IF rest = {} THEN Finished(d) ELSE "resolving" IN
    th' = [th EXCEPT
             ![d].batch = rest,
             ![d].par = p,
             ![d].pc = IF row[p] # "waiting" THEN next
                       ELSE IF FailedChildren(p) # {} THEN "failRead" ELSE "enqueue"]

\* try_resolve_parent(p) in one transaction, by a thread that still has to
\* look at the parents of rest.
TryResolveParent(d, p, rest) ==
    LET next == IF rest = {} THEN Finished(d) ELSE "resolving" IN
    th' = [th EXCEPT
             ![d].batch = rest,
             ![d].par = p,
             ![d].pc = IF row[p] # "waiting" \/ Kids(p) # {} THEN next
                       ELSE IF FailedChildren(p) # {} THEN "failRead" ELSE "enqueue"]

HandleParentResolution(d) ==
    /\ th[d].pc = "resolving"
    /\ \E m \in th[d].batch :
          TryResolveParent(d, parent[th[m].task], th[d].batch \ {m})
    /\ UNCHANGED <<store, memory, ghosts>>

\* The parent's own handler looks once more after it has set its row waiting.
Recheck(e) ==
    /\ th[e].pc = "rechecking"
    /\ TryResolveParent(e, th[e].task, {})
    /\ UNCHANGED <<store, memory, ghosts>>

Resolved(d) == Goto(d, IF th[d].batch = {} THEN Finished(d) ELSE "resolving")

EnqueueFinalizer(d) ==
    /\ th[d].pc = "enqueue"
    /\ finalizers' = finalizers \cup {th[d].par}
    /\ Resolved(d)
    /\ UNCHANGED <<store, active, channel, ghosts>>

\* ParentResolution::Failed: read the parent's row, then fail it.
ReadFailedParent(d) ==
    /\ th[d].pc = "failRead"
    /\ IF Live(th[d].par) THEN Goto(d, "failWrite") ELSE Resolved(d)
    /\ UNCHANGED <<store, memory, ghosts>>

FailResolvedParent(d) ==
    /\ th[d].pc = "failWrite"
    /\ Moved(th[d].par, "failed")
    /\ Forget(th[d].par)
    /\ Resolved(d)
    /\ UNCHANGED <<parent, failFast, retries, memory, budget>>

-----------------------------------------------------------------------------
(* The finalize phase, dispatched by the run loop *)

PopFinalizer(p) ==
    /\ th[Loop].pc = "idle" /\ p \in finalizers
    /\ finalizers' = finalizers \ {p}
    /\ th' = [th EXCEPT ![Loop] = [Idle EXCEPT !.pc = "finalizing", !.task = p]]
    /\ UNCHANGED <<store, active, channel, ghosts>>

SetRunningForFinalize ==
    /\ th[Loop].pc = "finalizing"
    /\ row' = [row EXCEPT ![th[Loop].task] = IF @ = "waiting" THEN "running" ELSE @]
    /\ Goto(Loop, "spawning")
    /\ UNCHANGED <<parent, failFast, retries, hist, memory, ghosts>>

StartFinalizer(e) ==
    /\ th[Loop].pc = "spawning"
    /\ Live(th[Loop].task)
    /\ SpawnTask(e, th[Loop].task, "finalize")
    /\ UNCHANGED <<store, finalizers, channel, ghosts>>

SkipFinalizer ==
    /\ th[Loop].pc = "spawning"
    /\ ~Live(th[Loop].task)
    /\ th' = [th EXCEPT ![Loop] = Idle]
    /\ UNCHANGED <<store, memory, ghosts>>

-----------------------------------------------------------------------------
(* The handler of an error *)

\* The token was cancelled: whoever cancelled it keeps the books.
ReturnCancelled(e) ==
    /\ th[e].pc = "executing" /\ th[e].cancelled
    /\ active' = [active EXCEPT ![th[e].task] = NoExec]
    /\ Goto(e, "done")
    /\ UNCHANGED <<store, finalizers, channel, ghosts>>

\* A retryable error: again at once, or back to pending with a delay.
ReturnRetryable(e) ==
    LET t == th[e].task IN
    /\ th[e].pc = "executing" /\ ~th[e].cancelled
    /\ retries[t] < MaxRetries /\ Spend("errors")
    /\ \/ /\ th[e].phase = "execute"
          /\ retries' = [retries EXCEPT ![t] = @ + 1]
          /\ UNCHANGED th
       \/ Goto(e, "requeue") /\ UNCHANGED retries
    /\ UNCHANGED <<row, parent, failFast, hist, memory, forgotten>>

RequeueForRetry(e) ==
    LET t == th[e].task IN
    /\ th[e].pc = "requeue"
    /\ row' = [row EXCEPT ![t] = IF Live(t) THEN "pending" ELSE @]
    /\ retries' = [retries EXCEPT ![t] = IF Live(t) THEN @ + 1 ELSE @]
    /\ Goto(e, "requeued")
    /\ UNCHANGED <<parent, failFast, hist, memory, ghosts>>

LeaveRequeued(e) ==
    /\ th[e].pc = "requeued"
    /\ ActiveRemove(th[e].task)
    /\ Goto(e, "done")
    /\ UNCHANGED <<store, finalizers, channel, ghosts>>

\* A permanent error, or a retryable one with no retry left.
ReturnTerminal(e) ==
    /\ th[e].pc = "executing" /\ ~th[e].cancelled
    /\ \E err \in {"failed", "dead_letter"} :
          /\ err = "dead_letter" => retries[th[e].task] = MaxRetries
          /\ th' = [th EXCEPT ![e].pc = "failing", ![e].err = err]
    /\ UNCHANGED <<store, memory, ghosts>>

RecordFailure(e) ==
    /\ th[e].pc = "failing"
    /\ Moved(th[e].task, th[e].err)
    /\ Goto(e, "failed")
    /\ UNCHANGED <<parent, failFast, retries, memory, ghosts>>

LeaveFailed(e) ==
    /\ th[e].pc = "failed"
    /\ ActiveRemove(th[e].task)
    /\ Goto(e, IF parent[th[e].task] = NoTask THEN "done" ELSE "propagating")
    /\ UNCHANGED <<store, finalizers, channel, ghosts>>

(* Wrong on purpose: only fail_fast parents hear of a failure. *)
PropagateFailureFastOnly(e) ==
    LET p == parent[th[e].task] IN
    /\ th[e].pc = "propagating"
    /\ IF Live(p) /\ p \in failFast
       THEN th' = [th EXCEPT ![e].pc = "readRunning", ![e].par = p]
       ELSE Goto(e, "done")
    /\ UNCHANGED <<store, memory, ghosts>>

PropagateFailure(e) ==
    LET p == parent[th[e].task] IN
    /\ th[e].pc = "propagating"
    /\ IF ~Live(p) THEN Goto(e, "done")
       ELSE IF p \in failFast THEN th' = [th EXCEPT ![e].pc = "readRunning", ![e].par = p]
       ELSE TryResolveParent(e, p, {})
    /\ UNCHANGED <<store, memory, ghosts>>

-----------------------------------------------------------------------------
(* cancel_children(par), for fail_fast and for a caller of cancel *)

Cancel(t) ==
    /\ th[Caller].pc = "idle" /\ Spend("cancels") /\ row[t] # "new"
    /\ th' = [th EXCEPT ![Caller] =
                 [Idle EXCEPT !.pc = "readRunning", !.task = t, !.par = t]]
    /\ UNCHANGED <<store, memory, forgotten>>

ReadRunningChildren(d) ==
    /\ th[d].pc = "readRunning"
    /\ th' = [th EXCEPT ![d].pc = "readPending",
                        ![d].running = {c \in Kids(th[d].par) : row[c] # "pending"}]
    /\ UNCHANGED <<store, memory, ghosts>>

ReadPendingChildren(d) ==
    LET pending == {c \in Kids(th[d].par) : row[c] = "pending"} IN
    /\ th[d].pc = "readPending"
    /\ th' = [th EXCEPT ![d].pending = pending,
                        ![d].pc = IF pending = {} THEN "cancelling" ELSE "movePending"]
    /\ UNCHANGED <<store, memory, ghosts>>

\* History for the children read before, and a DELETE for those pending now.
MovePendingChildren(d) ==
    LET now == {c \in Kids(th[d].par) : row[c] = "pending"} IN
    /\ th[d].pc = "movePending"
    /\ row' = [t \in Tasks |-> IF t \in now THEN "gone" ELSE row[t]]
    /\ hist' = [t \in Tasks |-> IF t \in th[d].pending THEN hist[t] \cup {"cancelled"}
                                ELSE hist[t]]
    /\ th' = [th EXCEPT ![d].pc = "cancelling", ![d].pending = {}]
    /\ UNCHANGED <<parent, failFast, retries, memory, ghosts>>

\* The next running child: leave it alone unless it is in the active map.
CancelRunningChild(d) ==
    /\ th[d].pc = "cancelling"
    /\ \E c \in th[d].running :
          IF active[c] = NoExec
          THEN /\ th' = [th EXCEPT ![d].running = @ \ {c}]
               /\ UNCHANGED active
          ELSE /\ ActiveRemove(c)
               /\ th' = [th EXCEPT ![active[c]].cancelled = TRUE,
                                   ![d].running = @ \ {c}, ![d].pending = {c},
                                   ![d].pc = "removing"]
    /\ UNCHANGED <<store, finalizers, channel, ghosts>>

\* Scheduler::cancel records the child, fail_fast only deletes its row.
RemoveCancelledChild(d) ==
    /\ th[d].pc = "removing"
    /\ \E c \in th[d].pending :
          /\ row' = [row EXCEPT ![c] = IF Live(c) THEN "gone" ELSE @]
          /\ hist' = [hist EXCEPT ![c] = IF d = Caller THEN @ \cup {"cancelled"} ELSE @]
    /\ th' = [th EXCEPT ![d].pc = "cancelling", ![d].pending = {}]
    /\ UNCHANGED <<parent, failFast, retries, memory, ghosts>>

\* fail_fast: the parent fails, whatever has become of its row.
FailFastParent(e) ==
    /\ e \in Execs /\ th[e].pc = "cancelling" /\ th[e].running = {}
    /\ Moved(th[e].par, "failed")
    /\ Forget(th[e].par)
    /\ Goto(e, "done")
    /\ UNCHANGED <<parent, failFast, retries, memory, budget>>

\* A caller: a task in the active map is stopped first and recorded after ...
CancelActive ==
    LET t == th[Caller].task IN
    /\ th[Caller].pc = "cancelling" /\ th[Caller].running = {}
    /\ active[t] # NoExec
    /\ ActiveRemove(t)
    /\ th' = [th EXCEPT ![active[t]].cancelled = TRUE, ![Caller].pc = "cancelWrite"]
    /\ UNCHANGED <<store, finalizers, channel, ghosts>>

\* ... and one that is only a row is moved if it is still there.
CancelToHistory ==
    LET t == th[Caller].task IN
    /\ \/ th[Caller].pc = "cancelWrite"
       \/ th[Caller].pc = "cancelling" /\ th[Caller].running = {} /\ active[t] = NoExec
    /\ IF th[Caller].pc = "cancelWrite" \/ Live(t)
       THEN Moved(t, "cancelled") /\ Forget(t)
       ELSE UNCHANGED <<row, hist, forgotten>>
    /\ th' = [th EXCEPT ![Caller] = Idle]
    /\ UNCHANGED <<parent, failFast, retries, memory, budget>>

-----------------------------------------------------------------------------
(* Expiry and a kill *)

\* The TTL of a pending row has passed: it goes, and its pending children with it.
ExpireTask(t) ==
    LET gone == {t} \cup {c \in Kids(t) : row[c] = "pending"} IN
    /\ th[Loop].pc = "idle" /\ Spend("expiries") /\ row[t] = "pending"
    /\ row' = [u \in Tasks |-> IF u \in gone THEN "gone" ELSE row[u]]
    /\ hist' = [u \in Tasks |-> IF u \in gone THEN hist[u] \cup {"expired"} ELSE hist[u]]
    /\ Forget(t)
    /\ UNCHANGED <<parent, failFast, retries, memory, th>>

\* Memory is lost; recovery on open resets running rows and leaves waiting ones.
Crash ==
    /\ Spend("crashes")
    /\ row' = [t \in Tasks |-> IF row[t] = "running" THEN "pending" ELSE row[t]]
    /\ active' = [t \in Tasks |-> NoExec]
    /\ finalizers' = {} /\ channel' = {}
    /\ th' = [d \in Threads |-> IF th[d].pc = "idle" \/ d \notin Execs THEN Idle
                                ELSE [Idle EXCEPT !.pc = "done"]]
    /\ forgotten' = forgotten \cup {p \in Tasks : row[p] = "waiting" /\ Kids(p) = {}}
    /\ UNCHANGED <<parent, failFast, retries, hist>>

-----------------------------------------------------------------------------

Success(e) ==
    \/ ReturnOk(e) \/ SetWaiting(e) \/ LeaveWaiting(e)
    \/ Recheck(e) \/ Send(e) \/ Elect(e)

Failure(e) ==
    \/ ReturnCancelled(e) \/ ReturnRetryable(e) \/ RequeueForRetry(e) \/ LeaveRequeued(e)
    \/ ReturnTerminal(e) \/ RecordFailure(e) \/ LeaveFailed(e) \/ PropagateFailure(e)
    \/ FailFastParent(e)

Resolution(d) ==
    \/ CommitBatch(d) \/ HandleParentResolution(d) \/ EnqueueFinalizer(d)
    \/ ReadFailedParent(d) \/ FailResolvedParent(d)

CancelChildren(d) ==
    \/ ReadRunningChildren(d) \/ ReadPendingChildren(d) \/ MovePendingChildren(d)
    \/ CancelRunningChild(d) \/ RemoveCancelledChild(d)

\* The steps of an execution, from the return of the executor on.
Handler(e) == Success(e) \/ Failure(e) \/ Resolution(e) \/ CancelChildren(e)

RunLoop ==
    \/ DrainCompletions \/ Resolution(Loop) \/ SetRunningForFinalize \/ SkipFinalizer
    \/ \E t \in Tasks : Claim(t) \/ PopFinalizer(t)
    \/ \E e \in Execs : Start(e) \/ StartFinalizer(e)

CancelCall == CancelChildren(Caller) \/ CancelActive \/ CancelToHistory

Next ==
    \/ \E t \in Tasks : Submit(t) \/ Cancel(t) \/ ExpireTask(t)
    \/ \E e \in Execs, c \in Tasks : SpawnChild(e, c) \/ SpawnSibling(e, c)
    \/ \E e \in Execs : Handler(e)
    \/ RunLoop \/ CancelCall \/ Crash

\* The runtime polls every future that can make progress, executors return, and
\* the run loop is woken or polls.
Fairness == (\A e \in Execs : WF_vars(Handler(e))) /\ WF_vars(RunLoop) /\ WF_vars(CancelCall)

Spec == Init /\ [][Next]_vars /\ Fairness

-----------------------------------------------------------------------------
(* Properties *)

Pcs == {"idle", "done", "claimed", "executing", "setWaiting", "leaving",
        "rechecking", "sending", "electing", "committing", "resolving", "enqueue",
        "failRead", "failWrite", "finalizing", "spawning", "requeue", "requeued",
        "failing", "failed", "propagating", "readRunning", "readPending",
        "movePending", "cancelling", "removing", "cancelWrite"}

HistStatus == {"completed", "failed", "dead_letter", "cancelled", "expired"}

\* Every variable keeps its type.
TypeOK ==
    /\ row \in [Tasks -> {"new", "pending", "running", "waiting", "gone"}]
    /\ parent \in [Tasks -> Tasks \cup {NoTask}]
    /\ failFast \subseteq Tasks
    /\ retries \in [Tasks -> 0..MaxRetries]
    /\ hist \in [Tasks -> SUBSET HistStatus]
    /\ active \in [Tasks -> Execs \cup {NoExec}]
    /\ finalizers \subseteq Tasks /\ channel \subseteq Execs /\ forgotten \subseteq Tasks
    /\ \A d \in Threads : th[d].pc \in Pcs

\* A thread has yet to look at p: it has written, or is about to write, the end
\* of a child of p, or holds a verdict on p that it has not carried out.
LooksAt(d, p) ==
    \/ th[d].task = p /\ th[d].pc \in {"leaving", "rechecking", "finalizing"}
    \/ th[d].pc \in {"committing", "resolving"} /\ \E m \in th[d].batch : parent[th[m].task] = p
    \/ th[d].par = p /\ th[d].pc \in {"enqueue", "failRead", "failWrite", "readRunning",
                          "readPending", "movePending", "cancelling", "removing", "cancelWrite"}
    \/ th[d].task \in Tasks /\ parent[th[d].task] = p /\ th[d].pc \in {"failed", "propagating"}

\* A waiting parent is never lost by the handlers of its children and its own:
\* it has a live child, or is queued for finalize, or some thread will still
\* look at it.  The exceptions are the ones the code has no handler for
\* (forgotten): its last child was cancelled, expired or failed as a parent
\* itself, or the process was killed between the child's end and the look.
WaitingIsAwaited ==
    \A p \in Tasks : row[p] = "waiting" =>
        \/ Kids(p) # {}
        \/ p \in finalizers \cup forgotten
        \/ \E d \in Threads : LooksAt(d, p)

Finalizers(p) == {e \in Execs : th[e].task = p /\ th[e].phase = "finalize"}

\* No child of p has been cancelled, and none cancels its own or its siblings:
\* a cancelled execution runs on until its executor looks at the token, and a
\* fail_fast failure is written long after it was decided.
Undisturbed(p) ==
    /\ p \notin failFast
    /\ \A c \in Tasks : parent[c] = p => c \notin failFast /\ "cancelled" \notin hist[c]

\* The finalize phase is first entered only when no child is left and none of
\* them has failed, although the verdict was reached some steps before by a
\* thread that is not the run loop.
FinalizeAfterChildren ==
    [][\A e \in Execs :
          LET p == th[Loop].task IN
          StartFinalizer(e) /\ Finalizers(p) = {} /\ Undisturbed(p)
             => Kids(p) = {} /\ FailedChildren(p) = {}]_vars

\* What the comment on pending_finalizers says: two children may both resolve
\* the parent, but it is finalized once.
FinalizedOnce == \A p \in Tasks : Cardinality(Finalizers(p)) <= 1

\* An execution that leaves no child behind when it returns still has none when
\* its row is deleted.
CompletedAfterChildren ==
    [][\A d \in Threads : CommitBatch(d) =>
          \A m \in th[d].batch :
             th[m].phase = "execute" /\ Undisturbed(th[m].task) => Kids(th[m].task) = {}]_vars

\* Every waiting parent eventually leaves the waiting status, unless it was
\* forgotten (or the bound on executions cut the run short).
WaitingSettles ==
    \A p \in Tasks : row[p] = "waiting" ~>
        (row[p] # "waiting" \/ p \in forgotten \/ \A e \in Execs : th[e].pc # "idle")

=============================================================================
