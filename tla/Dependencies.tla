---------------------------- MODULE Dependencies ----------------------------
(***************************************************************************)
(* Task dependencies: the edges of task_deps, blocked rows, the look-up of *)
(* dependencies at submission, unblocking in the completion transaction,   *)
(* the failure cascade that follows a failure, a cancellation or an expiry *)
(* in a transaction of its own, and the clean-up of edges at restart.      *)
(*                                                                         *)
(* TaskExecution models how a row is claimed and how its result reaches a  *)
(* channel; here a dispatch is one step, and an executor that is cancelled *)
(* stops without reporting.  Tasks have no parent, no group and distinct   *)
(* keys; submissions use the uncoalesced path (submit_direct).             *)
(***************************************************************************)
EXTENDS Integers, Sequences, FiniteSets

CONSTANTS
    MaxSubs,      \* submissions made in a behaviour
    MaxCancels,   \* cancel() calls in a behaviour
    MaxExpiries,  \* expiries (sweeps, or at dispatch) in a behaviour
    MaxCrashes,   \* process restarts in a behaviour
    DependsOn,    \* DependsOn[i]: the earlier submissions that i depends on
    Policy        \* Policy[i]: DependencyFailurePolicy of submission i

Subs == 1 .. MaxSubs
Ids  == Subs             \* row ids: never more rows than submissions
Refusal == MaxSubs + 1   \* the answer of a submission that returned an error

ASSUME DepsAssumption ==
    /\ MaxSubs \in Nat /\ MaxCancels \in Nat /\ MaxExpiries \in Nat
    /\ MaxCrashes \in Nat
    /\ DependsOn \in [Subs -> SUBSET Subs]
    /\ \A i \in Subs : \A j \in DependsOn[i] : j < i
    /\ Policy \in [Subs -> {"cancel", "fail", "ignore"}]

VARIABLES
    tasks,     \* the tasks table: row id -> row
    deps,      \* task_deps: pairs <<task_id, depends_on_id>>
    history,   \* task_history: the record with id n is history[n]
    ids,       \* the answer of each submission: 0 before it, an id, Refusal
    execs,     \* executions in progress
    cchan,     \* results of completed executions not yet written
    fchan,     \* results of failed executions not yet written
    cascades,  \* fail_dependents() calls still to be made
    mode,      \* "up", or "unblock" between two statements of recovery
    cancels, expiries, crashes,
    \* History, for the properties only:
    forgotten, \* edges that only a restart will remove
    stranded,  \* submissions that a kill inside recovery left blocked for good
    late       \* submissions given the id of a task still being reported on

vars == <<tasks, deps, history, ids, execs, cchan, fchan, cascades, mode,
          cancels, expiries, crashes, forgotten, stranded, late>>

storeVars == <<tasks, deps, history>>
execVars  == <<execs, cchan, fchan, cascades>>
bounds    == <<cancels, expiries, crashes>>
ghosts    == <<stranded, late>>

----------------------------------------------------------------------------
(* Types. *)

Row   == [status : {"none", "pending", "running", "blocked"}, uid : Subs \cup {0}]
NoRow == [status |-> "none", uid |-> 0]

(* What a spawned future or a caller remembers of a task. *)
Rec == [id : Ids, uid : Subs \cup {0}]

(* A failure message; lead: the batch it is in is written by its own future,
   which therefore cascades afterwards. *)
Failure == [id : Ids, uid : Subs \cup {0}, lead : BOOLEAN]

HistStatus == {"completed", "failed", "cancelled", "expired", "dependency_failed"}

TypeOK ==
    /\ tasks \in [Ids -> Row]
    /\ deps \subseteq Ids \X Ids
    /\ history \in Seq([uid : Subs \cup {0}, status : HistStatus])
    /\ ids \in [Subs -> Ids \cup {0, Refusal}]
    /\ execs \subseteq Rec /\ cchan \subseteq Rec /\ fchan \subseteq Failure
    /\ cascades \subseteq Rec
    /\ mode \in {"up", "unblock"}
    /\ cancels \in Nat /\ expiries \in Nat /\ crashes \in Nat
    /\ forgotten \subseteq Ids \X Ids
    /\ stranded \subseteq Subs /\ late \subseteq Subs

Init ==
    /\ tasks = [k \in Ids |-> NoRow]
    /\ deps = {} /\ history = <<>>
    /\ ids = [i \in Subs |-> 0]
    /\ execs = {} /\ cchan = {} /\ fchan = {} /\ cascades = {}
    /\ mode = "up"
    /\ cancels = 0 /\ expiries = 0 /\ crashes = 0
    /\ forgotten = {} /\ stranded = {} /\ late = {}

----------------------------------------------------------------------------
(* The store. *)

Present == {k \in Ids : tasks[k].status # "none"}

(* INTEGER PRIMARY KEY without AUTOINCREMENT. *)
IsNextRowId(k) ==
    /\ \A j \in Present : j < k
    /\ k = 1 \/ (k - 1) \in Present

(* A result names the task it is about by its row id alone. *)
Reported(k) == \E x \in execs \cup cchan \cup fchan : x.id = k

(* insert_history, for a set of tasks one after the other: task_history has row
   ids of its own. *)
InsertHistory(uids, status) ==
    history \o [n \in 1 .. Cardinality(uids) |->
        [uid |-> CHOOSE u \in uids : Cardinality({v \in uids : v <= u}) = n,
         status |-> status]]

EdgesTo(S)   == {e \in deps : e[2] \in S}
EdgesFrom(S) == {e \in deps : e[1] \in S}

(* Wrong on purpose: whoever is unblocked is paused, in a paused group or not. *)
UnblockedPaused(U, S, D) ==
    [k \in Ids |->
        IF k \in S THEN NoRow
        ELSE IF k \in U /\ tasks[k].status = "blocked" /\ ~\E e \in D : e[1] = k
             THEN [tasks[k] EXCEPT !.status = "paused"]
             ELSE tasks[k]]

(* The rows after S was deleted and the blocked rows of U that no edge of D
   holds any longer were unblocked. *)
Unblocked(U, S, D) ==
    [k \in Ids |->
        IF k \in S THEN NoRow
        ELSE IF k \in U /\ tasks[k].status = "blocked" /\ ~\E e \in D : e[1] = k
             THEN [tasks[k] EXCEPT !.status = "pending"]
             ELSE tasks[k]]

----------------------------------------------------------------------------
(* Submission. *)

DepIds(i) == {ids[j] : j \in DependsOn[i]}

(* resolve_dependency_edges looks the dependency's task id up among the row
   ids of task_history. *)
HistoryStatusOf(d) == IF d \in DOMAIN history THEN history[d].status ELSE "none"

(* The dependencies that become edges if they are active. *)
NeedActiveCheck(i) == {d \in DepIds(i) : HistoryStatusOf(d) = "none"}

DependencyFailed(i) ==
    /\ Policy[i] # "ignore"
    /\ \E d \in DepIds(i) : HistoryStatusOf(d) \notin {"none", "completed"}

(* The new row k has been inserted by then. *)
InvalidDependency(i, k) == ~(NeedActiveCheck(i) \subseteq Present \cup {k})

(* The recursive query of detect_cycle: S and everything upstream of it. *)
Ancestors(S, D) ==
    LET Up[n \in 0 .. MaxSubs] ==
            IF n = 0 THEN S
            ELSE Up[n - 1] \cup {e[2] : e \in {d \in D : d[1] \in Up[n - 1]}}
    IN  S \cup Up[MaxSubs]

NewEdges(i, k) == {<<k, d>> : d \in NeedActiveCheck(i)}

(* Wrong on purpose: the dependencies themselves are not compared with k. *)
CyclicDependencyStrict(i, k) ==
    \E e \in deps : e[1] \in Ancestors(NeedActiveCheck(i), deps) /\ e[2] = k

CyclicDependency(i, k) == k \in Ancestors(NeedActiveCheck(i), deps \cup NewEdges(i, k))

Refused(i, k) ==
    DependencyFailed(i) \/ InvalidDependency(i, k) \/ CyclicDependency(i, k)

(* The failure of row d has been cascaded, and is still to be written: an edge
   to d recorded now is seen by no cascade. *)
CascadedUnwritten(d) ==
    \E x \in fchan : /\ x.id = d /\ ~x.lead
                     /\ [id |-> x.id, uid |-> x.uid] \notin cascades

(* A caller has no id to depend on when the dependency itself was refused. *)
GivesUp(i) == \E j \in DependsOn[i] : ids[j] = Refusal

(* submit_direct: insert, resolve the dependencies, commit.  Submissions are
   numbered in the order in which their transactions run. *)
Submit(i) ==
    /\ mode = "up" /\ ids[i] = 0
    /\ DepIds(i) \subseteq Ids
    /\ \A j \in Subs : j < i => ids[j] # 0 \/ GivesUp(j)
    /\ \E k \in Ids :
          /\ IsNextRowId(k)
          /\ \/ /\ Refused(i, k)
                /\ ids' = [ids EXCEPT ![i] = Refusal]
                /\ UNCHANGED <<tasks, deps, forgotten, late>>
             \/ /\ ~Refused(i, k)
                /\ ids' = [ids EXCEPT ![i] = k]
                /\ deps' = deps \cup NewEdges(i, k)
                /\ tasks' = [tasks EXCEPT ![k] =
                      [status |-> IF NewEdges(i, k) = {} THEN "pending" ELSE "blocked",
                       uid |-> i]]
                /\ forgotten' = forgotten \cup
                                {e \in NewEdges(i, k) : CascadedUnwritten(e[2])}
                /\ late' = IF Reported(k) THEN late \cup {i} ELSE late
    /\ UNCHANGED <<history, execVars, mode, bounds, stranded>>

----------------------------------------------------------------------------
(* Execution and results. *)

Dispatch(k) ==
    /\ mode = "up" /\ tasks[k].status = "pending"
    /\ tasks' = [tasks EXCEPT ![k].status = "running"]
    /\ execs' = execs \cup {[id |-> k, uid |-> tasks[k].uid]}
    /\ UNCHANGED <<deps, history, ids, cchan, fchan, cascades, mode, bounds,
                   forgotten, ghosts>>

HandleSuccess(x) ==
    /\ x \in execs
    /\ execs' = execs \ {x}
    /\ cchan' = cchan \cup {x}
    /\ UNCHANGED <<storeVars, ids, fchan, cascades, mode, bounds, forgotten,
                   ghosts>>

(* handle_failure: queue the failure and try to become the leader.  The leader
   writes its batch and cascades; the loser cascades at once. *)
HandleFailure(x, lead) ==
    /\ x \in execs
    /\ execs' = execs \ {x}
    /\ fchan' = fchan \cup {[id |-> x.id, uid |-> x.uid, lead |-> lead]}
    /\ cascades' = IF lead THEN cascades ELSE cascades \cup {x}
    /\ UNCHANGED <<storeVars, ids, cchan, mode, bounds, forgotten, ghosts>>

(* Wrong on purpose: a dependent is unblocked by its first dependency. *)
ResolveDependentsFirst(S) ==
    /\ deps' = deps \ EdgesTo(S)
    /\ tasks' = Unblocked({e[1] : e \in EdgesTo(S)}, S, {})

(* Wrong on purpose: the edges are deleted and nobody is unblocked. *)
ResolveDependentsEdgesOnly(S) ==
    /\ deps' = deps \ EdgesTo(S)
    /\ tasks' = Unblocked({}, S, deps')

(* The rows of S are deleted and resolve_dependents runs for each of them. *)
ResolveDependents(S) ==
    /\ deps' = deps \ EdgesTo(S)
    /\ tasks' = Unblocked({e[1] : e \in EdgesTo(S)}, S, deps')

(* complete_batch_with_resolve, for the messages some drainer took. *)
CompleteBatch(B) ==
    /\ B # {} /\ B \subseteq cchan
    /\ cchan' = cchan \ B
    /\ history' = InsertHistory({x.uid : x \in B}, "completed")
    /\ ResolveDependents({x.id : x \in B})
    /\ forgotten' = forgotten \cap deps'
    /\ UNCHANGED <<ids, execs, fchan, cascades, mode, bounds, ghosts>>

(* fail_batch, for the messages some drainer took: a leading future (which has
   its own message among them) or the run loop.  Edges are left alone. *)
FailBatch(B) ==
    /\ B # {} /\ B \subseteq fchan
    /\ \A x, y \in B : x.lead /\ y.lead => x = y
    /\ fchan' = fchan \ B
    /\ history' = InsertHistory({x.uid : x \in B}, "failed")
    /\ tasks' = [k \in Ids |-> IF \E x \in B : x.id = k THEN NoRow ELSE tasks[k]]
    /\ cascades' = cascades \cup {[id |-> x.id, uid |-> x.uid] : x \in {y \in B : y.lead}}
    /\ UNCHANGED <<deps, ids, execs, cchan, mode, bounds, forgotten, ghosts>>

(* The rows that the cascade from id moves to history: those that depend on id
   or on another such row and do not ignore failures. *)
FailedDependents(id) ==
    LET Falls[k \in Ids] ==
            /\ k \in Present /\ Policy[tasks[k].uid] # "ignore"
            /\ \E d \in 1 .. (k - 1) : <<k, d>> \in deps /\ (d = id \/ Falls[d])
    IN  {k \in Ids : Falls[k]}

(* Wrong on purpose: only the direct dependents are looked at. *)
FailDependentsShallow(c) ==
    LET F == {k \in Present : <<k, c.id>> \in deps /\ Policy[tasks[k].uid] # "ignore"}
    IN  /\ c \in cascades
        /\ cascades' = cascades \ {c}
        /\ history' = InsertHistory({tasks[k].uid : k \in F}, "dependency_failed")
        /\ deps' = deps \ (EdgesTo({c.id}) \cup EdgesFrom(F))
        /\ tasks' = Unblocked({e[1] : e \in EdgesTo({c.id})}, F, deps')
        /\ forgotten' = forgotten \cap deps'
        /\ UNCHANGED <<ids, execs, cchan, fchan, mode, bounds, ghosts>>

(* fail_dependents, one transaction with its recursion. *)
FailDependents(c) ==
    LET F == FailedDependents(c.id)
        gone == EdgesTo({c.id} \cup F)
    IN  /\ c \in cascades
        /\ cascades' = cascades \ {c}
        /\ history' = InsertHistory({tasks[k].uid : k \in F}, "dependency_failed")
        /\ deps' = deps \ (gone \cup EdgesFrom(F))
        /\ tasks' = Unblocked({e[1] : e \in gone}, F, deps')
        /\ forgotten' = forgotten \cap deps'
        /\ UNCHANGED <<ids, execs, cchan, fchan, mode, bounds, ghosts>>

----------------------------------------------------------------------------
(* Cancellation, expiry, restart. *)

(* cancel_to_history, its first transaction; the cascade is its second. *)
Cancel(k) ==
    /\ mode = "up" /\ cancels < MaxCancels
    /\ k \in Present
    /\ cancels' = cancels + 1
    /\ history' = InsertHistory({tasks[k].uid}, "cancelled")
    /\ deps' = deps \ EdgesFrom({k})
    /\ tasks' = [tasks EXCEPT ![k] = NoRow]
    /\ execs' = {x \in execs : x.id # k}
    /\ cascades' = cascades \cup {[id |-> k, uid |-> tasks[k].uid]}
    /\ forgotten' = forgotten \cap deps'
    /\ UNCHANGED <<ids, cchan, fchan, mode, expiries, crashes, ghosts>>

(* expire_tasks, its sweep; a cascade for each expired task follows. *)
ExpireTasks(S) ==
    /\ mode = "up" /\ expiries < MaxExpiries
    /\ S # {} /\ \A k \in S : tasks[k].status \in {"pending", "blocked"}
    /\ expiries' = expiries + 1
    /\ history' = InsertHistory({tasks[k].uid : k \in S}, "expired")
    /\ deps' = deps \ EdgesFrom(S)
    /\ tasks' = [k \in Ids |-> IF k \in S THEN NoRow ELSE tasks[k]]
    /\ cascades' = cascades \cup {[id |-> k, uid |-> tasks[k].uid] : k \in S}
    /\ forgotten' = forgotten \cap deps'
    /\ UNCHANGED <<ids, execs, cchan, fchan, mode, cancels, crashes, ghosts>>

(* expire_single, called by the run loop when the candidate for dispatch has
   expired: no cascade, and the edges to it stay. *)
ExpireSingle(k) ==
    /\ mode = "up" /\ expiries < MaxExpiries
    /\ tasks[k].status = "pending"
    /\ expiries' = expiries + 1
    /\ history' = InsertHistory({tasks[k].uid}, "expired")
    /\ tasks' = [tasks EXCEPT ![k] = NoRow]
    /\ forgotten' = forgotten \cup EdgesTo({k})
    /\ UNCHANGED <<deps, ids, execVars, mode, cancels, crashes, ghosts>>

StaleEdges == {e \in deps : e[2] \notin Present}

(* Blocked rows without an edge. *)
Unheld == {k \in Ids : tasks[k].status = "blocked" /\ EdgesFrom({k}) = {}}

(* Kill the process, at any point, recovery included, and open the store again,
   up to the deletion of the stale edges.  Running rows go back to pending.
   Rows are unblocked by the next statement, and only if some edge was stale:
   what a recovery killed before it has unblocked, no later one unblocks. *)
Restart ==
    /\ crashes < MaxCrashes
    /\ crashes' = crashes + 1
    /\ tasks' = [k \in Ids |-> IF tasks[k].status = "running"
                               THEN [tasks[k] EXCEPT !.status = "pending"]
                               ELSE tasks[k]]
    /\ execs' = {} /\ cchan' = {} /\ fchan' = {} /\ cascades' = {}
    /\ deps' = deps \ StaleEdges
    /\ mode' = IF StaleEdges = {} THEN "up" ELSE "unblock"
    /\ forgotten' = {}
    /\ stranded' = IF mode = "unblock" /\ mode' = "up"
                   THEN stranded \cup {tasks[k].uid : k \in Unheld} ELSE stranded
    /\ UNCHANGED <<history, ids, cancels, expiries, late>>

RecoverUnblock ==
    /\ mode = "unblock"
    /\ mode' = "up"
    /\ tasks' = Unblocked(Ids, {}, deps)
    /\ stranded' = {}
    /\ UNCHANGED <<deps, history, ids, execVars, bounds, forgotten, late>>

----------------------------------------------------------------------------
ExecStep(x) == HandleSuccess(x) \/ \E lead \in BOOLEAN : HandleFailure(x, lead)

Next ==
    \/ \E i \in Subs : Submit(i)
    \/ \E k \in Ids : Dispatch(k) \/ Cancel(k) \/ ExpireSingle(k)
    \/ \E x \in execs : ExecStep(x)
    \/ \E B \in SUBSET cchan : CompleteBatch(B)
    \/ \E B \in SUBSET fchan : FailBatch(B)
    \/ \E c \in cascades : FailDependents(c)
    \/ \E S \in SUBSET Ids : ExpireTasks(S)
    \/ Restart \/ RecoverUnblock

Spec == Init /\ [][Next]_vars

(* The run loop dispatches what is pending and drains both channels, executors
   return, and a caller or future that owes a cascade makes it. *)
Fairness ==
    /\ WF_vars(\E k \in Ids : Dispatch(k))
    /\ WF_vars(\E x \in execs : ExecStep(x))
    /\ WF_vars(CompleteBatch(cchan))
    /\ WF_vars(\E B \in SUBSET fchan : FailBatch(B))
    /\ WF_vars(\E c \in cascades : FailDependents(c))
    /\ WF_vars(RecoverUnblock)

FairSpec == Spec /\ Fairness

----------------------------------------------------------------------------
(* Properties. *)

(* Row id k was once given out while a task that had it before was still
   being executed or reported on: the late result acts on the wrong row. *)
GivenOutLate(k) == \E i \in late : ids[i] = k

(* ReadyHasNoEdge: a task that may be dispatched, or has been, waits for no
   recorded dependency: the status column and task_deps agree after every
   completion, cascade, cancellation, expiry and restart.  Only a row whose id
   was given out too early is excepted: the former task's result may have
   deleted a row and left its edges to the next. *)
ReadyHasNoEdge ==
    \A k \in Ids : tasks[k].status \in {"pending", "running"} =>
        EdgesFrom({k}) = {} \/ GivenOutLate(k)

(* EdgesHoldBack: the same without the exception, as "a task status indicating
   the task has unresolved dependencies and cannot be dispatched"
   (docs/glossary.md) has it. *)
EdgesHoldBack ==
    \A e \in deps : tasks[e[1]].status \notin {"pending", "running"}

(* BlockedIsAwaited: a blocked task waits for something, and whatever it waits
   for is still in the queue, or somebody is about to cascade its failure.  The
   exceptions are what the code forgets: the edges of an expiry at dispatch and
   of a dependency recorded between the cascade and the write of its failure,
   and the rows that a kill between the two statements of recovery stranded. *)
BlockedIsAwaited ==
    mode = "up" => \A k \in Ids : tasks[k].status = "blocked" =>
        /\ EdgesFrom({k}) # {} \/ tasks[k].uid \in stranded
        /\ \A e \in EdgesFrom({k}) :
              \/ e[2] \in Present \/ e \in forgotten
              \/ \E c \in cascades : c.id = e[2]

(* EdgesDescend: every recorded dependency has a smaller id than the task that
   waits for it, so task_deps never holds a cycle, whatever ids are reused. *)
EdgesDescend == \A e \in deps : e[2] < e[1]

(* The rows that wait, however indirectly, on a forgotten edge ... *)
Stuck(k) == \E e \in forgotten : e[1] \in Ancestors({k}, deps)

(* ... or for a stranded row. *)
Cut(k) == \E a \in Ids : tasks[a].uid \in stranded /\ a \in Ancestors({k}, deps)

(* AcceptedSettles: under fair scheduling an accepted submission ends in
   history, unless it waits on a forgotten edge or for a stranded row, or its
   row id was given out too early. *)
AcceptedSettles ==
    \A i \in Subs :
        ids[i] \in Ids ~> \/ \E n \in DOMAIN history : history[n].uid = i
                          \/ \E k \in Ids : tasks[k].uid = i /\ (Stuck(k) \/ Cut(k))
                          \/ i \in late

(* ChainsResume: the same without the exception of stranded rows, as
   "dependency chains resume correctly after any restart or crash"
   (docs/persistence-and-recovery.md) has it. *)
ChainsResume ==
    \A i \in Subs :
        ids[i] \in Ids ~> \/ \E n \in DOMAIN history : history[n].uid = i
                          \/ \E k \in Ids : tasks[k].uid = i /\ Stuck(k)
                          \/ i \in late

(* DependenciesSettled: a task runs only when everything it was submitted to
   depend on has come to an end. *)
DependenciesSettled ==
    \A x \in execs : \A j \in DependsOn[x.uid] :
        \E n \in DOMAIN history : history[n].uid = j

=============================================================================
