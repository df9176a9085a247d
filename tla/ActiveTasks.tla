---------------------------- MODULE ActiveTasks -----------------------------
(***************************************************************************)
(* The in-memory map of running tasks, and those who work through its      *)
(* entries: the run loop that inserts them, executors that report progress *)
(* and return, inline retries that leave the entry alone, a preemption     *)
(* that empties the map, the ticker that samples byte counters, and the    *)
(* shutdown that cancels, joins or aborts what the map holds, writes the   *)
(* results that are still queued and closes the store.                     *)
(*                                                                         *)
(* An execution is one spawned future.  Entries are addressed by row id,   *)
(* so a future that outlives its entry acts on the entry of its successor. *)
(***************************************************************************)
EXTENDS Integers, FiniteSets

CONSTANTS
    Tasks,         \* row ids
    MaxExecs,      \* how many futures are told apart
    Unset,         \* Rust's None
    DurationMax,   \* the longest Duration
    Scenarios      \* configurations

Execs == 1 .. MaxExecs
Kinds == {"ok", "fail"}

ASSUME ActiveAssumption ==
    MaxExecs \in Nat /\ Unset \notin Tasks /\ Unset \notin Execs /\ Unset \notin Kinds

VARIABLES
    scenario,   \* the configuration of this run
    now,        \* the clock, in ticks of the progress interval
    row,        \* status of the rows
    active,     \* the map: row id to entry, or Unset
    exec,       \* the spawned futures
    io,         \* the trackers of their attempts
    spawned,    \* how many there are
    chan,       \* completion and failure channel
    recorded,   \* executions whose result is in the store
    open,       \* is the store open
    loop,       \* the run loop
    stop,       \* the token given to run() is cancelled
    late,       \* the deadline of a graceful shutdown has passed
    caller,     \* rows a preempting caller has drained and not yet paused
    ticker,     \* the progress ticker
    budget,     \* bounds: how often each kind of event may still happen
    \* History, for the properties only:
    drained,    \* executions the shutdown found in the map
    joined      \* those it saw end

vars == <<scenario, now, row, active, exec, io, spawned, chan, recorded, open,
          loop, stop, late, caller, ticker, budget, drained, joined>>

Lesser(a, b) == IF a <= b THEN a ELSE b
Greater(a, b) == IF a >= b THEN a ELSE b

-----------------------------------------------------------------------------
(* Progress reports *)

(* IoTracker::new; an unknown total is u64::MAX in the code. *)
NoIo == [done |-> 0, total |-> Unset]

NoExec == [task |-> Unset, pc |-> "none", token |-> FALSE, aborted |-> FALSE,
           attempt |-> 1, kind |-> Unset, batch |-> {}]

(* ActiveTask, as inserted: the token is the execution's own, and io the   *)
(* tracker of its first attempt.                                           *)
Entry(e) == [exec |-> e, handle |-> FALSE, reported |-> Unset,
             reported_at |-> Unset, started |-> now]

(* The tracker an entry holds: an inline retry gets a new one, the entry   *)
(* keeps the first.                                                        *)
Io(e) == io[e][1]

(* report_fraction with the clamp of report, in percent. *)
Percent(completed, total) ==
    IF total = 0 THEN 100 ELSE Lesser(100, (100 * completed) \div total)

(* ActiveTaskMap::update_progress: by row id, whoever is in the map. *)
update_progress(t, percent) ==
    active' = IF active[t] = Unset THEN active
              ELSE [active EXCEPT ![t].reported = percent, ![t].reported_at = now]

(* ActiveTaskMap::byte_progress_snapshots: what the ticker and             *)
(* byte_progress() see of the bytes done.                                  *)
byte_progress_snapshots ==
    [t \in Tasks |-> IF active[t] = Unset THEN Unset
                     ELSE [exec |-> active[t].exec, done |-> Io(active[t].exec).done]]

(* Mutant: the extrapolation is not kept below 99 percent. *)
ExtrapolateUncapped(entry) ==
    LET avg == scenario.avg
        el == Greater(1, entry.reported_at - entry.started)
        blended == entry.reported + ((now - entry.reported_at)
                       * (100 * el + entry.reported * avg)) \div (2 * avg * el)
    IN  IF avg = 0 THEN Unset
        ELSE IF entry.reported = Unset THEN ((now - entry.started) * 100) \div avg
        ELSE blended

(* progress::extrapolate, in percent: from the last report on, with the    *)
(* mean of the speed so far and of the speed history shows; avg is the     *)
(* average duration of the type, 0 when history has none.                  *)
extrapolate(entry) ==
    LET avg == scenario.avg
        el == Greater(1, entry.reported_at - entry.started)
        blended == entry.reported + ((now - entry.reported_at)
                       * (100 * el + entry.reported * avg)) \div (2 * avg * el)
    IN  IF avg = 0 THEN Unset
        ELSE IF entry.reported = Unset
             THEN Lesser(99, ((now - entry.started) * 100) \div avg)
        ELSE Lesser(99, blended)

(* EstimatedProgress.percent *)
BestEstimate(entry) ==
    IF entry.reported # Unset THEN entry.reported
    ELSE IF extrapolate(entry) # Unset THEN extrapolate(entry) ELSE 0

Spend(kind) == /\ budget[kind] > 0
               /\ budget' = [budget EXCEPT ![kind] = @ - 1]

(* ProgressReporter::report_fraction in the executor. *)
Report(e) ==
    /\ exec[e].pc = "run"
    /\ Spend("reports")
    /\ \E completed \in 0 .. 3, total \in {0, 2} :
          update_progress(exec[e].task, Percent(completed, total))
    /\ UNCHANGED <<scenario, now, row, exec, io, spawned, chan, recorded,
                   open, loop, stop, late, caller, ticker, drained, joined>>

(* add_bytes and set_bytes_total, on the tracker of the current attempt. *)
CountBytes(e) ==
    /\ exec[e].pc = "run"
    /\ Spend("bytes")
    /\ \/ \E delta \in scenario.deltas :
             io' = [io EXCEPT ![e][exec[e].attempt].done = @ + delta]
       \/ \E total \in scenario.totals :
             io' = [io EXCEPT ![e][exec[e].attempt].total = total]
    /\ UNCHANGED <<scenario, now, row, active, exec, spawned, chan, recorded,
                   open, loop, stop, late, caller, ticker, drained, joined>>

(* report_bytes: two stores, and the ticker may read between them. *)
ReportBytes(e) ==
    /\ \/ /\ exec[e].pc = "run"
          /\ Spend("bytes")
          /\ \E done \in scenario.marks :
                io' = [io EXCEPT ![e][exec[e].attempt].done = done]
          /\ exec' = [exec EXCEPT ![e].pc = "bytes"]
       \/ /\ exec[e].pc = "bytes"
          /\ \E total \in scenario.totals :
                io' = [io EXCEPT ![e][exec[e].attempt].total = total]
          /\ exec' = [exec EXCEPT ![e].pc = "run"]
          /\ UNCHANGED budget
    /\ UNCHANGED <<scenario, now, row, active, spawned, chan, recorded, open,
                   loop, stop, late, caller, ticker, drained, joined>>

-----------------------------------------------------------------------------
(* The ticker *)

Scale == 1000   \* rates are in thousandths of a byte per tick

NoTracker == [last |-> 0, at |-> Unset, bps |-> 0, exec |-> Unset, peak |-> 0]

(* Mutant: the difference of the counters wraps around. *)
DeltaWrapping(seen, last) == (seen - last) % 256

(* saturating_sub *)
Delta(seen, last) == Greater(0, seen - last)

(* ThroughputTracker::sample: the first sample sets the baseline, one that *)
(* comes too soon is skipped, others enter an average with alpha 0.3.      *)
(* The fields exec and peak are not in the code: the execution sampled,    *)
(* and the fastest it has moved between two samples.                       *)
sample(tr, e, seen) ==
    LET dt == now - tr.at
        raw == (Delta(seen, tr.last) * Scale) \div dt
        moved == (Greater(0, seen - (IF e = tr.exec THEN tr.last ELSE 0)) * Scale)
                     \div dt
    IN  IF tr.at = Unset
        THEN [tr EXCEPT !.last = seen, !.at = now, !.exec = e]
        ELSE IF dt < scenario.gap THEN tr
        ELSE [last |-> seen, at |-> now,
              bps |-> IF tr.bps = 0 THEN raw
                      ELSE (3 * raw + 7 * tr.bps) \div 10,
              exec |-> e, peak |-> Greater(tr.peak, moved)]

(* The eta of a TaskProgress, in ticks. *)
Eta(bytes, total, bps) ==
    IF total = Unset \/ bps = 0 THEN Unset
    ELSE IF bytes >= total THEN Unset
    ELSE ((total - bytes) * Scale) \div bps

(* One iteration of run_progress_ticker reads the bytes done ...           *)
TickerRead ==
    /\ ticker.pc = "sleep"
    /\ loop.pc \notin {"join", "wait", "drain", "close", "returned"}
    /\ Spend("ticks")
    /\ now' = now + 1
    /\ ticker' = [ticker EXCEPT !.pc = "read", !.seen = byte_progress_snapshots]
    /\ UNCHANGED <<scenario, row, active, exec, io, spawned, chan, recorded,
                   open, loop, stop, late, caller, drained, joined>>

(* ... and the totals, feeds the trackers, sends one event for each task   *)
(* that has moved a byte, and drops the trackers of the others.  An eta    *)
(* beyond the longest Duration panics, which ends the ticker.              *)
TickerPublish ==
    /\ ticker.pc = "read"
    /\ LET seen == ticker.seen
           listed == {t \in Tasks : seen[t] # Unset}
           moving == {t \in listed : seen[t].done > 0}
           trackers == [t \in Tasks |->
               IF t \in moving
               THEN sample(ticker.trackers[t], seen[t].exec, seen[t].done)
               ELSE IF t \in listed THEN ticker.trackers[t] ELSE NoTracker]
           etas == {Eta(seen[t].done, Io(seen[t].exec).total, trackers[t].bps)
                       : t \in moving}
       IN  ticker' = [pc |-> IF \E d \in etas \ {Unset} : d > DurationMax
                             THEN "dead" ELSE "sleep",
                      seen |-> [t \in Tasks |-> Unset], trackers |-> trackers]
    /\ UNCHANGED <<scenario, now, row, active, exec, io, spawned, chan,
                   recorded, open, loop, stop, late, caller, budget, drained,
                   joined>>

-----------------------------------------------------------------------------
(* Executions *)

(* ActiveTaskMap::remove: by row id. *)
Remove(t) == active' = [active EXCEPT ![t] = Unset]

(* complete_batch_with_resolve and fail_batch: the rows are deleted by id  *)
(* and the results recorded, in one transaction; nothing once the store is *)
(* closed.                                                                 *)
WriteBatch(es) ==
    LET written == IF open THEN es ELSE {}
    IN  /\ row' = [t \in Tasks |-> IF \E e \in written : exec[e].task = t
                                   THEN "gone" ELSE row[t]]
        /\ recorded' = recorded \cup written

(* handle_success: the slot is freed, then the completion is queued. *)
ReturnOk(e) ==
    /\ exec[e].pc = "run"
    /\ Remove(exec[e].task)
    /\ exec' = [exec EXCEPT ![e].pc = "sent", ![e].kind = "ok"]
    /\ chan' = [chan EXCEPT !["ok"] = @ \cup {e}]
    /\ UNCHANGED <<scenario, now, row, io, spawned, recorded, open, loop,
                   stop, late, caller, ticker, budget, drained, joined>>

(* The error arm of spawn_task for a cancelled token: the one made when    *)
(* the future was spawned, not the one of a later attempt.                 *)
ReturnCancelled(e) ==
    /\ exec[e].pc = "run"
    /\ exec[e].token
    /\ Remove(exec[e].task)
    /\ exec' = [exec EXCEPT ![e].pc = "done"]
    /\ UNCHANGED <<scenario, now, row, io, spawned, chan, recorded, open,
                   loop, stop, late, caller, ticker, budget, drained, joined>>

(* A retry without delay: a new context, with its own tracker and token. *)
InlineRetry(e) ==
    /\ exec[e].pc = "run"
    /\ ~exec[e].token
    /\ exec[e].attempt <= scenario.max_retries
    /\ exec' = [exec EXCEPT ![e].attempt = @ + 1]
    /\ UNCHANGED <<scenario, now, row, active, io, spawned, chan, recorded,
                   open, loop, stop, late, caller, ticker, budget, drained,
                   joined>>

(* handle_failure, terminal: the failure is queued; the slot is freed last. *)
ReturnFail(e) ==
    /\ exec[e].pc = "run"
    /\ ~exec[e].token
    /\ exec' = [exec EXCEPT ![e].pc = "sent", ![e].kind = "fail"]
    /\ chan' = [chan EXCEPT !["fail"] = @ \cup {e}]
    /\ UNCHANGED <<scenario, now, row, active, io, spawned, recorded, open,
                   loop, stop, late, caller, ticker, budget, drained, joined>>

(* The election: the future takes all that is queued, or finds the         *)
(* receiver locked and leaves its message behind.                          *)
Elect(e) ==
    /\ exec[e].pc = "sent"
    /\ \/ /\ exec' = [exec EXCEPT ![e].pc = "lead", ![e].batch = chan[exec[e].kind]]
          /\ chan' = [chan EXCEPT ![exec[e].kind] = {}]
       \/ /\ exec' = [exec EXCEPT ![e].pc = "last"]
          /\ UNCHANGED chan
    /\ UNCHANGED <<scenario, now, row, active, io, spawned, recorded, open,
                   loop, stop, late, caller, ticker, budget, drained, joined>>

(* process_completion_batch, process_failure_batch; a batch the store      *)
(* refused is dropped (batch keeps it here, for the properties).           *)
Lead(e) ==
    /\ exec[e].pc = "lead"
    /\ WriteBatch(exec[e].batch)
    /\ exec' = [exec EXCEPT ![e].pc = "last",
                            ![e].batch = IF open THEN {} ELSE @]
    /\ UNCHANGED <<scenario, now, active, io, spawned, chan, open, loop,
                   stop, late, caller, ticker, budget, drained, joined>>

(* The end of the future; after a failure, only now it leaves the map. *)
End(e) ==
    /\ exec[e].pc = "last"
    /\ IF exec[e].kind = "fail" THEN Remove(exec[e].task) ELSE UNCHANGED active
    /\ exec' = [exec EXCEPT ![e].pc = "done"]
    /\ UNCHANGED <<scenario, now, row, io, spawned, chan, recorded, open,
                   loop, stop, late, caller, ticker, budget, drained, joined>>

(* An aborted future is dropped at its next await, with what it holds. *)
Abort(e) ==
    /\ exec[e].aborted
    /\ exec[e].pc \in {"run", "sent", "lead", "last"}
    /\ exec' = [exec EXCEPT ![e].pc = "done"]
    /\ UNCHANGED <<scenario, now, row, active, io, spawned, chan, recorded,
                   open, loop, stop, late, caller, ticker, budget, drained,
                   joined>>

Future(e) ==
    \/ ReturnOk(e)  \/ ReturnCancelled(e)  \/ InlineRetry(e)  \/ ReturnFail(e)
    \/ Elect(e)  \/ Lead(e)  \/ End(e)  \/ Abort(e)

-----------------------------------------------------------------------------
(* The run loop before the shutdown *)

(* spawn_task inserts the entry and spawns the future ... *)
LoopSpawn(t) ==
    /\ loop.pc = "poll"
    /\ row[t] = "pending"
    /\ Spend("spawns")
    /\ spawned < MaxExecs
    /\ spawned' = spawned + 1
    /\ row' = [row EXCEPT ![t] = "running"]
    /\ active' = [active EXCEPT ![t] = Entry(spawned')]
    /\ exec' = [exec EXCEPT ![spawned'] = [NoExec EXCEPT !.task = t, !.pc = "run"]]
    /\ loop' = [loop EXCEPT !.pc = "spawned", !.task = t]
    /\ UNCHANGED <<scenario, now, io, chan, recorded, open, stop, late,
                   caller, ticker, drained, joined>>

(* ... and set_handle stores its handle, if the entry is still there. *)
LoopSetHandle ==
    /\ loop.pc = "spawned"
    /\ active' = IF active[loop.task] = Unset THEN active
                 ELSE [active EXCEPT ![loop.task].handle = TRUE]
    /\ loop' = [loop EXCEPT !.pc = "poll", !.task = Unset]
    /\ UNCHANGED <<scenario, now, row, exec, io, spawned, chan, recorded,
                   open, stop, late, caller, ticker, budget, drained, joined>>

(* resume_preempted *)
LoopResume(t) ==
    /\ loop.pc = "poll"
    /\ row[t] = "paused"
    /\ row' = [row EXCEPT ![t] = "pending"]
    /\ UNCHANGED <<scenario, now, active, exec, io, spawned, chan, recorded,
                   open, loop, stop, late, caller, ticker, budget, drained,
                   joined>>

(* Mutant: the shutdown does not look at the failure channel. *)
AfterDrainShort(pc, kind) == IF pc = "poll" THEN "poll" ELSE "close"

(* What follows the drain of a channel: more polling, or in a shutdown the *)
(* failures after the completions and then close().                        *)
AfterDrain(pc, kind) ==
    IF pc = "poll" THEN "poll" ELSE IF kind = "ok" THEN "drain" ELSE "close"

(* drain_completions and drain_failures: all that is queued is taken ... *)
LoopDrain(kind) ==
    /\ \/ loop.pc = "poll" /\ chan[kind] # {}
       \/ loop.pc = "drain" /\ kind = loop.kind
    /\ loop' = [loop EXCEPT !.pc = "write", !.batch = chan[kind], !.kind = "fail",
                            !.then = AfterDrain(loop.pc, kind)]
    /\ chan' = [chan EXCEPT ![kind] = {}]
    /\ UNCHANGED <<scenario, now, row, active, exec, io, spawned, recorded,
                   open, stop, late, caller, ticker, budget, drained, joined>>

(* ... and written. *)
LoopWrite ==
    /\ loop.pc = "write"
    /\ WriteBatch(loop.batch)
    /\ loop' = [loop EXCEPT !.pc = loop.then, !.batch = {}]
    /\ UNCHANGED <<scenario, now, active, exec, io, spawned, chan, open,
                   stop, late, caller, ticker, budget, drained, joined>>

-----------------------------------------------------------------------------
(* Callers *)

Told(es) == exec' = [e \in Execs |-> IF e \in es THEN [exec[e] EXCEPT !.token = TRUE]
                                    ELSE exec[e]]

Running == {active[t].exec : t \in {u \in Tasks : active[u] # Unset}}

(* preempt_below takes the less urgent entries out of the map ... *)
PreemptBelow ==
    /\ caller = [todo |-> {}, told |-> Unset]
    /\ Spend("preempts")
    /\ Running # {}
    /\ caller' = [caller EXCEPT !.todo = Running]
    /\ active' = [t \in Tasks |-> Unset]
    /\ UNCHANGED <<scenario, now, row, exec, io, spawned, chan, recorded,
                   open, loop, stop, late, ticker, drained, joined>>

(* ... and one after the other cancels their tokens ... *)
CancelNext(e) ==
    /\ caller.told = Unset
    /\ e \in caller.todo
    /\ caller' = [todo |-> caller.todo \ {e}, told |-> e]
    /\ Told({e})
    /\ UNCHANGED <<scenario, now, row, active, io, spawned, chan, recorded,
                   open, loop, stop, late, ticker, budget, drained, joined>>

(* ... and pauses their rows, whatever has become of them. *)
PauseNext ==
    /\ caller.told # Unset
    /\ caller' = [caller EXCEPT !.told = Unset]
    /\ LET t == exec[caller.told].task
       IN  row' = IF open /\ row[t] # "gone" THEN [row EXCEPT ![t] = "paused"]
                  ELSE row
    /\ UNCHANGED <<scenario, now, active, exec, io, spawned, chan, recorded,
                   open, loop, stop, late, ticker, budget, drained, joined>>

(* The application cancels the token it gave to run(). *)
Stop ==
    /\ ~stop
    /\ Spend("stops")
    /\ stop' = TRUE
    /\ UNCHANGED <<scenario, now, row, active, exec, io, spawned, chan,
                   recorded, open, loop, late, caller, ticker, drained,
                   joined>>

-----------------------------------------------------------------------------
(* Shutdown *)

(* The cancelled branch of run(): the map is emptied and every token       *)
(* cancelled.  A hard shutdown aborts the futures whose handle is known    *)
(* and goes on; a graceful one keeps the handles to join them.             *)
Shutdown ==
    /\ loop.pc = "poll"
    /\ stop
    /\ LET handles == {active[t].exec : t \in {u \in Tasks :
                           IF active[u] = Unset THEN FALSE ELSE active[u].handle}}
           hard == scenario.mode = "hard"
       IN  /\ exec' = [e \in Execs |->
                   [exec[e] EXCEPT !.token = @ \/ e \in Running,
                                   !.aborted = hard /\ e \in handles]]
           /\ loop' = [loop EXCEPT !.pc = IF hard THEN "drain" ELSE "join",
                                   !.kind = "ok",
                                   !.handles = IF hard THEN {} ELSE handles]
    /\ active' = [t \in Tasks |-> Unset]
    /\ drained' = Running
    /\ UNCHANGED <<scenario, now, row, io, spawned, chan, recorded, open,
                   stop, late, caller, ticker, budget, joined>>

(* The next handle of the graceful shutdown, in the order of a hash map:   *)
(* awaited, or after the deadline aborted.                                 *)
JoinNext ==
    /\ loop.pc = "join"
    /\ \/ /\ loop.handles = {}
          /\ loop' = [loop EXCEPT !.pc = "drain"]
          /\ UNCHANGED exec
       \/ \E e \in loop.handles :
             /\ loop' = [loop EXCEPT !.handles = @ \ {e},
                                     !.pc = IF late THEN "join" ELSE "wait",
                                     !.exec = IF late THEN Unset ELSE e]
             /\ exec' = [exec EXCEPT ![e].aborted = late]
    /\ UNCHANGED <<scenario, now, row, active, io, spawned, chan, recorded,
                   open, stop, late, caller, ticker, budget, drained, joined>>

JoinDone ==
    /\ loop.pc = "wait"
    /\ exec[loop.exec].pc = "done"
    /\ joined' = joined \cup {loop.exec}
    /\ loop' = [loop EXCEPT !.pc = "join", !.exec = Unset]
    /\ UNCHANGED <<scenario, now, row, active, exec, io, spawned, chan,
                   recorded, open, stop, late, caller, ticker, budget,
                   drained>>

(* Mutant: the handle is awaited without a timeout. *)
JoinTimeoutNever == FALSE /\ UNCHANGED vars

(* Mutant: every handle gets the whole timeout. *)
JoinTimeoutEach ==
    /\ loop.pc = "wait"
    /\ late
    /\ late' = FALSE
    /\ loop' = [loop EXCEPT !.pc = "join", !.exec = Unset]
    /\ UNCHANGED <<scenario, now, row, active, exec, io, spawned, chan,
                   recorded, open, stop, caller, ticker, budget, drained,
                   joined>>

(* The timeout drops the handle, which lets the future run on. *)
JoinTimeout ==
    /\ loop.pc = "wait"
    /\ late
    /\ loop' = [loop EXCEPT !.pc = "join", !.exec = Unset]
    /\ UNCHANGED <<scenario, now, row, active, exec, io, spawned, chan,
                   recorded, open, stop, late, caller, ticker, budget,
                   drained, joined>>

Deadline ==
    /\ loop.pc \in {"join", "wait"}
    /\ ~late
    /\ late' = TRUE
    /\ UNCHANGED <<scenario, now, row, active, exec, io, spawned, chan,
                   recorded, open, loop, stop, caller, ticker, budget,
                   drained, joined>>

(* TaskStore::close waits for the connections in use; then run() returns. *)
Close ==
    /\ loop.pc = "close"
    /\ open' = FALSE
    /\ loop' = [loop EXCEPT !.pc = "returned"]
    /\ UNCHANGED <<scenario, now, row, active, exec, io, spawned, chan,
                   recorded, stop, late, caller, ticker, budget, drained,
                   joined>>

LoopStep ==
    \/ \E t \in Tasks : LoopSpawn(t) \/ LoopResume(t)
    \/ \E kind \in Kinds : LoopDrain(kind)
    \/ LoopSetHandle  \/ LoopWrite  \/ Shutdown
    \/ JoinNext  \/ JoinDone  \/ JoinTimeout  \/ Close

-----------------------------------------------------------------------------

Init ==
    /\ scenario \in Scenarios
    /\ now = 0
    /\ row = [t \in Tasks |-> IF t \in scenario.tasks THEN "pending" ELSE "gone"]
    /\ active = [t \in Tasks |-> Unset]
    /\ exec = [e \in Execs |-> NoExec]
    /\ io = [e \in Execs |-> <<NoIo, NoIo>>]
    /\ spawned = 0
    /\ chan = [kind \in Kinds |-> {}]
    /\ recorded = {}
    /\ open = TRUE
    /\ loop = [pc |-> "poll", task |-> Unset, exec |-> Unset, batch |-> {},
               kind |-> "ok", then |-> "poll", handles |-> {}]
    /\ stop = FALSE
    /\ late = FALSE
    /\ caller = [todo |-> {}, told |-> Unset]
    /\ ticker = [pc |-> "sleep", seen |-> [t \in Tasks |-> Unset],
                 trackers |-> [t \in Tasks |-> NoTracker]]
    /\ budget = scenario.budget
    /\ drained = {}
    /\ joined = {}

Next ==
    \/ LoopStep  \/ Stop  \/ Deadline
    \/ TickerRead  \/ TickerPublish
    \/ PreemptBelow  \/ PauseNext  \/ \E e \in Execs : CancelNext(e)
    \/ \E e \in Execs : Future(e) \/ Report(e) \/ CountBytes(e) \/ ReportBytes(e)

Spec == Init /\ [][Next]_vars

(* The runtime polls the run loop and its timers; nothing is assumed of    *)
(* executors, which may ignore their token for ever.                       *)
FairSpec == Spec /\ WF_vars(LoopStep) /\ WF_vars(Deadline)

-----------------------------------------------------------------------------
(* Properties *)

(* The throughput the ticker publishes never exceeds the fastest that the  *)
(* sampled execution moved between two samples: not after a preempted row  *)
(* was dispatched again under the same id and counts from zero, and not    *)
(* when an executor sets its byte counter back.                            *)
ThroughputWithinRates ==
    \A t \in Tasks : ticker.trackers[t].bps <= ticker.trackers[t].peak

(* What estimated_progress() shows of an entry is a percentage; an         *)
(* extrapolation never claims that the task is complete, and never falls   *)
(* behind what its executor reported.                                      *)
EstimatesAreBounded ==
    \A t \in Tasks : active[t] # Unset =>
        /\ BestEstimate(active[t]) \in 0 .. 100
        /\ extrapolate(active[t]) # Unset =>
              /\ extrapolate(active[t]) \in 0 .. 99
              /\ active[t].reported # Unset =>
                    extrapolate(active[t]) >= Lesser(99, active[t].reported)

(* When run() has returned, what the map held at the shutdown has ended or *)
(* is being aborted; a graceful shutdown may leave one execution running:  *)
(* the one it was waiting for when the deadline passed.                    *)
OneStraggler ==
    loop.pc = "returned" =>
        Cardinality({e \in drained : exec[e].pc # "done" /\ ~exec[e].aborted})
            <= IF scenario.mode = "hard" THEN 0 ELSE 1

(* When run() has returned, the result of every execution that the         *)
(* graceful shutdown saw end is in the store, unless a future it did not   *)
(* join had taken that result out of the channel.                          *)
JoinedIsWritten ==
    loop.pc = "returned" =>
        \A e \in joined : exec[e].kind # Unset =>
            \/ e \in recorded
            \/ \E f \in Execs \ joined : e \in exec[f].batch

(* run() returns after its token is cancelled, whatever executors do. *)
ShutdownEnds == stop ~> (loop.pc = "returned")

=============================================================================
