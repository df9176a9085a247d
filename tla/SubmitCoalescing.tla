-------------------------- MODULE SubmitCoalescing --------------------------
(***************************************************************************)
(* Submission to the store under contention (store/submit/mod.rs): a       *)
(* caller of TaskStore::submit that gets the receiver of the submit        *)
(* channel is a leader and serves whatever the channel holds together with *)
(* its own submission in one transaction; a caller that does not get it    *)
(* leaves its submission in the channel and waits.  The run loop drains    *)
(* what no leader picked up.  TaskStore::submit_batch works beside them, a *)
(* transaction per chunk.                                                  *)
(*                                                                         *)
(* A write transaction holds SQLite's write lock from BEGIN IMMEDIATE on,  *)
(* so the statements of one are a single step here; a transaction that is  *)
(* dropped before its COMMIT leaves nothing (store/mod.rs:374).  A caller  *)
(* may drop the future of its call at any await.                           *)
(***************************************************************************)
EXTENDS Naturals, FiniteSets, SequencesExt

CONSTANTS
    Singles,     \* the submissions made with submit
    Batch,       \* the sequence of submissions made with one submit_batch
    KeyOf,       \* submission -> dedup key
    PriorityOf,  \* submission -> priority, lower is more urgent
    StrategyOf,  \* submission -> skip, reject or supersede
    Refused,     \* the submissions whose dependencies are refused
    Chunk,       \* BATCH_CHUNK_SIZE
    Scenarios,   \* who submits, and how often something goes wrong
    Loop, NoRequest, NoPriority

\* The calls made, the transactions that fail to begin or to commit, the calls
\* given up by their callers, the calls of pause_all and the claims of a row.
ASSUME ScenariosAssumption ==
    \A s \in Scenarios :
        /\ s.calls \subseteq Singles /\ s.batch \in BOOLEAN
        /\ {s.failures, s.drops, s.pauses, s.claims} \subseteq Nat

ASSUME ChunkAssumption == Chunk \in Nat \ {0}

BatchRequests == {Batch[i] : i \in 1..Len(Batch)}
Requests == Singles \cup BatchRequests
Keys == {KeyOf[r] : r \in Requests}
Leaders == Singles \cup {Loop}

VARIABLES
    table,      \* key -> row
    hasRunning, \* has_running
    claimed,    \* a claim has updated its row and not yet set has_running
    channel,    \* the submit channel
    holder,     \* who holds the lock of its receiver
    lead,       \* leader -> [pc, batch, skip, results]
    chunk,      \* the submit_batch call: [pc, skip, next, results]
    paused,     \* pause_all is in force
    answer,     \* submission -> what its caller was told
    effect,     \* submission -> what its transaction did (history variable)
    left        \* what is left of the scenario

vars == <<table, hasRunning, claimed, channel, holder, lead, chunk, paused,
          answer, effect, left>>

Outcomes == {"inserted", "superseded", "upgraded", "requeued", "duplicate",
             "rejected", "refused"}

NoRow == [owner |-> NoRequest, st |-> "none", prio |-> NoPriority, requeue |-> NoPriority]
NewRow(r) == [owner |-> r, st |-> "pending", prio |-> PriorityOf[r], requeue |-> NoPriority]

Idle == [pc |-> "idle", batch |-> <<>>, skip |-> FALSE, results |-> <<>>]

Results(n) == UNION {[1..m -> Outcomes \cup {"error"}] : m \in 0..n}

Priorities == {PriorityOf[r] : r \in Requests} \cup {NoPriority}

\* The states the variables range over.
TypeOK ==
    /\ table \in [Keys -> [owner : Requests \cup {NoRequest}, st : {"none", "pending", "running"},
                           prio : Priorities, requeue : Priorities]]
    /\ hasRunning \in BOOLEAN /\ claimed \in BOOLEAN /\ paused \in BOOLEAN
    /\ \A r \in {channel[i] : i \in 1..Len(channel)} : r \in Singles
    /\ holder \in Leaders \cup {NoRequest}
    /\ \A a \in Leaders :
        /\ lead[a].pc \in {"idle", "drain", "unlock", "direct", "batch", "flagged", "respond",
                           "waiting", "over"}
        /\ IsInjective(lead[a].batch) /\ Len(lead[a].batch) <= Cardinality(Singles)
        /\ \A b \in Leaders \ {a} : lead[a].pc # "over" /\ lead[b].pc # "over" =>
               ToSet(lead[a].batch) \cap ToSet(lead[b].batch) = {}
        /\ lead[a].results \in Results(Cardinality(Singles))
    /\ chunk.pc \in {"idle", "flagged", "over"}
    /\ chunk.results \in Results(Len(Batch))
    /\ \A r \in Requests :
        /\ answer[r] \in {"none", "error", "given up"} \cup Outcomes
        /\ effect[r] \in {"none", "kept", "passed over"} \cup Outcomes

Init ==
    /\ table = [k \in Keys |-> NoRow]
    /\ hasRunning \in BOOLEAN
    /\ claimed = FALSE
    /\ channel = <<>> /\ holder = NoRequest
    /\ paused = FALSE
    /\ answer = [r \in Requests |-> "none"]
    /\ effect = [r \in Requests |-> "none"]
    /\ left \in Scenarios
    /\ lead = [a \in Leaders |->
                 IF a \in left.calls \cup {Loop} THEN Idle ELSE [Idle EXCEPT !.pc = "over"]]
    /\ chunk = [pc |-> IF left.batch THEN "idle" ELSE "over", skip |-> FALSE, next |-> 1,
                results |-> <<>>]

-----------------------------------------------------------------------------
(* submit_one *)

\* A duplicate raises the priority of a row not yet running, else marks a
\* running one to run again, unless nothing has ever run.
skip_existing(t, r, skip) ==
    LET k == KeyOf[r]
        p == PriorityOf[r]
    IN  CASE t[k].st = "pending" /\ t[k].prio > p ->
                [table |-> [t EXCEPT ![k].prio = p], out |-> "upgraded"]
          [] /\ ~skip /\ t[k].st = "running"
             /\ (t[k].requeue = NoPriority \/ t[k].requeue > p) ->
                [table |-> [t EXCEPT ![k].requeue = p], out |-> "requeued"]
          [] OTHER -> [table |-> t, out |-> "duplicate"]

\* INSERT OR IGNORE, then the dependencies, which may be refused with the row
\* already inserted; a key that exists is left to the duplicate strategy.
submit_one(t, r, skip) ==
    LET k == KeyOf[r]
    IN  CASE t[k] = NoRow ->
                [table |-> [t EXCEPT ![k] = NewRow(r)],
                 out |-> IF r \in Refused THEN "refused" ELSE "inserted"]
          [] t[k] # NoRow /\ StrategyOf[r] = "reject" ->
                [table |-> t, out |-> "rejected"]
          [] t[k] # NoRow /\ StrategyOf[r] = "supersede" ->
                [table |-> [t EXCEPT ![k] = NewRow(r)], out |-> "superseded"]
          [] OTHER -> skip_existing(t, r, skip)

Recorded(one, results) == [table |-> one.table, results |-> Append(results, one.out)]

\* submit_one on one message of a batch after the other.
SubmitEach(rs, skip) ==
    FoldLeft(LAMBDA acc, r : Recorded(submit_one(acc.table, r, skip), acc.results),
             [table |-> table, results |-> <<>>], rs)

\* What the history variable says of a result: a refusal in a transaction that
\* is committed all the same has kept its row.
EffectOf(out) == IF out = "refused" THEN "kept" ELSE out

-----------------------------------------------------------------------------
(* TaskStore::submit *)

\* try_lock succeeds.
Lead(r) ==
    /\ lead[r].pc = "idle" /\ holder = NoRequest
    /\ holder' = r
    /\ lead' = [lead EXCEPT ![r].pc = "drain"]
    /\ UNCHANGED <<table, hasRunning, claimed, channel, chunk, paused, answer, effect, left>>

\* try_lock fails: the submission goes through the channel.
Follow(r) ==
    /\ lead[r].pc = "idle" /\ holder # NoRequest
    /\ channel' = Append(channel, r)
    /\ lead' = [lead EXCEPT ![r].pc = "waiting"]
    /\ UNCHANGED <<table, hasRunning, claimed, holder, chunk, paused, answer, effect, left>>

\* The payload is too large, or a tag is not valid: nothing else happens.
Invalid(r) ==
    /\ lead[r].pc = "idle" /\ left.failures > 0
    /\ answer' = [answer EXCEPT ![r] = "error"]
    /\ lead' = [lead EXCEPT ![r].pc = "over"]
    /\ left' = [left EXCEPT !.failures = @ - 1]
    /\ UNCHANGED <<table, hasRunning, claimed, channel, holder, chunk, paused, effect>>

\* Under the lock, try_recv until the channel is empty.  A leader's own
\* submission comes last.
Drain(a) ==
    /\ lead[a].pc = "drain"
    /\ lead' = [lead EXCEPT ![a].pc = "unlock",
                            ![a].batch = IF a = Loop THEN channel ELSE Append(channel, a)]
    /\ channel' = <<>>
    /\ UNCHANGED <<table, hasRunning, claimed, holder, chunk, paused, answer, effect, left>>

\* The lock is dropped; what was sent since the last try_recv stays behind.
Unlock(a) ==
    /\ lead[a].pc = "unlock"
    /\ holder' = NoRequest
    /\ lead' = [lead EXCEPT ![a].pc = CASE lead[a].batch = <<>>  -> "idle"
                                        [] lead[a].batch = <<a>> -> "direct"
                                        [] OTHER                 -> "batch"]
    /\ UNCHANGED <<table, hasRunning, claimed, channel, chunk, paused, answer, effect, left>>

\* submit_direct, which rolls back when submit_one fails.
SubmitDirect(r) ==
    /\ lead[r].pc = "direct"
    /\ \E one \in {submit_one(table, r, ~hasRunning)} :
           IF one.out = "refused"
           THEN /\ effect' = [effect EXCEPT ![r] = "refused"]
                /\ lead' = [lead EXCEPT ![r].pc = "respond", ![r].results = <<"error">>]
                /\ UNCHANGED table
           ELSE /\ effect' = [effect EXCEPT ![r] = one.out]
                /\ lead' = [lead EXCEPT ![r].pc = "respond", ![r].results = <<one.out>>]
                /\ table' = one.table
    /\ UNCHANGED <<hasRunning, claimed, channel, holder, chunk, paused, answer, left>>

-----------------------------------------------------------------------------
(* process_submit_batch *)

ReadHasRunning(a) ==
    /\ lead[a].pc = "batch"
    /\ lead' = [lead EXCEPT ![a].pc = "flagged", ![a].skip = ~hasRunning]
    /\ UNCHANGED <<table, hasRunning, claimed, channel, holder, chunk, paused, answer,
                   effect, left>>

\* Every message gets its submit_one, and the COMMIT comes whatever they
\* returned.
CommitBatch(a) ==
    /\ lead[a].pc = "flagged"
    /\ \E all \in {SubmitEach(lead[a].batch, lead[a].skip)} :
        LET index(r) == CHOOSE i \in 1..Len(lead[a].batch) : lead[a].batch[i] = r
        IN /\ table' = all.table
           /\ effect' = [r \in Requests |->
                            IF \E i \in 1..Len(lead[a].batch) : lead[a].batch[i] = r
                            THEN EffectOf(all.results[index(r)]) ELSE effect[r]]
           /\ lead' = [lead EXCEPT ![a].pc = "respond",
                         ![a].results = [i \in 1..Len(all.results) |->
                             IF all.results[i] = "refused" THEN "error" ELSE all.results[i]]]
    /\ UNCHANGED <<hasRunning, claimed, channel, holder, chunk, paused, answer, left>>

\* The wrong TransactionFails: the failed COMMIT is answered with the results.
TransactionFailsQuietly(a) ==
    /\ lead[a].pc \in {"direct", "flagged"} /\ left.failures > 0
    /\ lead' = [lead EXCEPT ![a].pc = "respond",
                            ![a].results = SubmitEach(lead[a].batch, lead[a].skip).results]
    /\ left' = [left EXCEPT !.failures = @ - 1]
    /\ UNCHANGED <<table, hasRunning, claimed, channel, holder, chunk, paused, answer, effect>>

\* BEGIN or COMMIT fails: everybody is told so.
TransactionFails(a) ==
    /\ lead[a].pc \in {"direct", "flagged"} /\ left.failures > 0
    /\ lead' = [lead EXCEPT ![a].pc = "respond",
                            ![a].results = [i \in 1..Len(lead[a].batch) |-> "error"]]
    /\ left' = [left EXCEPT !.failures = @ - 1]
    /\ UNCHANGED <<table, hasRunning, claimed, channel, holder, chunk, paused, answer, effect>>

\* The results go back through the oneshot channels; a receiver that was
\* dropped does not get its own.
Respond(a) ==
    /\ lead[a].pc = "respond"
    /\ LET b == lead[a].batch
           told == {i \in 1..Len(b) : answer[b[i]] = "none"}
       IN  /\ answer' = [r \in Requests |->
                            IF \E i \in told : b[i] = r
                            THEN lead[a].results[CHOOSE i \in told : b[i] = r]
                            ELSE answer[r]]
           /\ lead' = [x \in Leaders |->
                         CASE x = a /\ x = Loop -> Idle
                           [] x = a /\ x # Loop -> [Idle EXCEPT !.pc = "over"]
                           [] x # a /\ (\E i \in told : b[i] = x) -> [Idle EXCEPT !.pc = "over"]
                           [] OTHER -> lead[x]]
    /\ UNCHANGED <<table, hasRunning, claimed, channel, holder, chunk, paused, effect, left>>

\* A caller gives its call up.  The message of a follower stays where it is; a
\* leader takes its batch with it, and the followers in it get an error.
GiveUp(r) ==
    /\ lead[r].pc \in {"direct", "batch", "flagged", "respond", "waiting"}
    /\ answer[r] = "none" /\ left.drops > 0
    /\ LET b == lead[r].batch
           lost(x) == x # r /\ \E i \in 1..Len(b) : b[i] = x /\ answer[x] = "none"
       IN  /\ answer' = [x \in Requests |->
                            CASE x = r -> "given up" [] lost(x) -> "error" [] OTHER -> answer[x]]
           /\ lead' = [x \in Leaders |->
                          IF x = r \/ lost(x) THEN [Idle EXCEPT !.pc = "over"] ELSE lead[x]]
    /\ left' = [left EXCEPT !.drops = @ - 1]
    /\ UNCHANGED <<table, hasRunning, claimed, channel, holder, chunk, paused, effect>>

-----------------------------------------------------------------------------
(* The run loop *)

\* The wrong LockAsLoop: the loop only looks once a task has run.
LockAsLoopLater ==
    /\ lead[Loop].pc = "idle" /\ ~paused /\ holder = NoRequest /\ hasRunning
    /\ holder' = Loop
    /\ lead' = [lead EXCEPT ![Loop].pc = "drain"]
    /\ UNCHANGED <<table, hasRunning, claimed, channel, chunk, paused, answer, effect, left>>

\* poll_and_dispatch locks the receiver in drain_submits, unless paused.
LockAsLoop ==
    /\ lead[Loop].pc = "idle" /\ ~paused /\ holder = NoRequest
    /\ holder' = Loop
    /\ lead' = [lead EXCEPT ![Loop].pc = "drain"]
    /\ UNCHANGED <<table, hasRunning, claimed, channel, chunk, paused, answer, effect, left>>

\* A claim: the row first, has_running after it.
Claim(k) ==
    /\ table[k].st = "pending" /\ ~claimed /\ left.claims > 0
    /\ table' = [table EXCEPT ![k].st = "running"]
    /\ claimed' = TRUE
    /\ left' = [left EXCEPT !.claims = @ - 1]
    /\ UNCHANGED <<hasRunning, channel, holder, lead, chunk, paused, answer, effect>>

SetHasRunning ==
    /\ claimed
    /\ hasRunning' = TRUE /\ claimed' = FALSE
    /\ UNCHANGED <<table, channel, holder, lead, chunk, paused, answer, effect, left>>

\* A task completes; a row marked for requeue is pending again.
Complete(k) ==
    /\ table[k].st = "running" /\ ~claimed
    /\ table' = [table EXCEPT ![k] =
                    IF @.requeue = NoPriority THEN NoRow
                    ELSE [NoRow EXCEPT !.owner = table[k].owner, !.st = "pending",
                                       !.prio = table[k].requeue]]
    /\ UNCHANGED <<hasRunning, claimed, channel, holder, lead, chunk, paused, answer, effect,
                   left>>

pause_all ==
    /\ ~paused /\ left.pauses > 0
    /\ paused' = TRUE
    /\ left' = [left EXCEPT !.pauses = @ - 1]
    /\ UNCHANGED <<table, hasRunning, claimed, channel, holder, lead, chunk, answer, effect>>

resume_all ==
    /\ paused
    /\ paused' = FALSE
    /\ UNCHANGED <<table, hasRunning, claimed, channel, holder, lead, chunk, answer, effect,
                   left>>

-----------------------------------------------------------------------------
(* TaskStore::submit_batch *)

\* The flag is read once, before the first chunk.
StartChunks ==
    /\ chunk.pc = "idle" /\ Len(Batch) > 0
    /\ chunk' = [chunk EXCEPT !.pc = "flagged", !.skip = ~hasRunning]
    /\ UNCHANGED <<table, hasRunning, claimed, channel, holder, lead, paused, answer, effect,
                   left>>

\* The last occurrence of a key in the batch is the one submitted.
last_occurrence(k) ==
    CHOOSE i \in 1..Len(Batch) :
        KeyOf[Batch[i]] = k /\ \A j \in 1..Len(Batch) : KeyOf[Batch[j]] = k => j <= i

\* The places of the chunk that starts at place n.
ChunkAt(n) == {i \in 1..Len(Batch) : i >= n /\ i < n + Chunk}

\* The wrong IsLast: chunk_offset is forgotten.
IsLastInChunk(i, n) == last_occurrence(KeyOf[Batch[i]]) = i - n + 1

\* Whether the submission at place i, of the chunk that starts at n, is the
\* one to submit.
IsLast(i, n) == last_occurrence(KeyOf[Batch[i]]) = i

\* The chunk's submissions, in order, in a table that each changes; a refusal
\* ends the call.
SubmitChunk(n) ==
    FoldLeft(LAMBDA acc, r :
                 LET i == CHOOSE j \in 1..Len(Batch) : Batch[j] = r
                     one == submit_one(acc.table, r, chunk.skip)
                 IN  IF ~IsLast(i, n)
                     THEN [acc EXCEPT !.results = Append(@, "duplicate")]
                     ELSE [table |-> one.table, results |-> Append(acc.results, one.out)],
             [table |-> table, results |-> <<>>], SubSeq(Batch, n, Max(ChunkAt(n))))

\* An end of the call with an error: earlier chunks stay committed.
BatchError ==
    /\ chunk' = [chunk EXCEPT !.pc = "over"]
    /\ answer' = [r \in Requests |-> IF r \in BatchRequests THEN "error" ELSE answer[r]]
    /\ UNCHANGED <<table, hasRunning, claimed, channel, holder, lead, paused, effect>>

CommitChunk ==
    LET n == chunk.next
        all == SubmitChunk(n)
        at(r) == CHOOSE i \in ChunkAt(n) : Batch[i] = r
    IN  /\ chunk.pc = "flagged" /\ n <= Len(Batch)
        /\ \A i \in 1..Len(all.results) : all.results[i] # "refused"
        /\ table' = all.table
        /\ effect' = [r \in Requests |->
                        IF \E i \in ChunkAt(n) : Batch[i] = r
                        THEN IF IsLast(at(r), n) THEN all.results[at(r) - n + 1] ELSE "passed over"
                        ELSE effect[r]]
        /\ chunk' = [chunk EXCEPT !.next = n + Chunk, !.results = @ \o all.results]
        /\ UNCHANGED <<hasRunning, claimed, channel, holder, lead, paused, answer, left>>

RefuseChunk ==
    /\ chunk.pc = "flagged" /\ chunk.next <= Len(Batch)
    /\ \E i \in ChunkAt(chunk.next) : SubmitChunk(chunk.next).results[i - chunk.next + 1] = "refused"
    /\ BatchError
    /\ UNCHANGED left

\* A payload or a tag is not valid, or a transaction fails.
FailChunk ==
    /\ chunk.pc \in {"idle", "flagged"} /\ chunk.next <= Len(Batch) /\ left.failures > 0
    /\ left' = [left EXCEPT !.failures = @ - 1]
    /\ BatchError

FinishChunks ==
    /\ chunk.pc = "flagged" /\ chunk.next > Len(Batch)
    /\ chunk' = [chunk EXCEPT !.pc = "over"]
    /\ answer' = [r \in Requests |->
                    IF r \in BatchRequests
                    THEN chunk.results[CHOOSE i \in 1..Len(Batch) : Batch[i] = r] ELSE answer[r]]
    /\ UNCHANGED <<table, hasRunning, claimed, channel, holder, lead, paused, effect, left>>

-----------------------------------------------------------------------------

LeaderStep(a) ==
    \/ Drain(a) \/ Unlock(a) \/ ReadHasRunning(a)
    \/ CommitBatch(a) \/ TransactionFails(a) \/ Respond(a)

SubmitStep(r) == SubmitDirect(r) \/ LeaderStep(r)

LoopStep == LockAsLoop \/ LeaderStep(Loop)

ChunkStep == CommitChunk \/ RefuseChunk \/ FailChunk \/ FinishChunks

Next ==
    \/ \E r \in Singles : Lead(r) \/ Follow(r) \/ Invalid(r) \/ SubmitStep(r) \/ GiveUp(r)
    \/ LoopStep
    \/ \E k \in Keys : Claim(k) \/ Complete(k)
    \/ SetHasRunning \/ pause_all \/ resume_all
    \/ StartChunks \/ ChunkStep

\* A call is polled until it ends, and the loop polls on its own timer.
Fairness ==
    /\ \A r \in Singles : WF_vars(SubmitStep(r))
    /\ WF_vars(LoopStep)

Spec == Init /\ [][Next]_vars /\ Fairness

-----------------------------------------------------------------------------
(* Properties *)

\* Leaders, followers, the loop and submit_batch together give their callers
\* what SubmitService promises: one effect at most per submission, in one
\* order, and no answer but an error that is not the submission's effect.
Service == INSTANCE SubmitService WITH
    owner <- [k \in Keys |-> table[k].owner],
    answer <- [r \in Requests |-> IF answer[r] = "given up" THEN "error" ELSE answer[r]]

Serializable == Service!Spec

\* A submission left in the channel is answered, whether its leader came too
\* early, failed or was dropped, unless the caller gives up or the scheduler
\* is paused (then only another submission serves it).
FollowersAreAnswered ==
    \A r \in Singles : (lead[r].pc = "waiting") ~> (answer[r] # "none" \/ paused)

\* A batch that succeeds has submitted the last occurrence of every key, in
\* whichever chunk it is, and no other.
LastOccurrenceSubmitted ==
    (\E r \in BatchRequests : answer[r] \notin {"none", "error"}) =>
        \A i \in 1..Len(Batch) :
            IF i = last_occurrence(KeyOf[Batch[i]])
            THEN effect[Batch[i]] \notin {"none", "passed over"}
            ELSE effect[Batch[i]] = "passed over" /\ \A k \in Keys : table[k].owner # Batch[i]
=============================================================================
