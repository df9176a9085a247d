------------------------ MODULE ExecutionTypeProofs ------------------------
(* The inductive invariant of TaskExecution for the conservation of results,
   and the proof that under it every step keeps the types, for every value of
   the constants. *)
EXTENDS TaskExecution, FiniteSetTheorems, TLAPS

----------------------------------------------------------------------------
(* The inductive invariant for OutcomeConserved. *)

Failures == {"failed", "dead_letter"}

(* An execution has a result only once it has left the executor. *)
ResultAfterReturn ==
    \A e \in Execs : execs[e].pc \in {"none", "exec", "inline", "requeue", "dead"}
                     => execs[e].out = "none"

(* An execution number that was not used yet belongs to no future. *)
UnusedExecs == \A e \in Execs : e >= nextExec => execs[e].pc = "none"

(* Only a result that was returned is recorded. *)
RecordedReturned ==
    \A h \in history : h.src = "exec" =>
        /\ h.n \in Execs
        /\ execs[h.n].out # "none" \/ execs[h.n].pc = "dead"

(* A batch is held between its drain and its commit only, and holds messages
   of the channel it was drained from. *)
BatchesKeepKind ==
    /\ \A w \in Execs : \A e \in batch[w] :
          \/ execs[w].pc = "commit" /\ execs[e].out = "completed"
          \/ execs[w].pc = "fcommit" /\ execs[e].out \in Failures
    /\ \A e \in batch[Loop] :
          \/ loop.pc = "completions" /\ execs[e].out = "completed"
          \/ loop.pc = "failures" /\ execs[e].out \in Failures

ResultsInv ==
    /\ OutcomeConserved
    /\ ResultAfterReturn
    /\ UnusedExecs
    /\ RecordedReturned
    /\ BatchesKeepKind

Inv == TypeOK /\ ResultsInv

----------------------------------------------------------------------------
(* Type correctness. *)

(* The rows the store operations write are well typed. *)
LEMMA RowTypes ==
    /\ NoRow \in Row
    /\ \A i \in Subs : NewRow(i) \in Row
    /\ \A r \in Row : Recovered(r) \in Row
    /\ \A r \in Row : \A s \in {"pending", "running", "paused"} :
          [r EXCEPT !.status = s] \in Row
    /\ \A r \in Row, n \in Nat : /\ [r EXCEPT !.retry = n] \in Row
                                  /\ [r EXCEPT !.status = "pending", !.retry = n] \in Row
    /\ \A r \in Row : r.retry + 1 \in Nat
    /\ \A r \in Row, i \in Subs : /\ [r EXCEPT !.prio = Prio[i]] \in Row
                                  /\ [r EXCEPT !.requeue = i] \in Row
<1>1. NoRow \in Row /\ \A i \in Subs : NewRow(i) \in Row
    BY SubmissionAssumption DEF NoRow, Row, NewRow, Uid
<1>2. \A r \in Row : Recovered(r) \in Row
    BY DEF Row, Recovered
<1>3. \A r \in Row : \A s \in {"pending", "running", "paused"} :
          [r EXCEPT !.status = s] \in Row
    BY DEF Row
<1>4. \A r \in Row, n \in Nat : [r EXCEPT !.retry = n] \in Row
    BY DEF Row
<1>5. \A r \in Row, n \in Nat : [r EXCEPT !.status = "pending", !.retry = n] \in Row
    BY Zenon DEF Row
<1>6. \A r \in Row : r.retry + 1 \in Nat
    BY DEF Row
<1>7. \A r \in Row, i \in Subs : /\ [r EXCEPT !.prio = Prio[i]] \in Row
                                 /\ [r EXCEPT !.requeue = i] \in Row
    BY SubmissionAssumption DEF Row, Uid
<1>8. QED
    BY Zenon, <1>1, <1>2, <1>3, <1>4, <1>5, <1>6, <1>7

(* A completed row, deleted or requeued, is well typed. *)
LEMMA CompletedRowType == \A r \in Row : CompletedRow(r) \in Row
<1> SUFFICES ASSUME NEW r \in Row, r.requeue # 0 PROVE CompletedRow(r) \in Row
    BY Zenon, RowTypes DEF CompletedRow
<1> r.requeue \in Subs /\ Prio[r.requeue] \in Nat
    BY SubmissionAssumption DEF Row, Uid
<1> QED
    BY Zenon DEF Row, CompletedRow, Uid

(* A record read from a row is well typed. *)
LEMMA RecOfType == ASSUME TypeOK, NEW k \in Ids PROVE RecOf(k) \in Rec
BY SMTT(60) DEF TypeOK, RecOf, Row, Rec

(* The changes made to a spawned future are well typed. *)
LEMMA ExecTypes ==
    /\ NoExec \in Exec
    /\ [NoExec EXCEPT !.pc = "dead"] \in Exec
    /\ \A x \in Exec : [x EXCEPT !.cancelled = TRUE] \in Exec
    /\ \A x \in Exec : \A pc \in ExecPC : [x EXCEPT !.pc = pc] \in Exec
BY Zenon DEF NoExec, Exec, ExecPC, Uid

(* A future that returns a result changes its place and its result only. *)
LEMMA ReturnType ==
    \A x \in Exec : \A pc \in ExecPC : \A out \in {"completed", "failed", "dead_letter"} :
        [x EXCEPT !.pc = pc, !.out = out] \in Exec
BY Zenon DEF Exec

(* The initial state is well typed. *)
LEMMA InitType == Init => TypeOK
<1> SUFFICES ASSUME Init PROVE TypeOK
    OBVIOUS
<1> USE DEF Init
<1>1. tasks \in [Ids -> Row] /\ execs \in [Execs -> Exec]
    BY Zenon, RowTypes, ExecTypes
<1>2. batch \in [Writers -> SUBSET Execs] /\ active \in [Ids -> Execs \cup {0}]
    OBVIOUS
<1>3. loop \in [pc : LoopPC, recs : SUBSET Rec]
    BY DEF LoopPC
<1>4. subs \in [Subs -> Caller]
    BY DEF Caller, SubPC, SubOut
<1>5. cancels \in [Cancels -> Canceller]
    BY DEF Canceller, CancelPC, Uid
<1>6. history \subseteq Hist /\ cchan \subseteq Execs /\ fchan \subseteq Execs
    OBVIOUS
<1>7. hasPaused \in BOOLEAN
    BY Zenon
<1>8. nextExec \in Nat \ {0} /\ crashes \in Nat
    OBVIOUS
<1>9. QED
    BY ONLY <1>1, <1>2, <1>3, <1>4, <1>5, <1>6, <1>7, <1>8 DEF TypeOK

(* A step of a spawned future keeps the types.  A result it writes is one that
   was returned, so it has a status to be recorded with. *)
LEMMA ExecType ==
    ASSUME TypeOK, ResultsInv, NEW e \in Execs, ExecStep(e)
    PROVE  TypeOK'
<1> USE DEF TypeOK, Goto, storeVars, chanVars, callVars
<1>0. execs[e] \in Exec
    OBVIOUS
<1>1. CASE HandleSuccess(e)
    <2>1. execs' \in [Execs -> Exec]
        BY ZenonT(60), <1>1, ReturnType DEF HandleSuccess, ExecPC
    <2>2. QED
        BY Zenon, <1>1, <2>1 DEF HandleSuccess, ActiveRemove
<1>2. CASE ElectLeader(e)
    BY Zenon, <1>2, ExecTypes DEF ElectLeader, ExecPC, Writers
<1>3. CASE LoseElection(e)
    BY Zenon, <1>3, ExecTypes DEF LoseElection, ExecPC
<1>4. CASE CommitCompletions(e)
    <2>1. tasks' \in [Ids -> Row]
        BY <1>4, CompletedRowType DEF CommitCompletions, CompleteBatch
    <2>2. batch[e] \subseteq Execs /\ Execs \subseteq Nat
        BY DEF Writers, Execs
    <2>3. history' \subseteq Hist
        BY <1>4, <2>2
        DEF CommitCompletions, CompleteBatch, ExecRecord, Exec, Hist, HistStatus
    <2>4. QED
        BY Zenon, <1>4, <2>1, <2>3, ExecTypes DEF CommitCompletions, ExecPC
<1>5. CASE ReturnCancelled(e)
    BY Zenon, <1>5, ExecTypes DEF ReturnCancelled, ActiveRemove, ExecPC
<1>6. CASE ReturnRetryable(e)
    <2>1. PICK pc \in ExecPC : Goto(e, pc)
        BY <1>6 DEF ReturnRetryable, ExecPC
    <2>2. QED
        BY <1>6, <2>1, ExecTypes DEF ReturnRetryable
<1>7. CASE InlineRetry(e)
    <2>1. execs' \in [Execs -> Exec]
        <3>1. execs[e].retry + 1 \in Nat
            BY <1>0 DEF Exec
        <3>2. [execs[e] EXCEPT !.pc = "exec", !.retry = execs[e].retry + 1] \in Exec
            BY Zenon, <1>0, <3>1 DEF Exec, ExecPC
        <3>3. QED
            BY <1>7, <3>2 DEF InlineRetry
    <2>2. tasks' \in [Ids -> Row]
        <3>1. \A k \in Ids : [tasks[k] EXCEPT !.retry = tasks[k].retry + 1] \in Row
            BY Zenon, RowTypes
        <3>2. QED
            BY Zenon, <1>7, <3>1 DEF InlineRetry, IncrementRetry
    <2>3. QED
        BY <1>7, <2>1, <2>2 DEF InlineRetry
<1>8. CASE RequeueRetry(e)
    <2>1. tasks' \in [Ids -> Row]
        BY Zenon, <1>8, RowTypes DEF RequeueRetry, RequeueForRetry
    <2>2. QED
        BY Zenon, <1>8, <2>1, ExecTypes DEF RequeueRetry, ExecPC
<1>9. ASSUME NEW out \in {"failed", "dead_letter"}, HandleFailure(e, out)
      PROVE  TypeOK'
    <2>1. PICK pc \in ExecPC : execs' = [execs EXCEPT ![e] = [@ EXCEPT !.pc = pc, !.out = out]]
        BY SMTT(60), <1>9 DEF HandleFailure, ExecPC
    <2>2. execs' \in [Execs -> Exec]
        BY Zenon, <2>1, ReturnType
    <2>3. QED
        BY <1>9, <2>2 DEF HandleFailure, Writers
<1>10. CASE CommitFailures(e)
    <2>1. /\ batch[e] \subseteq Execs /\ Execs \subseteq Nat
          /\ \A f \in batch[e] : execs[f].out \in Failures
        BY <1>10 DEF CommitFailures, ResultsInv, BatchesKeepKind, Writers, Execs
    <2>2. history' \subseteq Hist
        BY <1>10, <2>1 DEF CommitFailures, FailBatch, ExecRecord, Exec, Hist, HistStatus,
                           Failures
    <2>3. tasks' \in [Ids -> Row]
        BY Zenon, <1>10, RowTypes DEF CommitFailures, FailBatch
    <2>4. QED
        BY Zenon, <1>10, <2>2, <2>3, ExecTypes DEF CommitFailures, ExecPC
<1>11. CASE RemoveActive(e)
    BY Zenon, <1>11, ExecTypes DEF RemoveActive, ActiveRemove, ExecPC
<1>12. QED
    BY <1>1, <1>2, <1>3, <1>4, <1>5, <1>6, <1>7, <1>8, <1>9, <1>10, <1>11
       DEF ExecStep

(* A step of the run loop keeps the types. *)
LEMMA LoopType ==
    ASSUME TypeOK, ResultsInv, LoopStep
    PROVE  TypeOK'
<1> USE DEF TypeOK, storeVars, chanVars, callVars
<1> DEFINE LoopState == [pc : LoopPC, recs : SUBSET Rec]
<1>0. /\ \A pc \in LoopPC : \A R \in SUBSET Rec : [pc |-> pc, recs |-> R] \in LoopState
      /\ loop.recs \subseteq Rec
      /\ AfterDrain \in LoopPC
    BY DEF AfterDrain, LoopPC
<1>1. \A r \in Rec : r.id \in Ids /\ r.uid \in Uid /\ r.prio \in Nat /\ r.retry \in Nat
    BY DEF Rec
<1>2. Loop \in Writers /\ batch[Loop] \subseteq Execs /\ Execs \subseteq Nat
    BY DEF Writers, Execs
<1> HIDE DEF LoopState
<1>3. CASE LoopDrain
    <2>1. loop' \in LoopState
        BY <1>3, <1>0 DEF LoopDrain, DrainFailures, LoopTo, LoopPC
    <2>2. QED
        BY ZenonT(60), <1>3, <2>1, <1>2 DEF LoopDrain, DrainFailures, LoopState
<1>4. CASE LoopCommitCompletions
    <2>1. loop' \in LoopState
        BY <1>4, <1>0 DEF LoopCommitCompletions, DrainFailures, LoopTo, LoopPC
    <2>2. tasks' \in [Ids -> Row]
        BY <1>4, CompletedRowType DEF LoopCommitCompletions, CompleteBatch
    <2>3. history' \subseteq Hist
        BY <1>4, <1>2 DEF LoopCommitCompletions, CompleteBatch, ExecRecord, Exec, Hist,
                          HistStatus
    <2>4. QED
        BY <1>4, <2>1, <2>2, <2>3, <1>2
        DEF LoopCommitCompletions, DrainFailures, LoopState
<1>5. CASE LoopCommitFailures
    <2>1. loop' \in LoopState
        BY <1>5, <1>0 DEF LoopCommitFailures, LoopTo
    <2>2. tasks' \in [Ids -> Row]
        BY Zenon, <1>5, RowTypes DEF LoopCommitFailures, FailBatch
    <2>3. \A f \in batch[Loop] : execs[f].out \in Failures
        BY <1>5 DEF LoopCommitFailures, ResultsInv, BatchesKeepKind
    <2>4. history' \subseteq Hist
        BY <1>5, <1>2, <2>3 DEF LoopCommitFailures, FailBatch, ExecRecord, Exec, Hist,
                                HistStatus, Failures
    <2>5. QED
        BY <1>5, <2>1, <2>2, <2>4, <1>2 DEF LoopCommitFailures, LoopState
<1>6. CASE LoopListPaused
    <2>1. loop' \in LoopState
        BY <1>6, <1>0, RecOfType DEF LoopListPaused, LoopTo, LoopPC
    <2>2. QED
        BY <1>6, <2>1 DEF LoopListPaused, LoopState
<1>7. CASE LoopClearHasPaused
    <2>1. loop' \in LoopState
        BY <1>7, <1>0 DEF LoopClearHasPaused, LoopTo, LoopPC
    <2>2. QED
        BY Zenon, <1>7, <2>1 DEF LoopClearHasPaused, LoopState
<1>8. ASSUME NEW r \in loop.recs, LoopResume(r)
      PROVE  TypeOK'
    <2>1. loop' \in LoopState
        BY <1>8, <1>0 DEF LoopResume, LoopTo, LoopPC
    <2>2. tasks' \in [Ids -> Row]
        <3>1. SetStatus(r.id, "pending") \in [Ids -> Row]
            BY Zenon, RowTypes DEF SetStatus
        <3>2. QED
            BY <1>8, <3>1 DEF LoopResume
    <2>3. QED
        BY <1>8, <2>1, <2>2 DEF LoopResume, LoopState
<1>9. ASSUME NEW r \in loop.recs, LoopClaim(r)
      PROVE  TypeOK'
    <2>1. loop' \in LoopState
        BY <1>9, <1>0 DEF LoopClaim, LoopTo, LoopPC
    <2>2. tasks' \in [Ids -> Row]
        <3>1. SetStatus(r.id, "running") \in [Ids -> Row]
            BY Zenon, RowTypes DEF SetStatus
        <3>2. QED
            BY SMTT(60), <1>9, <3>1 DEF LoopClaim
    <2>3. QED
        BY <1>9, <2>1, <2>2 DEF LoopClaim, LoopState
<1>10. ASSUME NEW r \in loop.recs, LoopSpawn(r)
       PROVE  TypeOK'
    <2>1. loop' \in LoopState
        BY <1>10, <1>0 DEF LoopSpawn, LoopTo, LoopPC
    <2>2. [pc |-> "exec", id |-> r.id, uid |-> r.uid, prio |-> r.prio,
           retry |-> r.retry, cancelled |-> FALSE, out |-> "none"] \in Exec
        <3>1. r.id \in Ids /\ r.uid \in Uid /\ r.prio \in Nat /\ r.retry \in Nat
            BY <1>0, <1>1
        <3>2. QED
            BY ONLY <3>1 DEF Exec, ExecPC
    <2>3. execs' \in [Execs -> Exec]
        BY <1>10, <2>2 DEF LoopSpawn
    <2>4. nextExec' \in Nat \ {0}
        BY <1>10 DEF LoopSpawn
    <2>5. active' \in [Ids -> Execs \cup {0}]
        BY Zenon, <1>10 DEF LoopSpawn
    <2>6. QED
        BY <1>10, <2>1, <2>3, <2>4, <2>5 DEF LoopSpawn, LoopState
<1>11. ASSUME NEW S \in SUBSET Ids, LoopPop(S)
       PROVE  TypeOK'
    <2>1. loop' \in LoopState
        BY <1>11, <1>0, RecOfType DEF LoopPop, LoopTo, LoopPC
    <2>2. tasks' \in [Ids -> Row]
        BY Zenon, <1>11, RowTypes DEF LoopPop
    <2>3. QED
        BY <1>11, <2>1, <2>2 DEF LoopPop, LoopState
<1>12. ASSUME NEW k \in Ids, LoopPeek(k)
       PROVE  TypeOK'
    <2>1. loop' \in LoopState
        BY <1>12, <1>0, RecOfType DEF LoopPeek, LoopTo, LoopPC
    <2>2. QED
        BY <1>12, <2>1 DEF LoopPeek, LoopState
<1>13. CASE LoopDeny \/ LoopSleep
    <2>1. loop' \in LoopState
        BY <1>13, <1>0 DEF LoopDeny, LoopSleep, LoopTo, LoopPC
    <2>2. QED
        BY <1>13, <2>1 DEF LoopDeny, LoopSleep, LoopState
<1>14. QED
    BY <1>3, <1>4, <1>5, <1>6, <1>7, <1>8, <1>9, <1>10, <1>11, <1>12, <1>13
       DEF LoopStep

(* What a submit() caller is told is well typed. *)
LEMMA SubmitReturnsType ==
    ASSUME TypeOK, NEW i \in Subs, NEW out \in SubOut, NEW k \in Ids \cup {0},
           NEW old \in Ids \cup {0}, SubmitReturns(i, out, k, old)
    PROVE  subs' \in [Subs -> Caller]
<1>1. ASSUME NEW pc \in SubPC
      PROVE  [pc |-> pc, out |-> out, id |-> k, old |-> old, todo |-> {},
               cur |-> 0] \in Caller
    BY DEF Caller
<1>2. \A c \in Caller : [c EXCEPT !.out = "merged"] \in Caller
    BY DEF Caller, SubOut
<1>3. QED
    BY Zenon, <1>1, <1>2 DEF SubmitReturns, TypeOK, SubPC

(* The store transaction of a submission keeps the types. *)
LEMMA SubmitType ==
    ASSUME TypeOK, NEW i \in Subs, Submit(i)
    PROVE  TypeOK'
<1> USE DEF TypeOK, chanVars, storeVars
<1> SUFFICES subs' \in [Subs -> Caller] /\ tasks' \in [Ids -> Row] /\ history' \subseteq Hist
    BY DEF Submit
<1>1. CASE InsertTask(i)
    <2>1. PICK k \in Ids : /\ tasks' = [tasks EXCEPT ![k] = NewRow(i)]
                           /\ SubmitReturns(i, "inserted", k, 0)
        BY Zenon, <1>1 DEF InsertTask
    <2>2. subs' \in [Subs -> Caller]
        BY <2>1, SubmitReturnsType DEF SubOut
    <2>3. QED
        BY Zenon, <1>1, <2>1, <2>2, RowTypes DEF InsertTask
<1>2. ASSUME NEW k \in Ids, SkipExisting(i, k)
      PROVE  subs' \in [Subs -> Caller] /\ tasks' \in [Ids -> Row] /\ history' \subseteq Hist
    <2>1. PICK out \in SubOut : SubmitReturns(i, out, 0, k)
        BY <1>2 DEF SkipExisting, SubOut
    <2>2. subs' \in [Subs -> Caller]
        BY Zenon, <2>1, SubmitReturnsType
    <2>3. \/ tasks' = [tasks EXCEPT ![k].prio = Prio[i]]
          \/ tasks' = [tasks EXCEPT ![k].requeue = i]
          \/ tasks' = tasks
        BY <1>2 DEF SkipExisting
    <2>4. tasks' \in [Ids -> Row]
        <3>1. /\ [tasks EXCEPT ![k].prio = Prio[i]] \in [Ids -> Row]
              /\ [tasks EXCEPT ![k].requeue = i] \in [Ids -> Row]
            BY Zenon, RowTypes
        <3>2. QED
            BY <2>3, <3>1
    <2>5. QED
        BY <1>2, <2>2, <2>4 DEF SkipExisting
<1>3. ASSUME NEW k \in Ids, SupersedeExisting(i, k)
      PROVE  subs' \in [Subs -> Caller] /\ tasks' \in [Ids -> Row] /\ history' \subseteq Hist
    <2>1. PICK m \in Ids : /\ SubmitReturns(i, "superseding", m, k)
                           /\ \/ tasks' = [tasks EXCEPT ![k] = NewRow(i)]
                              \/ tasks' = [tasks EXCEPT ![k] = NoRow, ![m] = NewRow(i)]
        BY <1>3 DEF SupersedeExisting
    <2>2. subs' \in [Subs -> Caller]
        BY SMTT(60), <2>1, SubmitReturnsType DEF SubOut
    <2>3. tasks' \in [Ids -> Row]
        BY Zenon, <2>1, RowTypes
    <2>4. tasks[k].uid \in Uid /\ i \in Nat
        BY DEF Row, Subs
    <2>5. history' \subseteq Hist
        BY <1>3, <2>4 DEF SupersedeExisting, Hist, HistStatus
    <2>6. QED
        BY <2>2, <2>3, <2>5
<1>4. ASSUME NEW k \in Ids, RejectDuplicate(i, k)
      PROVE  subs' \in [Subs -> Caller] /\ tasks' \in [Ids -> Row] /\ history' \subseteq Hist
    BY Zenon, <1>4, SubmitReturnsType DEF RejectDuplicate, SubOut
<1>5. QED
    BY <1>1, <1>2, <1>3, <1>4 DEF Submit, ExistingRow, Present

(* The rest of submit() keeps the types. *)
LEMMA SubmitStepType ==
    ASSUME TypeOK, NEW i \in Subs, SubmitStep(i)
    PROVE  TypeOK'
<1> USE DEF TypeOK, chanVars, storeVars
<1>1. CASE HandleSupersededActive(i)
    <2>1. subs' \in [Subs -> Caller]
        BY SMTT(60), <1>1 DEF HandleSupersededActive, Caller, SubPC
    <2>2. execs' \in [Execs -> Exec]
        BY <1>1, ExecTypes DEF HandleSupersededActive, CancelToken
    <2>3. active' \in [Ids -> Execs \cup {0}]
        BY <1>1 DEF HandleSupersededActive, ActiveRemove
    <2>4. QED
        BY <1>1, <2>1, <2>2, <2>3 DEF HandleSupersededActive
<1>2. CASE PreemptBelow(i)
    <2> DEFINE drained == {k \in ActiveIds : execs[active[k]].prio > Prio[i]}
               T == {<<k, active[k]>> : k \in drained}
    <2>1. T \in SUBSET (Ids \X Execs)
        BY SMTT(60) DEF ActiveIds
    <2>2. ASSUME NEW pc \in SubPC, NEW c \in Caller
          PROVE  [c EXCEPT !.todo = T, !.pc = pc] \in Caller
        BY Zenon, <2>1 DEF Caller
    <2>3. PICK pc \in SubPC : subs' = [subs EXCEPT ![i] = [@ EXCEPT !.todo = T, !.pc = pc]]
        BY Zenon, <1>2 DEF PreemptBelow, SubPC
    <2>4. subs' \in [Subs -> Caller]
        BY Zenon, <2>2, <2>3
    <2>5. active' \in [Ids -> Execs \cup {0}]
        BY <1>2 DEF PreemptBelow
    <2>6. QED
        BY SMTT(60), <1>2, <2>4, <2>5 DEF PreemptBelow
<1>3. ASSUME NEW d \in subs[i].todo, CancelNext(i, d)
      PROVE  TypeOK'
    <2>1. d[1] \in Ids
        BY DEF Caller
    <2>2. [subs[i] EXCEPT !.pc = "pause", !.cur = d[1], !.todo = subs[i].todo \ {d}] \in Caller
        BY ZenonT(60), <2>1 DEF Caller, SubPC
    <2>3. subs' \in [Subs -> Caller]
        BY Zenon, <1>3, <2>2 DEF CancelNext
    <2>4. execs' \in [Execs -> Exec]
        BY Zenon, <1>3, ExecTypes DEF CancelNext, CancelToken
    <2>5. QED
        BY <1>3, <2>3, <2>4 DEF CancelNext
<1>4. CASE PauseNext(i)
    <2>1. [subs[i] EXCEPT !.pc = "pausing", !.cur = 0] \in Caller
        BY ZenonT(60) DEF Caller, SubPC
    <2>2. subs' \in [Subs -> Caller]
        BY Zenon, <1>4, <2>1 DEF PauseNext
    <2>3. tasks' \in [Ids -> Row]
        BY Zenon, <1>4, RowTypes DEF PauseNext, PauseRow
    <2>4. QED
        BY <1>4, <2>2, <2>3 DEF PauseNext
<1>5. CASE SetHasPaused(i)
    <2>1. [subs[i] EXCEPT !.pc = "done"] \in Caller
        BY ZenonT(60) DEF Caller, SubPC
    <2>2. subs' \in [Subs -> Caller]
        BY Zenon, <1>5, <2>1 DEF SetHasPaused
    <2>3. QED
        BY <1>5, <2>2 DEF SetHasPaused
<1>6. QED
    BY <1>1, <1>2, <1>3, <1>4, <1>5 DEF SubmitStep

(* A step of a cancel() caller keeps the types. *)
LEMMA CancelType ==
    ASSUME TypeOK, NEW c \in Cancels, CancelStep(c) \/ \E k \in Ids : CancelStart(c, k)
    PROVE  TypeOK'
<1> USE DEF TypeOK, chanVars, storeVars
<1>0. cancels[c] \in Canceller /\ c \in Nat
    BY SMTT(60) DEF Cancels
<1>1. ASSUME NEW k \in Ids, CancelStart(c, k)
      PROVE  TypeOK'
    <2>1. active[k] # 0 => execs[active[k]].uid \in Uid
        BY DEF Exec
    <2>2. \A u \in Uid : /\ [pc |-> "record", id |-> k, uid |-> u] \in Canceller
                         /\ [pc |-> "queue", id |-> k, uid |-> u] \in Canceller
        BY DEF Canceller, CancelPC
    <2>3. cancels' \in [Cancels -> Canceller]
        <3>1. PICK u \in Uid : \/ cancels' = [cancels EXCEPT ![c] = [pc |-> "record", id |-> k, uid |-> u]]
                             \/ cancels' = [cancels EXCEPT ![c] = [pc |-> "queue", id |-> k, uid |-> u]]
            BY SMTT(60), <1>1, <2>1 DEF CancelStart, Uid
        <3>2. QED
            BY Zenon, <2>2, <3>1
    <2>4. execs' \in [Execs -> Exec]
        BY <1>1, ExecTypes DEF CancelStart, CancelToken
    <2>5. QED
        BY <1>1, <2>3, <2>4 DEF CancelStart, ActiveRemove
<1>2. ASSUME CancelStep(c)
      PROVE  TypeOK'
    <2>1. cancels' \in [Cancels -> Canceller]
        BY SMTT(60), <1>2
        DEF CancelStep, CancelToHistoryWithRecord, CancelToHistory, Canceller,
                    CancelPC
    <2>2. tasks' \in [Ids -> Row]
        BY Zenon, <1>2, RowTypes
        DEF CancelStep, CancelToHistoryWithRecord, CancelToHistory
    <2>3. /\ cancels[c].uid \in Uid
          /\ \A k \in Present : tasks[k].uid \in Uid
        BY <1>0 DEF Canceller, Present, Row
    <2>4. \A u \in Uid : CancelledRecord(c, u) \in Hist
        BY <1>0 DEF CancelledRecord, Hist, HistStatus
    <2>5. history' \subseteq Hist
        BY SMTT(60), <1>2, <2>3, <2>4
        DEF CancelStep, CancelToHistoryWithRecord, CancelToHistory
    <2>6. QED
        BY <1>2, <2>1, <2>2, <2>5
        DEF CancelStep, CancelToHistoryWithRecord, CancelToHistory
<1>3. QED
    BY <1>1, <1>2

(* A restart keeps the types. *)
LEMMA RestartType ==
    ASSUME TypeOK, Restart
    PROVE  TypeOK'
<1> USE DEF TypeOK, Restart
<1>1. tasks' \in [Ids -> Row] /\ execs' \in [Execs -> Exec]
    BY ZenonT(60), RowTypes, ExecTypes
<1>2. subs' \in [Subs -> Caller]
    <2>1. \A x \in Caller : [x EXCEPT !.pc = "done", !.todo = {}, !.cur = 0] \in Caller
        BY ZenonT(60) DEF Caller, SubPC
    <2>2. QED
        BY ZenonT(60), <2>1
<1>3. cancels' \in [Cancels -> Canceller]
    BY ZenonT(60) DEF Canceller, CancelPC
<1>4. loop' \in [pc : LoopPC, recs : SUBSET Rec]
    BY ZenonT(60) DEF LoopTo, LoopPC
<1>5. hasPaused' \in BOOLEAN
    BY ZenonT(60)
<1>6. active' \in [Ids -> Execs \cup {0}] /\ batch' \in [Writers -> SUBSET Execs]
    BY ZenonT(60)
<1>7. cchan' \subseteq Execs /\ fchan' \subseteq Execs
    BY Zenon
<1>8. crashes' \in Nat
    <2>1. crashes \in Nat /\ crashes' = crashes + 1
        BY Zenon
    <2>2. QED
        BY ONLY SMTT(60), <2>1
<1>9. QED
    BY ZenonT(60), <1>1, <1>2, <1>3, <1>4, <1>5, <1>6, <1>7, <1>8

(* Every step keeps the types. *)
LEMMA NextType == TypeOK /\ ResultsInv /\ [Next]_vars => TypeOK'
<1> SUFFICES ASSUME TypeOK, ResultsInv, [Next]_vars PROVE TypeOK'
    OBVIOUS
<1>1. CASE UNCHANGED vars
    BY <1>1 DEF vars, TypeOK
<1>2. QED
    BY <1>1, ExecType, LoopType, SubmitType, SubmitStepType, CancelType, RestartType
    DEF Next

============================================================================
