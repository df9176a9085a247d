------------------------- MODULE ExecutionProofs ---------------------------
(* Proofs that TaskExecution is type correct and conserves the results its
   executors return, for every value of the constants. *)
EXTENDS ExecutionTypeProofs

(* There are no results at the start. *)
LEMMA InitResults == Init => ResultsInv
<1> SUFFICES ASSUME Init PROVE ResultsInv
    OBVIOUS
<1> USE DEF Init
<1>1. OutcomeConserved
    BY DEF OutcomeConserved, ResultInOnePlace, NoExec, Unwritten, Recorded
<1>2. ResultAfterReturn /\ UnusedExecs
    BY DEF ResultAfterReturn, UnusedExecs, NoExec
<1>3. RecordedReturned /\ BatchesKeepKind
    BY DEF RecordedReturned, BatchesKeepKind, Writers
<1>4. QED
    BY <1>1, <1>2, <1>3 DEF ResultsInv

(* A step that neither sends, drains nor writes a result. *)
LEMMA QuietResults ==
    ASSUME TypeOK, ResultsInv,
           \A h : h.src = "exec" => (h \in history' <=> h \in history),
           UNCHANGED <<cchan, fchan, batch, nextExec>>,
           \A x \in Execs : execs'[x].out = execs[x].out,
           \A x \in Execs :
              \/ execs'[x].pc = execs[x].pc
              \/ /\ execs[x].pc \in {"exec", "inline", "requeue"}
                 /\ execs'[x].pc \in {"exec", "inline", "requeue", "remove", "done"}
              \/ /\ execs[x].pc \in {"elect", "remove"}
                 /\ execs'[x].pc \in {"remove", "done"},
           loop'.pc = loop.pc \/ loop.pc \notin {"completions", "failures"}
    PROVE  ResultsInv'
<1>1. OutcomeConserved'
  <2> SUFFICES ASSUME NEW e \in Execs PROVE ResultInOnePlace(e)'
    BY DEF OutcomeConserved
  <2>1. Unwritten(e)' <=> Unwritten(e)
    BY DEF Unwritten
  <2>2. Recorded(e)' <=> Recorded(e)
    BY DEF Recorded
  <2>3. execs[e].pc = "dead" => execs'[e].pc = "dead"
    OBVIOUS
  <2>5. QED BY <2>1, <2>2, <2>3 DEF ResultsInv, OutcomeConserved, ResultInOnePlace
<1>2. ResultAfterReturn'
    BY DEF ResultsInv, ResultAfterReturn
<1>3. UnusedExecs'
    BY DEF ResultsInv, UnusedExecs
<1>4. RecordedReturned'
    BY DEF ResultsInv, RecordedReturned
<1>5. BatchesKeepKind'
    BY DEF ResultsInv, BatchesKeepKind, TypeOK, Writers
<1>6. QED
    BY <1>1, <1>2, <1>3, <1>4, <1>5 DEF ResultsInv

(* A writer commits the batch it holds and drains at most one channel into its
   next batch.  Every leader election and every drain is of this form. *)
LEMMA MovedResults ==
    ASSUME TypeOK, ResultsInv, NEW w \in Writers, NEW D,
           \/ D = {} /\ UNCHANGED <<cchan, fchan>>
           \/ D = cchan /\ cchan' = {} /\ fchan' = fchan
           \/ D = fchan /\ fchan' = {} /\ cchan' = cchan,
           batch' = [batch EXCEPT ![w] = D],
           history' = history \cup {ExecRecord(x, execs[x].out) : x \in batch[w]},
           \A x \in Execs : /\ execs'[x].out = execs[x].out
                            /\ execs[x].pc = "dead" => execs'[x].pc = "dead"
    PROVE  OutcomeConserved' /\ RecordedReturned'
<1>1. ASSUME NEW x \in Execs PROVE ResultInOnePlace(x)
    BY DEF ResultsInv, OutcomeConserved
<1>2. batch'[w] = D /\ \A v \in Writers \ {w} : batch'[v] = batch[v]
    BY DEF TypeOK
<1>3. ASSUME NEW x \in Execs PROVE Recorded(x)' <=> Recorded(x) \/ x \in batch[w]
    <2>1. \A h : h \in history' <=> \/ h \in history
                                   \/ \E y \in batch[w] : h = ExecRecord(y, execs[y].out)
        OBVIOUS
    <2>2. \A y : ExecRecord(y, execs[y].out).src = "exec" /\ ExecRecord(y, execs[y].out).n = y
        BY DEF ExecRecord
    <2>3. QED
        BY <2>1, <2>2 DEF Recorded
<1>4. ASSUME NEW x \in Execs PROVE Unwritten(x)' <=> Unwritten(x) /\ x \notin batch[w]
    BY <1>1, <1>2 DEF Unwritten, ResultInOnePlace
<1>5. ASSUME NEW x \in Execs PROVE ResultInOnePlace(x)'
    <2>1. /\ execs'[x].out # "none" => Unwritten(x)' \/ Recorded(x)'
          /\ Unwritten(x)' => ~Recorded(x)'
        BY <1>1, <1>3, <1>4 DEF ResultInOnePlace
    <2>2. /\ x \in cchan' => execs'[x].out = "completed"
          /\ x \in fchan' => execs'[x].out \in {"failed", "dead_letter"}
        BY <1>1 DEF ResultInOnePlace
    <2>3. ASSUME NEW v \in Writers, x \in batch'[v]
          PROVE  /\ x \notin cchan' \cup fchan'
                 /\ \A u \in Writers : x \in batch'[u] => u = v
        BY <1>1, <1>2, <2>3 DEF ResultInOnePlace
    <2>4. ASSUME NEW h \in history', h.src = "exec", h.n = x
          PROVE  execs'[x].pc = "dead" \/ h.status = execs'[x].out
        BY <1>1, <2>4 DEF ResultInOnePlace, ExecRecord
    <2>5. QED
        BY <2>1, <2>2, <2>3, <2>4 DEF ResultInOnePlace
<1>6. RecordedReturned'
    <2>1. batch[w] \subseteq Execs /\ \A x \in batch[w] : execs[x].out # "none"
        BY DEF TypeOK, ResultsInv, BatchesKeepKind, Failures, Writers
    <2>2. QED
        BY <2>1 DEF ResultsInv, RecordedReturned, ExecRecord
<1>7. QED
    BY <1>5, <1>6 DEF OutcomeConserved

(* A result on its way to the store was returned by its executor. *)
LEMMA UnwrittenReturned ==
    ASSUME TypeOK, ResultsInv, NEW e \in Execs, execs[e].out = "none"
    PROVE  ~Unwritten(e)
<1>1. e \notin cchan /\ e \notin fchan
    BY DEF ResultsInv, OutcomeConserved, ResultInOnePlace
<1>2. \A w \in Execs : e \notin batch[w]
    BY DEF ResultsInv, BatchesKeepKind, Failures
<1>3. e \notin batch[Loop]
    BY DEF ResultsInv, BatchesKeepKind, Failures
<1>4. QED
    BY <1>1, <1>2, <1>3 DEF Unwritten, Writers

(* An execution that has not returned has no result anywhere, so the result it
   sends is in one place. *)
LEMMA SentResult ==
    ASSUME TypeOK, ResultsInv, NEW e \in Execs, execs[e].pc = "exec",
           \A x \in Execs \ {e} : execs'[x] = execs[x],
           execs'[e].out # "none",
           execs'[e].pc \in {"elect", "remove", "fcommit"},
           UNCHANGED <<history, nextExec>>,
           batch[e] = {},
           \/ execs'[e].out = "completed" /\ cchan' = cchan \cup {e} /\ UNCHANGED <<fchan, batch>>
           \/ /\ execs'[e].out \in Failures
              /\ \/ fchan' = fchan \cup {e} /\ UNCHANGED <<cchan, batch>>
                 \/ /\ batch' = [batch EXCEPT ![e] = fchan \cup {e}]
                    /\ fchan' = {} /\ UNCHANGED cchan
    PROVE  OutcomeConserved' /\ ResultAfterReturn' /\ UnusedExecs' /\ RecordedReturned'
<1>1. execs[e].out = "none" /\ ~Recorded(e) /\ ~Unwritten(e)
    <2>1. execs[e].out = "none"
        BY DEF ResultsInv, ResultAfterReturn
    <2>2. ~Recorded(e)
        BY <2>1 DEF ResultsInv, RecordedReturned, Recorded
    <2>3. QED
        BY <2>1, <2>2, UnwrittenReturned
<1>2. ASSUME NEW x \in Execs PROVE Recorded(x)' <=> Recorded(x)
    BY DEF Recorded
<1>3. e \in Writers /\ batch \in [Writers -> SUBSET Execs]
    BY DEF TypeOK, Writers
<1>4. ASSUME NEW x \in Execs PROVE Unwritten(x)' <=> Unwritten(x) \/ x = e
    BY <1>3 DEF Unwritten
<1>5. ResultInOnePlace(e)'
    BY <1>1, <1>2, <1>3, <1>4 DEF ResultInOnePlace, Failures, Unwritten, Recorded
<1>6. ASSUME NEW x \in Execs, x # e PROVE ResultInOnePlace(x)'
    <2>1. ResultInOnePlace(x) /\ execs'[x] = execs[x]
        BY <1>6 DEF ResultsInv, OutcomeConserved
    <2>2. /\ x \in cchan' => execs'[x].out = "completed"
          /\ x \in fchan' => execs'[x].out \in {"failed", "dead_letter"}
        BY <2>1, <1>6 DEF ResultInOnePlace
    <2>3. ASSUME NEW v \in Writers, x \in batch'[v]
          PROVE  /\ x \notin cchan' \cup fchan'
                 /\ \A u \in Writers : x \in batch'[u] => u = v
        BY <1>3, <1>6, <2>1, <2>3 DEF ResultInOnePlace
    <2>4. QED
        BY <1>2, <1>4, <1>6, <2>1, <2>2, <2>3 DEF ResultInOnePlace
<1>7. ResultAfterReturn' /\ UnusedExecs'
    BY DEF ResultsInv, ResultAfterReturn, UnusedExecs
<1>8. RecordedReturned'
    BY <1>1 DEF ResultsInv, RecordedReturned, Recorded
<1>9. QED
    BY <1>5, <1>6, <1>7, <1>8 DEF OutcomeConserved

(* A step of a spawned future keeps every result in one place. *)
LEMMA ExecResults ==
    ASSUME TypeOK, ResultsInv, NEW e \in Execs, ExecStep(e)
    PROVE  ResultsInv'
<1> USE DEF Goto, storeVars, chanVars, callVars
<1>0. /\ execs \in [Execs -> Exec] /\ execs[e] \in Exec
      /\ batch \in [Writers -> SUBSET Execs]
      /\ e \in Writers /\ e # Loop /\ Loop \in Writers
    BY DEF TypeOK, Writers, Loop, Execs
<1>1. CASE HandleSuccess(e)
    <2>1. /\ execs[e].pc = "exec"
          /\ execs'[e].pc = "elect" /\ execs'[e].out = "completed"
          /\ \A x \in Execs \ {e} : execs'[x] = execs[x]
          /\ cchan' = cchan \cup {e}
          /\ UNCHANGED <<history, fchan, batch, nextExec, loop>>
        BY <1>0, <1>1 DEF HandleSuccess, Exec
    <2>2. batch[e] = {} /\ ~Unwritten(e)
        BY <2>1, UnwrittenReturned DEF ResultsInv, BatchesKeepKind, ResultAfterReturn
    <2>3. OutcomeConserved' /\ ResultAfterReturn' /\ UnusedExecs' /\ RecordedReturned'
        BY <2>1, <2>2, SentResult
    <2>4. BatchesKeepKind'
        BY <1>0, <2>1, <2>2 DEF ResultsInv, BatchesKeepKind, Unwritten, Writers
    <2>5. QED
        BY <2>3, <2>4 DEF ResultsInv
<1>2. CASE ElectLeader(e)
    <2>1. /\ execs[e].pc = "elect"
          /\ cchan = {} => execs'[e].pc = "done"
          /\ cchan # {} => execs'[e].pc = "commit"
          /\ \A x \in Execs : execs'[x].out = execs[x].out
          /\ \A x \in Execs \ {e} : execs'[x] = execs[x]
          /\ UNCHANGED <<history, nextExec, loop>>
        BY <1>0, <1>2 DEF ElectLeader, Exec
    <2>2. batch[e] = {}
        BY <2>1 DEF ResultsInv, BatchesKeepKind
    <2>3. OutcomeConserved' /\ RecordedReturned'
        <3>1. /\ batch' = [batch EXCEPT ![e] = cchan] /\ cchan' = {} /\ fchan' = fchan
              /\ history' = history \cup {ExecRecord(x, execs[x].out) : x \in batch[e]}
            BY <1>2, <2>2 DEF ElectLeader
        <3>2. QED
            BY Zenon, <1>0, <2>1, <3>1, MovedResults
    <2>4. ResultAfterReturn' /\ UnusedExecs'
        BY <2>1 DEF ResultsInv, ResultAfterReturn, UnusedExecs
    <2>5. \A x \in cchan : execs[x].out = "completed" /\ x \in Execs
        BY DEF ResultsInv, OutcomeConserved, ResultInOnePlace, TypeOK
    <2>6. batch'[e] = cchan /\ \A w \in Writers \ {e} : batch'[w] = batch[w] /\ batch[w] \subseteq Execs
        BY <1>0, <1>2 DEF ElectLeader
    <2>7. BatchesKeepKind'
        BY <1>0, <2>1, <2>5, <2>6 DEF ResultsInv, BatchesKeepKind, Writers
    <2>8. QED
        BY <2>3, <2>4, <2>7 DEF ResultsInv
<1>3. CASE LoseElection(e)
    BY SMTT(60), <1>0, <1>3, QuietResults DEF LoseElection, Exec
<1>4. CASE CommitCompletions(e)
    <2>1. /\ execs[e].pc = "commit" /\ execs'[e].pc = "done"
          /\ \A x \in Execs : execs'[x].out = execs[x].out
          /\ \A x \in Execs \ {e} : execs'[x] = execs[x]
          /\ batch' = [batch EXCEPT ![e] = {}]
          /\ UNCHANGED <<cchan, fchan, nextExec, loop>>
        BY SMTT(60), <1>0, <1>4 DEF CommitCompletions, Exec
    <2>2. \A x \in batch[e] : execs[x].out = "completed"
        BY <2>1 DEF ResultsInv, BatchesKeepKind
    <2>3. history' = history \cup {ExecRecord(x, execs[x].out) : x \in batch[e]}
        BY SMTT(60), <1>4, <2>2 DEF CommitCompletions, CompleteBatch
    <2>4. OutcomeConserved' /\ RecordedReturned'
        BY Zenon, <1>0, <2>1, <2>3, MovedResults
    <2>5. ResultAfterReturn' /\ UnusedExecs'
        BY <2>1 DEF ResultsInv, ResultAfterReturn, UnusedExecs
    <2>6. BatchesKeepKind'
        BY <1>0, <2>1 DEF ResultsInv, BatchesKeepKind, Writers
    <2>7. QED
        BY <2>4, <2>5, <2>6 DEF ResultsInv
<1>5. CASE ReturnCancelled(e)
    BY <1>0, <1>5, QuietResults DEF ReturnCancelled, Exec
<1>6. CASE ReturnRetryable(e)
    <2>1. PICK pc \in {"inline", "requeue"} : Goto(e, pc)
        BY <1>6 DEF ReturnRetryable
    <2>2. QED
        BY <1>0, <1>6, <2>1, QuietResults DEF ReturnRetryable, Exec
<1>7. CASE InlineRetry(e)
    BY <1>0, <1>7, QuietResults DEF InlineRetry, Exec
<1>8. CASE RequeueRetry(e)
    BY <1>0, <1>8, QuietResults DEF RequeueRetry, Exec
<1>9. ASSUME NEW out \in {"failed", "dead_letter"}, HandleFailure(e, out)
      PROVE  ResultsInv'
    <2>1. PICK pc \in {"remove", "fcommit"} :
             /\ execs' = [execs EXCEPT ![e] = [@ EXCEPT !.pc = pc, !.out = out]]
             /\ \/ /\ pc = "fcommit" /\ fchan' = {}
                   /\ batch' = [batch EXCEPT ![e] = fchan \cup {e}]
                \/ /\ pc = "remove" /\ fchan' = fchan \cup {e}
                   /\ batch' = batch
             /\ UNCHANGED cchan
        BY <1>9 DEF HandleFailure
    <2>2. /\ execs[e].pc = "exec"
          /\ execs'[e].pc = pc /\ execs'[e].out = out
          /\ \A x \in Execs \ {e} : execs'[x] = execs[x]
          /\ UNCHANGED <<history, nextExec, loop>>
        BY SMTT(60), <1>0, <1>9, <2>1 DEF HandleFailure, Exec
    <2>3. batch[e] = {} /\ ~Unwritten(e)
        BY <2>2, UnwrittenReturned DEF ResultsInv, BatchesKeepKind, ResultAfterReturn
    <2>4. OutcomeConserved' /\ ResultAfterReturn' /\ UnusedExecs' /\ RecordedReturned'
        BY <2>1, <2>2, <2>3, SentResult DEF Failures
    <2>5. \A x \in fchan : execs[x].out \in Failures /\ x \in Execs
        BY DEF ResultsInv, OutcomeConserved, ResultInOnePlace, TypeOK, Failures
    <2>6. \A w \in Writers \ {e} : batch'[w] = batch[w] /\ batch[w] \subseteq Execs /\ e \notin batch[w]
        BY <1>0, <2>1, <2>3 DEF Unwritten
    <2>7. \A x \in batch'[e] : execs'[e].pc = "fcommit" /\ execs'[x].out \in Failures
        BY SMTT(60), <1>0, <2>1, <2>2, <2>3, <2>5 DEF Failures
    <2>8. BatchesKeepKind'
        BY SMTT(60), <1>0, <2>2, <2>6, <2>7 DEF ResultsInv, BatchesKeepKind, Writers
    <2>9. QED
        BY <2>4, <2>8 DEF ResultsInv
<1>10. CASE CommitFailures(e)
    <2>1. /\ execs[e].pc = "fcommit" /\ execs'[e].pc = "remove"
          /\ \A x \in Execs : execs'[x].out = execs[x].out
          /\ \A x \in Execs \ {e} : execs'[x] = execs[x]
          /\ batch' = [batch EXCEPT ![e] = {}]
          /\ UNCHANGED <<cchan, fchan, nextExec, loop>>
        BY <1>0, <1>10 DEF CommitFailures, Exec
    <2>2. history' = history \cup {ExecRecord(x, execs[x].out) : x \in batch[e]}
        BY <1>10 DEF CommitFailures, FailBatch
    <2>3. OutcomeConserved' /\ RecordedReturned'
        BY Zenon, <1>0, <2>1, <2>2, MovedResults
    <2>4. ResultAfterReturn' /\ UnusedExecs'
        BY <2>1 DEF ResultsInv, ResultAfterReturn, UnusedExecs
    <2>5. BatchesKeepKind'
        BY <1>0, <2>1 DEF ResultsInv, BatchesKeepKind, Writers
    <2>6. QED
        BY <2>3, <2>4, <2>5 DEF ResultsInv
<1>11. CASE RemoveActive(e)
    BY <1>0, <1>11, QuietResults DEF RemoveActive, Exec
<1>12. QED
    BY <1>1, <1>2, <1>3, <1>4, <1>5, <1>6, <1>7, <1>8, <1>9, <1>10, <1>11
       DEF ExecStep

(* A step of the run loop keeps every result in one place. *)
LEMMA LoopResults ==
    ASSUME TypeOK, ResultsInv, LoopStep
    PROVE  ResultsInv'
<1> USE DEF storeVars, chanVars, callVars
<1>0. /\ execs \in [Execs -> Exec]
      /\ batch \in [Writers -> SUBSET Execs]
      /\ Loop \in Writers /\ Loop \notin Execs
    BY DEF TypeOK, Writers, Loop, Execs
<1>1. /\ \A x \in cchan : execs[x].out = "completed" /\ x \in Execs
      /\ \A x \in fchan : execs[x].out \in Failures /\ x \in Execs
    BY DEF ResultsInv, OutcomeConserved, ResultInOnePlace, TypeOK, Failures
<1>2. ASSUME UNCHANGED <<execs, nextExec>>, NEW D,
             \/ D = {} /\ UNCHANGED <<cchan, fchan>>
             \/ D = cchan /\ cchan' = {} /\ fchan' = fchan
             \/ D = fchan /\ fchan' = {} /\ cchan' = cchan,
             batch' = [batch EXCEPT ![Loop] = D],
             history' = history \cup {ExecRecord(x, execs[x].out) : x \in batch[Loop]},
             \A x \in D : \/ loop'.pc = "completions" /\ execs[x].out = "completed"
                          \/ loop'.pc = "failures" /\ execs[x].out \in Failures
      PROVE  ResultsInv'
    <2>1. OutcomeConserved' /\ RecordedReturned'
        BY Zenon, <1>0, <1>2, MovedResults
    <2>2. ResultAfterReturn' /\ UnusedExecs'
        BY <1>2 DEF ResultsInv, ResultAfterReturn, UnusedExecs
    <2>3. BatchesKeepKind'
        BY <1>0, <1>2 DEF ResultsInv, BatchesKeepKind, Writers
    <2>4. QED
        BY <2>1, <2>2, <2>3 DEF ResultsInv
<1>3. CASE LoopDrain
    <2>1. batch[Loop] = {}
        BY <1>3 DEF LoopDrain, ResultsInv, BatchesKeepKind
    <2>2. /\ history' = history \cup {ExecRecord(x, execs[x].out) : x \in batch[Loop]}
          /\ UNCHANGED <<execs, nextExec>>
        BY <1>3, <2>1 DEF LoopDrain
    <2>3. CASE cchan # {}
        BY <1>1, <1>2, <1>3, <2>2, <2>3 DEF LoopDrain, LoopTo
    <2>4. CASE cchan = {}
        BY SMTT(60), <1>1, <1>2, <1>3, <2>2, <2>4 DEF LoopDrain, DrainFailures, LoopTo
    <2>5. QED
        BY <2>3, <2>4
<1>4. CASE LoopCommitCompletions
    <2>1. \A x \in batch[Loop] : execs[x].out = "completed"
        BY <1>4 DEF LoopCommitCompletions, ResultsInv, BatchesKeepKind
    <2>2. history' = history \cup {ExecRecord(x, execs[x].out) : x \in batch[Loop]}
        BY <1>4, <2>1 DEF LoopCommitCompletions, CompleteBatch
    <2>3. QED
        BY Zenon, <1>1, <1>2, <1>4, <2>2 DEF LoopCommitCompletions, DrainFailures, LoopTo
<1>5. CASE LoopCommitFailures
    <2>1. history' = history \cup {ExecRecord(x, execs[x].out) : x \in batch[Loop]}
        BY <1>5 DEF LoopCommitFailures, FailBatch
    <2>2. QED
        <3>1. PICK D : /\ D = {} /\ batch' = [batch EXCEPT ![Loop] = D]
                       /\ UNCHANGED <<cchan, fchan, execs, nextExec>>
            BY Zenon, <1>5 DEF LoopCommitFailures
        <3>2. /\ D = {} /\ UNCHANGED <<cchan, fchan>>
              /\ \A x \in D : \/ loop'.pc = "completions" /\ execs[x].out = "completed"
                              \/ loop'.pc = "failures" /\ execs[x].out \in Failures
            BY <3>1
        <3>3. QED
            BY Zenon, <1>2, <2>1, <3>1, <3>2
<1>6. CASE LoopListPaused \/ LoopClearHasPaused \/ LoopDeny \/ LoopSleep
    BY <1>6, QuietResults DEF LoopListPaused, LoopClearHasPaused, LoopDeny, LoopSleep
<1>7. ASSUME NEW r \in loop.recs, LoopResume(r) \/ LoopClaim(r)
      PROVE  ResultsInv'
    BY <1>7, QuietResults DEF LoopResume, LoopClaim
<1>8. ASSUME NEW S \in SUBSET Ids, LoopPop(S)
      PROVE  ResultsInv'
    BY SMTT(60), <1>8, QuietResults DEF LoopPop
<1>9. ASSUME NEW k \in Ids, LoopPeek(k)
      PROVE  ResultsInv'
    BY <1>9, QuietResults DEF LoopPeek
<1>10. ASSUME NEW r \in loop.recs, LoopSpawn(r)
       PROVE  ResultsInv'
    <2>1. /\ nextExec \in Execs /\ nextExec' = nextExec + 1
          /\ execs'[nextExec].pc = "exec" /\ execs'[nextExec].out = "none"
          /\ \A x \in Execs \ {nextExec} : execs'[x] = execs[x]
          /\ UNCHANGED <<history, cchan, fchan, batch>>
          /\ loop.pc = "spawn"
        BY <1>0, <1>10 DEF LoopSpawn
    <2>2. /\ execs[nextExec].pc = "none" /\ execs[nextExec].out = "none"
        BY SMTT(60), <2>1 DEF ResultsInv, UnusedExecs, ResultAfterReturn, Execs
    <2>3. ~Unwritten(nextExec) /\ ~Recorded(nextExec)
        BY SMTT(60), <2>1, <2>2, UnwrittenReturned
        DEF ResultsInv, RecordedReturned, Recorded
    <2>4. \A x \in Execs : (Unwritten(x)' <=> Unwritten(x)) /\ (Recorded(x)' <=> Recorded(x))
        BY <2>1 DEF Unwritten, Recorded
    <2>5. ASSUME NEW x \in Execs
          PROVE  ResultInOnePlace(x)'
        <3>1. CASE x = nextExec
            BY SMTT(60), <2>1, <2>3, <2>4, <3>1 DEF ResultInOnePlace, Unwritten, Recorded
        <3>2. CASE x # nextExec
            BY <2>1, <2>4, <3>2 DEF ResultsInv, OutcomeConserved, ResultInOnePlace
        <3>3. QED
            BY SMTT(60), <3>1, <3>2
    <2>6. ResultAfterReturn'
        BY <2>1 DEF ResultsInv, ResultAfterReturn
    <2>7. UnusedExecs'
        BY <2>1 DEF ResultsInv, UnusedExecs, Execs
    <2>8. RecordedReturned'
        BY <2>1, <2>3 DEF ResultsInv, RecordedReturned, Recorded
    <2>9. batch[nextExec] = {} /\ batch[Loop] = {}
        BY <2>1, <2>2 DEF ResultsInv, BatchesKeepKind
    <2>10. \A w \in Execs : batch[w] \subseteq Execs /\ nextExec \notin batch[w]
        BY <1>0, <2>3 DEF Unwritten, Writers
    <2>11. BatchesKeepKind'
        BY <2>1, <2>9, <2>10 DEF ResultsInv, BatchesKeepKind
    <2>12. QED
        BY SMTT(60), <2>5, <2>6, <2>7, <2>8, <2>11 DEF ResultsInv, OutcomeConserved
<1>11. QED
    BY <1>3, <1>4, <1>5, <1>6, <1>7, <1>8, <1>9, <1>10 DEF LoopStep

(* A caller sends no result and writes none of an execution. *)
LEMMA CallerResults ==
    ASSUME TypeOK, ResultsInv,
           \/ \E i \in Subs : Submit(i) \/ SubmitStep(i)
           \/ \E c \in Cancels : CancelStep(c) \/ \E k \in Ids : CancelStart(c, k)
    PROVE  ResultsInv'
<1> USE DEF storeVars, chanVars
<1>0. execs \in [Execs -> Exec]
    BY DEF TypeOK
<1>1. ASSUME NEW e, CancelToken(e) \/ execs' = execs
      PROVE  \A x \in Execs : execs'[x].out = execs[x].out /\ execs'[x].pc = execs[x].pc
    BY SMTT(60), <1>0, <1>1 DEF CancelToken, Exec
<1>2. ASSUME NEW i \in Subs, Submit(i)
      PROVE  ResultsInv'
    <2>1. \A h : h.src = "exec" => (h \in history' <=> h \in history)
        <3>1. \/ history' = history
              \/ \E k : history' = history \cup {[uid |-> tasks[k].uid, status |-> "superseded",
                                                src |-> "submit", n |-> i]}
            BY Zenon, <1>2
            DEF Submit, InsertTask, SkipExisting, SupersedeExisting, RejectDuplicate
        <3>2. QED
            BY SMTT(60), <3>1
    <2>2. QED
        BY <1>2, <2>1, QuietResults DEF Submit
<1>3. ASSUME NEW i \in Subs, SubmitStep(i)
      PROVE  ResultsInv'
    <2>1. CASE HandleSupersededActive(i)
        <3>1. \A x \in Execs : execs'[x].out = execs[x].out /\ execs'[x].pc = execs[x].pc
            BY <1>1, <2>1 DEF HandleSupersededActive
        <3>2. QED
            BY <2>1, <3>1, QuietResults DEF HandleSupersededActive
    <2>2. CASE PreemptBelow(i)
        <3>1. UNCHANGED <<history, cchan, fchan, batch, execs, nextExec, loop>>
            BY <2>2 DEF PreemptBelow
        <3>2. QED
            BY <3>1, QuietResults
    <2>3. ASSUME NEW d \in subs[i].todo, CancelNext(i, d)
          PROVE  ResultsInv'
        <3>1. \A x \in Execs : execs'[x].out = execs[x].out /\ execs'[x].pc = execs[x].pc
            BY SMTT(60), <1>1, <2>3 DEF CancelNext
        <3>2. QED
            BY <2>3, <3>1, QuietResults DEF CancelNext
    <2>4. CASE PauseNext(i) \/ SetHasPaused(i)
        <3>1. UNCHANGED <<history, cchan, fchan, batch, execs, nextExec, loop>>
            BY <2>4 DEF PauseNext, SetHasPaused
        <3>2. QED
            BY <3>1, QuietResults
    <2>5. QED
        BY <1>3, <2>1, <2>2, <2>3, <2>4 DEF SubmitStep
<1>4. ASSUME NEW c \in Cancels, NEW k \in Ids, CancelStart(c, k)
      PROVE  ResultsInv'
    <2>1. \A x \in Execs : execs'[x].out = execs[x].out /\ execs'[x].pc = execs[x].pc
        BY Zenon, <1>1, <1>4 DEF CancelStart
    <2>2. QED
        BY SMTT(60), <1>4, <2>1, QuietResults DEF CancelStart
<1>5. ASSUME NEW c \in Cancels, CancelStep(c)
      PROVE  ResultsInv'
    <2>1. \A h : h.src = "exec" => (h \in history' <=> h \in history)
        BY <1>5
        DEF CancelStep, CancelToHistoryWithRecord, CancelToHistory, CancelledRecord
    <2>2. QED
        BY SMTT(60), <1>5, <2>1, QuietResults
        DEF CancelStep, CancelToHistoryWithRecord, CancelToHistory
<1>6. QED
    BY <1>2, <1>3, <1>4, <1>5

(* A restart drops every result that was not written. *)
LEMMA RestartResults ==
    ASSUME TypeOK, ResultsInv, Restart
    PROVE  ResultsInv'
<1>1. /\ cchan' = {} /\ fchan' = {} /\ \A w \in Writers : batch'[w] = {}
      /\ UNCHANGED <<history, nextExec>>
      /\ \A x \in Execs : execs'[x].out = "none"
      /\ \A x \in Execs : execs'[x].pc = IF execs[x].pc = "none" THEN "none" ELSE "dead"
    BY Zenon DEF Restart, NoExec
<1>2. \A x \in Execs : ~Unwritten(x)'
    BY <1>1 DEF Unwritten
<1>3. RecordedReturned'
    BY <1>1 DEF ResultsInv, RecordedReturned, ResultAfterReturn
<1>4. OutcomeConserved'
    <2>1. ASSUME NEW h \in history', h.src = "exec"
          PROVE  h.n \in Execs /\ execs'[h.n].pc = "dead"
        BY SMTT(60), <1>1, <1>3, <2>1 DEF RecordedReturned
    <2>2. QED
        BY <1>1, <1>2, <2>1 DEF OutcomeConserved, ResultInOnePlace
<1>5. ResultAfterReturn' /\ UnusedExecs' /\ BatchesKeepKind'
    BY <1>1 DEF ResultsInv, ResultAfterReturn, UnusedExecs, BatchesKeepKind, Writers
<1>6. QED
    BY SMTT(60), <1>3, <1>4, <1>5 DEF ResultsInv

(* Every step keeps every result in one place. *)
LEMMA NextResults == TypeOK /\ ResultsInv /\ [Next]_vars => ResultsInv'
<1> SUFFICES ASSUME TypeOK, ResultsInv, [Next]_vars PROVE ResultsInv'
    BY SMTT(60)
<1>1. CASE UNCHANGED vars
    BY <1>1, QuietResults DEF vars
<1>2. QED
    BY <1>1, ExecResults, LoopResults, CallerResults, RestartResults DEF Next

(* TypeCorrect: every reachable state is well typed.  In particular the status
   a drainer writes to task_history is always one that an executor returned:
   no message is drained before its result exists. *)
THEOREM TypeCorrect == Spec => []TypeOK
<1>1. Init => Inv
    BY InitType, InitResults DEF Inv
<1>2. Inv /\ [Next]_vars => Inv'
    BY NextType, NextResults DEF Inv
<1>3. Inv => TypeOK
    BY DEF Inv
<1>4. QED
    BY <1>1, <1>2, <1>3, PTL DEF Spec

(* ResultsConserved: in every reachable state a returned result is in exactly
   one of the channel, the batch of one drainer and task_history, and history
   has it with the status it was returned with.  So whichever future or run
   loop wins try_lock, no completion or failure is lost or written twice while
   the process lives. *)
THEOREM ResultsConserved == Spec => []OutcomeConserved
<1>1. Init => Inv
    BY InitType, InitResults DEF Inv
<1>2. Inv /\ [Next]_vars => Inv'
    BY NextType, NextResults DEF Inv
<1>3. Inv => OutcomeConserved
    BY DEF Inv, ResultsInv
<1>4. QED
    BY <1>1, <1>2, <1>3, PTL DEF Spec

============================================================================
