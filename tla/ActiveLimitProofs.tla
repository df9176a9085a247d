------------------------- MODULE ActiveLimitProofs -------------------------
(* Proof that the active map respects max_concurrency, for every value of the
   constants of TaskExecution. *)
EXTENDS ExecutionProofs

(* The limit with what makes it inductive: the sets it counts are finite. *)
LimitInv == ActiveWithinLimit /\ IsFiniteSet(loop.recs)

(* The active map has finitely many entries. *)
LEMMA ActiveFinite ==
    ASSUME TypeOK
    PROVE  /\ IsFiniteSet(Ids)
           /\ IsFiniteSet(ActiveIds) /\ Cardinality(ActiveIds) \in Nat
<1>1. IsFiniteSet(Ids)
    BY FS_Interval, BoundsAssumption DEF Ids, Subs
<1>2. IsFiniteSet(ActiveIds)
    BY <1>1, FS_Subset DEF ActiveIds
<1>3. QED
    BY <1>1, <1>2, FS_CardinalityType

(* The records read from a set of rows are no more than the rows. *)
LEMMA RecordsOfRows ==
    ASSUME NEW S \in SUBSET Ids, IsFiniteSet(S)
    PROVE  LET R == {RecOf(k) : k \in S}
           IN  IsFiniteSet(R) /\ Cardinality(R) <= Cardinality(S)
<1> DEFINE R == {RecOf(k) : k \in S}
           f == [k \in S |-> RecOf(k)]
<1>1. f \in Surjection(S, R)
    BY DEF Surjection
<1> HIDE DEF f
<1>2. QED
    BY <1>1, FS_Surjection

(* A step that adds nothing to the active map and claims nothing. *)
LEMMA LimitShrinks ==
    ASSUME TypeOK, LimitInv, ActiveIds' \subseteq ActiveIds,
           \/ loop' = loop
           \/ loop'.pc \notin {"claim", "spawn"} /\ IsFiniteSet(loop'.recs)
    PROVE  LimitInv'
<1>1. /\ Cardinality(ActiveIds) \in Nat /\ Cardinality(ActiveIds') \in Nat
      /\ Cardinality(ActiveIds') <= Cardinality(ActiveIds)
    BY ActiveFinite, FS_Subset, FS_CardinalityType
<1>2. Cardinality(loop.recs) \in Nat
    BY FS_CardinalityType DEF LimitInv
<1>3. QED
    BY <1>1, <1>2, BoundsAssumption DEF LimitInv, ActiveWithinLimit

(* The map starts empty. *)
LEMMA InitLimit == Init => LimitInv
<1> SUFFICES ASSUME Init PROVE LimitInv
    OBVIOUS
<1>1. ActiveIds = {} /\ loop.pc = "idle" /\ loop.recs = {}
    BY DEF Init, ActiveIds
<1>2. QED
    BY <1>1, FS_EmptySet, BoundsAssumption DEF LimitInv, ActiveWithinLimit

(* The run loop: what it claims fits in the free slots it counted, and every
   entry it adds takes one claimed record away. *)
LEMMA LoopLimit ==
    ASSUME TypeOK, LimitInv, LoopStep
    PROVE  LimitInv'
<1> USE DEF storeVars, chanVars, callVars
<1>0. /\ Cardinality(ActiveIds) \in Nat /\ IsFiniteSet(ActiveIds) /\ IsFiniteSet(Ids)
      /\ IsFiniteSet(loop.recs) /\ Cardinality(loop.recs) \in Nat
      /\ IsFiniteSet({}) /\ MaxConcurrency \in Nat
    BY ActiveFinite, FS_CardinalityType, FS_EmptySet, BoundsAssumption DEF LimitInv
<1>1. active' = active => ActiveIds' = ActiveIds
    BY DEF ActiveIds
<1>2. ASSUME NEW pc \in LoopPC \ {"claim", "spawn"}, NEW R, LoopTo(pc, R), IsFiniteSet(R), active' = active
      PROVE  LimitInv'
    BY <1>1, <1>2, LimitShrinks DEF LoopTo
<1>3. CASE LoopDrain \/ LoopCommitCompletions \/ LoopCommitFailures
    <2>1. active' = active /\ \E pc \in {"completions", "failures", "list", "dispatch"} : LoopTo(pc, {})
        BY <1>3
        DEF LoopDrain, LoopCommitCompletions, LoopCommitFailures, DrainFailures, AfterDrain
    <2>2. QED
        BY <2>1, <1>0, <1>2 DEF LoopPC
<1>4. CASE LoopListPaused
    <2> DEFINE S == {j \in Ids : tasks[j].status = "paused"}
    <2>1. IsFiniteSet({RecOf(k) : k \in S})
        <3>1. S \in SUBSET Ids /\ IsFiniteSet(S)
            BY <1>0, FS_Subset
        <3>2. QED
            BY Zenon, <3>1, RecordsOfRows
    <2>2. QED
        BY <1>2, <1>4, <2>1 DEF LoopListPaused, LoopPC
<1>5. CASE LoopClearHasPaused \/ LoopDeny \/ LoopSleep
    <2>1. active' = active /\ \E pc \in {"dispatch", "idle"} : LoopTo(pc, {})
        BY <1>5 DEF LoopClearHasPaused, LoopDeny, LoopSleep
    <2>2. QED
        BY <2>1, <1>0, <1>2 DEF LoopPC
<1>6. ASSUME NEW r \in loop.recs, LoopResume(r)
      PROVE  LimitInv'
    <2>1. IsFiniteSet(loop.recs \ {r})
        BY <1>0, FS_RemoveElement
    <2>2. active' = active /\ \E pc \in {"dispatch", "resume"} : LoopTo(pc, loop.recs \ {r})
        BY <1>6 DEF LoopResume
    <2>3. QED
        BY <1>2, <2>1, <2>2 DEF LoopPC
<1>7. ASSUME NEW r \in loop.recs, LoopClaim(r)
      PROVE  LimitInv'
    <2>1. CASE LoopTo("idle", {})
        BY <1>0, <1>2, <1>7, <2>1 DEF LoopClaim, LoopPC
    <2>2. CASE LoopTo("spawn", {r})
        <3>1. IsFiniteSet({r}) /\ Cardinality({r}) = 1
            BY Zenon, FS_Singleton
        <3>2. Cardinality({r}) <= Cardinality(loop.recs)
            BY <1>0, FS_Subset
        <3>3. Cardinality(ActiveIds) + Cardinality(loop.recs) <= MaxConcurrency
            BY <1>7 DEF LoopClaim, LimitInv, ActiveWithinLimit
        <3>4. loop'.pc = "spawn" /\ loop'.recs = {r} /\ ActiveIds' = ActiveIds
            BY <1>1, <1>7, <2>2 DEF LoopTo, LoopClaim
        <3>5. QED
            BY <1>0, <3>1, <3>2, <3>3, <3>4 DEF LimitInv, ActiveWithinLimit
    <2>3. QED
        BY <1>7, <2>1, <2>2 DEF LoopClaim
<1>8. ASSUME NEW r \in loop.recs, LoopSpawn(r)
      PROVE  LimitInv'
    <2>1. /\ IsFiniteSet(loop.recs \ {r})
          /\ Cardinality(loop.recs \ {r}) = Cardinality(loop.recs) - 1
        BY <1>0, FS_RemoveElement
    <2>2. ActiveIds' \subseteq ActiveIds \cup {r.id}
        BY <1>8 DEF LoopSpawn, ActiveIds, TypeOK
    <2>3. /\ IsFiniteSet(ActiveIds \cup {r.id})
          /\ Cardinality(ActiveIds \cup {r.id}) <= Cardinality(ActiveIds) + 1
          /\ Cardinality(ActiveIds \cup {r.id}) \in Nat
        <3>1. /\ IsFiniteSet(ActiveIds \cup {r.id})
              /\ Cardinality(ActiveIds \cup {r.id}) =
                    IF r.id \in ActiveIds THEN Cardinality(ActiveIds)
                    ELSE Cardinality(ActiveIds) + 1
            BY Zenon, <1>0, FS_AddElement
        <3>2. QED
            BY <1>0, <3>1
    <2>4. Cardinality(ActiveIds') <= Cardinality(ActiveIds) + 1 /\ Cardinality(ActiveIds') \in Nat
        BY <1>0, <2>2, <2>3, FS_Subset, FS_CardinalityType
    <2>5. Cardinality(ActiveIds) + Cardinality(loop.recs) <= MaxConcurrency
        BY <1>8 DEF LoopSpawn, LimitInv, ActiveWithinLimit
    <2>6. /\ loop'.recs = loop.recs \ {r}
          /\ loop'.pc = IF loop.recs = {r} THEN "dispatch" ELSE "spawn"
        BY <1>8 DEF LoopSpawn, LoopTo
    <2>7. loop.recs = {r} => Cardinality(loop.recs) = 1
        BY FS_Singleton
    <2>8. QED
        BY <1>0, <2>1, <2>4, <2>5, <2>6, <2>7 DEF LimitInv, ActiveWithinLimit
<1>9. ASSUME NEW S \in SUBSET Ids, LoopPop(S)
      PROVE  LimitInv'
    <2> DEFINE R == {RecOf(k) : k \in S}
    <2>1. IsFiniteSet(S) /\ Cardinality(S) \in Nat
        BY <1>0, FS_Subset, FS_CardinalityType
    <2>2. IsFiniteSet(R) /\ Cardinality(R) <= Cardinality(S) /\ Cardinality(R) \in Nat
        BY <2>1, RecordsOfRows, FS_CardinalityType
    <2>3. /\ loop'.pc = "spawn" /\ loop'.recs = R /\ ActiveIds' = ActiveIds
          /\ Cardinality(S) + Cardinality(ActiveIds) <= MaxConcurrency
        BY <1>1, <1>9 DEF LoopPop, LoopTo
    <2> HIDE DEF R
    <2>4. QED
        BY <1>0, <2>1, <2>2, <2>3 DEF LimitInv, ActiveWithinLimit
<1>10. ASSUME NEW k \in Ids, LoopPeek(k)
       PROVE  LimitInv'
    <2>1. /\ loop'.pc = "claim" /\ loop'.recs = {RecOf(k)} /\ ActiveIds' = ActiveIds
          /\ Cardinality(ActiveIds) < MaxConcurrency
        BY <1>1, <1>10 DEF LoopPeek, LoopTo
    <2>2. IsFiniteSet({RecOf(k)}) /\ Cardinality({RecOf(k)}) = 1
        BY Zenon, FS_Singleton
    <2>3. QED
        BY <1>0, <2>1, <2>2 DEF LimitInv, ActiveWithinLimit
<1>11. QED
    BY <1>3, <1>4, <1>5, <1>6, <1>7, <1>8, <1>9, <1>10 DEF LoopStep

(* Every other actor only takes entries out of the active map. *)
LEMMA NextLimit == TypeOK /\ LimitInv /\ [Next]_vars => LimitInv'
<1> SUFFICES ASSUME TypeOK, LimitInv, [Next]_vars PROVE LimitInv'
    OBVIOUS
<1> USE DEF storeVars, chanVars, callVars
<1>0. active' = active => ActiveIds' = ActiveIds
    BY DEF ActiveIds
<1>1. \A k : ActiveRemove(k) => ActiveIds' \subseteq ActiveIds
    BY DEF ActiveRemove, ActiveIds, TypeOK
<1>2. ASSUME NEW e \in Execs, ExecStep(e)
      PROVE  LimitInv'
    <2>1. loop' = loop /\ (active' = active \/ ActiveRemove(execs[e].id))
        BY <1>2 DEF ExecStep, HandleSuccess, ElectLeader, LoseElection, CommitCompletions,
           ReturnCancelled, ReturnRetryable, InlineRetry, RequeueRetry, HandleFailure,
           CommitFailures, RemoveActive
    <2>2. QED
        BY <1>0, <1>1, <2>1, LimitShrinks
<1>3. ASSUME NEW i \in Subs, Submit(i) \/ SubmitStep(i)
      PROVE  LimitInv'
    <2>1. CASE PreemptBelow(i)
        <3>1. ActiveIds' \subseteq ActiveIds /\ loop' = loop
            BY <2>1 DEF PreemptBelow, ActiveIds, TypeOK
        <3>2. QED
            BY <3>1, LimitShrinks
    <2>2. CASE ~PreemptBelow(i)
        <3>1. loop' = loop /\ (active' = active \/ \E k : ActiveRemove(k))
            BY Zenon, <1>3, <2>2
            DEF Submit, SubmitStep, HandleSupersededActive, CancelNext, PauseNext,
                SetHasPaused
        <3>2. QED
            BY SMTT(60), <1>0, <1>1, <3>1, LimitShrinks
    <2>3. QED
        BY <2>1, <2>2
<1>4. ASSUME NEW c \in Cancels, CancelStep(c) \/ \E k \in Ids : CancelStart(c, k)
      PROVE  LimitInv'
    <2>1. loop' = loop /\ (active' = active \/ \E k : ActiveRemove(k))
        BY <1>4 DEF CancelStep, CancelStart, CancelToHistoryWithRecord, CancelToHistory
    <2>2. QED
        BY <1>0, <1>1, <2>1, LimitShrinks
<1>5. CASE Restart
    <2>1. ActiveIds' \subseteq ActiveIds /\ loop'.pc = "idle" /\ loop'.recs = {}
        BY Zenon, <1>5 DEF Restart, ActiveIds, LoopTo
    <2>2. QED
        BY SMTT(60), <2>1, FS_EmptySet, LimitShrinks
<1>6. CASE UNCHANGED vars
    BY <1>0, <1>6, LimitShrinks DEF vars
<1>7. QED
    BY <1>2, <1>3, <1>4, <1>5, <1>6, LoopLimit DEF Next

(* LimitHolds: in every reachable state the active map together with the rows
   the run loop has claimed for it has at most max_concurrency entries: the
   only inserter is the run loop, and between its count and its inserts the
   other actors only remove entries. *)
THEOREM LimitHolds == Spec => []ActiveWithinLimit
<1>1. Init => Inv /\ LimitInv
    BY InitType, InitResults, InitLimit DEF Inv
<1>2. Inv /\ LimitInv /\ [Next]_vars => (Inv /\ LimitInv)'
    BY NextType, NextResults, NextLimit DEF Inv
<1>3. Inv /\ LimitInv => ActiveWithinLimit
    BY DEF LimitInv
<1>4. QED
    BY <1>1, <1>2, <1>3, PTL DEF Spec

============================================================================
