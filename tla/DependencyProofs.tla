-------------------------- MODULE DependencyProofs --------------------------
(* Proofs about Dependencies, for every value of its constants: the recorded
   dependencies hold no cycle, a task that is ready waits for nothing, and a
   task that is blocked waits for something that will come. *)
EXTENDS Dependencies, TLAPS

----------------------------------------------------------------------------
(* What the proofs need of the types. *)

DepTypes ==
    /\ tasks \in [Ids -> Row]
    /\ deps \subseteq Ids \X Ids
    /\ execs \subseteq Rec /\ cchan \subseteq Rec /\ fchan \subseteq Failure
    /\ cascades \subseteq Rec

(* Only a submission records an edge. *)
LEMMA EdgesOnlyFromSubmit ==
    ASSUME [Next]_vars, ~\E i \in Subs : Submit(i)
    PROVE  deps' \subseteq deps
BY Zenon DEF Next, vars, Dispatch, Cancel, ExpireSingle, ExecStep, HandleSuccess,
       HandleFailure, CompleteBatch, ResolveDependents, FailBatch, FailDependents,
       ExpireTasks, Restart, RecoverUnblock, storeVars, execVars

(* What a submission does to the edges: those it adds go from the new row to
   rows that are in the queue and have smaller ids. *)
LEMMA SubmittedEdges ==
    ASSUME NEW i \in Subs, NEW k \in Ids, IsNextRowId(k), ~Refused(i, k)
    PROVE  /\ NewEdges(i, k) \subseteq {k} \X Present
           /\ \A e \in NewEdges(i, k) : e[2] < e[1]
<1>1. NeedActiveCheck(i) \subseteq Present \cup {k}
    BY DEF Refused, InvalidDependency
<1>2. k \notin NeedActiveCheck(i)
    BY DEF Refused, CyclicDependency, Ancestors
<1>3. QED
    BY <1>1, <1>2 DEF NewEdges, IsNextRowId

(* EdgesDescend holds in every behaviour, reused ids and late results
   included: detect_cycle never lets a cycle into task_deps. *)
THEOREM NoCycles == Spec => []EdgesDescend
<1>1. Init => EdgesDescend
    BY DEF Init, EdgesDescend
<1>2. EdgesDescend /\ [Next]_vars => EdgesDescend'
  <2> SUFFICES ASSUME EdgesDescend, [Next]_vars PROVE EdgesDescend'
      OBVIOUS
  <2>1. CASE \E i \in Subs : Submit(i)
    <3>1. PICK i \in Subs : Submit(i)
        BY <2>1
    <3>2. PICK k \in Ids : /\ IsNextRowId(k)
                           /\ \/ deps' = deps
                              \/ ~Refused(i, k) /\ deps' = deps \cup NewEdges(i, k)
        BY <3>1 DEF Submit
    <3>3. QED
        BY <3>2, SubmittedEdges DEF EdgesDescend
  <2>2. CASE ~\E i \in Subs : Submit(i)
      BY <2>2, EdgesOnlyFromSubmit DEF EdgesDescend
  <2>3. QED
      BY <2>1, <2>2
<1>3. QED
    BY <1>1, <1>2, PTL DEF Spec

----------------------------------------------------------------------------
(* Types. *)

LEMMA UnblockedType ==
    ASSUME tasks \in [Ids -> Row], NEW U, NEW S, NEW D
    PROVE  Unblocked(U, S, D) \in [Ids -> Row]
<1>1. NoRow \in Row
    BY DEF NoRow, Row
<1>2. ASSUME NEW k \in Ids PROVE [tasks[k] EXCEPT !.status = "pending"] \in Row
    BY DEF Row
<1>3. QED
    BY <1>1, <1>2 DEF Unblocked

LEMMA TypesPreserved == DepTypes /\ [Next]_vars => DepTypes'
<1> SUFFICES ASSUME DepTypes, [Next]_vars PROVE DepTypes'
    OBVIOUS
<1>0. /\ tasks \in [Ids -> Row] /\ deps \subseteq Ids \X Ids
      /\ execs \subseteq Rec /\ cchan \subseteq Rec /\ fchan \subseteq Failure
      /\ cascades \subseteq Rec
    BY DEF DepTypes
<1>a. NoRow \in Row
    BY DEF NoRow, Row
<1>b. \A x \in Rec : x.id \in Ids /\ [id |-> x.id, uid |-> x.uid] \in Rec
    BY DEF Rec
<1>c. \A x \in Failure : x.id \in Ids /\ [id |-> x.id, uid |-> x.uid] \in Rec
    BY DEF Rec, Failure
<1>d. \A k \in Ids : tasks[k] \in Row /\ [id |-> k, uid |-> tasks[k].uid] \in Rec
    BY <1>0 DEF Rec, Row
<1>1. CASE \E i \in Subs : Submit(i)
  <2>1. PICK i \in Subs : Submit(i)
      BY <1>1
  <2>2. PICK k \in Ids :
          /\ IsNextRowId(k)
          /\ \/ tasks' = tasks /\ deps' = deps
             \/ /\ ~Refused(i, k) /\ deps' = deps \cup NewEdges(i, k)
                /\ tasks' = [tasks EXCEPT ![k] =
                      [status |-> IF NewEdges(i, k) = {} THEN "pending" ELSE "blocked",
                       uid |-> i]]
      BY <2>1 DEF Submit
  <2>3. tasks' \in [Ids -> Row]
    <3>1. [status |-> IF NewEdges(i, k) = {} THEN "pending" ELSE "blocked",
           uid |-> i] \in Row
        BY DEF Row
    <3>2. QED
        BY <3>1, <2>2, <1>0
  <2>4. deps' \subseteq Ids \X Ids
      BY <2>2, <1>0, SubmittedEdges DEF Present
  <2>5. QED
      BY <2>1, <2>3, <2>4, <1>0 DEF DepTypes, Submit, execVars
<1>2. CASE ~\E i \in Subs : Submit(i)
  <2>1. deps' \subseteq Ids \X Ids
      BY <1>2, <1>0, EdgesOnlyFromSubmit
  <2>2. ASSUME NEW k \in Ids, Dispatch(k) PROVE DepTypes'
    <3>1. [tasks[k] EXCEPT !.status = "running"] \in Row
        BY Zenon, <1>d DEF Row
    <3>2. tasks' \in [Ids -> Row]
        BY <3>1, <2>2, <1>0 DEF Dispatch
    <3>3. QED
        BY <3>2, <2>1, <2>2, <1>0, <1>d DEF Dispatch, DepTypes
  <2>3. ASSUME NEW k \in Ids, Cancel(k) PROVE DepTypes'
      BY <2>1, <2>3, <1>0, <1>a, <1>d DEF Cancel, DepTypes
  <2>4. ASSUME NEW k \in Ids, ExpireSingle(k) PROVE DepTypes'
      BY <2>1, <2>4, <1>0, <1>a DEF ExpireSingle, DepTypes, execVars
  <2>5. ASSUME NEW x \in execs, HandleSuccess(x) PROVE DepTypes'
      BY <2>1, <2>5, <1>0 DEF HandleSuccess, DepTypes, storeVars
  <2>6. ASSUME NEW x \in execs, NEW lead \in BOOLEAN, HandleFailure(x, lead)
        PROVE  DepTypes'
    <3>1. [id |-> x.id, uid |-> x.uid, lead |-> lead] \in Failure
        BY <1>0 DEF Rec, Failure
    <3>2. QED
        BY <3>1, <2>1, <2>6, <1>0 DEF HandleFailure, DepTypes, storeVars
  <2>7. ASSUME NEW B \in SUBSET cchan, CompleteBatch(B) PROVE DepTypes'
      BY <2>1, <2>7, <1>0, UnblockedType DEF CompleteBatch, ResolveDependents, DepTypes
  <2>8. ASSUME NEW B \in SUBSET fchan, FailBatch(B) PROVE DepTypes'
      BY <2>1, <2>8, <1>0, <1>a, <1>c DEF FailBatch, DepTypes
  <2>9. ASSUME NEW c \in cascades, FailDependents(c) PROVE DepTypes'
      BY <2>1, <2>9, <1>0, UnblockedType DEF FailDependents, DepTypes
  <2>10. ASSUME NEW S \in SUBSET Ids, ExpireTasks(S) PROVE DepTypes'
      BY <2>1, <2>10, <1>0, <1>a, <1>d DEF ExpireTasks, DepTypes
  <2>11. CASE Restart
    <3>1. \A k \in Ids : [tasks[k] EXCEPT !.status = "pending"] \in Row
        BY Zenon, <1>d DEF Row
    <3>2. tasks' \in [Ids -> Row]
        BY <3>1, <2>11, <1>0 DEF Restart
    <3>3. QED
        BY <3>2, <2>1, <2>11 DEF Restart, DepTypes
  <2>12. CASE RecoverUnblock
      BY <2>1, <2>12, <1>0, UnblockedType DEF RecoverUnblock, DepTypes, execVars
  <2>13. CASE UNCHANGED vars
      BY <2>13, <1>0 DEF DepTypes, vars
  <2>14. QED
      BY <1>2, <2>2, <2>3, <2>4, <2>5, <2>6, <2>7, <2>8, <2>9, <2>10, <2>11,
         <2>12, <2>13 DEF Next, ExecStep
<1>3. QED
    BY <1>1, <1>2

----------------------------------------------------------------------------
(* A ready task waits for nothing. *)

LateTypes ==
    /\ ids \in [Subs -> Ids \cup {0, Refusal}] /\ late \subseteq Subs
    /\ \A i \in late : ids[i] # 0

(* An answer is given once, so a row id given out too early stays on record. *)
LEMMA LateKept ==
    ASSUME LateTypes, [Next]_vars
    PROVE  LateTypes' /\ \A k : GivenOutLate(k) => GivenOutLate(k)'
<1>1. ASSUME NEW i \in Subs, Submit(i)
      PROVE  LateTypes' /\ \A k : GivenOutLate(k) => GivenOutLate(k)'
  <2>1. PICK v \in Ids \cup {Refusal} :
          /\ ids[i] = 0 /\ ids' = [ids EXCEPT ![i] = v]
          /\ late' = late \/ late' = late \cup {i}
      BY Zenon, <1>1 DEF Submit
  <2>2. v # 0
      BY DepsAssumption DEF Ids, Subs, Refusal
  <2>3. i \notin late /\ ids'[i] = v /\ \A j \in late : ids'[j] = ids[j]
      BY <2>1 DEF LateTypes
  <2>4. LateTypes'
      BY <2>1, <2>2, <2>3 DEF LateTypes
  <2>5. QED
      BY <2>1, <2>3, <2>4 DEF GivenOutLate
<1>2. ASSUME UNCHANGED <<ids, late>>
      PROVE  LateTypes' /\ \A k : GivenOutLate(k) => GivenOutLate(k)'
    BY <1>2 DEF LateTypes, GivenOutLate
<1>3. (\E i \in Subs : Submit(i)) \/ UNCHANGED <<ids, late>>
    BY Zenon DEF Next, vars, ghosts, Dispatch, Cancel, ExpireSingle, ExecStep,
       HandleSuccess, HandleFailure, CompleteBatch, FailBatch, FailDependents,
       ExpireTasks, Restart, RecoverUnblock
<1>4. QED
    BY <1>1, <1>2, <1>3

(* A task with a recorded dependency is blocked, and a task that is executed
   or whose result is on its way is running, unless it was cancelled; or else
   its row id was given out too early. *)
WaitingInv ==
    /\ DepTypes /\ LateTypes
    /\ \A e \in deps : GivenOutLate(e[1]) \/ tasks[e[1]].status = "blocked"
    /\ \A x \in execs \cup cchan \cup fchan :
          GivenOutLate(x.id) \/ tasks[x.id].status \in {"running", "none"}

(* Rows that are neither deleted nor unblocked stay as they are. *)
LEMMA UnblockedRows ==
    ASSUME tasks \in [Ids -> Row], NEW U, NEW S, NEW D, NEW k \in Ids
    PROVE  LET r == Unblocked(U, S, D)[k]
           IN  /\ k \in S => r.status = "none"
               /\ k \notin S /\ tasks[k].status = "blocked"
                      => r.status \in {"blocked", "pending"}
               /\ k \notin S /\ (\E e \in D : e[1] = k) => r.status = tasks[k].status
               /\ tasks[k].status # "blocked" => r.status \in {"none", tasks[k].status}
<1>1. NoRow.status = "none"
    BY DEF NoRow
<1>2. [tasks[k] EXCEPT !.status = "pending"].status = "pending"
    BY DEF Row
<1>3. QED
    BY <1>1, <1>2 DEF Unblocked

(* The rows S were deleted, some others were unblocked, and the edges that are
   left lead from none of S whose id was not given out too early. *)
LEMMA WaitingAfterUnblock ==
    ASSUME WaitingInv, DepTypes', LateTypes', NEW U, NEW S,
           \A k : GivenOutLate(k) => GivenOutLate(k)',
           tasks' = Unblocked(U, S, deps'), deps' \subseteq deps,
           \A e \in deps' : GivenOutLate(e[1]) \/ e[1] \notin S,
           execs' \subseteq execs, cchan' \subseteq cchan, fchan' \subseteq fchan
    PROVE  WaitingInv'
<1>1. ASSUME NEW e \in deps', ~GivenOutLate(e[1]) PROVE tasks'[e[1]].status = "blocked"
  <2>1. e[1] \in Ids /\ tasks[e[1]].status = "blocked" /\ e[1] \notin S
      BY <1>1 DEF WaitingInv, DepTypes
  <2>2. QED
      BY <2>1, UnblockedRows DEF WaitingInv, DepTypes
<1>2. ASSUME NEW x \in execs' \cup cchan' \cup fchan', ~GivenOutLate(x.id)
      PROVE  tasks'[x.id].status \in {"running", "none"}
  <2>1. x.id \in Ids /\ tasks[x.id].status \in {"running", "none"}
      BY <1>2 DEF WaitingInv, DepTypes, Rec, Failure
  <2>2. tasks'[x.id].status \in {"none", tasks[x.id].status}
      BY <2>1, UnblockedRows DEF WaitingInv, DepTypes
  <2>3. QED
      BY <2>1, <2>2
<1>3. QED
    BY <1>1, <1>2 DEF WaitingInv

LEMMA WaitingPreserved ==
    ASSUME WaitingInv, [Next]_vars
    PROVE  WaitingInv'
<1>0. /\ DepTypes /\ DepTypes' /\ LateTypes'
      /\ \A k : GivenOutLate(k) => GivenOutLate(k)'
      /\ \A e \in deps : e[1] \in Ids /\ (GivenOutLate(e[1]) \/ tasks[e[1]].status = "blocked")
      /\ \A x \in execs \cup cchan \cup fchan :
            x.id \in Ids /\ (GivenOutLate(x.id) \/ tasks[x.id].status \in {"running", "none"})
    BY TypesPreserved, LateKept DEF WaitingInv, DepTypes, Rec, Failure
<1>a. tasks \in [Ids -> Row] /\ NoRow.status = "none"
    BY <1>0 DEF DepTypes, NoRow
<1>1. ASSUME NEW i \in Subs, Submit(i) PROVE WaitingInv'
  <2>1. PICK k \in Ids :
          /\ IsNextRowId(k)
          /\ \/ tasks' = tasks /\ deps' = deps
             \/ /\ ~Refused(i, k) /\ deps' = deps \cup NewEdges(i, k)
                /\ tasks' = [tasks EXCEPT ![k] =
                      [status |-> IF NewEdges(i, k) = {} THEN "pending" ELSE "blocked",
                       uid |-> i]]
                /\ ids' = [ids EXCEPT ![i] = k]
                /\ late' = IF Reported(k) THEN late \cup {i} ELSE late
      BY <1>1 DEF Submit
  <2>2. UNCHANGED <<execs, cchan, fchan>>
      BY <1>1 DEF Submit, execVars
  <2>3. CASE tasks' = tasks /\ deps' = deps
      BY <2>2, <2>3, <1>0 DEF WaitingInv
  <2>4. CASE /\ ~Refused(i, k) /\ deps' = deps \cup NewEdges(i, k)
             /\ tasks' = [tasks EXCEPT ![k] =
                   [status |-> IF NewEdges(i, k) = {} THEN "pending" ELSE "blocked",
                    uid |-> i]]
             /\ ids' = [ids EXCEPT ![i] = k]
             /\ late' = IF Reported(k) THEN late \cup {i} ELSE late
    <3>1. k \notin Present
        BY <2>1 DEF IsNextRowId, Present, Ids, Subs
    <3>2. \A e \in deps : GivenOutLate(e[1]) \/ e[1] # k
        BY <3>1, <1>0 DEF Present
    <3>3. \A e \in NewEdges(i, k) : e[1] = k
        BY DEF NewEdges
    <3>4. \A e \in deps' : GivenOutLate(e[1])' \/ tasks'[e[1]].status = "blocked"
        BY <2>4, <3>2, <3>3, <1>0, <1>a
    <3>5. \A x \in execs \cup cchan \cup fchan : x.id # k \/ GivenOutLate(k)'
      <4>1. CASE Reported(k)
        <5>1. i \in late' /\ ids'[i] = k
            BY <4>1, <2>4 DEF WaitingInv, LateTypes
        <5>2. QED
            BY <5>1 DEF GivenOutLate
      <4>2. CASE ~Reported(k)
          BY <4>2 DEF Reported
      <4>3. QED
          BY <4>1, <4>2
    <3>6. QED
        BY <2>2, <2>4, <3>4, <3>5, <1>0, <1>a DEF WaitingInv
  <2>5. QED
      BY <2>1, <2>3, <2>4
<1>2. ASSUME NEW k \in Ids, Dispatch(k) PROVE WaitingInv'
  <2>1. tasks'[k].status = "running"
      BY <1>2, <1>a DEF Dispatch, Row
  <2>2. \A j \in Ids : j # k => tasks'[j] = tasks[j]
      BY <1>2, <1>a DEF Dispatch
  <2>3. \A e \in deps' : GivenOutLate(e[1])' \/ tasks'[e[1]].status = "blocked"
      BY <1>2, <2>2, <1>0 DEF Dispatch
  <2>4. \A x \in execs' \cup cchan' \cup fchan' :
            GivenOutLate(x.id)' \/ tasks'[x.id].status \in {"running", "none"}
      BY <1>2, <2>1, <2>2, <1>0 DEF Dispatch
  <2>5. QED
      BY <2>3, <2>4, <1>0 DEF WaitingInv
<1>3. ASSUME NEW k \in Ids, Cancel(k) PROVE WaitingInv'
  <2>1. \A e \in deps' : e \in deps /\ e[1] # k
      BY <1>3 DEF Cancel, EdgesFrom
  <2>2. QED
      BY Zenon, <1>3, <2>1, <1>0, <1>a DEF Cancel, WaitingInv
<1>4. ASSUME NEW k \in Ids, ExpireSingle(k) PROVE WaitingInv'
    BY <1>4, <1>0, <1>a DEF ExpireSingle, WaitingInv, execVars
<1>5. ASSUME NEW x \in execs, HandleSuccess(x) PROVE WaitingInv'
    BY <1>5, <1>0 DEF HandleSuccess, WaitingInv, storeVars
<1>6. ASSUME NEW x \in execs, NEW lead \in BOOLEAN, HandleFailure(x, lead)
      PROVE  WaitingInv'
    BY <1>6, <1>0 DEF HandleFailure, WaitingInv, storeVars
<1>7. ASSUME NEW B \in SUBSET cchan, CompleteBatch(B) PROVE WaitingInv'
  <2> DEFINE S == {x.id : x \in B}
  <2>1. \A e \in deps : GivenOutLate(e[1]) \/ e[1] \notin S
      BY <1>0
  <2>2. deps' \subseteq deps /\ tasks' = Unblocked({e[1] : e \in EdgesTo(S)}, S, deps')
      BY <1>7 DEF CompleteBatch, ResolveDependents
  <2>3. execs' \subseteq execs /\ cchan' \subseteq cchan /\ fchan' \subseteq fchan
      BY <1>7 DEF CompleteBatch
  <2> HIDE DEF S
  <2>4. QED
      BY <2>1, <2>2, <2>3, <1>0, WaitingAfterUnblock
<1>8. ASSUME NEW B \in SUBSET fchan, FailBatch(B) PROVE WaitingInv'
    BY <1>8, <1>0, <1>a DEF FailBatch, WaitingInv
<1>9. ASSUME NEW c \in cascades, FailDependents(c) PROVE WaitingInv'
  <2> DEFINE F == FailedDependents(c.id)
             gone == EdgesTo({c.id} \cup F)
  <2>1. deps' = deps \ (gone \cup EdgesFrom(F))
      BY <1>9 DEF FailDependents
  <2>2. \A e \in deps' : e[1] \notin F
      BY <2>1 DEF EdgesFrom
  <2>3. tasks' = Unblocked({e[1] : e \in gone}, F, deps')
      BY <1>9 DEF FailDependents
  <2>4. execs' \subseteq execs /\ cchan' \subseteq cchan /\ fchan' \subseteq fchan
      BY <1>9 DEF FailDependents
  <2> HIDE DEF F, gone
  <2>5. QED
      BY <2>1, <2>2, <2>3, <2>4, <1>0, WaitingAfterUnblock
<1>10. ASSUME NEW S \in SUBSET Ids, ExpireTasks(S) PROVE WaitingInv'
  <2>1. \A e \in deps' : e \in deps /\ e[1] \notin S
      BY <1>10 DEF ExpireTasks, EdgesFrom
  <2>2. \A k \in Ids : tasks'[k] = IF k \in S THEN NoRow ELSE tasks[k]
      BY <1>10 DEF ExpireTasks
  <2>3. UNCHANGED <<execs, cchan, fchan>>
      BY <1>10 DEF ExpireTasks
  <2>4. QED
      BY <2>1, <2>2, <2>3, <1>0, <1>a DEF WaitingInv
<1>11. CASE Restart
  <2>1. deps' \subseteq deps /\ execs' = {} /\ cchan' = {} /\ fchan' = {}
      BY <1>11 DEF Restart
  <2>2. \A k \in Ids : tasks[k].status = "blocked" => tasks'[k] = tasks[k]
      BY <1>11 DEF Restart
  <2>3. QED
      BY <2>1, <2>2, <1>0 DEF WaitingInv
<1>12. CASE RecoverUnblock
    BY <1>12, <1>0, WaitingAfterUnblock DEF RecoverUnblock, execVars
<1>13. CASE UNCHANGED vars
    BY <1>13, <1>0 DEF WaitingInv, vars
<1>14. QED
    BY <1>1, <1>2, <1>3, <1>4, <1>5, <1>6, <1>7, <1>8, <1>9, <1>10, <1>11,
       <1>12, <1>13 DEF Next, ExecStep

LEMMA WaitingInitially == Init => WaitingInv
<1>1. NoRow \in Row
    BY DEF NoRow, Row
<1>2. QED
    BY <1>1 DEF Init, WaitingInv, DepTypes, LateTypes

(* ReadyHasNoEdge holds in every behaviour, whatever is cancelled, expired,
   reused or killed: only a row whose id was given out while its former task
   was still being reported on can be dispatched with an edge left to it. *)
THEOREM ReadyWaitsForNothing == Spec => []ReadyHasNoEdge
<1>1. WaitingInv /\ [Next]_vars => WaitingInv'
    BY WaitingPreserved
<1>2. WaitingInv => ReadyHasNoEdge
    BY DEF WaitingInv, ReadyHasNoEdge, EdgesFrom
<1>3. QED
    BY WaitingInitially, <1>1, <1>2, PTL DEF Spec

----------------------------------------------------------------------------
(* A blocked task waits for something that will come. *)

Awaited(e) ==
    e[2] \in Present \/ e \in forgotten \/ \E c \in cascades : c.id = e[2]

(* A blocked row has an edge, or recovery was killed before it unblocked it. *)
Held(k) == EdgesFrom({k}) # {} \/ tasks[k].uid \in stranded

(* BlockedIsAwaited for every edge, whoever it leads from; with what is known
   between a failure's cascade and its write, and during recovery. *)
AwaitedInv ==
    /\ DepTypes
    /\ mode = "unblock" => /\ StaleEdges = {}
                           /\ execs = {} /\ cchan = {} /\ fchan = {} /\ cascades = {}
    /\ mode \in {"up", "unblock"}
    /\ \A e \in deps : Awaited(e)
    /\ \A e \in deps : CascadedUnwritten(e[2]) => e \in forgotten
    /\ mode = "up" => \A k \in Ids : tasks[k].status = "blocked" => Held(k)

(* Which rows are there, and which are blocked, after an unblocking step. *)
LEMMA UnblockedPresence ==
    ASSUME tasks \in [Ids -> Row], NEW U, NEW S, NEW D, NEW k \in Ids
    PROVE  LET r == Unblocked(U, S, D)[k]
           IN  /\ tasks[k].status # "none" /\ k \notin S => r.status # "none"
               /\ r.status = "blocked" =>
                     /\ r = tasks[k] /\ k \notin S
                     /\ k \notin U \/ \E e \in D : e[1] = k
<1>1. NoRow.status = "none"
    BY DEF NoRow
<1>2. [tasks[k] EXCEPT !.status = "pending"].status = "pending"
    BY DEF Row
<1>3. QED
    BY <1>1, <1>2 DEF Unblocked

(* The rows S were deleted with the edges to and from them (other than those
   from rows that were not blocked), and their dependents were unblocked. *)
LEMMA AwaitedAfterUnblock ==
    ASSUME AwaitedInv, mode = "up", NEW S, NEW gone, NEW left,
           gone \subseteq deps, \A e \in left : e[1] \in S,
           \A e \in deps : e[2] \in S => e \in gone,
           deps' = deps \ (gone \cup left),
           tasks' = Unblocked({e[1] : e \in gone}, S, deps'), stranded' = stranded
    PROVE  /\ \A e \in deps' : e[2] \in Present => e[2] \in Present'
           /\ \A k \in Ids : tasks'[k].status = "blocked" => Held(k)'
<1>0. tasks \in [Ids -> Row] /\ deps \subseteq Ids \X Ids
    BY DEF AwaitedInv, DepTypes
<1>1. ASSUME NEW e \in deps', e[2] \in Present PROVE e[2] \in Present'
    BY <1>0, <1>1, UnblockedPresence DEF Present
<1>2. ASSUME NEW k \in Ids, tasks'[k].status = "blocked" PROVE Held(k)'
  <2>1. /\ tasks'[k] = tasks[k] /\ k \notin S
        /\ k \notin {e[1] : e \in gone} \/ \E e \in deps' : e[1] = k
      BY <1>0, <1>2, UnblockedPresence
  <2>2. CASE tasks[k].uid \in stranded
      BY <2>1, <2>2 DEF Held
  <2>3. CASE EdgesFrom({k}) # {}
    <3>1. PICK e \in deps : e[1] = k
        BY <2>3 DEF EdgesFrom
    <3>2. \E d \in deps' : d[1] = k
        BY <2>1, <3>1
    <3>3. QED
        BY <3>2 DEF EdgesFrom, Held
  <2>4. QED
      BY <1>2, <2>1, <2>2, <2>3 DEF AwaitedInv, Held
<1>3. QED
    BY Zenon, <1>1, <1>2

LEMMA AwaitedPreserved ==
    ASSUME AwaitedInv, [Next]_vars
    PROVE  AwaitedInv'
<1>0. /\ DepTypes /\ DepTypes' /\ mode \in {"up", "unblock"}
      /\ tasks \in [Ids -> Row] /\ NoRow.status = "none"
      /\ deps \subseteq Ids \X Ids
    BY TypesPreserved DEF AwaitedInv, DepTypes, NoRow
<1>1. ASSUME NEW i \in Subs, Submit(i) PROVE AwaitedInv'
  <2>1. PICK k \in Ids :
          /\ IsNextRowId(k)
          /\ \/ tasks' = tasks /\ deps' = deps /\ forgotten' = forgotten
             \/ /\ ~Refused(i, k) /\ deps' = deps \cup NewEdges(i, k)
                /\ tasks' = [tasks EXCEPT ![k] =
                      [status |-> IF NewEdges(i, k) = {} THEN "pending" ELSE "blocked",
                       uid |-> i]]
                /\ forgotten' = forgotten \cup
                                {e \in NewEdges(i, k) : CascadedUnwritten(e[2])}
      BY <1>1 DEF Submit
  <2>2. mode = "up" /\ UNCHANGED <<fchan, cascades, mode, stranded>>
      BY <1>1 DEF Submit, execVars
  <2>3. CASE tasks' = tasks /\ deps' = deps /\ forgotten' = forgotten
      BY SMTT(60), <2>2, <2>3, <1>0
      DEF AwaitedInv, Awaited, CascadedUnwritten, EdgesFrom, Held, Present
  <2>4. CASE /\ ~Refused(i, k) /\ deps' = deps \cup NewEdges(i, k)
             /\ tasks' = [tasks EXCEPT ![k] =
                   [status |-> IF NewEdges(i, k) = {} THEN "pending" ELSE "blocked",
                    uid |-> i]]
             /\ forgotten' = forgotten \cup
                             {e \in NewEdges(i, k) : CascadedUnwritten(e[2])}
    <3>1. NewEdges(i, k) \subseteq {k} \X Present
        BY <2>1, <2>4, SubmittedEdges
    <3>2. \A j \in Ids : j # k => tasks'[j] = tasks[j]
        BY <2>4, <1>0
    <3>3. tasks'[k].status = IF NewEdges(i, k) = {} THEN "pending" ELSE "blocked"
        BY <2>4, <1>0
    <3>4. Present \subseteq Present'
        BY <3>2, <3>3 DEF Present
    <3>5. \A e \in deps' : Awaited(e)'
        BY <2>2, <2>4, <3>1, <3>4 DEF AwaitedInv, Awaited
    <3>6. \A e \in deps' : CascadedUnwritten(e[2])' => e \in forgotten'
        BY <2>2, <2>4 DEF AwaitedInv, CascadedUnwritten
    <3>7. ASSUME NEW j \in Ids, tasks'[j].status = "blocked" PROVE Held(j)'
      <4>1. CASE j = k
        <5>1. PICK e \in NewEdges(i, k) : TRUE
            BY <4>1, <3>3, <3>7
        <5>2. e \in deps' /\ e[1] = j
            BY <4>1, <5>1, <2>4, <3>1
        <5>3. QED
            BY <5>2 DEF EdgesFrom, Held
      <4>2. CASE j # k
          BY <4>2, <3>2, <3>7, <2>2, <2>4 DEF AwaitedInv, EdgesFrom, Held
      <4>3. QED
          BY <4>1, <4>2
    <3>8. QED
        BY <3>5, <3>6, <3>7, <2>2, <1>0 DEF AwaitedInv
  <2>5. QED
      BY <2>1, <2>3, <2>4
<1>2. ASSUME NEW k \in Ids, Dispatch(k) PROVE AwaitedInv'
  <2>1. mode = "up" /\ UNCHANGED <<deps, fchan, cascades, mode, forgotten, stranded>>
      BY <1>2 DEF Dispatch, ghosts
  <2>2. tasks[k].status = "pending" /\ tasks'[k].status = "running"
      BY <1>2, <1>0 DEF Dispatch, Row
  <2>3. \A j \in Ids : j # k => tasks'[j] = tasks[j]
      BY <1>2, <1>0 DEF Dispatch
  <2>4. Present' = Present
      BY <2>2, <2>3 DEF Present
  <2>5. \A j \in Ids : tasks'[j].status = "blocked" => tasks'[j] = tasks[j]
      BY <2>2, <2>3
  <2>6. QED
      BY <2>1, <2>4, <2>5, <1>0 DEF AwaitedInv, Awaited, CascadedUnwritten, EdgesFrom, Held
<1>3. ASSUME NEW k \in Ids, Cancel(k) PROVE AwaitedInv'
  <2>1. /\ mode = "up" /\ UNCHANGED <<fchan, mode, stranded>>
        /\ cascades' = cascades \cup {[id |-> k, uid |-> tasks[k].uid]}
        /\ forgotten' = forgotten \cap deps'
        /\ deps' = deps \ EdgesFrom({k})
      BY <1>3 DEF Cancel, ghosts
  <2>2. tasks'[k].status = "none" /\ \A j \in Ids : j # k => tasks'[j] = tasks[j]
      BY <1>3, <1>0 DEF Cancel
  <2>3. ASSUME NEW e \in deps' PROVE Awaited(e)'
    <3>1. CASE e[2] = k
      <4>1. [id |-> k, uid |-> tasks[k].uid] \in cascades'
          BY <2>1
      <4>2. QED
          BY <3>1, <4>1 DEF Awaited
    <3>2. CASE e[2] # k
        BY <3>2, <2>1, <2>2 DEF AwaitedInv, Awaited, Present
    <3>3. QED
        BY <3>1, <3>2
  <2>4. \A e \in deps' : CascadedUnwritten(e[2])' => e \in forgotten'
      BY Zenon, <2>1 DEF AwaitedInv, CascadedUnwritten
  <2>5. ASSUME NEW j \in Ids, tasks'[j].status = "blocked" PROVE Held(j)'
    <3>1. j # k /\ tasks'[j] = tasks[j]
        BY <2>2, <2>5
    <3>2. QED
        BY <3>1, <2>1, <2>5 DEF AwaitedInv, EdgesFrom, Held
  <2>6. QED
      BY Zenon, <2>1, <2>3, <2>4, <2>5, <1>0 DEF AwaitedInv
<1>4. ASSUME NEW k \in Ids, ExpireSingle(k) PROVE AwaitedInv'
  <2>1. /\ mode = "up" /\ UNCHANGED <<deps, fchan, cascades, mode, stranded>>
        /\ forgotten' = forgotten \cup EdgesTo({k})
      BY <1>4 DEF ExpireSingle, execVars, ghosts
  <2>2. tasks'[k].status = "none" /\ \A j \in Ids : j # k => tasks'[j] = tasks[j]
      BY <1>4, <1>0 DEF ExpireSingle
  <2>3. \A e \in deps' : Awaited(e)'
      BY <2>1, <2>2 DEF AwaitedInv, Awaited, Present, EdgesTo
  <2>4. \A e \in deps' : CascadedUnwritten(e[2])' => e \in forgotten'
      BY <2>1 DEF AwaitedInv, CascadedUnwritten
  <2>5. \A j \in Ids : tasks'[j].status = "blocked" => tasks'[j] = tasks[j]
      BY SMTT(60), <2>2
  <2>6. QED
      BY Zenon, <2>1, <2>3, <2>4, <2>5, <1>0 DEF AwaitedInv, EdgesFrom, Held
<1>5. ASSUME NEW x \in execs, HandleSuccess(x) PROVE AwaitedInv'
  <2>1. UNCHANGED <<tasks, deps, fchan, cascades, mode, forgotten, stranded>>
      BY <1>5 DEF HandleSuccess, storeVars, ghosts
  <2>2. mode = "up"
      BY <1>0 DEF AwaitedInv
  <2>3. QED
      BY <2>1, <2>2, <1>0
      DEF AwaitedInv, Awaited, CascadedUnwritten, EdgesFrom, Held, Present
<1>6. ASSUME NEW x \in execs, NEW lead \in BOOLEAN, HandleFailure(x, lead)
      PROVE  AwaitedInv'
  <2>1. UNCHANGED <<tasks, deps, mode, forgotten, stranded>>
      BY <1>6 DEF HandleFailure, storeVars, ghosts
  <2>2. mode = "up"
      BY <1>0 DEF AwaitedInv
  <2>3. /\ fchan' = fchan \cup {[id |-> x.id, uid |-> x.uid, lead |-> lead]}
        /\ cascades \subseteq cascades' /\ (~lead => x \in cascades')
      BY <1>6 DEF HandleFailure
  <2>4. x = [id |-> x.id, uid |-> x.uid]
      BY <1>0 DEF DepTypes, Rec
  <2>5. \A e \in deps' : Awaited(e)'
      BY <2>1, <2>3 DEF AwaitedInv, Awaited, Present
  <2>6. ASSUME NEW d, CascadedUnwritten(d)' PROVE CascadedUnwritten(d)
    <3>1. PICK y \in fchan' : /\ y.id = d /\ ~y.lead
                              /\ [id |-> y.id, uid |-> y.uid] \notin cascades'
        BY <2>6 DEF CascadedUnwritten
    <3>2. y \in fchan
        BY SMTT(60), <2>3, <2>4, <3>1
    <3>3. QED
        BY <2>3, <3>1, <3>2 DEF CascadedUnwritten
  <2>7. QED
      BY <2>1, <2>2, <2>5, <2>6, <1>0 DEF AwaitedInv, EdgesFrom, Held
<1>7. ASSUME NEW B \in SUBSET cchan, CompleteBatch(B) PROVE AwaitedInv'
  <2> DEFINE S == {x.id : x \in B}
             gone == EdgesTo(S)
             left == {}
  <2>1. /\ deps' = deps \ (gone \cup left)
        /\ tasks' = Unblocked({e[1] : e \in gone}, S, deps')
        /\ forgotten' = forgotten \cap deps'
        /\ UNCHANGED <<fchan, cascades, mode, stranded>>
      BY <1>7 DEF CompleteBatch, ResolveDependents, ghosts
  <2>2. mode = "up"
      BY <1>7, <1>0 DEF AwaitedInv, CompleteBatch
  <2>3. /\ gone \subseteq deps /\ \A e \in left : e[1] \in S
        /\ \A e \in deps : e[2] \in S => e \in gone
      BY DEF EdgesTo
  <2> HIDE DEF S, gone, left
  <2>4. /\ \A e \in deps' : e[2] \in Present => e[2] \in Present'
        /\ \A k \in Ids : tasks'[k].status = "blocked" => Held(k)'
      BY Zenon, <2>1, <2>2, <2>3, AwaitedAfterUnblock
  <2>5. \A e \in deps' : Awaited(e)'
      BY <2>1, <2>4 DEF AwaitedInv, Awaited
  <2>6. \A e \in deps' : CascadedUnwritten(e[2])' => e \in forgotten'
      BY <2>1 DEF AwaitedInv, CascadedUnwritten
  <2>7. QED
      BY Zenon, <2>1, <2>2, <2>4, <2>5, <2>6, <1>0 DEF AwaitedInv
<1>8. ASSUME NEW B \in SUBSET fchan, FailBatch(B) PROVE AwaitedInv'
  <2>1. /\ UNCHANGED <<deps, mode, forgotten, stranded>> /\ fchan' \subseteq fchan
        /\ cascades' = cascades \cup {[id |-> x.id, uid |-> x.uid] : x \in {y \in B : y.lead}}
      BY <1>8 DEF FailBatch, ghosts
  <2>2. mode = "up"
      BY <1>8, <1>0 DEF AwaitedInv, FailBatch
  <2>3. \A k \in Ids : tasks'[k] = IF \E x \in B : x.id = k THEN NoRow ELSE tasks[k]
      BY <1>8 DEF FailBatch
  <2>4. ASSUME NEW e \in deps' PROVE Awaited(e)'
    <3>1. CASE \E x \in B : x.id = e[2]
      <4>1. PICK x \in B : x.id = e[2]
          BY <3>1
      <4>2. CASE \E c \in cascades' : c.id = e[2]
          BY <4>2 DEF Awaited
      <4>3. CASE ~\E c \in cascades' : c.id = e[2]
        <5>1. [id |-> x.id, uid |-> x.uid] \notin cascades'
            BY <4>1, <4>3
        <5>2. ~x.lead /\ [id |-> x.id, uid |-> x.uid] \notin cascades
            BY <5>1, <2>1
        <5>3. CascadedUnwritten(e[2])
            BY SMTT(60), <4>1, <5>2 DEF CascadedUnwritten
        <5>4. QED
            BY <5>3, <2>1 DEF AwaitedInv, Awaited
      <4>4. QED
          BY <4>2, <4>3
    <3>2. CASE ~\E x \in B : x.id = e[2]
        BY SMTT(60), <3>2, <2>1, <2>3, <1>0 DEF AwaitedInv, Awaited, Present
    <3>3. QED
        BY <3>1, <3>2
  <2>5. \A e \in deps' : CascadedUnwritten(e[2])' => e \in forgotten'
      BY <2>1 DEF AwaitedInv, CascadedUnwritten
  <2>6. \A k \in Ids : tasks'[k].status = "blocked" => tasks'[k] = tasks[k]
      BY SMTT(60), <2>3, <1>0
  <2>7. QED
      BY <2>1, <2>2, <2>4, <2>5, <2>6, <1>0 DEF AwaitedInv, EdgesFrom, Held
<1>9. ASSUME NEW c \in cascades, FailDependents(c) PROVE AwaitedInv'
  <2> DEFINE F == FailedDependents(c.id)
             gone == EdgesTo({c.id} \cup F)
             left == EdgesFrom(F)
  <2>1. /\ deps' = deps \ (gone \cup left)
        /\ tasks' = Unblocked({e[1] : e \in gone}, F, deps')
        /\ forgotten' = forgotten \cap deps' /\ cascades' = cascades \ {c}
        /\ UNCHANGED <<fchan, mode, stranded>>
      BY <1>9 DEF FailDependents, ghosts
  <2>2. mode = "up"
      BY <1>9, <1>0 DEF AwaitedInv
  <2>3. /\ gone \subseteq deps /\ \A e \in left : e[1] \in F
        /\ \A e \in deps : e[2] \in F \/ e[2] = c.id => e \in gone
      BY DEF EdgesTo, EdgesFrom
  <2> HIDE DEF F, gone, left
  <2>4. /\ \A e \in deps' : e[2] \in Present => e[2] \in Present'
        /\ \A k \in Ids : tasks'[k].status = "blocked" => Held(k)'
      BY Zenon, <2>1, <2>2, <2>3, AwaitedAfterUnblock
  <2>5. \A e \in deps' : e \in deps /\ e[2] # c.id
      BY <2>1, <2>3
  <2>6. \A e \in deps' : Awaited(e)'
      BY <2>1, <2>4, <2>5 DEF AwaitedInv, Awaited
  <2>7. ASSUME NEW e \in deps', CascadedUnwritten(e[2])' PROVE e \in forgotten'
    <3>1. PICK y \in fchan : /\ y.id = e[2] /\ ~y.lead
                             /\ [id |-> y.id, uid |-> y.uid] \notin cascades'
        BY <2>1, <2>7 DEF CascadedUnwritten
    <3>2. [id |-> y.id, uid |-> y.uid] # c
        BY SMTT(60), <3>1, <2>5
    <3>3. CascadedUnwritten(e[2])
        BY SMTT(60), <2>1, <3>1, <3>2 DEF CascadedUnwritten
    <3>4. QED
        BY <3>3, <2>1, <2>5 DEF AwaitedInv
  <2>8. QED
      BY Zenon, <2>1, <2>2, <2>4, <2>6, <2>7, <1>0 DEF AwaitedInv
<1>10. ASSUME NEW S \in SUBSET Ids, ExpireTasks(S) PROVE AwaitedInv'
  <2>1. /\ mode = "up" /\ UNCHANGED <<fchan, mode, stranded>>
        /\ cascades' = cascades \cup {[id |-> k, uid |-> tasks[k].uid] : k \in S}
        /\ forgotten' = forgotten \cap deps'
        /\ deps' = deps \ EdgesFrom(S)
      BY <1>10 DEF ExpireTasks, ghosts
  <2>2. \A k \in Ids : tasks'[k] = IF k \in S THEN NoRow ELSE tasks[k]
      BY <1>10 DEF ExpireTasks
  <2>3. ASSUME NEW e \in deps' PROVE Awaited(e)'
    <3>1. CASE e[2] \in S
      <4>1. [id |-> e[2], uid |-> tasks[e[2]].uid] \in cascades'
          BY <2>1, <3>1
      <4>2. QED
          BY <4>1 DEF Awaited
    <3>2. CASE e[2] \notin S
        BY <3>2, <2>1, <2>2 DEF AwaitedInv, Awaited, Present
    <3>3. QED
        BY <3>1, <3>2
  <2>4. \A e \in deps' : CascadedUnwritten(e[2])' => e \in forgotten'
      BY <2>1 DEF AwaitedInv, CascadedUnwritten
  <2>5. ASSUME NEW j \in Ids, tasks'[j].status = "blocked" PROVE Held(j)'
    <3>1. j \notin S /\ tasks'[j] = tasks[j]
        BY SMTT(60), <2>2, <2>5, <1>0
    <3>2. QED
        BY <3>1, <2>1, <2>5 DEF AwaitedInv, EdgesFrom, Held
  <2>6. QED
      BY SMTT(60), <2>1, <2>3, <2>4, <2>5, <1>0 DEF AwaitedInv
<1>11. CASE Restart
  <2>1. /\ execs' = {} /\ cchan' = {} /\ fchan' = {} /\ cascades' = {}
        /\ deps' = deps \ StaleEdges
        /\ mode' = IF StaleEdges = {} THEN "up" ELSE "unblock"
      BY <1>11 DEF Restart
  <2>2. mode' = "up" => IF mode = "unblock"
                        THEN stranded' = stranded \cup {tasks[k].uid : k \in Unheld}
                        ELSE stranded' = stranded
      BY <1>11 DEF Restart
  <2>3. \A k \in Ids : /\ tasks[k].status # "none" => tasks'[k].status # "none"
                       /\ tasks'[k].status = "blocked" => tasks'[k] = tasks[k]
    <3>1. \A k \in Ids : [tasks[k] EXCEPT !.status = "pending"].status = "pending"
        BY <1>0 DEF Row
    <3>2. \A k \in Ids : tasks'[k] = IF tasks[k].status = "running"
                                     THEN [tasks[k] EXCEPT !.status = "pending"]
                                     ELSE tasks[k]
        BY <1>11 DEF Restart
    <3>3. QED
        BY Zenon, <3>1, <3>2
  <2>4. \A e \in deps' : e[2] \in Present'
      BY <2>1, <2>3, <1>0 DEF StaleEdges, Present
  <2>5. StaleEdges' = {}
      BY <2>4 DEF StaleEdges
  <2>6. \A e \in deps' : Awaited(e)' /\ ~CascadedUnwritten(e[2])'
      BY <2>1, <2>4 DEF Awaited, CascadedUnwritten
  <2>7. mode' = "up" => deps' = deps
      BY <2>1
  <2>8. ASSUME mode' = "up", NEW k \in Ids, tasks'[k].status = "blocked"
        PROVE  Held(k)'
    <3>1. tasks'[k] = tasks[k] /\ EdgesFrom({k})' = EdgesFrom({k})
        BY <2>3, <2>7, <2>8 DEF EdgesFrom
    <3>2. CASE mode = "up"
        BY <3>1, <3>2, <2>2, <2>8 DEF AwaitedInv, Held
    <3>3. CASE mode = "unblock"
      <4>1. CASE EdgesFrom({k}) # {}
          BY <3>1, <4>1 DEF Held
      <4>2. CASE EdgesFrom({k}) = {}
        <5>1. k \in Unheld
            BY <3>1, <4>2, <2>8 DEF Unheld
        <5>2. QED
            BY <5>1, <3>1, <3>3, <2>2, <2>8 DEF Held
      <4>3. QED
          BY <4>1, <4>2
    <3>4. QED
        BY <3>2, <3>3, <1>0
  <2>9. QED
      BY <2>1, <2>5, <2>6, <2>8, <1>0 DEF AwaitedInv
<1>12. CASE RecoverUnblock
  <2>1. /\ mode = "unblock" /\ mode' = "up" /\ tasks' = Unblocked(Ids, {}, deps)
        /\ UNCHANGED <<deps, fchan, cascades, forgotten>>
      BY <1>12 DEF RecoverUnblock, execVars
  <2>2. \A k \in Ids : /\ tasks[k].status # "none" => tasks'[k].status # "none"
                       /\ tasks'[k].status = "blocked" => \E e \in deps : e[1] = k
      BY SMTT(60), <2>1, <1>0, UnblockedPresence
  <2>3. \A e \in deps' : Awaited(e)'
      BY <2>1, <2>2 DEF AwaitedInv, Awaited, Present
  <2>4. \A e \in deps' : CascadedUnwritten(e[2])' => e \in forgotten'
      BY <2>1 DEF AwaitedInv, CascadedUnwritten
  <2>5. \A k \in Ids : tasks'[k].status = "blocked" => Held(k)'
      BY SMTT(60), <2>1, <2>2 DEF EdgesFrom, Held
  <2>6. QED
      BY <2>1, <2>3, <2>4, <2>5, <1>0 DEF AwaitedInv
<1>13. CASE UNCHANGED vars
    BY <1>13, <1>0
    DEF AwaitedInv, Awaited, CascadedUnwritten, EdgesFrom, Held, Present, StaleEdges, vars
<1>14. QED
    BY <1>1, <1>2, <1>3, <1>4, <1>5, <1>6, <1>7, <1>8, <1>9, <1>10, <1>11,
       <1>12, <1>13 DEF Next, ExecStep

LEMMA AwaitedInitially == Init => AwaitedInv
<1>1. NoRow \in Row /\ NoRow.status = "none"
    BY DEF NoRow, Row
<1>2. QED
    BY <1>1 DEF Init, AwaitedInv, DepTypes

(* BlockedIsAwaited holds in every behaviour, however often the process is
   killed, late results and reused ids included: only a kill between the two
   statements of recovery leaves a row blocked that waits for nothing. *)
THEOREM BlockedWaitsForSomething == Spec => []BlockedIsAwaited
<1>1. AwaitedInv /\ [Next]_vars => AwaitedInv'
    BY AwaitedPreserved
<1>2. AwaitedInv => BlockedIsAwaited
    BY DEF AwaitedInv, Awaited, BlockedIsAwaited, EdgesFrom, Held
<1>3. QED
    BY AwaitedInitially, <1>1, <1>2, PTL DEF Spec

=============================================================================
