--------------------------- MODULE ShutdownProofs ---------------------------
(* Proofs about the shutdown of ActiveTasks, for any number of tasks and
   executions: what it leaves running, and what it leaves unwritten. *)
EXTENDS ActiveTasks, FiniteSetTheorems, TLAPS

Futures == [task : Tasks \cup {Unset},
            pc : {"none", "run", "bytes", "sent", "lead", "last", "done"},
            token : BOOLEAN, aborted : BOOLEAN, attempt : Nat,
            kind : Kinds \cup {Unset}, batch : SUBSET Execs]

EntryType == [exec : Execs, handle : BOOLEAN, reported : Int \cup {Unset},
              reported_at : Nat \cup {Unset}, started : Nat]

RunLoop == [pc : {"poll", "spawned", "write", "join", "wait", "drain", "close",
                  "returned"},
            task : Tasks \cup {Unset}, exec : Execs \cup {Unset},
            batch : SUBSET Execs, kind : Kinds,
            then : {"poll", "drain", "close"}, handles : SUBSET Execs]

(* The run loop has not begun to shut down. *)
Serving == loop.pc \in {"poll", "spawned"} \/ (loop.pc = "write" /\ loop.then = "poll")

(* It is past the joins. *)
Draining == ~Serving /\ loop.pc \notin {"join", "wait"}

(* The types of what the shutdown reads. *)
Types ==
    /\ now \in Nat
    /\ active \in [Tasks -> EntryType \cup {Unset}]
    /\ exec \in [Execs -> Futures]
    /\ spawned \in Nat
    /\ chan \in [Kinds -> SUBSET Execs]
    /\ open \in BOOLEAN /\ late \in BOOLEAN
    /\ loop \in RunLoop
    /\ drained \in SUBSET Execs /\ joined \in SUBSET Execs

(* The handle of an entry is set before the run loop does anything else. *)
Entries ==
    \A t \in Tasks : active[t] # Unset =>
        active[t].handle \/ (loop.pc = "spawned" /\ loop.task = t)

(* Where a result is between the return of its execution and the store. *)
Taken == recorded \cup loop.batch
             \cup {e \in Execs : \E f \in Execs : e \in exec[f].batch}

Located ==
    \A e \in Execs : exec[e].kind # Unset => e \in chan[exec[e].kind] \cup Taken

(* Only leaders hold results, and those whose batch could not be written. *)
Proper(r) ==
    /\ r.pc = "none" => r.kind = Unset
    /\ r.pc = "sent" => r.kind \in Kinds
    /\ r.pc \in {"none", "run", "bytes", "sent"} => r.batch = {}
    /\ open /\ r.batch # {} => r.pc = "lead" \/ r.aborted

Holders ==
    \A e \in Execs : Proper(exec[e]) /\ (e > spawned => exec[e].pc = "none")

(* The run loop writes what it took before it goes on, and closes the store
   last. *)
LoopHolds == (open <=> loop.pc # "returned") /\ (loop.pc # "write" => loop.batch = {})

(* How far the shutdown is: nothing is aborted before it, nor before the
   deadline of a graceful one; what it joined has ended and holds no results,
   and what the joined sent has left the channels when these were drained. *)
Phases ==
    /\ Serving => drained = {} /\ joined = {} /\ ~late
    /\ Serving \/ (loop.pc \in {"join", "wait"} /\ ~late) =>
          \A e \in Execs : ~exec[e].aborted
    /\ loop.pc = "wait" => loop.exec \in Execs /\ ~exec[loop.exec].aborted
    /\ \A e \in joined : exec[e].pc = "done" /\ exec[e].batch = {}
    /\ loop.pc \in {"join", "wait"} => loop.kind = "ok"
    /\ loop.pc = "write" => loop.kind = "fail"
    /\ Draining /\ ~(loop.pc = "drain" /\ loop.kind = "ok") =>
          joined \cap chan["ok"] = {}
    /\ loop.pc \in {"close", "returned"} \/ (loop.pc = "write" /\ loop.then = "close") =>
          joined \cap chan["fail"] = {}

(* Executions the shutdown found in the map that have neither ended nor been
   aborted. *)
Left == {e \in drained : exec[e].pc # "done" /\ ~exec[e].aborted}

(* They are among the handles still to be joined, but for the one that is
   being awaited, or was when the deadline passed. *)
Stragglers ==
    /\ scenario.mode = "hard" /\ ~Serving => Left = {} /\ Draining
    /\ loop.pc = "join" /\ ~late => Left \subseteq loop.handles
    /\ loop.pc = "wait" => Left \subseteq loop.handles \cup {loop.exec}
    /\ loop.pc = "join" => \E s \in Execs \cup {Unset} : Left \subseteq loop.handles \cup {s}
    /\ Draining => \E s \in Execs \cup {Unset} : Left \subseteq {s}

ShutdownInv ==
    Types /\ Entries /\ Located /\ Holders /\ LoopHolds /\ Phases /\ Stragglers

-----------------------------------------------------------------------------

(* The state in which run() starts. *)
LEMMA InitInv == Init => ShutdownInv
<1> SUFFICES ASSUME Init PROVE ShutdownInv
    OBVIOUS
<1> USE DEF Init, NoExec
<1>1. Types
    BY Zenon DEF Types, Kinds, Futures, RunLoop
<1>2. Entries
    BY DEF Entries
<1>3. Located /\ Holders /\ LoopHolds
    BY DEF Located, Taken, Holders, LoopHolds, Proper, Kinds
<1>4. Phases
    BY DEF Phases, Serving, Draining
<1>5. Stragglers
    BY DEF Stragglers, Serving, Draining, Left
<1>6. QED
    BY <1>1, <1>2, <1>3, <1>4, <1>5 DEF ShutdownInv

-----------------------------------------------------------------------------
(* Steps of one future *)

(* The future e goes on to r: it alone changes, no entry is added to the map,
   and it may add its own result to the channels. *)
Advance(e, r) ==
    /\ exec[e].pc \notin {"none", "done"}
    /\ r \in Futures /\ r.aborted = exec[e].aborted
    /\ exec' = [exec EXCEPT ![e] = r]
    /\ active' \in [Tasks -> EntryType \cup {Unset}]
    /\ \A t \in Tasks : active'[t] \in {active[t], Unset}
    /\ chan' \in [Kinds -> SUBSET Execs]
    /\ \A kind \in Kinds : chan'[kind] \subseteq chan[kind] \cup {e}
    /\ UNCHANGED <<scenario, now, spawned, open, loop, late, drained, joined>>

(* Such a step keeps all but where the results are. *)
LEMMA AdvanceKeeps ==
    ASSUME ShutdownInv, NEW e \in Execs, NEW r, Advance(e, r), Proper(r)
    PROVE  /\ Types' /\ Entries' /\ Holders' /\ LoopHolds' /\ Phases' /\ Stragglers'
           /\ exec'[e] = r
           /\ \A f \in Execs : f # e => exec'[f] = exec[f]
<1> USE DEF ShutdownInv
<1>1. Types'
    BY DEF Types, Advance
<1>2. Entries'
    BY DEF Entries, Advance
<1>3. /\ \A f \in Execs : exec'[f].aborted = exec[f].aborted
      /\ \A f \in Execs : f # e => exec'[f] = exec[f]
      /\ exec'[e] = r
      /\ exec[e].pc \notin {"none", "done"}
    BY DEF Types, Advance
<1>4. e \notin joined
    BY <1>3 DEF Types, Phases
<1>5. Phases'
    BY <1>3, <1>4 DEF Types, Advance, Phases, Serving, Draining, Kinds
<1>6. Left' \subseteq Left
    BY <1>3 DEF Left, Types, Advance
<1>7. Stragglers'
    BY <1>6 DEF Advance, Stragglers, Serving, Draining
<1>8. LoopHolds'
    BY DEF LoopHolds, Advance
<1>9. spawned' = spawned /\ open' = open
    BY DEF Advance
<1>10. Holders'
    <2> SUFFICES ASSUME NEW f \in Execs
                 PROVE  Proper(exec[f])' /\ (f > spawned' => exec'[f].pc = "none")
        BY DEF Holders
    <2>1. ~(e > spawned)
        BY <1>3 DEF Holders
    <2>2. CASE f = e
        BY <1>3, <1>9, <2>1, <2>2 DEF Proper
    <2>3. CASE f # e
        BY <1>3, <1>9, <2>3 DEF Proper, Holders
    <2>4. QED
        BY <2>2, <2>3
<1>11. QED
    BY <1>1, <1>2, <1>3, <1>5, <1>7, <1>8, <1>10

(* Results are lost from sight by no step that keeps, or moves on, what the
   channels and the takers have. *)
LEMMA LocatedKept ==
    ASSUME Types, Located,
           \A e \in Execs : \/ exec'[e].kind = exec[e].kind
                           \/ e \in chan'[exec'[e].kind],
           Taken \subseteq Taken',
           \A kind \in Kinds : chan[kind] \subseteq chan'[kind] \cup Taken'
    PROVE  Located'
<1> SUFFICES ASSUME NEW e \in Execs, exec'[e].kind # Unset
             PROVE  e \in chan'[exec'[e].kind] \cup Taken'
    BY DEF Located
<1>1. exec[e].kind \in Kinds \cup {Unset}
    BY DEF Types, Futures
<1>2. QED
    BY <1>1 DEF Located

(* A success frees the slot and queues the completion. *)
LEMMA ReturnOkKeeps ==
    ASSUME ShutdownInv, NEW e \in Execs, ReturnOk(e)
    PROVE  ShutdownInv'
<1> DEFINE r == [exec[e] EXCEPT !.pc = "sent", !.kind = "ok"]
<1> USE DEF ShutdownInv
<1>1. exec[e] \in Futures /\ exec \in [Execs -> Futures]
    BY DEF Types
<1>2. /\ r \in Futures /\ r.aborted = exec[e].aborted
      /\ r.pc = "sent" /\ r.kind = "ok" /\ r.batch = exec[e].batch
    BY Zenon, <1>1 DEF Types, Futures, Kinds
<1>3. exec' = [exec EXCEPT ![e] = r]
    BY Zenon, <1>1 DEF ReturnOk
<1>4. Advance(e, r)
    BY Zenon, <1>1, <1>2, <1>3 DEF Types, Advance, ReturnOk, Remove, Kinds
<1>5. Proper(r)
    BY <1>1, <1>2 DEF Proper, Holders, Kinds, ReturnOk, Remove
<1> HIDE DEF r
<1>6. Taken \subseteq Taken'
    BY <1>1, <1>2, <1>4, <1>5, AdvanceKeeps DEF Taken, ReturnOk, Remove, Advance
<1>7. Located'
    BY <1>2, <1>4, <1>5, <1>6, AdvanceKeeps, LocatedKept
       DEF Types, ReturnOk, Remove, Advance, Kinds
<1>8. QED
    BY <1>4, <1>5, <1>7, AdvanceKeeps

(* A cancelled execution ends without a result. *)
LEMMA ReturnCancelledKeeps ==
    ASSUME ShutdownInv, NEW e \in Execs, ReturnCancelled(e)
    PROVE  ShutdownInv'
<1> DEFINE r == [exec[e] EXCEPT !.pc = "done"]
<1> USE DEF ShutdownInv
<1>1. exec[e] \in Futures /\ exec \in [Execs -> Futures]
    BY DEF Types
<1>2. /\ r \in Futures /\ r.aborted = exec[e].aborted
      /\ r.pc = "done" /\ r.kind = exec[e].kind /\ r.batch = exec[e].batch
    BY <1>1 DEF Types, Futures, Kinds
<1>3. exec' = [exec EXCEPT ![e] = r]
    BY <1>1 DEF ReturnCancelled
<1>4. Advance(e, r)
    BY Zenon, <1>1, <1>2, <1>3 DEF Types, Advance, ReturnCancelled, Remove, Kinds
<1>5. Proper(r)
    BY <1>1, <1>2 DEF Proper, Holders, Kinds, ReturnCancelled, Remove
<1> HIDE DEF r
<1>6. Taken \subseteq Taken'
    BY <1>1, <1>2, <1>4, <1>5, AdvanceKeeps DEF Taken, ReturnCancelled, Remove, Advance
<1>7. Located'
    BY <1>2, <1>4, <1>5, <1>6, AdvanceKeeps, LocatedKept
       DEF Types, ReturnCancelled, Remove, Advance, Kinds
<1>8. QED
    BY <1>4, <1>5, <1>7, AdvanceKeeps

(* An inline retry stays where it is. *)
LEMMA InlineRetryKeeps ==
    ASSUME ShutdownInv, NEW e \in Execs, InlineRetry(e)
    PROVE  ShutdownInv'
<1> DEFINE r == [exec[e] EXCEPT !.attempt = @ + 1]
<1> USE DEF ShutdownInv
<1>1. exec[e] \in Futures /\ exec \in [Execs -> Futures]
    BY DEF Types
<1>2. /\ r \in Futures /\ r.aborted = exec[e].aborted
      /\ r.pc = exec[e].pc /\ r.kind = exec[e].kind /\ r.batch = exec[e].batch
    BY <1>1 DEF Types, Futures, Kinds
<1>3. exec' = [exec EXCEPT ![e] = r]
    BY <1>1 DEF InlineRetry
<1>4. Advance(e, r)
    BY <1>1, <1>2, <1>3 DEF Types, Advance, InlineRetry, Kinds
<1>5. Proper(r)
    BY <1>1, <1>2 DEF Proper, Holders, Kinds, InlineRetry
<1> HIDE DEF r
<1>6. Taken \subseteq Taken'
    BY <1>1, <1>2, <1>4, <1>5, AdvanceKeeps DEF Taken, InlineRetry, Advance
<1>7. Located'
    BY <1>2, <1>4, <1>5, <1>6, AdvanceKeeps, LocatedKept DEF Types, InlineRetry, Advance, Kinds
<1>8. QED
    BY <1>4, <1>5, <1>7, AdvanceKeeps

(* A terminal failure is queued. *)
LEMMA ReturnFailKeeps ==
    ASSUME ShutdownInv, NEW e \in Execs, ReturnFail(e)
    PROVE  ShutdownInv'
<1> DEFINE r == [exec[e] EXCEPT !.pc = "sent", !.kind = "fail"]
<1> USE DEF ShutdownInv
<1>1. exec[e] \in Futures /\ exec \in [Execs -> Futures]
    BY DEF Types
<1>2. /\ r \in Futures /\ r.aborted = exec[e].aborted
      /\ r.pc = "sent" /\ r.kind = "fail" /\ r.batch = exec[e].batch
    BY Zenon, <1>1 DEF Types, Futures, Kinds
<1>3. exec' = [exec EXCEPT ![e] = r]
    BY Zenon, <1>1 DEF ReturnFail
<1>4. Advance(e, r)
    BY Zenon, <1>1, <1>2, <1>3 DEF Types, Advance, ReturnFail, Kinds
<1>5. Proper(r)
    BY <1>1, <1>2 DEF Proper, Holders, Kinds, ReturnFail
<1> HIDE DEF r
<1>6. Taken \subseteq Taken'
    BY <1>1, <1>2, <1>4, <1>5, AdvanceKeeps DEF Taken, ReturnFail, Advance
<1>7. Located'
    BY <1>2, <1>4, <1>5, <1>6, AdvanceKeeps, LocatedKept DEF Types, ReturnFail, Advance, Kinds
<1>8. QED
    BY <1>4, <1>5, <1>7, AdvanceKeeps

(* A leader writes its batch, or keeps what the closed store refused. *)
LEMMA LeadKeeps ==
    ASSUME ShutdownInv, NEW e \in Execs, Lead(e)
    PROVE  ShutdownInv'
<1> DEFINE r == [exec[e] EXCEPT !.pc = "last", !.batch = IF open THEN {} ELSE @]
<1> USE DEF ShutdownInv
<1>1. exec[e] \in Futures /\ exec \in [Execs -> Futures]
    BY DEF Types
<1>2. /\ r \in Futures /\ r.aborted = exec[e].aborted
      /\ r.pc = "last" /\ r.kind = exec[e].kind /\ r.batch = (IF open THEN {} ELSE exec[e].batch)
    BY Zenon, <1>1 DEF Types, Futures, Kinds
<1>3. exec' = [exec EXCEPT ![e] = r]
    BY Zenon, <1>1 DEF Lead
<1>4. Advance(e, r)
    BY Zenon, <1>1, <1>2, <1>3 DEF Types, Advance, Lead, WriteBatch, Kinds
<1>5. Proper(r)
    BY <1>1, <1>2 DEF Proper, Holders, Kinds, Lead, WriteBatch
<1> HIDE DEF r
<1>6. Taken \subseteq Taken'
    BY <1>1, <1>2, <1>4, <1>5, AdvanceKeeps DEF Taken, Lead, WriteBatch, Advance
<1>7. Located'
    BY <1>2, <1>4, <1>5, <1>6, AdvanceKeeps, LocatedKept
       DEF Types, Lead, WriteBatch, Advance, Kinds
<1>8. QED
    BY <1>4, <1>5, <1>7, AdvanceKeeps

(* The end of a future, which frees the slot of a failure. *)
LEMMA EndKeeps ==
    ASSUME ShutdownInv, NEW e \in Execs, End(e)
    PROVE  ShutdownInv'
<1> DEFINE r == [exec[e] EXCEPT !.pc = "done"]
<1> USE DEF ShutdownInv
<1>1. exec[e] \in Futures /\ exec \in [Execs -> Futures]
    BY DEF Types
<1>2. /\ r \in Futures /\ r.aborted = exec[e].aborted
      /\ r.pc = "done" /\ r.kind = exec[e].kind /\ r.batch = exec[e].batch
    BY <1>1 DEF Types, Futures, Kinds
<1>3. exec' = [exec EXCEPT ![e] = r]
    BY <1>1 DEF End
<1>4. Advance(e, r)
    BY <1>1, <1>2, <1>3 DEF Types, Advance, End, Remove, Kinds
<1>5. Proper(r)
    BY <1>1, <1>2 DEF Proper, Holders, Kinds, End, Remove
<1> HIDE DEF r
<1>6. Taken \subseteq Taken'
    BY <1>1, <1>2, <1>4, <1>5, AdvanceKeeps DEF Taken, End, Remove, Advance
<1>7. Located'
    BY <1>2, <1>4, <1>5, <1>6, AdvanceKeeps, LocatedKept DEF Types, End, Remove, Advance, Kinds
<1>8. QED
    BY <1>4, <1>5, <1>7, AdvanceKeeps

(* An aborted future ends with what it holds. *)
LEMMA AbortKeeps ==
    ASSUME ShutdownInv, NEW e \in Execs, Abort(e)
    PROVE  ShutdownInv'
<1> DEFINE r == [exec[e] EXCEPT !.pc = "done"]
<1> USE DEF ShutdownInv
<1>1. exec[e] \in Futures /\ exec \in [Execs -> Futures]
    BY DEF Types
<1>2. /\ r \in Futures /\ r.aborted = exec[e].aborted
      /\ r.pc = "done" /\ r.kind = exec[e].kind /\ r.batch = exec[e].batch
    BY <1>1 DEF Types, Futures, Kinds
<1>3. exec' = [exec EXCEPT ![e] = r]
    BY <1>1 DEF Abort
<1>4. Advance(e, r)
    BY Zenon, <1>1, <1>2, <1>3 DEF Types, Advance, Abort, Kinds
<1>5. Proper(r)
    BY <1>1, <1>2 DEF Proper, Holders, Kinds, Abort
<1> HIDE DEF r
<1>6. Taken \subseteq Taken'
    BY <1>1, <1>2, <1>4, <1>5, AdvanceKeeps DEF Taken, Abort, Advance
<1>7. Located'
    BY <1>2, <1>4, <1>5, <1>6, AdvanceKeeps, LocatedKept DEF Types, Abort, Advance, Kinds
<1>8. QED
    BY <1>4, <1>5, <1>7, AdvanceKeeps

(* The two stores of report_bytes. *)
LEMMA ReportBytesKeeps ==
    ASSUME ShutdownInv, NEW e \in Execs, ReportBytes(e)
    PROVE  ShutdownInv'
<1> DEFINE r(pc) == [exec[e] EXCEPT !.pc = pc]
<1> USE DEF ShutdownInv
<1>1. exec[e] \in Futures /\ exec \in [Execs -> Futures]
    BY DEF Types
<1>2. PICK pc \in {"run", "bytes"} : exec' = [exec EXCEPT ![e] = r(pc)]
    BY <1>1 DEF ReportBytes
<1>3. /\ r(pc) \in Futures /\ r(pc).aborted = exec[e].aborted
      /\ r(pc).pc = pc /\ r(pc).kind = exec[e].kind /\ r(pc).batch = exec[e].batch
    BY <1>1 DEF Futures
<1>4. Advance(e, r(pc))
    BY <1>1, <1>2, <1>3 DEF Types, Advance, ReportBytes, Kinds
<1>5. Proper(r(pc))
    BY <1>1, <1>3 DEF Proper, Holders, ReportBytes
<1> HIDE DEF r
<1>6. Taken \subseteq Taken'
    BY SMTT(60), <1>1, <1>3, <1>4, <1>5, AdvanceKeeps DEF Taken, ReportBytes, Advance
<1>7. Located'
    BY <1>3, <1>4, <1>5, <1>6, AdvanceKeeps, LocatedKept DEF Types, ReportBytes, Advance, Kinds
<1>8. QED
    BY <1>4, <1>5, <1>7, AdvanceKeeps

(* The winner of the election takes the channel, the loser leaves it. *)
LEMMA ElectKeeps ==
    ASSUME ShutdownInv, NEW e \in Execs, Elect(e)
    PROVE  ShutdownInv'
<1> DEFINE won == [exec[e] EXCEPT !.pc = "lead", !.batch = chan[exec[e].kind]]
           lost == [exec[e] EXCEPT !.pc = "last"]
<1> USE DEF ShutdownInv
<1>1. /\ exec[e] \in Futures /\ exec \in [Execs -> Futures]
      /\ exec[e].pc = "sent" /\ exec[e].kind \in Kinds /\ exec[e].batch = {}
    BY DEF Types, Holders, Proper, Elect
<1>2. chan \in [Kinds -> SUBSET Execs] /\ chan[exec[e].kind] \subseteq Execs
    BY <1>1 DEF Types
<1>3. /\ won \in Futures /\ won.aborted = exec[e].aborted /\ won.pc = "lead"
      /\ won.kind = exec[e].kind /\ won.batch = chan[exec[e].kind]
      /\ lost \in Futures /\ lost.aborted = exec[e].aborted /\ lost.pc = "last"
      /\ lost.kind = exec[e].kind /\ lost.batch = {}
    BY ZenonT(60), <1>1, <1>2 DEF Futures
<1>4. Proper(won) /\ Proper(lost)
    BY <1>3 DEF Proper
<1>5. CASE /\ exec' = [exec EXCEPT ![e] = won]
           /\ chan' = [chan EXCEPT ![exec[e].kind] = {}]
    <2> HIDE DEF won
    <2>1. Advance(e, won)
        BY <1>1, <1>2, <1>3, <1>5 DEF Types, Advance, Elect
    <2>2. Taken \subseteq Taken' /\ chan[exec[e].kind] \subseteq Taken'
        BY <1>1, <1>2, <1>3, <1>4, <2>1, AdvanceKeeps DEF Taken, Elect, Advance
    <2>3. Located'
        BY <1>2, <1>3, <1>4, <1>5, <2>1, <2>2, AdvanceKeeps, LocatedKept
    <2>4. QED
        BY <1>4, <2>1, <2>3, AdvanceKeeps
<1>6. CASE exec' = [exec EXCEPT ![e] = lost] /\ UNCHANGED chan
    <2> HIDE DEF lost
    <2>1. Advance(e, lost)
        BY <1>1, <1>2, <1>3, <1>6 DEF Types, Advance, Elect
    <2>2. Taken \subseteq Taken'
        BY <1>1, <1>3, <1>4, <2>1, AdvanceKeeps DEF Taken, Elect, Advance
    <2>3. Located'
        BY <1>3, <1>4, <1>6, <2>1, <2>2, AdvanceKeeps, LocatedKept
    <2>4. QED
        BY <1>4, <2>1, <2>3, AdvanceKeeps
<1>7. QED
    BY Zenon, <1>1, <1>5, <1>6 DEF Elect

-----------------------------------------------------------------------------
(* Steps that leave the futures alone, but for their tokens *)

(* The map may lose entries; nothing else of the shutdown's state changes. *)
LEMMA QuietKeeps ==
    ASSUME ShutdownInv,
           UNCHANGED <<scenario, spawned, chan, recorded, open, loop, late, drained, joined>>,
           now' \in Nat, active' \in [Tasks -> EntryType \cup {Unset}],
           \A t \in Tasks : active'[t] # Unset =>
               active[t] # Unset /\ active'[t].handle = active[t].handle,
           exec' \in [Execs -> Futures],
           \A e \in Execs : /\ exec'[e].pc = exec[e].pc
                           /\ exec'[e].kind = exec[e].kind
                           /\ exec'[e].batch = exec[e].batch
                           /\ exec'[e].aborted = exec[e].aborted
    PROVE  ShutdownInv'
<1> USE DEF ShutdownInv
<1>1. Types'
    BY DEF Types
<1>2. Entries'
    BY DEF Entries
<1>3. Taken' = Taken
    BY DEF Taken
<1>4. Located'
    BY <1>3 DEF Located
<1>5. Holders' /\ LoopHolds'
    BY DEF Holders, Proper, LoopHolds
<1>6. Phases'
    BY DEF Phases, Serving, Draining, Types, RunLoop
<1>7. Left' = Left
    BY DEF Left, Types
<1>8. Stragglers'
    BY <1>7 DEF Stragglers, Serving, Draining
<1>9. QED
    BY <1>1, <1>2, <1>4, <1>5, <1>6, <1>8

(* A report changes the entry of its row id, not its handle. *)
LEMMA ReportKeeps ==
    ASSUME ShutdownInv, NEW e \in Execs, Report(e)
    PROVE  ShutdownInv'
<1>1. now \in Nat /\ active \in [Tasks -> EntryType \cup {Unset}]
    BY DEF ShutdownInv, Types
<1>2. PICK completed \in 0 .. 3, total \in {0, 2} :
          update_progress(exec[e].task, Percent(completed, total))
    BY DEF Report
<1>3. Percent(completed, total) \in Int
    BY DEF Percent, Lesser
<1>4. CASE active' = active
    BY <1>1, <1>4, QuietKeeps DEF Report, ShutdownInv, Types
<1>5. CASE active' # active
    <2> DEFINE t == exec[e].task
               p == Percent(completed, total)
               n == [active[t] EXCEPT !.reported = p, !.reported_at = now]
    <2>1. t \in Tasks /\ active[t] \in EntryType
        BY <1>1, <1>2, <1>5 DEF update_progress
    <2>2. n \in EntryType /\ n.handle = active[t].handle
        BY Zenon, <1>1, <1>3, <2>1 DEF EntryType
    <2>3. active' = [active EXCEPT ![t] = n]
        BY Zenon, <1>1, <1>2, <1>5 DEF update_progress
    <2> HIDE DEF n
    <2>4. active' \in [Tasks -> EntryType \cup {Unset}]
        BY <1>1, <2>1, <2>2, <2>3
    <2>5. \A u \in Tasks : active'[u] # Unset =>
              active[u] # Unset /\ active'[u].handle = active[u].handle
        <3>1. active[t] # Unset
            BY <1>2, <1>5 DEF update_progress
        <3>2. QED
            BY <1>1, <2>1, <2>2, <2>3, <3>1
    <2>6. QED
        BY <2>4, <2>5, QuietKeeps DEF Report, ShutdownInv, Types
<1>6. QED
    BY <1>4, <1>5

(* A preempting caller cancels a token. *)
LEMMA CancelNextKeeps ==
    ASSUME ShutdownInv, NEW e \in Execs, CancelNext(e)
    PROVE  ShutdownInv'
<1>1. exec \in [Execs -> Futures]
    BY DEF ShutdownInv, Types
<1>2. ASSUME NEW f \in Execs
      PROVE  LET r == [exec[f] EXCEPT !.token = TRUE]
             IN  /\ r \in Futures /\ r.pc = exec[f].pc /\ r.kind = exec[f].kind
                 /\ r.batch = exec[f].batch /\ r.aborted = exec[f].aborted
    <2>1. exec[f] \in Futures
        BY <1>1
    <2>2. QED
        BY Zenon, <2>1 DEF Futures
<1>3. /\ exec' \in [Execs -> Futures]
      /\ \A f \in Execs : /\ exec'[f].pc = exec[f].pc
                          /\ exec'[f].kind = exec[f].kind
                          /\ exec'[f].batch = exec[f].batch
                          /\ exec'[f].aborted = exec[f].aborted
    BY <1>1, <1>2 DEF CancelNext, Told
<1>4. QED
    BY <1>3, QuietKeeps DEF CancelNext, ShutdownInv, Types

(* Steps that change neither the futures nor the run loop. *)
LEMMA OthersKeep ==
    ASSUME ShutdownInv,
           \/ TickerRead \/ TickerPublish \/ PreemptBelow \/ PauseNext \/ Stop
           \/ (\E e \in Execs : CountBytes(e)) \/ (\E t \in Tasks : LoopResume(t))
           \/ UNCHANGED vars
    PROVE  ShutdownInv'
<1>1. /\ UNCHANGED <<scenario, exec, spawned, chan, recorded, open, loop, late, drained, joined>>
      /\ now' \in {now, now + 1}
      /\ active' = active \/ active' = [t \in Tasks |-> Unset]
    BY Zenon
       DEF TickerRead, TickerPublish, PreemptBelow, PauseNext, Stop, CountBytes, LoopResume, vars
<1>2. QED
    BY <1>1, QuietKeeps DEF ShutdownInv, Types

-----------------------------------------------------------------------------
(* Steps of the run loop *)

(* A new future and its entry, whose handle is still to be set. *)
LEMMA LoopSpawnKeeps ==
    ASSUME ShutdownInv, NEW t \in Tasks, LoopSpawn(t)
    PROVE  ShutdownInv'
<1> DEFINE e == spawned + 1
           r == [NoExec EXCEPT !.task = t, !.pc = "run"]
           l == [loop EXCEPT !.pc = "spawned", !.task = t]
<1> USE DEF ShutdownInv
<1>1. e \in Execs /\ e > spawned /\ spawned' = e
    BY ActiveAssumption DEF LoopSpawn, Execs, Types
<1>2. /\ r \in Futures /\ r.pc = "run" /\ r.kind = Unset /\ r.batch = {}
      /\ r.aborted = FALSE
    BY Zenon DEF NoExec, Futures
<1>3. /\ l \in RunLoop /\ l.pc = "spawned" /\ l.task = t /\ l.batch = loop.batch
      /\ l.then = loop.then /\ l.kind = loop.kind /\ loop.pc = "poll"
    BY Zenon DEF RunLoop, Types, LoopSpawn
<1>4. Entry(e) \in EntryType
    BY <1>1 DEF Entry, EntryType, Types
<1>5. /\ exec' = [exec EXCEPT ![e] = r] /\ loop' = l
      /\ active' = [active EXCEPT ![t] = Entry(e)]
      /\ UNCHANGED <<scenario, now, chan, recorded, open, late, drained, joined>>
    BY DEF LoopSpawn
<1>6. exec[e].pc = "none" /\ exec[e].kind = Unset /\ exec[e].batch = {}
    BY <1>1 DEF Holders, Proper
<1> HIDE DEF e, r, l
<1>7. Types'
    BY <1>1, <1>2, <1>3, <1>4, <1>5 DEF Types, Execs
<1>8. Entries'
    BY <1>3, <1>5 DEF Entries, Types
<1>9. exec'[e] = r /\ \A f \in Execs : f # e => exec'[f] = exec[f]
    BY <1>1, <1>5 DEF Types
<1>10. Taken \subseteq Taken'
    BY <1>1, <1>3, <1>5, <1>6, <1>9 DEF Taken
<1>11. Located'
    BY <1>1, <1>2, <1>5, <1>6, <1>9, <1>10, LocatedKept
<1>12. Holders'
    <2> SUFFICES ASSUME NEW f \in Execs
                 PROVE  Proper(exec[f])' /\ (f > spawned' => exec'[f].pc = "none")
        BY DEF Holders
    <2>1. CASE f = e
        BY <1>1, <1>2, <1>9, <2>1 DEF Proper, Execs
    <2>2. CASE f # e
        <3>1. f > spawned' => f > spawned
            BY <1>1 DEF Execs, Types
        <3>2. QED
            BY <1>5, <1>9, <2>2, <3>1 DEF Proper, Holders
    <2>3. QED
        BY <2>1, <2>2
<1>13. LoopHolds'
    BY SMTT(60), <1>3, <1>5 DEF LoopHolds
<1>14. Phases'
    BY <1>2, <1>3, <1>5, <1>9 DEF Phases, Serving, Draining
<1>15. Stragglers'
    BY <1>3, <1>5 DEF Stragglers, Serving, Draining
<1>16. QED
    BY <1>7, <1>8, <1>11, <1>12, <1>13, <1>14, <1>15

(* The handle is set before the run loop polls again. *)
LEMMA LoopSetHandleKeeps ==
    ASSUME ShutdownInv, LoopSetHandle
    PROVE  ShutdownInv'
<1> DEFINE t == loop.task
           n == [active[t] EXCEPT !.handle = TRUE]
           l == [loop EXCEPT !.pc = "poll", !.task = Unset]
<1> USE DEF ShutdownInv
<1>1. /\ l \in RunLoop /\ l.pc = "poll" /\ l.batch = loop.batch
      /\ l.then = loop.then /\ l.kind = loop.kind /\ loop.pc = "spawned"
    BY Zenon DEF RunLoop, Types, LoopSetHandle
<1>2. ASSUME t \in Tasks, active[t] # Unset PROVE n \in EntryType /\ n.handle
    BY Zenon, <1>2 DEF EntryType, Types
<1>3. /\ loop' = l
      /\ active' = IF active[t] = Unset THEN active ELSE [active EXCEPT ![t] = n]
      /\ UNCHANGED <<scenario, now, exec, spawned, chan, recorded, open, late, drained, joined>>
    BY DEF LoopSetHandle, Types
<1> HIDE DEF n, l
<1>4. active' \in [Tasks -> EntryType \cup {Unset}]
    BY ZenonT(60), <1>2, <1>3 DEF Types
<1>5. Types'
    BY <1>1, <1>3, <1>4 DEF Types
<1>6. Entries'
    BY <1>2, <1>3 DEF Entries, Types
<1>7. Taken' = Taken
    BY <1>1, <1>3 DEF Taken
<1>8. Located' /\ Holders' /\ LoopHolds'
    BY <1>1, <1>3, <1>7 DEF Located, Holders, Proper, LoopHolds
<1>9. Phases'
    BY SMTT(60), <1>1, <1>3 DEF Phases, Serving, Draining
<1>10. Stragglers'
    BY <1>1, <1>3 DEF Stragglers, Serving, Draining
<1>11. QED
    BY <1>5, <1>6, <1>8, <1>9, <1>10

(* The run loop takes what is queued in one channel. *)
LEMMA LoopDrainKeeps ==
    ASSUME ShutdownInv, NEW kind \in Kinds, LoopDrain(kind)
    PROVE  ShutdownInv'
<1> USE DEF ShutdownInv
<1>1. loop \in RunLoop
    BY DEF Types
<1>2. Types'
    BY ZenonT(60), <1>1 DEF Types, LoopDrain, AfterDrain, RunLoop, Kinds
<1>3. Entries'
    BY <1>1 DEF Entries, LoopDrain, AfterDrain, RunLoop
<1>4. Taken \subseteq Taken' /\ chan[kind] \subseteq Taken'
    BY <1>1 DEF Types, Taken, LoopHolds, LoopDrain, AfterDrain, RunLoop
<1>5. Located'
    BY <1>4, LocatedKept DEF Types, Located, LoopDrain, AfterDrain
<1>6. Holders' /\ LoopHolds'
    BY <1>1 DEF Holders, LoopHolds, Proper, LoopDrain, AfterDrain, RunLoop
<1>7. Phases'
    BY <1>1, <1>2
       DEF Types, Phases, LoopHolds, Serving, Draining, LoopDrain, AfterDrain, RunLoop, Kinds
<1>8. Left' = Left
    BY DEF Left, LoopDrain, AfterDrain
<1>9. Stragglers'
    BY <1>1, <1>8 DEF Phases, Stragglers, Serving, Draining, LoopDrain, AfterDrain, RunLoop
<1>10. QED
    BY <1>2, <1>3, <1>5, <1>6, <1>7, <1>9

(* It writes what it took: the store is open until close(). *)
LEMMA LoopWriteKeeps ==
    ASSUME ShutdownInv, LoopWrite
    PROVE  ShutdownInv'
<1> USE DEF ShutdownInv
<1>1. loop \in RunLoop
    BY DEF Types
<1>2. Types'
    BY Zenon, <1>1 DEF Types, LoopWrite, WriteBatch, RunLoop, Kinds
<1>3. Entries'
    BY <1>1 DEF Entries, LoopWrite, WriteBatch, RunLoop
<1>4. Taken \subseteq Taken' 
    BY <1>1 DEF Types, Taken, LoopHolds, LoopWrite, WriteBatch, RunLoop
<1>5. Located'
    BY <1>4, LocatedKept DEF Types, Located, LoopWrite, WriteBatch
<1>6. Holders' /\ LoopHolds'
    BY <1>1 DEF Holders, LoopHolds, Proper, LoopWrite, WriteBatch, RunLoop
<1>7. Phases'
    BY <1>1, <1>2
       DEF Types, Phases, LoopHolds, Serving, Draining, LoopWrite, WriteBatch, RunLoop, Kinds
<1>8. Left' = Left
    BY DEF Left, LoopWrite, WriteBatch
<1>9. Stragglers'
    BY <1>1, <1>8 DEF Phases, Stragglers, Serving, Draining, LoopWrite, WriteBatch, RunLoop
<1>10. QED
    BY <1>2, <1>3, <1>5, <1>6, <1>7, <1>9

(* The awaited handle is dropped: its future is the straggler. *)
LEMMA JoinTimeoutKeeps ==
    ASSUME ShutdownInv, JoinTimeout
    PROVE  ShutdownInv'
<1> USE DEF ShutdownInv
<1>1. loop \in RunLoop
    BY DEF Types
<1>2. Types'
    BY Zenon, <1>1 DEF Types, JoinTimeout, RunLoop, Kinds
<1>3. Entries'
    BY <1>1 DEF Entries, JoinTimeout, RunLoop
<1>4. Taken \subseteq Taken' 
    BY <1>1 DEF Types, Taken, LoopHolds, JoinTimeout, RunLoop
<1>5. Located'
    BY <1>4, LocatedKept DEF Types, Located, JoinTimeout
<1>6. Holders' /\ LoopHolds'
    BY <1>1 DEF Holders, LoopHolds, Proper, JoinTimeout, RunLoop
<1>7. Phases'
    BY <1>1, <1>2 DEF Types, Phases, LoopHolds, Serving, Draining, JoinTimeout, RunLoop, Kinds
<1>8. Left' = Left
    BY DEF Left, JoinTimeout
<1>9. Stragglers'
    BY <1>1, <1>8 DEF Phases, Stragglers, Serving, Draining, JoinTimeout, RunLoop
<1>10. QED
    BY <1>2, <1>3, <1>5, <1>6, <1>7, <1>9

(* The deadline passes; from now on handles are aborted. *)
LEMMA DeadlineKeeps ==
    ASSUME ShutdownInv, Deadline
    PROVE  ShutdownInv'
<1> USE DEF ShutdownInv
<1>1. loop \in RunLoop
    BY DEF Types
<1>2. Types'
    BY <1>1 DEF Types, Deadline, RunLoop, Kinds
<1>3. Entries'
    BY <1>1 DEF Entries, Deadline, RunLoop
<1>4. Taken \subseteq Taken' 
    BY <1>1 DEF Types, Taken, LoopHolds, Deadline, RunLoop
<1>5. Located'
    BY <1>4, LocatedKept DEF Types, Located, Deadline
<1>6. Holders' /\ LoopHolds'
    BY SMTT(60), <1>1 DEF Holders, LoopHolds, Proper, Deadline, RunLoop
<1>7. Phases'
    BY <1>1, <1>2 DEF Types, Phases, LoopHolds, Serving, Draining, Deadline, RunLoop, Kinds
<1>8. Left' = Left
    BY DEF Left, Deadline
<1>9. Stragglers'
    BY <1>1, <1>8 DEF Phases, Stragglers, Serving, Draining, Deadline, RunLoop
<1>10. QED
    BY <1>2, <1>3, <1>5, <1>6, <1>7, <1>9

(* The store is closed after the last write. *)
LEMMA CloseKeeps ==
    ASSUME ShutdownInv, Close
    PROVE  ShutdownInv'
<1> USE DEF ShutdownInv
<1>1. loop \in RunLoop
    BY DEF Types
<1>2. Types'
    BY Zenon, <1>1 DEF Types, Close, RunLoop, Kinds
<1>3. Entries'
    BY <1>1 DEF Entries, Close, RunLoop
<1>4. Taken \subseteq Taken' 
    BY <1>1 DEF Types, Taken, LoopHolds, Close, RunLoop
<1>5. Located'
    BY <1>4, LocatedKept DEF Types, Located, Close
<1>6. Holders' /\ LoopHolds'
    BY <1>1 DEF Holders, LoopHolds, Proper, Close, RunLoop
<1>7. Phases'
    BY <1>1, <1>2 DEF Types, Phases, LoopHolds, Serving, Draining, Close, RunLoop, Kinds
<1>8. Left' = Left
    BY DEF Left, Close
<1>9. Stragglers'
    BY <1>1, <1>8 DEF Phases, Stragglers, Serving, Draining, Close, RunLoop
<1>10. QED
    BY <1>2, <1>3, <1>5, <1>6, <1>7, <1>9

(* The awaited future has ended, and being neither aborted nor a leader holds
   no results. *)
LEMMA JoinDoneKeeps ==
    ASSUME ShutdownInv, JoinDone
    PROVE  ShutdownInv'
<1> DEFINE l == [loop EXCEPT !.pc = "join", !.exec = Unset]
<1> USE DEF ShutdownInv
<1>1. /\ l \in RunLoop /\ l.pc = "join" /\ l.batch = loop.batch /\ l.kind = loop.kind
      /\ l.then = loop.then /\ l.handles = loop.handles /\ loop.pc = "wait"
    BY Zenon DEF RunLoop, Types, JoinDone
<1>2. /\ loop' = l /\ joined' = joined \cup {loop.exec}
      /\ UNCHANGED <<scenario, now, active, exec, spawned, chan, recorded, open, late, drained>>
    BY DEF JoinDone
<1>3. /\ loop.exec \in Execs /\ ~exec[loop.exec].aborted
      /\ exec[loop.exec].pc = "done" /\ open
    BY <1>1 DEF Phases, JoinDone, LoopHolds
<1>4. exec[loop.exec].batch = {}
    BY <1>3 DEF Holders, Proper
<1> HIDE DEF l
<1>5. Types'
    BY <1>1, <1>2, <1>3 DEF Types
<1>6. Entries' /\ Holders' /\ LoopHolds'
    BY <1>1, <1>2 DEF Entries, Holders, Proper, LoopHolds
<1>7. Taken' = Taken
    BY <1>1, <1>2 DEF Taken
<1>8. Located'
    BY <1>2, <1>7 DEF Located
<1>9. Phases'
    BY SMTT(60), <1>1, <1>2, <1>3, <1>4 DEF Phases, Serving, Draining
<1>10. Left' \subseteq loop.handles /\ Left' = Left
    BY <1>1, <1>2, <1>3 DEF Left, Stragglers
<1>11. Stragglers'
    BY SMTT(60), <1>1, <1>2, <1>10 DEF Stragglers, Serving, Draining
<1>12. QED
    BY <1>5, <1>6, <1>8, <1>9, <1>11

(* The next handle is awaited, or aborted after the deadline. *)
LEMMA JoinNextKeeps ==
    ASSUME ShutdownInv, JoinNext
    PROVE  ShutdownInv'
<1> USE DEF ShutdownInv
<1>1. /\ loop \in RunLoop /\ loop.pc = "join"
      /\ UNCHANGED <<scenario, now, active, spawned, chan, recorded, open, late, drained, joined>>
    BY Zenon DEF Types, JoinNext
<1>2. CASE /\ loop.handles = {} /\ UNCHANGED exec
           /\ loop' = [loop EXCEPT !.pc = "drain"]
    <2>1. Types' /\ Entries'
        BY <1>1, <1>2 DEF Types, Entries, RunLoop
    <2>2. Taken' = Taken /\ Left' = Left
        BY <1>1, <1>2 DEF Taken, Left, RunLoop
    <2>3. Located' /\ Holders' /\ LoopHolds'
        BY <1>1, <1>2, <2>2 DEF Located, Holders, Proper, LoopHolds, RunLoop
    <2>4. Phases'
        BY <1>1, <1>2 DEF Phases, Serving, Draining, RunLoop
    <2>5. Stragglers'
        BY <1>1, <1>2, <2>2 DEF Stragglers, Serving, Draining, RunLoop
    <2>6. QED
        BY <2>1, <2>3, <2>4, <2>5
<1>3. ASSUME NEW e \in loop.handles,
             loop' = [loop EXCEPT !.handles = @ \ {e},
                                  !.pc = IF late THEN "join" ELSE "wait",
                                  !.exec = IF late THEN Unset ELSE e],
             exec' = [exec EXCEPT ![e].aborted = late]
      PROVE  ShutdownInv'
    <2> DEFINE r == [exec[e] EXCEPT !.aborted = late]
    <2>1. e \in Execs /\ late \in BOOLEAN /\ exec[e] \in Futures
        BY <1>1 DEF Types, RunLoop
    <2>2. /\ r \in Futures /\ r.pc = exec[e].pc /\ r.kind = exec[e].kind
          /\ r.batch = exec[e].batch /\ r.aborted = late
        BY <2>1 DEF Futures
    <2>3. exec' = [exec EXCEPT ![e] = r]
        BY <1>3, <2>1 DEF Types
    <2> HIDE DEF r
    <2>4. /\ exec' \in [Execs -> Futures] /\ exec'[e] = r
          /\ \A f \in Execs : f # e => exec'[f] = exec[f]
        BY <2>1, <2>2, <2>3 DEF Types
    <2>5. /\ loop' \in RunLoop /\ loop'.handles = loop.handles \ {e}
          /\ loop'.pc = IF late THEN "join" ELSE "wait"
          /\ ~late => loop'.exec = e
          /\ loop'.batch = loop.batch /\ loop'.kind = loop.kind /\ loop'.then = loop.then
        BY ZenonT(60), <1>1, <1>3, <2>1 DEF RunLoop
    <2>6. ~late => \A f \in Execs : ~exec[f].aborted
        BY <1>1 DEF Phases
    <2>7. Types' /\ Entries'
        BY <1>1, <2>4, <2>5 DEF Types, Entries
    <2>8. Taken' = Taken
        BY <1>1, <2>2, <2>4, <2>5 DEF Taken
    <2>9. Located'
        BY <1>1, <2>2, <2>4, <2>8 DEF Located
    <2>10. Holders'
        BY SMTT(60), <1>1, <2>2, <2>4, <2>6 DEF Holders, Proper
    <2>11. LoopHolds'
        BY <1>1, <2>5 DEF LoopHolds
    <2>12. Phases'
        <3>1. \A f \in Execs : exec'[f].pc = exec[f].pc /\ exec'[f].batch = exec[f].batch
            BY <2>2, <2>4
        <3>2. ~late => \A f \in Execs : ~exec'[f].aborted
            BY <2>2, <2>4, <2>6
        <3>3. ~Serving' /\ ~Draining' /\ loop'.pc \in {"join", "wait"}
            BY <2>5 DEF Serving, Draining
        <3>4. loop'.pc = "wait" => loop'.exec \in Execs /\ ~exec'[loop'.exec].aborted
            <4>1. CASE late
                BY <2>5, <4>1
            <4>2. CASE ~late
                BY <2>1, <2>5, <3>2, <4>2
            <4>3. QED
                BY <4>1, <4>2
        <3>5. \A f \in joined' : exec'[f].pc = "done" /\ exec'[f].batch = {}
            <4>1. joined' = joined /\ joined \subseteq Execs
                BY <1>1 DEF Types
            <4>2. \A f \in joined : exec[f].pc = "done" /\ exec[f].batch = {}
                BY DEF Phases
            <4>3. QED
                BY <3>1, <4>1, <4>2
        <3>6. loop'.kind = "ok" /\ late' = late
            BY <1>1, <2>5 DEF Phases
        <3>7. QED
            BY <3>2, <3>3, <3>4, <3>5, <3>6 DEF Phases
    <2>13. Left' \subseteq Left /\ (late => e \notin Left')
        BY <1>1, <2>1, <2>2, <2>4, <2>6 DEF Left, Types
    <2>14. Stragglers'
        BY <1>1, <2>1, <2>5, <2>13 DEF Stragglers, Serving, Draining
    <2>15. QED
        BY <2>7, <2>9, <2>10, <2>11, <2>12, <2>14
<1>4. QED
    BY ZenonT(60), <1>2, <1>3 DEF JoinNext

(* Every entry has its handle, so a hard shutdown aborts them all and a graceful
   one has them all to join. *)
LEMMA ShutdownKeeps ==
    ASSUME ShutdownInv, Shutdown
    PROVE  ShutdownInv'
<1> DEFINE handles == {active[t].exec : t \in {u \in Tasks :
                          IF active[u] = Unset THEN FALSE ELSE active[u].handle}}
           hard == scenario.mode = "hard"
           r(e) == [exec[e] EXCEPT !.token = @ \/ e \in Running,
                                   !.aborted = hard /\ e \in handles]
           l == [loop EXCEPT !.pc = IF hard THEN "drain" ELSE "join", !.kind = "ok",
                             !.handles = IF hard THEN {} ELSE handles]
<1> USE DEF ShutdownInv
<1>1. handles = Running /\ Running \subseteq Execs
    BY ZenonT(60) DEF Shutdown, Running, Entries, Types, EntryType
<1>2. /\ l \in RunLoop /\ l.pc = (IF hard THEN "drain" ELSE "join") /\ l.kind = "ok"
      /\ l.handles = (IF hard THEN {} ELSE handles) /\ l.batch = loop.batch
      /\ l.then = loop.then /\ loop.pc = "poll"
    BY ZenonT(60), <1>1 DEF RunLoop, Types, Shutdown, Kinds
<1>3. ASSUME NEW e \in Execs
      PROVE  /\ r(e) \in Futures /\ r(e).pc = exec[e].pc /\ r(e).kind = exec[e].kind
             /\ r(e).batch = exec[e].batch /\ r(e).aborted = (hard /\ e \in Running)
    <2>1. exec[e] \in Futures
        BY SMTT(60) DEF Types
    <2>2. QED
        BY Zenon, <1>1, <2>1 DEF Futures
<1>4. /\ exec' = [e \in Execs |-> r(e)] /\ loop' = l
      /\ active' = [t \in Tasks |-> Unset] /\ drained' = Running
      /\ UNCHANGED <<scenario, now, spawned, chan, recorded, open, late, joined>>
    BY ZenonT(60) DEF Shutdown
<1> HIDE DEF r, l
<1>5. /\ exec' \in [Execs -> Futures]
      /\ \A e \in Execs : /\ exec'[e].pc = exec[e].pc /\ exec'[e].kind = exec[e].kind
                          /\ exec'[e].batch = exec[e].batch
                          /\ exec'[e].aborted = (hard /\ e \in Running)
    BY SMTT(60), <1>3, <1>4
<1> HIDE DEF handles, hard
<1>6. Types' /\ Entries'
    BY SMTT(60), <1>1, <1>2, <1>4, <1>5 DEF Types, Entries
<1>7. Taken' = Taken
    BY <1>2, <1>4, <1>5 DEF Taken
<1>8. Located'
    BY <1>4, <1>5, <1>7 DEF Located
<1>9. joined = {} /\ ~late /\ \A e \in Execs : ~exec[e].aborted
    BY SMTT(60), <1>2 DEF Phases, Serving
<1>10. Holders'
    BY <1>4, <1>5, <1>9 DEF Holders, Proper
<1>11. LoopHolds'
    BY SMTT(60), <1>2, <1>4 DEF LoopHolds
<1>12. Phases'
    BY Zenon, <1>2, <1>4, <1>5, <1>9 DEF Phases, Serving, Draining
<1>13. Left' \subseteq Running /\ (hard => Left' = {})
    BY Zenon, <1>1, <1>4, <1>5 DEF Left
<1>14. Stragglers'
    BY <1>1, <1>2, <1>4, <1>9, <1>13 DEF Stragglers, Serving, Draining, hard
<1>15. QED
    BY SMTT(60), <1>6, <1>8, <1>10, <1>11, <1>12, <1>14

-----------------------------------------------------------------------------

(* What holds throughout, in the regular operation and in the shutdown. *)
THEOREM ShutdownInvariant == Spec => []ShutdownInv
<1>1. Init => ShutdownInv
    BY InitInv
<1>2. ShutdownInv /\ [Next]_vars => ShutdownInv'
    <2> SUFFICES ASSUME ShutdownInv, [Next]_vars PROVE ShutdownInv'
        OBVIOUS
    <2>1. CASE LoopStep
        BY SMTT(60), <2>1, LoopSpawnKeeps, LoopSetHandleKeeps, LoopDrainKeeps, LoopWriteKeeps,
           ShutdownKeeps, JoinNextKeeps, JoinDoneKeeps, JoinTimeoutKeeps, CloseKeeps,
           OthersKeep DEF LoopStep
    <2>2. ASSUME NEW e \in Execs, Future(e) PROVE ShutdownInv'
        BY <2>2, ReturnOkKeeps, ReturnCancelledKeeps, InlineRetryKeeps, ReturnFailKeeps,
           ElectKeeps, LeadKeeps, EndKeeps, AbortKeeps DEF Future
    <2>3. QED
        BY <2>1, <2>2, ReportKeeps, ReportBytesKeeps, CancelNextKeeps, DeadlineKeeps,
           OthersKeep DEF Next
<1>3. QED
    BY <1>1, <1>2, PTL DEF Spec

(* No result of an execution that the shutdown joined is lost, but to a future
   that it did not join: the joins come before the last look at the channels,
   and that before close(). *)
THEOREM JoinedWritten == Spec => []JoinedIsWritten
<1>1. ShutdownInv => JoinedIsWritten
    <2> SUFFICES ASSUME ShutdownInv, loop.pc = "returned",
                        NEW e \in joined, exec[e].kind # Unset
                 PROVE  e \in recorded \/ \E f \in Execs \ joined : e \in exec[f].batch
        BY DEF JoinedIsWritten
    <2>1. e \in Execs /\ exec[e].kind \in Kinds
        BY SMTT(60) DEF ShutdownInv, Types, Futures
    <2>2. joined \cap chan["ok"] = {} /\ joined \cap chan["fail"] = {} /\ loop.batch = {}
        BY SMTT(60) DEF ShutdownInv, Phases, LoopHolds, Draining, Serving
    <2>3. e \in Taken
        BY <2>1, <2>2 DEF ShutdownInv, Located, Kinds
    <2>4. \A f \in joined : exec[f].batch = {}
        BY DEF ShutdownInv, Phases
    <2>5. QED
        BY <2>2, <2>3, <2>4 DEF Taken
<1>2. QED
    BY <1>1, ShutdownInvariant, PTL

(* A hard shutdown leaves no execution of the map that is neither over nor
   aborted, a graceful one at most one. *)
THEOREM StragglerBound == Spec => []OneStraggler
<1>1. ShutdownInv => OneStraggler
    <2> SUFFICES ASSUME ShutdownInv, loop.pc = "returned"
                 PROVE  Cardinality(Left) <= IF scenario.mode = "hard" THEN 0 ELSE 1
        BY DEF OneStraggler, Left
    <2>1. Draining /\ ~Serving
        BY DEF Draining, Serving
    <2>2. CASE scenario.mode = "hard"
        BY <2>1, <2>2, FS_EmptySet DEF ShutdownInv, Stragglers
    <2>3. CASE scenario.mode # "hard"
        <3>1. PICK s \in Execs \cup {Unset} : Left \subseteq {s}
            BY <2>1 DEF ShutdownInv, Stragglers
        <3>2. Left = {} \/ Left = {s}
            BY <3>1
        <3>3. Cardinality(Left) \in {0, 1}
            BY SMTT(60), <3>2, FS_EmptySet, FS_Singleton
        <3>4. QED
            BY <2>3, <3>3
    <2>4. QED
        BY <2>2, <2>3
<1>2. QED
    BY <1>1, ShutdownInvariant, PTL

=============================================================================
