------------------------ MODULE ScanExecutionSafety -------------------------
(***************************************************************************)
(* Proofs of the safety of ScanExecution, under SingleTrigger: no scan is  *)
(* executed by two workers, committed rows are consistent, and they move   *)
(* as ScanLifecycle allows.                                                *)
(***************************************************************************)
EXTENDS ScanExecutionProofs

Executing(w) ==
  pc[w] \in {"claimed", "running", "inStage", "hung", "failing", "finalizing"}

\* What the pipeline of a scan has in memory when it stands at stage k.
PipelineAt(where, s, k, final, marks, message) ==
  /\ where = "running" =>
       /\ 1 .. (k - 1) \subseteq RowsOf[s]
       /\ marks = Lifecycle!PassedUpTo(s, k)
       /\ message = NoError
  /\ where = "inStage" =>
       /\ k \in Registered \cap RowsOf[s]
       /\ 1 .. (k - 1) \subseteq RowsOf[s]
       /\ marks = [Lifecycle!PassedUpTo(s, k) EXCEPT ![k] = Running]
       /\ message = NoError
  /\ where = "failing" =>
       /\ k \in StageIndex
       /\ \/ Lifecycle!FailedAt(s, k, marks, message)
          \/ Lifecycle!RowMissing(s, k, marks, message)
  /\ where = "finalizing" =>
       \/ /\ final = "COMPLETED"
          /\ k = StageCount + 1
          /\ Lifecycle!Success(s, marks, message)
       \/ /\ final = "FAILED"
          /\ k \in StageIndex
          /\ \/ Lifecycle!FailedAt(s, k, marks, message)
             \/ Lifecycle!RowMissing(s, k, marks, message)

\* A claim is protected by the row lock until it is committed, and by the
\* committed status from then on.
WorkerInv(w) ==
  /\ scan[w] # NoScan <=> Busy(w)
  /\ pc[w] = "claiming" =>
       /\ scanLock[scan[w]] = w
       /\ status[scan[w]] = "QUEUED"
       /\ mstatus[w] = "PROCESSING"
  /\ Executing(w) => status[scan[w]] = "PROCESSING"
  /\ pc[w] \in {"running", "inStage", "failing"} => mstatus[w] = "PROCESSING"
  /\ pc[w] \in {"idle", "stopped", "claiming", "claimed"} =>
       next[w] = 1 /\ merror[w] = NoError
  /\ PipelineAt(pc[w], scan[w], next[w], mstatus[w], mstages[w], merror[w])

Open == {"CREATED", "VALIDATING"}

\* What a caller has read of an open scan stays true, for it is the only caller
\* of that scan; what it has flushed is protected by the row lock.
CallerInv(t) ==
  /\ tpc[t] # "idle" => request[t].scan \in MayTrigger[t] \cap Scans
  /\ tpc[t] = "loaded" /\ request[t].status \in Open =>
       status[request[t].scan] = request[t].status
  /\ tpc[t] = "dirty" =>
       /\ scanLock[request[t].scan] = t
       /\ status[request[t].scan] \in Open
       /\ request[t].status \in {"VALIDATING", "QUEUED", "FAILED"}
       /\ request[t].status = "FAILED" => request[t].error \in {NoError, RejectedError}

SafetyInv ==
  /\ TypeInv
  /\ \A w \in Workers : WorkerInv(w)
  /\ \A t \in Triggers : CallerInv(t)
  /\ AtMostOneExecutor
  /\ OutcomeIsConsistent

-----------------------------------------------------------------------------
(* What a step leaves alone.                                               *)

\* A worker does not notice a step that leaves its variables, the status of its
\* scan and its claim's lock alone.
LEMMA WorkerFrame ==
  ASSUME NEW v \in Workers, WorkerInv(v),
         pc'[v] = pc[v], scan'[v] = scan[v], next'[v] = next[v],
         mstatus'[v] = mstatus[v], mstages'[v] = mstages[v], merror'[v] = merror[v],
         Busy(v) => status'[scan[v]] = status[scan[v]],
         pc[v] = "claiming" => scanLock'[scan[v]] = scanLock[scan[v]]
  PROVE  WorkerInv(v)'
BY DEF WorkerInv, Busy, Executing

\* Nor does a caller one that leaves its request, its lock and the status of its
\* scan, while that is open, alone.
LEMMA CallerFrame ==
  ASSUME NEW t \in Triggers, CallerInv(t),
         tpc'[t] = tpc[t], request'[t] = request[t],
         tpc[t] # "idle" /\ status[request[t].scan] \in Open =>
           status'[request[t].scan] = status[request[t].scan],
         tpc[t] = "dirty" => scanLock'[request[t].scan] = scanLock[request[t].scan]
  PROVE  CallerInv(t)'
<1>1. tpc[t] = "loaded" /\ request[t].status \in Open =>
        status'[request[t].scan] = request[t].status
  BY DEF CallerInv
<1>2. tpc[t] = "dirty" => /\ scanLock'[request[t].scan] = t
                          /\ status'[request[t].scan] \in Open
  BY DEF CallerInv
<1> QED BY <1>1, <1>2 DEF CallerInv

\* The outcome of a scan whose committed rows a step leaves alone.
LEMMA OutcomeFrame ==
  ASSUME NEW s \in Scans, Outcome(s),
         status'[s] = status[s], stages'[s] = stages[s], error'[s] = error[s]
  PROVE  Outcome(s)'
BY DEF Outcome

\* Ending a transaction releases no lock of another session.
LEMMA ReleasedKeeps ==
  ASSUME NEW lock, NEW x, NEW s \in Scans, lock[s] # x
  PROVE  Released(lock, x)[s] = lock[s]
BY DEF Released

\* Two workers with scans have different ones, so they have different statuses
\* to look at and different locks to hold.
LEMMA OthersApart ==
  ASSUME SafetyInv, NEW v \in Workers, NEW w \in Workers, v # w, Busy(v)
  PROVE  scan[v] \in Scans /\ scan[v] # scan[w]
BY DEF SafetyInv, TypeInv, ControlOK, AtMostOneExecutor, WorkerInv

-----------------------------------------------------------------------------
(* Steps of callers.                                                       *)

LEMMA CallerSafety ==
  ASSUME SingleTrigger, SafetyInv, NEW t \in Triggers, CallerStep(t)
  PROVE  SafetyInv'
<1>0. /\ TypeInv /\ TypeOK /\ \A w \in Workers : WorkerInv(w)
      /\ \A u \in Triggers : CallerInv(u)
      /\ AtMostOneExecutor /\ OutcomeIsConsistent
  BY DEF SafetyInv, TypeInv
<1>1. UNCHANGED <<pc, scan, next, mstatus, mstages, merror, stages>>
  BY DEF CallerStep, LoadForTrigger, TriggerStep, TriggerTransition, TriggerCommit,
         TriggerAbort, memory, rows
<1>2. \A u \in Triggers \ {t} : tpc'[u] = tpc[u] /\ request'[u] = request[u]
  BY <1>0 DEF TypeOK, CallerStep, LoadForTrigger, TriggerStep, TriggerTransition,
              TriggerCommit, TriggerAbort
<1>3. \A s \in Scans :
        status'[s] # status[s] => /\ s = request[t].scan
                                  /\ tpc[t] = "dirty"
                                  /\ status[s] \in Open
  BY <1>0 DEF TypeOK, CallerInv, CallerStep, LoadForTrigger, TriggerStep,
              TriggerTransition, TriggerCommit, TriggerAbort, rows
<1>4. \A s \in Scans : scanLock[s] \notin {Free, t} => scanLock'[s] = scanLock[s]
  BY <1>0 DEF TypeOK, Released, Unlock, Lockable, CallerStep, LoadForTrigger,
              TriggerStep, TriggerTransition, TriggerCommit, TriggerAbort, locks
<1>5. TypeInv'
  BY <1>0, CallerType
<1>6. AtMostOneExecutor'
  BY <1>0, <1>1 DEF AtMostOneExecutor
<1>7. ASSUME NEW w \in Workers PROVE WorkerInv(w)'
  <2>1. Busy(w) => scan[w] \in Scans /\ status[scan[w]] \in {"QUEUED", "PROCESSING"}
    BY <1>0 DEF TypeInv, ControlOK, WorkerInv, Busy, Executing, TypeOK, WorkerPC
  <2>2. Busy(w) => status'[scan[w]] = status[scan[w]]
    BY <1>3, <2>1 DEF Open
  <2>3. pc[w] = "claiming" => scanLock'[scan[w]] = scanLock[scan[w]]
    BY <1>0, <1>4, <2>1, ConstantsAssumption DEF WorkerInv, Busy
  <2> QED BY <1>0, <1>1, <2>2, <2>3, WorkerFrame
<1>8. ASSUME NEW u \in Triggers \ {t} PROVE CallerInv(u)'
  <2>1. tpc[u] # "idle" => /\ request[u].scan \in MayTrigger[u] \cap Scans
                           /\ request[u].scan \notin MayTrigger[t]
    BY <1>0 DEF CallerInv, SingleTrigger
  <2>2. tpc[u] # "idle" => status'[request[u].scan] = status[request[u].scan]
    BY <1>0, <1>3, <2>1 DEF CallerInv
  <2>3. tpc[u] = "dirty" => scanLock'[request[u].scan] = scanLock[request[u].scan]
    BY <1>0, <1>4, <2>1, ConstantsAssumption DEF CallerInv
  <2> QED BY <1>0, <1>2, <2>2, <2>3, CallerFrame
<1>9. CallerInv(t)'
  <2>1. ASSUME NEW s \in Scans, LoadForTrigger(t, s) PROVE CallerInv(t)'
    BY <1>0, <2>1 DEF TypeOK, CallerInv, LoadForTrigger, rows
  <2>2. ASSUME NEW to \in {"VALIDATING", "QUEUED", "FAILED"},
               NEW m \in {NoError, RejectedError},
               request[t].status \in Open, TriggerTransition(t, to, m)
        PROVE  CallerInv(t)'
    <3>1. /\ request[t].scan \in MayTrigger[t] \cap Scans
          /\ status[request[t].scan] \in Open
      BY <1>0, <2>2 DEF CallerInv, TriggerTransition
    <3>2. /\ tpc'[t] = "dirty"
          /\ request'[t].scan = request[t].scan
          /\ request'[t].status = to
          /\ to = "FAILED" => request'[t].error = m
      BY <1>0, <2>2 DEF TypeOK, TriggerTransition
    <3>3. scanLock'[request[t].scan] = t /\ status' = status
      BY <1>0, <2>2, <3>1 DEF TypeOK, TriggerTransition, rows
    <3> QED BY <3>1, <3>2, <3>3 DEF CallerInv
  <2>3. CASE TriggerCommit(t) \/ TriggerAbort(t)
    BY <1>0, <2>3 DEF TypeOK, CallerInv, TriggerCommit, TriggerAbort
  <2> QED BY <2>1, <2>2, <2>3 DEF CallerStep, TriggerStep, Open
<1>10. ASSUME NEW s \in Scans PROVE Outcome(s)'
  <2>1. CASE TriggerCommit(t) /\ s = request[t].scan
    <3>1. /\ status[s] \in Open
          /\ request[t].status \in {"VALIDATING", "QUEUED", "FAILED"}
          /\ request[t].status = "FAILED" => request[t].error \in {NoError, RejectedError}
      BY <1>0, <2>1 DEF CallerInv, TriggerCommit
    <3>2. stages[s] = FreshStages(s) /\ error[s] = NoError
      BY <1>0, <3>1 DEF OutcomeIsConsistent, Outcome, Open, TerminalStatus
    <3>3. /\ status'[s] = request[t].status
          /\ error'[s] = IF request[t].status = "FAILED" THEN request[t].error ELSE error[s]
      BY <1>0, <2>1 DEF TypeOK, TriggerCommit
    <3> QED BY <1>1, <3>1, <3>2, <3>3 DEF Outcome, TerminalStatus
  <2>2. CASE ~(TriggerCommit(t) /\ s = request[t].scan)
    <3>1. status'[s] = status[s] /\ error'[s] = error[s]
      BY <1>0, <2>2 DEF TypeOK, CallerStep, LoadForTrigger, TriggerStep,
                        TriggerTransition, TriggerCommit, TriggerAbort, rows
    <3> QED BY <1>0, <1>1, <3>1, OutcomeFrame DEF OutcomeIsConsistent
  <2> QED BY <2>1, <2>2
<1> QED
  BY <1>5, <1>6, <1>7, <1>8, <1>9, <1>10 DEF SafetyInv, OutcomeIsConsistent

-----------------------------------------------------------------------------
(* The stage rows of a pipeline.                                           *)

\* The abstract specification and this one share their vocabulary.
LEMMA SameRows ==
  /\ Lifecycle!NoError = NoError
  /\ Lifecycle!StageErrorMessage = StageErrorMessage
  /\ Lifecycle!UnexpectedStage = UnexpectedStage
  /\ Lifecycle!UnexpectedPipeline = UnexpectedPipeline
  /\ Lifecycle!Pending = Pending /\ Lifecycle!NoRow = NoRow
  /\ Lifecycle!Completed = Completed /\ Lifecycle!Skipped = Skipped
  /\ \A m : Lifecycle!StageFailed(m) = StageFailed(m)
BY DEF Lifecycle!NoError, NoError, Lifecycle!StageErrorMessage, StageErrorMessage,
       Lifecycle!UnexpectedStage, UnexpectedStage,
       Lifecycle!UnexpectedPipeline, UnexpectedPipeline,
       Lifecycle!Pending, Pending, Lifecycle!NoRow, NoRow,
       Lifecycle!Completed, Completed, Lifecycle!Skipped, Skipped,
       Lifecycle!StageFailed, StageFailed

LEMMA SameIndices ==
  /\ Lifecycle!StageIndex = StageIndex
  /\ \A s \in Scans : Lifecycle!FreshStages(s) = FreshStages(s)
BY SameRows DEF Lifecycle!StageIndex, StageIndex, Lifecycle!FreshStages, FreshStages

\* Of two rows written for one stage, the second counts.
LEMMA WrittenTwice ==
  ASSUME NEW f, NEW i, NEW a, NEW b
  PROVE  [[f EXCEPT ![i] = a] EXCEPT ![i] = b] = [f EXCEPT ![i] = b]
OBVIOUS

\* Before the first stage nothing is passed.
LEMMA PassedNone ==
  ASSUME NEW s \in Scans
  PROVE  Lifecycle!PassedUpTo(s, 1) = FreshStages(s)
<1>1. \A i \in StageIndex : ~(i < 1)
  BY ConstantsAssumption DEF StageIndex
<1> QED BY <1>1, SameIndices DEF Lifecycle!PassedUpTo, FreshStages

\* The rows from the current stage on are as the scan was created.
LEMMA PassedRest ==
  ASSUME NEW s \in Scans, NEW k \in Nat, NEW i \in StageIndex, i >= k
  PROVE  /\ Lifecycle!PassedUpTo(s, k)[i] = FreshStages(s)[i]
         /\ Lifecycle!PassedUpTo(s, k)[i] # NoRow <=> i \in RowsOf[s]
<1>1. i \in Nat /\ ~(i < k)
  BY ConstantsAssumption DEF StageIndex
<1>2. Lifecycle!PassedUpTo(s, k)[i] = FreshStages(s)[i]
  BY <1>1, SameIndices DEF Lifecycle!PassedUpTo
<1> QED BY <1>2 DEF FreshStages, Pending, NoRow

\* To pass stage k is to write the row it is left with.
LEMMA PassedNext ==
  ASSUME NEW s \in Scans, NEW k \in StageIndex
  PROVE  [Lifecycle!PassedUpTo(s, k) EXCEPT ![k] = Lifecycle!PassedRow(k)]
           = Lifecycle!PassedUpTo(s, k + 1)
<1> DEFINE old == Lifecycle!PassedUpTo(s, k)
           new == Lifecycle!PassedUpTo(s, k + 1)
<1>1. \A i \in StageIndex : i # k => (i < k + 1 <=> i < k)
  BY ConstantsAssumption DEF StageIndex
<1>2. k < k + 1
  BY ConstantsAssumption DEF StageIndex
<1>3. \A i \in StageIndex : new[i] = IF i = k THEN Lifecycle!PassedRow(k) ELSE old[i]
  BY <1>1, <1>2, SameIndices DEF Lifecycle!PassedUpTo
<1>4. old = [i \in StageIndex |-> old[i]] /\ new = [i \in StageIndex |-> new[i]]
  BY SameIndices DEF Lifecycle!PassedUpTo
<1> HIDE DEF old, new
<1>5. [old EXCEPT ![k] = Lifecycle!PassedRow(k)] = new
  BY <1>3, <1>4
<1> QED BY <1>5 DEF old, new

-----------------------------------------------------------------------------
(* Steps of workers.                                                       *)

\* A step of w that touches no other worker's memory, no other session's lock, and
\* no status but that of its own scan, disturbs nobody else.
LEMMA OthersUndisturbed ==
  ASSUME SafetyInv, NEW w \in Workers, UNCHANGED callers,
         \A v \in Workers \ {w} :
           /\ pc'[v] = pc[v] /\ scan'[v] = scan[v] /\ next'[v] = next[v]
           /\ mstatus'[v] = mstatus[v] /\ mstages'[v] = mstages[v]
           /\ merror'[v] = merror[v],
         \A s \in Scans : status'[s] # status[s] => Busy(w) /\ s = scan[w],
         \A s \in Scans : scanLock[s] \notin {Free, w} => scanLock'[s] = scanLock[s]
  PROVE  /\ \A v \in Workers \ {w} : WorkerInv(v)'
         /\ \A t \in Triggers : CallerInv(t)'
<1>0. /\ TypeInv /\ TypeOK /\ \A v \in Workers : WorkerInv(v)
      /\ \A t \in Triggers : CallerInv(t)
  BY DEF SafetyInv, TypeInv
<1>1. ASSUME NEW v \in Workers \ {w} PROVE WorkerInv(v)'
  <2>1. Busy(v) => status'[scan[v]] = status[scan[v]]
    BY OthersApart
  <2>2. pc[v] = "claiming" => scanLock'[scan[v]] = scanLock[scan[v]]
    BY <1>0, OthersApart, ConstantsAssumption DEF WorkerInv, Busy
  <2> QED BY <1>0, <2>1, <2>2, WorkerFrame
<1>2. ASSUME NEW t \in Triggers PROVE CallerInv(t)'
  <2>1. Busy(w) => status[scan[w]] \in {"QUEUED", "PROCESSING"}
    BY <1>0 DEF WorkerInv, Busy, Executing, TypeOK, WorkerPC
  <2>2. tpc[t] # "idle" => request[t].scan \in Scans
    BY <1>0 DEF CallerInv
  <2>3. tpc[t] # "idle" /\ status[request[t].scan] \in Open =>
          status'[request[t].scan] = status[request[t].scan]
    BY <2>1, <2>2 DEF Open
  <2>4. tpc[t] = "dirty" => scanLock'[request[t].scan] = scanLock[request[t].scan]
    BY <1>0, <2>2, ConstantsAssumption DEF CallerInv
  <2> QED BY <1>0, <2>3, <2>4, CallerFrame DEF callers
<1> QED BY <1>1, <1>2

\* A worker that keeps its scan or lets it go takes none from the others.
LEMMA NothingTaken ==
  ASSUME SafetyInv, NEW w \in Workers,
         \A v \in Workers \ {w} : scan'[v] = scan[v],
         scan'[w] \in {scan[w], NoScan}
  PROVE  AtMostOneExecutor'
BY DEF SafetyInv, AtMostOneExecutor

\* What a closed session leaves behind.
LEMMA CloseSessionInv ==
  ASSUME SafetyInv, NEW w \in Workers, CloseSession(w),
         NEW to \in {"idle", "stopped"}, pc' = [pc EXCEPT ![w] = to]
  PROVE  /\ WorkerInv(w)'
         /\ AtMostOneExecutor'
         /\ \A v \in Workers \ {w} :
              /\ pc'[v] = pc[v] /\ scan'[v] = scan[v] /\ next'[v] = next[v]
              /\ mstatus'[v] = mstatus[v] /\ mstages'[v] = mstages[v]
              /\ merror'[v] = merror[v]
         /\ \A s \in Scans : scanLock[s] \notin {Free, w} => scanLock'[s] = scanLock[s]
<1>0. TypeOK
  BY DEF SafetyInv, TypeInv
<1>1. pc'[w] = to /\ scan'[w] = NoScan /\ next'[w] = 1 /\ merror'[w] = NoError
  BY <1>0 DEF TypeOK, CloseSession
<1>2. WorkerInv(w)'
  BY <1>1 DEF WorkerInv, Busy, Executing, PipelineAt
<1>3. \A v \in Workers \ {w} :
        /\ pc'[v] = pc[v] /\ scan'[v] = scan[v] /\ next'[v] = next[v]
        /\ mstatus'[v] = mstatus[v] /\ mstages'[v] = mstages[v]
        /\ merror'[v] = merror[v]
  BY <1>0 DEF TypeOK, CloseSession
<1>4. \A s \in Scans : scanLock[s] \notin {Free, w} => scanLock'[s] = scanLock[s]
  BY <1>0, ReleasedKeeps DEF CloseSession, Unlock
<1>5. AtMostOneExecutor'
  BY <1>1, <1>3, NothingTaken
<1> QED BY <1>2, <1>3, <1>4, <1>5

\* A step inside the pipeline of w leaves the committed rows, the scan locks and
\* the other sessions alone: what remains to show is its effect on w.
LEMMA InsidePipeline ==
  ASSUME SafetyInv, NEW w \in Workers, TypeInv', WorkerInv(w)',
         UNCHANGED <<rows, scanLock, scan, mstatus, callers>>,
         \A v \in Workers \ {w} :
           /\ pc'[v] = pc[v] /\ next'[v] = next[v]
           /\ mstages'[v] = mstages[v] /\ merror'[v] = merror[v]
  PROVE  SafetyInv'
<1>1. \A v \in Workers : WorkerInv(v)'
  BY OthersUndisturbed DEF rows
<1>2. \A t \in Triggers : CallerInv(t)'
  BY OthersUndisturbed DEF rows
<1>3. AtMostOneExecutor' /\ OutcomeIsConsistent'
  BY OutcomeFrame DEF SafetyInv, AtMostOneExecutor, OutcomeIsConsistent, rows
<1> QED BY <1>1, <1>2, <1>3 DEF SafetyInv

\* The rows in memory as the pipeline moves on.
LEMMA PipelineSafety ==
  ASSUME SafetyInv, NEW w \in Workers,
         \/ SkipStage(w) \/ StartStage(w) \/ StageRowMissing(w) \/ FinishStage(w)
         \/ \E m \in {StageErrorMessage, UnexpectedStage} : FailStage(w, m)
  PROVE  SafetyInv'
<1> DEFINE s == scan[w]
           k == next[w]
<1>0. /\ TypeInv /\ TypeOK /\ WorkerInv(w)
  BY DEF SafetyInv, TypeInv
<1>1. s \in Scans /\ k \in 1 .. (StageCount + 1) /\ k \in Nat
      /\ status[s] = "PROCESSING" /\ mstatus[w] = "PROCESSING"
      /\ PipelineAt(pc[w], s, k, mstatus[w], mstages[w], merror[w])
  BY <1>0, ConstantsAssumption
     DEF TypeInv, TypeOK, ControlOK, WorkerInv, Busy, Executing, SkipStage, StartStage,
         StageRowMissing, FinishStage, FailStage, Goto
<1>2. TypeInv'
  BY <1>0, WorkerType, BeginsOrRefuses DEF WorkerStep
<1>3. UNCHANGED <<rows, scanLock, scan, mstatus, callers>>
  BY DEF SkipStage, StartStage, StageRowMissing, FinishStage, FailStage, locks
<1>4. \A v \in Workers \ {w} :
        /\ pc'[v] = pc[v] /\ next'[v] = next[v]
        /\ mstages'[v] = mstages[v] /\ merror'[v] = merror[v]
  BY <1>0 DEF TypeOK, SkipStage, StartStage, StageRowMissing, FinishStage, FailStage,
              MarkStage, Goto
<1>5. ASSUME NEW row, NEW advance \in {0, 1}, MarkStage(w, row, advance)
      PROVE  mstages'[w] = [mstages[w] EXCEPT ![k] = row] /\ next'[w] = k + advance
  BY <1>0, <1>5 DEF TypeOK, MarkStage
<1> HIDE DEF s, k
<1>6. CASE SkipStage(w)
  <2>1. pc[w] = "running" /\ pc'[w] = "running" /\ merror' = merror
        /\ k \in StageIndex \ Registered /\ mstages[w][k] # NoRow
    BY <1>0, <1>6 DEF TypeOK, SkipStage, HasRow, Goto, k
  <2>2. /\ 1 .. (k - 1) \subseteq RowsOf[s] /\ mstages[w] = Lifecycle!PassedUpTo(s, k)
        /\ merror[w] = NoError
    BY <1>1, <2>1 DEF PipelineAt
  <2>3. k \in RowsOf[s]
    BY <1>1, <2>1, <2>2, PassedRest
  <2>4. Lifecycle!PassedRow(k) = Skipped
    BY <2>1, SameRows DEF Lifecycle!PassedRow
  <2>5. mstages'[w] = Lifecycle!PassedUpTo(s, k + 1) /\ next'[w] = k + 1
    <3>1. mstages'[w] = [mstages[w] EXCEPT ![k] = Skipped] /\ next'[w] = k + 1
      BY <1>5, <1>6 DEF SkipStage
    <3> QED BY <1>1, <2>1, <2>2, <2>4, <3>1, PassedNext
  <2>6. 1 .. ((k + 1) - 1) \subseteq RowsOf[s]
    BY <1>1, <2>2, <2>3
  <2>7. WorkerInv(w)'
    BY <1>0, <1>1, <1>3, <2>1, <2>2, <2>5, <2>6
       DEF WorkerInv, PipelineAt, Busy, Executing, s, rows
  <2> QED BY <1>2, <1>3, <1>4, <2>7, InsidePipeline
<1>7. CASE StartStage(w)
  <2>1. pc[w] = "running" /\ pc'[w] = "inStage" /\ merror' = merror
        /\ k \in StageIndex \cap Registered /\ mstages[w][k] # NoRow
    BY <1>0, <1>7 DEF TypeOK, StartStage, HasRow, Goto, k
  <2>2. /\ 1 .. (k - 1) \subseteq RowsOf[s] /\ mstages[w] = Lifecycle!PassedUpTo(s, k)
        /\ merror[w] = NoError
    BY <1>1, <2>1 DEF PipelineAt
  <2>3. k \in RowsOf[s]
    BY <1>1, <2>1, <2>2, PassedRest
  <2>4. mstages'[w] = [Lifecycle!PassedUpTo(s, k) EXCEPT ![k] = Running] /\ next'[w] = k
    BY <1>1, <1>5, <1>7, <2>2 DEF StartStage
  <2>5. WorkerInv(w)'
    BY <1>0, <1>1, <1>3, <2>1, <2>2, <2>3, <2>4
       DEF WorkerInv, PipelineAt, Busy, Executing, s, rows
  <2> QED BY <1>2, <1>3, <1>4, <2>5, InsidePipeline
<1>8. CASE StageRowMissing(w)
  <2>1. pc[w] = "running" /\ pc'[w] = "failing" /\ merror'[w] = UnexpectedPipeline
        /\ k \in StageIndex /\ mstages[w][k] = NoRow
        /\ UNCHANGED <<next, mstages>>
    BY <1>0, <1>8 DEF TypeOK, StageRowMissing, HasRow, Goto, k
  <2>2. /\ 1 .. (k - 1) \subseteq RowsOf[s] /\ mstages[w] = Lifecycle!PassedUpTo(s, k)
    BY <1>1, <2>1 DEF PipelineAt
  <2>3. k \notin RowsOf[s]
    BY <1>1, <2>1, <2>2, PassedRest
  <2>4. Lifecycle!RowMissing(s, k, mstages'[w], merror'[w])
    BY <2>1, <2>2, <2>3, SameRows DEF Lifecycle!RowMissing
  <2>5. WorkerInv(w)'
    BY <1>0, <1>1, <1>3, <2>1, <2>4
       DEF WorkerInv, PipelineAt, Busy, Executing, s, k, rows
  <2> QED BY <1>2, <1>3, <1>4, <2>5, InsidePipeline
<1>9. CASE FinishStage(w)
  <2>1. pc[w] = "inStage" /\ pc'[w] = "running" /\ merror' = merror
    BY <1>0, <1>9 DEF TypeOK, FinishStage, Goto
  <2>2. /\ 1 .. (k - 1) \subseteq RowsOf[s] /\ merror[w] = NoError
        /\ mstages[w] = [Lifecycle!PassedUpTo(s, k) EXCEPT ![k] = Running]
        /\ k \in Registered \cap RowsOf[s] /\ k \in StageIndex
    BY <1>1, <2>1, ConstantsAssumption DEF PipelineAt, StageIndex
  <2>3. Lifecycle!PassedRow(k) = Completed
    BY <2>2, SameRows DEF Lifecycle!PassedRow
  <2>4. mstages'[w] = [Lifecycle!PassedUpTo(s, k) EXCEPT ![k] = Completed]
        /\ next'[w] = k + 1
    BY <1>5, <1>9, <2>2 DEF FinishStage
  <2>5. mstages'[w] = Lifecycle!PassedUpTo(s, k + 1)
    BY <1>1, <2>2, <2>3, <2>4, PassedNext
  <2>6. 1 .. ((k + 1) - 1) \subseteq RowsOf[s]
    BY <1>1, <2>2
  <2>7. WorkerInv(w)'
    BY <1>0, <1>1, <1>3, <2>1, <2>2, <2>4, <2>5, <2>6
       DEF WorkerInv, PipelineAt, Busy, Executing, s, rows
  <2> QED BY <1>2, <1>3, <1>4, <2>7, InsidePipeline
<1>10. ASSUME NEW m \in {StageErrorMessage, UnexpectedStage}, FailStage(w, m)
       PROVE  SafetyInv'
  <2>1. pc[w] = "inStage" /\ pc'[w] = "failing" /\ merror'[w] = m
    BY <1>0, <1>10 DEF TypeOK, FailStage, Goto
  <2>2. /\ 1 .. (k - 1) \subseteq RowsOf[s]
        /\ mstages[w] = [Lifecycle!PassedUpTo(s, k) EXCEPT ![k] = Running]
        /\ k \in Registered \cap RowsOf[s] /\ k \in StageIndex
    BY <1>1, <2>1, ConstantsAssumption DEF PipelineAt, StageIndex
  <2>3. mstages'[w] = [Lifecycle!PassedUpTo(s, k) EXCEPT ![k] = StageFailed(m)]
        /\ next'[w] = k
    <3>1. MarkStage(w, StageFailed(m), 0)
      BY <1>10 DEF FailStage
    <3>2. mstages'[w] = [mstages[w] EXCEPT ![k] = StageFailed(m)] /\ next'[w] = k + 0
      BY <1>5, <3>1
    <3>3. mstages'[w] = [Lifecycle!PassedUpTo(s, k) EXCEPT ![k] = StageFailed(m)]
      <4> DEFINE failed == StageFailed(m)
      <4> HIDE DEF failed
      <4>1. mstages'[w] = [Lifecycle!PassedUpTo(s, k) EXCEPT ![k] = failed]
        BY <2>2, <3>2, WrittenTwice DEF failed
      <4> QED BY <4>1 DEF failed
    <3> QED BY <1>1, <3>2, <3>3
  <2>4. Lifecycle!FailedAt(s, k, mstages'[w], merror'[w])
    BY <2>1, <2>2, <2>3, SameRows DEF Lifecycle!FailedAt
  <2>5. WorkerInv(w)'
    BY <1>0, <1>1, <1>3, <2>1, <2>2, <2>3, <2>4
       DEF WorkerInv, PipelineAt, Busy, Executing, s, rows
  <2> QED BY <1>2, <1>3, <1>4, <2>5, InsidePipeline
<1> QED BY <1>6, <1>7, <1>8, <1>9, <1>10

\* The row lock and the committed status keep a claimed scan from the others.
LEMMA ClaimSafety ==
  ASSUME SafetyInv, NEW w \in Workers, NEW s \in Scans, Claim(w, s)
  PROVE  SafetyInv'
<1>0. /\ TypeInv /\ TypeOK /\ WorkerInv(w) /\ OutcomeIsConsistent
      /\ \A v \in Workers : WorkerInv(v)
  BY DEF SafetyInv, TypeInv
<1>1. /\ status[s] = "QUEUED" /\ scanLock[s] = Free
      /\ pc[w] = "idle" /\ pc'[w] = "claiming" /\ scan'[w] = s /\ scan'[w] # NoScan
      /\ mstatus'[w] = "PROCESSING" /\ scanLock'[s] = w /\ status' = status
      /\ next' = next /\ merror' = merror
  BY <1>0, ConstantsAssumption DEF TypeOK, Claim, Claimable, OldestOf, Goto, rows
<1>2. \A v \in Workers \ {w} :
        /\ pc'[v] = pc[v] /\ scan'[v] = scan[v] /\ next'[v] = next[v]
        /\ mstatus'[v] = mstatus[v] /\ mstages'[v] = mstages[v] /\ merror'[v] = merror[v]
  BY <1>0 DEF TypeOK, Claim, Goto
<1>3. \A r \in Scans : scanLock[r] \notin {Free, w} => scanLock'[r] = scanLock[r]
  BY <1>0, <1>1 DEF TypeOK, Claim
<1>4. TypeInv'
  BY <1>0, WorkerType, BeginsOrRefuses DEF WorkerStep
<1>5. WorkerInv(w)'
  BY <1>0, <1>1 DEF WorkerInv, Busy, Executing, PipelineAt
<1>6. ASSUME NEW v \in Workers \ {w} PROVE scan[v] # s
  <2>1. Busy(v) => scan[v] # s
    BY <1>0, <1>1, ConstantsAssumption DEF WorkerInv, Busy, Executing, TypeOK, WorkerPC
  <2>2. ~Busy(v) => scan[v] # s
    BY <1>0, ConstantsAssumption DEF WorkerInv
  <2> QED BY <2>1, <2>2
<1>7. AtMostOneExecutor'
  BY <1>1, <1>2, <1>6 DEF SafetyInv, AtMostOneExecutor
<1>8. OutcomeIsConsistent'
  BY <1>0, OutcomeFrame DEF OutcomeIsConsistent, Claim, rows
<1>9. /\ \A v \in Workers \ {w} : WorkerInv(v)'
      /\ \A t \in Triggers : CallerInv(t)'
  BY <1>1, <1>2, <1>3, OthersUndisturbed DEF Claim
<1> QED BY <1>4, <1>5, <1>7, <1>8, <1>9 DEF SafetyInv

\* What both outcomes of committing a claim, acknowledged or not, do to the rows.
LEMMA ClaimCommitted ==
  ASSUME SafetyInv, NEW w \in Workers, pc[w] = "claiming",
         status' = [status EXCEPT ![scan[w]] = mstatus[w]], UNCHANGED <<stages, error>>
  PROVE  /\ OutcomeIsConsistent'
         /\ status'[scan[w]] = "PROCESSING"
         /\ \A s \in Scans : status'[s] # status[s] => s = scan[w]
<1>0. TypeOK /\ OutcomeIsConsistent /\ WorkerInv(w) /\ scan[w] \in Scans
  BY DEF SafetyInv, TypeInv, ControlOK, Busy
<1>1. status[scan[w]] = "QUEUED" /\ mstatus[w] = "PROCESSING"
  BY <1>0 DEF WorkerInv
<1>2. /\ status'[scan[w]] = "PROCESSING"
      /\ \A s \in Scans : status'[s] # status[s] => s = scan[w]
  BY <1>0, <1>1 DEF TypeOK
<1>3. ASSUME NEW s \in Scans PROVE Outcome(s)'
  <2>1. CASE s = scan[w]
    BY <1>0, <1>1, <1>2, <2>1 DEF OutcomeIsConsistent, Outcome, TerminalStatus
  <2>2. CASE s # scan[w]
    BY <1>0, <1>2, <2>2, OutcomeFrame DEF OutcomeIsConsistent
  <2> QED BY <2>1, <2>2
<1> QED BY <1>2, <1>3 DEF OutcomeIsConsistent

LEMMA CommitClaimSafety ==
  ASSUME SafetyInv, NEW w \in Workers, CommitClaim(w)
  PROVE  SafetyInv'
<1>0. TypeInv /\ TypeOK /\ WorkerInv(w) /\ pc[w] = "claiming"
  BY DEF SafetyInv, TypeInv, CommitClaim, Goto
<1>1. /\ OutcomeIsConsistent' /\ status'[scan[w]] = "PROCESSING"
      /\ \A s \in Scans : status'[s] # status[s] => s = scan[w]
  BY <1>0, ClaimCommitted DEF CommitClaim
<1>2. pc'[w] = "claimed" /\ \A v \in Workers \ {w} : pc'[v] = pc[v]
  BY <1>0 DEF TypeOK, CommitClaim, Goto
<1>3. UNCHANGED <<scan, next, mstatus, mstages, merror>> /\ UNCHANGED callers
  BY DEF CommitClaim, memory
<1>4. \A s \in Scans : scanLock[s] \notin {Free, w} => scanLock'[s] = scanLock[s]
  BY ReleasedKeeps DEF CommitClaim, Unlock
<1>5. WorkerInv(w)'
  BY <1>0, <1>1, <1>2, <1>3 DEF WorkerInv, Busy, Executing, PipelineAt
<1>6. TypeInv'
  BY <1>0, WorkerType, BeginsOrRefuses DEF WorkerStep
<1>7. AtMostOneExecutor'
  BY <1>3, NothingTaken
<1>8. /\ \A v \in Workers \ {w} : WorkerInv(v)'
      /\ \A t \in Triggers : CallerInv(t)'
  BY <1>0, <1>1, <1>2, <1>3, <1>4, OthersUndisturbed DEF Busy
<1> QED BY <1>1, <1>5, <1>6, <1>7, <1>8 DEF SafetyInv

LEMMA LoadSafety ==
  ASSUME SafetyInv, NEW w \in Workers, LoadForExecution(w)
  PROVE  SafetyInv'
<1>0. /\ TypeInv /\ TypeOK /\ WorkerInv(w) /\ OutcomeIsConsistent
      /\ pc[w] = "claimed" /\ scan[w] \in Scans
  BY DEF SafetyInv, TypeInv, ControlOK, Busy, LoadForExecution, Goto
<1>1. /\ status[scan[w]] = "PROCESSING" /\ next[w] = 1 /\ merror[w] = NoError
      /\ stages[scan[w]] = FreshStages(scan[w])
  BY <1>0 DEF WorkerInv, Executing, OutcomeIsConsistent, Outcome, TerminalStatus
<1>2. /\ pc'[w] = "running" /\ mstatus'[w] = "PROCESSING"
      /\ mstages'[w] = Lifecycle!PassedUpTo(scan[w], 1)
  BY <1>0, <1>1, PassedNone DEF TypeOK, LoadForExecution, Goto
<1>3. /\ UNCHANGED <<scan, next, merror>> /\ UNCHANGED callers
      /\ UNCHANGED <<status, stages, error, scanLock>>
  BY DEF LoadForExecution, rows, locks
<1>4. \A v \in Workers \ {w} :
        pc'[v] = pc[v] /\ mstatus'[v] = mstatus[v] /\ mstages'[v] = mstages[v]
  BY <1>0 DEF TypeOK, LoadForExecution, Goto
<1>5. 1 .. (1 - 1) \subseteq RowsOf[scan[w]]
  OBVIOUS
<1>6. WorkerInv(w)'
  BY <1>0, <1>1, <1>2, <1>3, <1>5 DEF WorkerInv, Busy, Executing, PipelineAt
<1>7. TypeInv'
  BY <1>0, WorkerType, BeginsOrRefuses DEF WorkerStep
<1>8. AtMostOneExecutor' /\ OutcomeIsConsistent'
  BY <1>0, <1>3, NothingTaken, OutcomeFrame DEF OutcomeIsConsistent
<1>9. /\ \A v \in Workers \ {w} : WorkerInv(v)'
      /\ \A t \in Triggers : CallerInv(t)'
  BY <1>3, <1>4, OthersUndisturbed
<1> QED BY <1>6, <1>7, <1>8, <1>9 DEF SafetyInv

LEMMA FinalizeSafety ==
  ASSUME SafetyInv, NEW w \in Workers, CompleteScan(w) \/ FailScan(w)
  PROVE  SafetyInv'
<1>0. /\ TypeInv /\ TypeOK /\ WorkerInv(w) /\ OutcomeIsConsistent
      /\ pc[w] \in {"running", "failing"} /\ scan[w] \in Scans
  BY DEF SafetyInv, TypeInv, ControlOK, Busy, CompleteScan, FailScan, Finalize, Goto
<1>1. /\ UNCHANGED <<status, stages, error, scan, next, mstages, merror>>
      /\ UNCHANGED callers
  BY DEF CompleteScan, FailScan, Finalize, rows
<1>2. \A v \in Workers \ {w} : pc'[v] = pc[v] /\ mstatus'[v] = mstatus[v]
  BY <1>0 DEF TypeOK, CompleteScan, FailScan, Finalize, Goto
<1>3. \A s \in Scans : scanLock[s] \notin {Free, w} => scanLock'[s] = scanLock[s]
  BY <1>0 DEF TypeOK, CompleteScan, FailScan, Finalize, Lockable
<1>4. WorkerInv(w)'
  <2>1. pc'[w] = "finalizing"
    BY <1>0 DEF TypeOK, CompleteScan, FailScan, Finalize, Goto
  <2>2. CASE CompleteScan(w)
    <3>1. pc[w] = "running" /\ next[w] = StageCount + 1 /\ mstatus'[w] = "COMPLETED"
      BY <1>0, <2>2 DEF TypeOK, CompleteScan, Finalize, Goto
    <3>2. /\ 1 .. (next[w] - 1) \subseteq RowsOf[scan[w]]
          /\ mstages[w] = Lifecycle!PassedUpTo(scan[w], next[w])
          /\ merror[w] = NoError
      BY <1>0, <3>1 DEF WorkerInv, PipelineAt
    <3>3. RowsOf[scan[w]] = StageIndex
      <4>1. (StageCount + 1) - 1 = StageCount
        BY ConstantsAssumption
      <4>2. RowsOf[scan[w]] \subseteq StageIndex
        BY <1>0, ConstantsAssumption DEF StageIndex
      <4> QED BY <3>1, <3>2, <4>1, <4>2 DEF StageIndex
    <3>4. Lifecycle!Success(scan[w], mstages[w], merror[w])
      BY <3>1, <3>2, <3>3, SameRows, SameIndices DEF Lifecycle!Success
    <3> QED
      BY <1>0, <1>1, <2>1, <3>1, <3>4 DEF WorkerInv, Busy, Executing, PipelineAt
  <2>3. CASE FailScan(w)
    <3>1. pc[w] = "failing" /\ mstatus'[w] = "FAILED"
      BY <1>0, <2>3 DEF TypeOK, FailScan, Finalize, Goto
    <3>2. /\ next[w] \in StageIndex
          /\ \/ Lifecycle!FailedAt(scan[w], next[w], mstages[w], merror[w])
             \/ Lifecycle!RowMissing(scan[w], next[w], mstages[w], merror[w])
      BY <1>0, <3>1 DEF WorkerInv, PipelineAt
    <3> QED
      BY <1>0, <1>1, <2>1, <3>1, <3>2 DEF WorkerInv, Busy, Executing, PipelineAt
  <2> QED BY <2>2, <2>3
<1>5. TypeInv'
  BY <1>0, WorkerType, BeginsOrRefuses DEF WorkerStep
<1>6. AtMostOneExecutor' /\ OutcomeIsConsistent'
  BY <1>0, <1>1, NothingTaken, OutcomeFrame DEF OutcomeIsConsistent
<1>7. /\ \A v \in Workers \ {w} : WorkerInv(v)'
      /\ \A t \in Triggers : CallerInv(t)'
  BY <1>1, <1>2, <1>3, OthersUndisturbed
<1> QED BY <1>4, <1>5, <1>6, <1>7 DEF SafetyInv

\* The rows that a finished pipeline commits are a legal outcome.
LEMMA ResultCommitted ==
  ASSUME SafetyInv, NEW w \in Workers, pc[w] = "finalizing", WriteResult(w)
  PROVE  /\ OutcomeIsConsistent'
         /\ \A s \in Scans : status'[s] # status[s] => s = scan[w]
<1>a. TypeOK /\ OutcomeIsConsistent /\ WorkerInv(w) /\ scan[w] \in Scans
  BY DEF SafetyInv, TypeInv, ControlOK, Busy
<1>b. next[w] \in 1 .. (StageCount + 1)
  BY <1>a DEF TypeOK
<1>c. PICK s \in Scans : s = scan[w]
  BY <1>a
<1>d. PICK k \in 1 .. (StageCount + 1) : k = next[w]
  BY <1>b
<1>0. /\ TypeOK /\ OutcomeIsConsistent /\ WorkerInv(w) /\ k \in Nat
      /\ s = scan[w] /\ k = next[w]
  BY <1>a, <1>c, <1>d, ConstantsAssumption
<1>1. /\ stages[s] = FreshStages(s) /\ error[s] = NoError
      /\ PipelineAt("finalizing", s, k, mstatus[w], mstages[w], merror[w])
  BY <1>0 DEF WorkerInv, Executing, OutcomeIsConsistent, Outcome, TerminalStatus
<1>2. /\ status'[s] = mstatus[w]
      /\ error'[s] = IF mstatus[w] = "FAILED" THEN merror[w] ELSE NoError
      /\ stages'[s] =
           [i \in StageIndex |-> IF i <= k THEN mstages[w][i] ELSE FreshStages(s)[i]]
  BY <1>0, <1>1 DEF TypeOK, WriteResult
<1>3. \A r \in Scans \ {s} :
        status'[r] = status[r] /\ stages'[r] = stages[r] /\ error'[r] = error[r]
  BY <1>0 DEF TypeOK, WriteResult
<1>4. mstages[w] \in [StageIndex -> StageRow]
  BY <1>0 DEF TypeOK
<1>5. \A i \in StageIndex : ~(i <= k) => mstages[w][i] = FreshStages(s)[i]
  <2> TAKE i \in StageIndex
  <2>1. i \in Nat
    BY ConstantsAssumption DEF StageIndex
  <2> HAVE ~(i <= k)
  <2>2. i # k /\ i >= k
    BY <1>0, <2>1
  <2>3. Lifecycle!PassedUpTo(s, k)[i] = FreshStages(s)[i]
    BY <1>0, <2>1, <2>2, PassedRest
  <2>4. \/ mstages[w] = Lifecycle!PassedUpTo(s, k)
        \/ \E row : mstages[w] = [Lifecycle!PassedUpTo(s, k) EXCEPT ![k] = row]
    BY <1>1 DEF PipelineAt, Lifecycle!Success, Lifecycle!FailedAt, Lifecycle!RowMissing
  <2> QED BY <2>2, <2>3, <2>4, SameIndices DEF Lifecycle!PassedUpTo
<1>6. stages'[s] = mstages[w]
  BY <1>2, <1>4, <1>5
<1>7. Outcome(s)'
  <2>1. CASE mstatus[w] = "COMPLETED"
    <3>1. Lifecycle!Success(s, mstages[w], NoError)
      BY <1>1, <2>1, SameRows DEF PipelineAt, Lifecycle!Success
    <3> QED BY <1>2, <1>6, <2>1, <3>1 DEF Outcome, TerminalStatus
  <2>2. CASE mstatus[w] = "FAILED"
    <3>1. Lifecycle!Failure(s, mstages[w], merror[w])
      BY <1>1, <2>2, SameIndices DEF PipelineAt, Lifecycle!Failure
    <3> QED BY <1>2, <1>6, <2>2, <3>1 DEF Outcome, TerminalStatus
  <2> QED BY <1>1, <2>1, <2>2 DEF PipelineAt
<1>8. ASSUME NEW r \in Scans \ {s} PROVE Outcome(r)'
  BY <1>0, <1>3, OutcomeFrame DEF OutcomeIsConsistent
<1> QED BY <1>0, <1>3, <1>7, <1>8 DEF OutcomeIsConsistent

\* Every step that closes a session: refusal, commit of a result, faults.
LEMMA ClosingSafety ==
  ASSUME SafetyInv, NEW w \in Workers,
         RefuseExecution(w) \/ CommitResult(w) \/ (FaultStep(w) /\ ~Hang(w))
  PROVE  SafetyInv'
<1>0. TypeInv /\ TypeOK /\ WorkerInv(w) /\ OutcomeIsConsistent
  BY DEF SafetyInv, TypeInv
<1>1. /\ CloseSession(w) /\ UNCHANGED callers
      /\ \E to \in {"idle", "stopped"} : pc' = [pc EXCEPT ![w] = to]
  BY DEF RefuseExecution, CommitResult, FaultStep, DatabaseError, ClaimAckLost,
         ResultAckLost, Stop, Goto
<1>2. /\ OutcomeIsConsistent'
      /\ \A s \in Scans : status'[s] # status[s] => Busy(w) /\ s = scan[w]
  <2>1. CASE RefuseExecution(w) \/ DatabaseError(w) \/ Stop(w)
    BY <1>0, <2>1, OutcomeFrame
       DEF OutcomeIsConsistent, RefuseExecution, DatabaseError, Stop, rows
  <2>2. CASE ClaimAckLost(w)
    BY <2>2, ClaimCommitted DEF ClaimAckLost, Goto, Busy
  <2>3. CASE CommitResult(w) \/ ResultAckLost(w)
    BY <2>3, ResultCommitted DEF CommitResult, ResultAckLost, Goto, Busy
  <2> QED BY <2>1, <2>2, <2>3 DEF FaultStep
<1>3. TypeInv'
  BY <1>0, WorkerType, FaultType, BeginsOrRefuses DEF WorkerStep
<1>4. /\ WorkerInv(w)' /\ AtMostOneExecutor'
      /\ \A v \in Workers \ {w} : WorkerInv(v)'
      /\ \A t \in Triggers : CallerInv(t)'
  BY <1>1, <1>2, CloseSessionInv, OthersUndisturbed
<1> QED BY <1>2, <1>3, <1>4 DEF SafetyInv

\* A hanging stage changes nothing but where its worker is.
LEMMA HangSafety ==
  ASSUME SafetyInv, NEW w \in Workers, Hang(w)
  PROVE  SafetyInv'
<1>0. TypeInv /\ TypeOK /\ WorkerInv(w)
  BY DEF SafetyInv, TypeInv
<1>1. /\ UNCHANGED <<rows, scanLock, scan, next, mstatus, mstages, merror, callers>>
      /\ pc[w] = "inStage" /\ pc'[w] = "hung"
      /\ \A v \in Workers \ {w} : pc'[v] = pc[v]
  BY <1>0 DEF TypeOK, Hang, Goto, locks, memory
<1>2. WorkerInv(w)'
  BY <1>0, <1>1 DEF WorkerInv, Busy, Executing, PipelineAt, rows
<1>3. TypeInv'
  BY <1>0, FaultType DEF FaultStep
<1> QED BY <1>1, <1>2, <1>3, InsidePipeline

LEMMA RestartSafety ==
  ASSUME SafetyInv, NEW w \in Workers, Restart(w)
  PROVE  SafetyInv'
<1>0. TypeInv /\ TypeOK /\ WorkerInv(w) /\ OutcomeIsConsistent
  BY DEF SafetyInv, TypeInv
<1>1. /\ UNCHANGED <<status, stages, error, scanLock, scan, next, mstatus, mstages, merror>>
      /\ UNCHANGED callers
      /\ pc[w] = "stopped" /\ pc'[w] = "idle"
      /\ \A v \in Workers \ {w} : pc'[v] = pc[v]
  BY <1>0 DEF TypeOK, Restart, Goto, rows, locks, memory
<1>2. WorkerInv(w)'
  BY <1>0, <1>1 DEF WorkerInv, Busy, Executing, PipelineAt
<1>3. TypeInv'
  BY <1>0, FaultType
<1>4. AtMostOneExecutor' /\ OutcomeIsConsistent'
  BY <1>0, <1>1, NothingTaken, OutcomeFrame DEF OutcomeIsConsistent
<1>5. /\ \A v \in Workers \ {w} : WorkerInv(v)'
      /\ \A t \in Triggers : CallerInv(t)'
  BY <1>1, OthersUndisturbed
<1> QED BY <1>2, <1>3, <1>4, <1>5 DEF SafetyInv

\* A scan is inserted with its fresh stage rows.
LEMMA CreateSafety ==
  ASSUME SafetyInv, NEW s \in Scans, CreateScan(s)
  PROVE  SafetyInv'
<1>0. /\ TypeInv /\ TypeOK /\ OutcomeIsConsistent
      /\ \A w \in Workers : WorkerInv(w)
      /\ \A t \in Triggers : CallerInv(t)
  BY DEF SafetyInv, TypeInv
<1>1. /\ UNCHANGED <<stages, error, scanLock, pc, scan, next, mstatus, mstages, merror>>
      /\ UNCHANGED <<tpc, request>>
      /\ status[s] = "ABSENT" /\ status'[s] = "CREATED"
      /\ \A r \in Scans \ {s} : status'[r] = status[r]
  BY <1>0 DEF TypeOK, CreateScan, locks, memory, callers
<1>2. TypeInv'
  BY <1>0 DEF TypeInv, TypeOK, ControlOK, Busy, CreateScan, ScanStatus, locks, memory, callers
<1>3. ASSUME NEW w \in Workers PROVE WorkerInv(w)'
  <2>0. Busy(w) => scan[w] \in Scans /\ status[scan[w]] \in {"QUEUED", "PROCESSING"}
    BY <1>0 DEF TypeInv, ControlOK, WorkerInv, Busy, Executing, TypeOK, WorkerPC
  <2>1. Busy(w) => scan[w] \in Scans \ {s}
    BY <1>1, <2>0
  <2> QED BY <1>0, <1>1, <2>1, WorkerFrame
<1>4. ASSUME NEW t \in Triggers PROVE CallerInv(t)'
  <2>1. tpc[t] # "idle" => request[t].scan \in Scans
    BY <1>0 DEF CallerInv
  <2>2. tpc[t] # "idle" /\ status[request[t].scan] \in Open =>
          status'[request[t].scan] = status[request[t].scan]
    BY <1>1, <2>1 DEF Open
  <2> QED BY <1>0, <1>1, <2>2, CallerFrame
<1>5. ASSUME NEW r \in Scans PROVE Outcome(r)'
  BY <1>0, <1>1 DEF OutcomeIsConsistent, Outcome, TerminalStatus
<1>6. AtMostOneExecutor'
  BY <1>1 DEF SafetyInv, AtMostOneExecutor
<1> QED BY <1>2, <1>3, <1>4, <1>5, <1>6 DEF SafetyInv, OutcomeIsConsistent

-----------------------------------------------------------------------------
(* The theorems.                                                           *)

LEMMA SafetyInit == Init => SafetyInv
<1> SUFFICES ASSUME Init PROVE SafetyInv
  OBVIOUS
<1>1. ASSUME NEW w \in Workers PROVE WorkerInv(w)
  BY DEF Init, WorkerInv, Busy, Executing, PipelineAt
<1>2. ASSUME NEW t \in Triggers PROVE CallerInv(t)
  BY DEF Init, CallerInv
<1>3. AtMostOneExecutor
  BY DEF Init, AtMostOneExecutor
<1>4. OutcomeIsConsistent
  BY DEF Init, OutcomeIsConsistent, Outcome, TerminalStatus
<1> QED BY <1>1, <1>2, <1>3, <1>4, TypeInit DEF SafetyInv

LEMMA SafetyStep == SingleTrigger /\ SafetyInv /\ [Next]_vars => SafetyInv'
<1> SUFFICES ASSUME SingleTrigger, SafetyInv, [Next]_vars PROVE SafetyInv'
  OBVIOUS
<1>1. ASSUME NEW w \in Workers, WorkerStep(w) PROVE SafetyInv'
  BY <1>1, ClaimSafety, CommitClaimSafety, LoadSafety, PipelineSafety, FinalizeSafety,
     ClosingSafety, BeginsOrRefuses DEF WorkerStep
<1>2. CASE UNCHANGED vars
  <2>1. TypeInv'
    BY <1>2, TypeStep DEF SafetyInv
  <2>2. ASSUME NEW w \in Workers PROVE WorkerInv(w)'
    BY <1>2, WorkerFrame DEF SafetyInv, vars
  <2>3. ASSUME NEW t \in Triggers PROVE CallerInv(t)'
    BY <1>2, CallerFrame DEF SafetyInv, vars
  <2>4. AtMostOneExecutor' /\ OutcomeIsConsistent'
    BY <1>2, OutcomeFrame DEF SafetyInv, AtMostOneExecutor, OutcomeIsConsistent, vars
  <2> QED BY <2>1, <2>2, <2>3, <2>4 DEF SafetyInv
<1> QED
  BY <1>1, <1>2, CallerSafety, CreateSafety, ClosingSafety, HangSafety, RestartSafety
  DEF Next, FaultStep

\* When no two callers submit the same scan, no scan is ever in the hands of two
\* workers (the claim of workers/queue.py), whatever faults occur.
THEOREM NeverExecutedTwice == SingleTrigger => (Spec => []AtMostOneExecutor)
<1> SUFFICES ASSUME SingleTrigger PROVE Spec => []AtMostOneExecutor
  OBVIOUS
<1>1. SafetyInv => AtMostOneExecutor
  BY DEF SafetyInv
<1>2. SafetyInv /\ [Next]_vars => SafetyInv'
  BY SafetyStep
<1> QED BY <1>1, <1>2, SafetyInit, PTL DEF Spec

\* When no two callers submit the same scan, the status, error and stage rows that
\* execution.py and runner.py commit for it always tell one story.
THEOREM OutcomeCorrect == SingleTrigger => (Spec => []OutcomeIsConsistent)
<1> SUFFICES ASSUME SingleTrigger PROVE Spec => []OutcomeIsConsistent
  OBVIOUS
<1>1. SafetyInv => OutcomeIsConsistent
  BY DEF SafetyInv
<1>2. SafetyInv /\ [Next]_vars => SafetyInv'
  BY SafetyStep
<1> QED BY <1>1, <1>2, SafetyInit, PTL DEF Spec

-----------------------------------------------------------------------------
(* ScanExecution implements ScanLifecycle, under SingleTrigger: the        *)
(* committed rows of the detailed system are a behavior of the abstract    *)
(* one.  Only four kinds of step commit: the insertion of a scan, a        *)
(* caller's commit, the commit of a claim and the commit of a result.      *)

LEMMA InitRefines == Init => Lifecycle!Init
BY SameRows, SameIndices DEF Init, Lifecycle!Init

\* The commit of a caller is a Submit, a Reject or changes nothing.
LEMMA CallerCommitRefines ==
  ASSUME SafetyInv, NEW t \in Triggers, TriggerCommit(t)
  PROVE  [Lifecycle!Next]_(Lifecycle!vars)
<1>0. TypeOK /\ CallerInv(t)
  BY DEF SafetyInv, TypeInv
<1>1. PICK s \in Scans : s = request[t].scan
  BY <1>0 DEF CallerInv, TriggerCommit
<1>2. PICK to : to = request[t].status
  OBVIOUS
<1>3. /\ status[s] \in {"CREATED", "VALIDATING"} /\ to \in {"VALIDATING", "QUEUED", "FAILED"}
      /\ to = "FAILED" => request[t].error \in {NoError, RejectedError}
  BY <1>0, <1>1, <1>2 DEF CallerInv, TriggerCommit, Open
<1>4. /\ status' = [status EXCEPT ![s] = to] /\ UNCHANGED stages
      /\ error' = [error EXCEPT ![s] = IF to = "FAILED" THEN request[t].error ELSE @]
  BY <1>1, <1>2 DEF TriggerCommit
<1>5. CASE to = "FAILED"
  <2>1. Lifecycle!Reject(s)
    BY <1>3, <1>4, <1>5, SameRows DEF Lifecycle!Reject, Lifecycle!RejectedError, RejectedError
  <2> QED BY <2>1 DEF Lifecycle!Next
<1>6. CASE to # "FAILED" /\ to # status[s]
  <2>1. error' = error
    BY <1>0, <1>4, <1>6 DEF TypeOK
  <2>2. Lifecycle!Submit(s)
    BY <1>3, <1>4, <1>6, <2>1 DEF Lifecycle!Submit
  <2> QED BY <2>2 DEF Lifecycle!Next
<1>7. CASE to # "FAILED" /\ to = status[s]
  BY <1>0, <1>4, <1>7 DEF TypeOK, Lifecycle!vars
<1> QED BY <1>5, <1>6, <1>7

\* So is the commit of a claim, acknowledged or not, a Claim.
LEMMA ClaimRefines ==
  ASSUME SafetyInv, NEW w \in Workers, CommitClaim(w) \/ ClaimAckLost(w)
  PROVE  Lifecycle!Next
<1>1. /\ scan[w] \in Scans /\ status[scan[w]] = "QUEUED" /\ mstatus[w] = "PROCESSING"
  BY DEF SafetyInv, TypeInv, ControlOK, WorkerInv, Busy, CommitClaim, ClaimAckLost, Goto
<1>2. Lifecycle!Claim(scan[w])
  BY <1>1 DEF Lifecycle!Claim, CommitClaim, ClaimAckLost
<1> QED BY <1>1, <1>2 DEF Lifecycle!Next

\* The commit of a result is a Finish.
LEMMA ResultRefines ==
  ASSUME SafetyInv, SafetyInv', NEW w \in Workers, pc[w] = "finalizing", WriteResult(w)
  PROVE  Lifecycle!Next
<1>0. TypeOK /\ WorkerInv(w)
  BY DEF SafetyInv, TypeInv
<1>1. PICK s \in Scans : s = scan[w]
  BY DEF SafetyInv, TypeInv, ControlOK, Busy
<1>2. PICK to : to = mstatus[w]
  OBVIOUS
<1>3. /\ status[s] = "PROCESSING" /\ to \in {"COMPLETED", "FAILED"}
      /\ error[s] = NoError
      /\ to = "FAILED" => merror[w] \in {StageErrorMessage, UnexpectedStage, UnexpectedPipeline}
  BY <1>0, <1>1, <1>2, SameRows
     DEF WorkerInv, Executing, PipelineAt, SafetyInv, OutcomeIsConsistent, Outcome,
         TerminalStatus, Lifecycle!FailedAt, Lifecycle!RowMissing
<1>4. /\ status' = [status EXCEPT ![s] = to]
      /\ stages' = [stages EXCEPT ![s] = stages'[s]]
      /\ error' = [error EXCEPT ![s] = error'[s]]
      /\ status'[s] = to
      /\ to = "FAILED" => error'[s] = merror[w]
  BY <1>0, <1>1, <1>2 DEF TypeOK, WriteResult
<1>5. Outcome(s)'
  BY DEF SafetyInv, OutcomeIsConsistent
<1>6. Lifecycle!Finish(s)
  <2>1. CASE to = "COMPLETED"
    BY <1>3, <1>4, <1>5, <2>1 DEF Outcome, Lifecycle!Finish
  <2>2. CASE to = "FAILED"
    <3>1. error'[s] \notin {NoError, RejectedError}
      BY <1>3, <1>4, <2>2
         DEF NoError, RejectedError, StageErrorMessage, UnexpectedStage, UnexpectedPipeline
    <3>2. Lifecycle!Failure(s, stages'[s], error'[s])
      BY <1>4, <1>5, <2>2, <3>1 DEF Outcome
    <3> QED BY <1>3, <1>4, <2>2, <3>2 DEF Lifecycle!Finish
  <2> QED BY <1>3, <2>1, <2>2
<1> QED BY <1>6 DEF Lifecycle!Next

LEMMA StepRefines ==
  SingleTrigger /\ SafetyInv /\ [Next]_vars => [Lifecycle!Next]_(Lifecycle!vars)
<1> SUFFICES ASSUME SingleTrigger, SafetyInv, [Next]_vars
             PROVE  [Lifecycle!Next]_(Lifecycle!vars)
  OBVIOUS
<1>1. SafetyInv'
  BY SafetyStep
<1>2. ASSUME NEW s \in Scans, CreateScan(s) PROVE Lifecycle!Next
  BY <1>2 DEF CreateScan, Lifecycle!Create, Lifecycle!Next
<1>3. ASSUME NEW t \in Triggers, CallerStep(t)
      PROVE  [Lifecycle!Next]_(Lifecycle!vars)
  <2>1. CASE TriggerCommit(t)
    BY <2>1, CallerCommitRefines
  <2>2. CASE ~TriggerCommit(t)
    BY <1>3, <2>2
       DEF CallerStep, LoadForTrigger, TriggerStep, TriggerTransition, TriggerAbort,
           rows, Lifecycle!vars
  <2> QED BY <2>1, <2>2
<1>4. ASSUME NEW w \in Workers, CommitClaim(w) \/ ClaimAckLost(w) PROVE Lifecycle!Next
  BY <1>4, ClaimRefines
<1>5. ASSUME NEW w \in Workers, CommitResult(w) \/ ResultAckLost(w) PROVE Lifecycle!Next
  BY <1>1, <1>5, ResultRefines DEF CommitResult, ResultAckLost, Goto
<1>6. ASSUME NEW w \in Workers, WorkerStep(w) \/ FaultStep(w) \/ Restart(w),
             ~(CommitClaim(w) \/ ClaimAckLost(w)), ~(CommitResult(w) \/ ResultAckLost(w))
      PROVE  UNCHANGED rows
  BY <1>6
     DEF WorkerStep, FaultStep, Restart, Claim, BeginExecution, LoadForExecution, RefuseExecution,
         SkipStage, StartStage, StageRowMissing, FinishStage, FailStage, CompleteScan,
         FailScan, Finalize, DatabaseError, Stop, Hang
<1>7. CASE UNCHANGED vars
  BY <1>7 DEF vars, Lifecycle!vars
<1> QED BY <1>2, <1>3, <1>4, <1>5, <1>6, <1>7 DEF Next, rows, Lifecycle!vars

\* When no two callers submit the same scan, the committed rows move only as
\* ScanLifecycle allows: through the table of domain/scan.py, claimed once, and
\* finished in one step by the single commit of execution.py.
THEOREM LifecycleImplemented == SingleTrigger => (Spec => ImplementsLifecycle)
<1> SUFFICES ASSUME SingleTrigger PROVE Spec => Lifecycle!Spec
  BY DEF ImplementsLifecycle
<1>1. SafetyInv /\ [Next]_vars => SafetyInv'
  BY SafetyStep
<1>2. SafetyInv /\ [Next]_vars => [Lifecycle!Next]_(Lifecycle!vars)
  BY StepRefines
<1> QED BY <1>1, <1>2, SafetyInit, InitRefines, PTL DEF Spec, Lifecycle!Spec

=============================================================================
