------------------------ MODULE ScanExecutionProofs -------------------------
(***************************************************************************)
(* Proofs about ScanExecution, for any number of scans, workers, callers,  *)
(* stages and faults.                                                      *)
(***************************************************************************)
EXTENDS ScanExecution, TLAPS

\* A worker between the claim of a scan and the end of its transaction.
Busy(w) == pc[w] \notin {"idle", "stopped"}

\* TypeOK alone is not inductive: that a stage index stays in range, and that a
\* busy worker has a scan, depend on where the worker is.
ControlOK ==
  \A w \in Workers :
    /\ Busy(w) => scan[w] \in Scans
    /\ pc[w] = "inStage" => next[w] \in StageIndex

TypeInv == TypeOK /\ ControlOK

-----------------------------------------------------------------------------
(* Types.                                                                  *)

LEMMA RowTypes ==
  /\ NoRow \in StageRow /\ Pending \in StageRow /\ Running \in StageRow
  /\ Completed \in StageRow /\ Skipped \in StageRow
  /\ \A m \in Messages : StageFailed(m) \in StageRow
  /\ NoError \in Messages /\ StageErrorMessage \in Messages
  /\ UnexpectedStage \in Messages /\ UnexpectedPipeline \in Messages
  /\ RejectedError \in Messages
BY DEF NoRow, Pending, Running, Completed, Skipped, StageFailed, StageRow, Messages,
       NoError, StageErrorMessage, UnexpectedStage, UnexpectedPipeline, RejectedError

LEMMA FreshTypes ==
  /\ \A s \in Scans : FreshStages(s) \in [StageIndex -> StageRow]
  /\ NoStages \in [StageIndex -> StageRow]
  /\ NoRequest \in RequestType
  /\ 1 \in 1 .. (StageCount + 1)
<1>1. \A s \in Scans : FreshStages(s) \in [StageIndex -> StageRow]
  BY RowTypes DEF FreshStages
<1>2. NoStages \in [StageIndex -> StageRow]
  BY RowTypes DEF NoStages
<1>3. NoRequest \in RequestType
  BY RowTypes DEF NoRequest, RequestType
<1>4. 1 \in 1 .. (StageCount + 1)
  BY ConstantsAssumption
<1> QED BY <1>1, <1>2, <1>3, <1>4

LEMMA ReleasedType ==
  ASSUME NEW lock \in [Scans -> Sessions \cup {Free}], NEW x
  PROVE  Released(lock, x) \in [Scans -> Sessions \cup {Free}]
BY DEF Released

LEMMA TypeInit == Init => TypeInv
<1> SUFFICES ASSUME Init PROVE TypeInv
  OBVIOUS
<1>1. TypeOK
  BY FreshTypes, RowTypes DEF Init, TypeOK, WorkerPC
<1>2. ControlOK
  BY DEF Init, ControlOK, Busy
<1> QED BY <1>1, <1>2 DEF TypeInv

\* Closing a session keeps the types, and leaves no scan in hand.
LEMMA CloseSessionType ==
  ASSUME TypeOK, NEW w \in Workers, CloseSession(w)
  PROVE  /\ scanLock' \in [Scans -> Sessions \cup {Free}]
         /\ stageLock' \in [Scans -> Sessions \cup {Free}]
         /\ scan' \in [Workers -> Scans \cup {NoScan}]
         /\ next' \in [Workers -> 1 .. (StageCount + 1)]
         /\ mstatus' \in [Workers -> ScanStatus \cup {"ABSENT"}]
         /\ mstages' \in [Workers -> [StageIndex -> StageRow]]
         /\ merror' \in [Workers -> Messages]
         /\ \A v \in Workers \ {w} : scan'[v] = scan[v] /\ next'[v] = next[v]
BY FreshTypes, RowTypes, ReleasedType DEF TypeOK, CloseSession, Unlock

LEMMA WriteResultType ==
  ASSUME TypeOK, NEW w \in Workers, WriteResult(w)
  PROVE  /\ status' \in [Scans -> ScanStatus \cup {"ABSENT"}]
         /\ stages' \in [Scans -> [StageIndex -> StageRow]]
         /\ error' \in [Scans -> Messages]
BY DEF TypeOK, WriteResult

LEMMA MarkStageType ==
  ASSUME TypeOK, NEW w \in Workers, NEW row \in StageRow, NEW advance \in {0, 1},
         next[w] \in StageIndex, MarkStage(w, row, advance)
  PROVE  /\ stageLock' \in [Scans -> Sessions \cup {Free}]
         /\ next' \in [Workers -> 1 .. (StageCount + 1)]
         /\ mstages' \in [Workers -> [StageIndex -> StageRow]]
         /\ next' = [next EXCEPT ![w] = @ + advance]
<1>1. StageCount \in Nat /\ StageIndex = 1 .. StageCount /\ w \in Sessions
  BY ConstantsAssumption DEF StageIndex, Sessions
<1>2. next' \in [Workers -> 1 .. (StageCount + 1)]
  BY <1>1 DEF TypeOK, MarkStage
<1>3. mstages' \in [Workers -> [StageIndex -> StageRow]]
  BY DEF TypeOK, MarkStage
<1>4. stageLock' \in [Scans -> Sessions \cup {Free}]
  BY <1>1 DEF TypeOK, MarkStage
<1> QED BY <1>2, <1>3, <1>4 DEF MarkStage

LEMMA CallerType ==
  ASSUME TypeInv, NEW t \in Triggers, CallerStep(t)
  PROVE  TypeInv'
<1> USE DEF TypeInv
<1>1. ControlOK' /\ pc' = pc /\ scan' = scan /\ next' = next /\ mstatus' = mstatus
      /\ mstages' = mstages /\ merror' = merror /\ faults' = faults /\ stages' = stages
  BY DEF CallerStep, LoadForTrigger, TriggerStep, TriggerTransition, TriggerCommit,
         TriggerAbort, memory, rows, ControlOK, Busy
<1>2. ASSUME NEW s \in Scans, LoadForTrigger(t, s) PROVE TypeOK'
  BY <1>1, <1>2 DEF TypeOK, LoadForTrigger, rows, locks, RequestType
<1>3. ASSUME NEW to \in ScanStatus, NEW m \in Messages, TriggerTransition(t, to, m)
      PROVE  TypeOK'
  <2>1. request' \in [Triggers -> RequestType]
    BY <1>3 DEF TypeOK, TriggerTransition, RequestType
  <2>2. scanLock' \in [Scans -> Sessions \cup {Free}]
    BY <1>3 DEF TypeOK, TriggerTransition, Sessions
  <2> QED BY <1>1, <1>3, <2>1, <2>2 DEF TypeOK, TriggerTransition, rows
<1>4. CASE TriggerCommit(t)
  <2>1. status' \in [Scans -> ScanStatus \cup {"ABSENT"}] /\ error' \in [Scans -> Messages]
    BY <1>4 DEF TypeOK, TriggerCommit, RequestType
  <2> QED BY <1>1, <1>4, <2>1, FreshTypes, ReleasedType DEF TypeOK, TriggerCommit, Unlock
<1>5. CASE TriggerAbort(t)
  BY <1>1, <1>5, FreshTypes, ReleasedType DEF TypeOK, TriggerAbort, Unlock, rows
<1> QED BY <1>1, <1>2, <1>3, <1>4, <1>5, RowTypes DEF CallerStep, TriggerStep, ScanStatus

LEMMA BeginsOrRefuses ==
  ASSUME NEW w \in Workers
  PROVE  BeginExecution(w) <=> LoadForExecution(w) \/ RefuseExecution(w)
BY DEF BeginExecution, LoadForExecution, RefuseExecution, Goto

LEMMA WorkerType ==
  ASSUME TypeInv, NEW w \in Workers, WorkerStep(w)
  PROVE  TypeInv'
<1> USE DEF TypeInv
<1>0. w \in Sessions /\ "PROCESSING" \in ScanStatus /\ TerminalStatus \subseteq ScanStatus
  BY DEF Sessions, ScanStatus, TerminalStatus
<1>1. ASSUME NEW s \in Scans, Claim(w, s) PROVE TypeInv'
  <2>1. TypeOK'
    BY <1>0, <1>1 DEF TypeOK, Claim, Goto, WorkerPC, rows, callers
  <2>2. ControlOK'
    BY <1>1 DEF TypeOK, ControlOK, Busy, Claim, Goto
  <2> QED BY <2>1, <2>2
<1>2. CASE CommitClaim(w)
  <2>1. TypeOK'
    BY <1>2, ReleasedType DEF TypeOK, CommitClaim, Goto, Unlock, WorkerPC, memory, callers
  <2>2. ControlOK'
    BY <1>2 DEF TypeOK, ControlOK, Busy, CommitClaim, Goto, memory
  <2> QED BY <2>1, <2>2
<1>3. CASE LoadForExecution(w)
  <2>1. scan[w] \in Scans
    BY <1>3 DEF ControlOK, Busy, LoadForExecution, Goto
  <2>2. TypeOK'
    BY <1>3, <2>1 DEF TypeOK, LoadForExecution, Goto, WorkerPC, rows, locks, callers
  <2>3. ControlOK'
    BY <1>3 DEF TypeOK, ControlOK, Busy, LoadForExecution, Goto
  <2> QED BY <2>2, <2>3
<1>4. CASE RefuseExecution(w)
  <2>1. TypeOK'
    BY <1>4, CloseSessionType DEF TypeOK, RefuseExecution, Goto, WorkerPC, rows, callers
  <2>2. ControlOK'
    BY <1>4, CloseSessionType DEF TypeOK, ControlOK, Busy, RefuseExecution, Goto
  <2> QED BY <2>1, <2>2
<1>5. CASE SkipStage(w)
  <2>1. TypeOK'
    BY <1>5, MarkStageType, RowTypes DEF TypeOK, SkipStage, Goto, WorkerPC, rows, callers
  <2>2. ControlOK'
    BY <1>5 DEF TypeOK, ControlOK, Busy, SkipStage, MarkStage, Goto
  <2> QED BY <2>1, <2>2
<1>6. CASE StartStage(w)
  <2>1. TypeOK'
    BY <1>6, MarkStageType, RowTypes DEF TypeOK, StartStage, Goto, WorkerPC, rows, callers
  <2>2. next'[w] = next[w]
    BY <1>6, ConstantsAssumption DEF TypeOK, StartStage, MarkStage
  <2>3. ControlOK'
    BY <1>6, <2>2 DEF TypeOK, ControlOK, Busy, StartStage, MarkStage, Goto
  <2> QED BY <2>1, <2>3
<1>7. CASE StageRowMissing(w)
  <2>1. TypeOK'
    BY <1>7, RowTypes DEF TypeOK, StageRowMissing, Goto, WorkerPC, rows, locks, callers
  <2>2. ControlOK'
    BY <1>7 DEF TypeOK, ControlOK, Busy, StageRowMissing, Goto
  <2> QED BY <2>1, <2>2
<1>8. CASE FinishStage(w)
  <2>1. next[w] \in StageIndex
    BY <1>8 DEF ControlOK, FinishStage, Goto
  <2>2. TypeOK'
    BY <1>8, <2>1, MarkStageType, RowTypes DEF TypeOK, FinishStage, Goto, WorkerPC, rows, callers
  <2>3. ControlOK'
    BY <1>8 DEF TypeOK, ControlOK, Busy, FinishStage, MarkStage, Goto
  <2> QED BY <2>2, <2>3
<1>9. ASSUME NEW m \in {StageErrorMessage, UnexpectedStage}, FailStage(w, m) PROVE TypeInv'
  <2>1. next[w] \in StageIndex /\ m \in Messages
    BY <1>9, RowTypes DEF ControlOK, FailStage, Goto
  <2>2. TypeOK'
    BY <1>9, <2>1, MarkStageType, RowTypes DEF TypeOK, FailStage, Goto, WorkerPC, rows, callers
  <2>3. ControlOK'
    BY <1>9 DEF TypeOK, ControlOK, Busy, FailStage, MarkStage, Goto
  <2> QED BY <2>2, <2>3
<1>10. ASSUME NEW from \in {"running", "failing"}, NEW to \in TerminalStatus, Finalize(w, from, to)
       PROVE  TypeInv'
  <2>1. TypeOK'
    BY <1>0, <1>10 DEF TypeOK, Finalize, Goto, WorkerPC, rows, callers
  <2>2. ControlOK'
    BY <1>10 DEF TypeOK, ControlOK, Busy, Finalize, Goto
  <2> QED BY <2>1, <2>2
<1>11. CASE CommitResult(w)
  <2>1. TypeOK'
    BY <1>11, CloseSessionType, WriteResultType DEF TypeOK, CommitResult, Goto, WorkerPC, callers
  <2>2. ControlOK'
    BY <1>11, CloseSessionType DEF TypeOK, ControlOK, Busy, CommitResult, Goto
  <2> QED BY <2>1, <2>2
<1> QED
  BY <1>1, <1>2, <1>3, <1>4, <1>5, <1>6, <1>7, <1>8, <1>9, <1>10, <1>11, BeginsOrRefuses
  DEF WorkerStep, CompleteScan, FailScan, TerminalStatus

LEMMA FaultType ==
  ASSUME TypeInv, NEW w \in Workers, FaultStep(w) \/ Restart(w)
  PROVE  TypeInv'
<1> USE DEF TypeInv
<1>1. CASE Restart(w)
  BY <1>1 DEF TypeOK, ControlOK, Busy, Restart, Goto, WorkerPC, rows, locks, memory, callers
<1>2. CASE Hang(w)
  BY <1>2 DEF TypeOK, ControlOK, Busy, Hang, Fault, Goto, WorkerPC, rows, locks, memory, callers
<1>3. CASE FaultStep(w) /\ ~Hang(w)
  <2>1. CloseSession(w) /\ faults' = faults + 1 /\ UNCHANGED callers
        /\ \E to \in {"idle", "stopped"} : pc' = [pc EXCEPT ![w] = to]
    BY <1>3 DEF FaultStep, DatabaseError, ClaimAckLost, ResultAckLost, Stop, Fault, Goto
  <2>2. /\ status' \in [Scans -> ScanStatus \cup {"ABSENT"}]
        /\ stages' \in [Scans -> [StageIndex -> StageRow]]
        /\ error' \in [Scans -> Messages]
    <3>1. CASE DatabaseError(w) \/ Stop(w)
      BY <3>1 DEF TypeOK, DatabaseError, Stop, rows
    <3>2. CASE ClaimAckLost(w)
      BY <3>2 DEF TypeOK, ClaimAckLost
    <3>3. CASE ResultAckLost(w)
      BY <3>3, WriteResultType DEF ResultAckLost
    <3> QED BY <1>3, <3>1, <3>2, <3>3 DEF FaultStep
  <2>3. TypeOK'
    BY <2>1, <2>2, CloseSessionType DEF TypeOK, WorkerPC, callers
  <2>4. ControlOK'
    BY <2>1, CloseSessionType DEF TypeOK, ControlOK, Busy
  <2> QED BY <2>3, <2>4
<1> QED BY <1>1, <1>2, <1>3

LEMMA TypeStep == TypeInv /\ [Next]_vars => TypeInv'
<1> SUFFICES ASSUME TypeInv, [Next]_vars PROVE TypeInv'
  OBVIOUS
<1>1. ASSUME NEW s \in Scans, CreateScan(s) PROVE TypeInv'
  BY <1>1 DEF TypeInv, TypeOK, ControlOK, Busy, CreateScan, ScanStatus, locks, memory, callers
<1>2. CASE UNCHANGED vars
  BY <1>2 DEF TypeInv, TypeOK, ControlOK, Busy, vars
<1> QED BY <1>1, <1>2, CallerType, WorkerType, FaultType DEF Next

\* Every variable keeps its type, and a worker's stage index its range, under any
\* interleaving of callers, workers and faults.
THEOREM TypeCorrect == Spec => []TypeOK
<1>1. TypeInv => TypeOK
  BY DEF TypeInv
<1> QED BY <1>1, TypeInit, TypeStep, PTL DEF Spec

=============================================================================
