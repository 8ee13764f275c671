----------------------- MODULE ScanExecutionFaultProofs -----------------------
(***************************************************************************)
(* Proofs about ScanExecution that need no SingleTrigger: whatever callers *)
(* race and whatever fails, the row locks keep pipelines apart, and a      *)
(* fault strands at most one scan.                                         *)
(***************************************************************************)
EXTENDS ScanExecutionProofs, FiniteSetTheorems

-----------------------------------------------------------------------------
(* The locks on stage rows.                                                *)

\* Once a worker's transaction has written a stage row it holds the lock until it
\* ends; a worker that ended or has not begun one is at its first stage.
Holds(w) ==
  /\ pc[w] \in {"idle", "stopped", "claiming"} => next[w] = 1
  /\ Marked(w) => stageLock[scan[w]] = w

LockInv ==
  /\ TypeInv
  /\ \A w \in Workers : Holds(w)

LEMMA LocksExclude == LockInv => PipelinesExclude
<1> SUFFICES ASSUME LockInv, NEW v \in Workers, NEW w \in Workers,
                    v # w, scan[v] = scan[w], Marked(v), Marked(w)
             PROVE  FALSE
  BY DEF PipelinesExclude
<1> QED BY DEF LockInv, Holds

\* A worker does not notice a step that leaves its place and its lock alone.
LEMMA HoldsFrame ==
  ASSUME NEW v \in Workers, Holds(v),
         pc'[v] = pc[v], scan'[v] = scan[v], next'[v] = next[v],
         Marked(v) => stageLock'[scan[v]] = stageLock[scan[v]]
  PROVE  Holds(v)'
BY DEF Holds, Marked

\* The end of a transaction of w, or of a caller, releases no lock of v.
LEMMA UnlockKeeps ==
  ASSUME LockInv, NEW x \in Sessions, Unlock(x), NEW v \in Workers, v # x, Marked(v)
  PROVE  stageLock'[scan[v]] = stageLock[scan[v]]
<1>1. scan[v] \in Scans
  BY DEF LockInv, TypeInv, ControlOK, Busy, Marked, Holds, TypeOK
<1>2. stageLock[scan[v]] = v
  BY DEF LockInv, Holds
<1> QED BY <1>1, <1>2 DEF Unlock, Released

LEMMA CallerLocks ==
  ASSUME LockInv, NEW t \in Triggers, CallerStep(t)
  PROVE  LockInv'
<1>1. /\ UNCHANGED <<pc, scan, next>>
      /\ stageLock' = stageLock \/ Unlock(t)
  BY DEF CallerStep, LoadForTrigger, TriggerStep, TriggerTransition, TriggerCommit,
         TriggerAbort, memory, locks
<1>2. ASSUME NEW v \in Workers PROVE Holds(v)'
  <2>1. Marked(v) => stageLock'[scan[v]] = stageLock[scan[v]]
    BY <1>1, UnlockKeeps, ConstantsAssumption DEF Sessions
  <2> QED BY <1>1, <2>1, HoldsFrame DEF LockInv
<1> QED BY <1>2, CallerType DEF LockInv

\* A step that marks a stage row of the scan of w.
LEMMA MarkLocks ==
  ASSUME LockInv, NEW w \in Workers, NEW row, NEW advance, MarkStage(w, row, advance),
         UNCHANGED scan, \A v \in Workers \ {w} : pc'[v] = pc[v],
         pc'[w] \in {"running", "inStage", "failing"}, Busy(w), TypeInv'
  PROVE  LockInv'
<1>0. TypeOK /\ scan[w] \in Scans
  BY DEF LockInv, TypeInv, ControlOK
<1>1. stageLock'[scan[w]] = w
  BY <1>0 DEF TypeOK, MarkStage
<1>2. Holds(w)'
  BY <1>1 DEF Holds
<1>3. ASSUME NEW v \in Workers \ {w} PROVE Holds(v)'
  <2>1. next'[v] = next[v]
    BY <1>0 DEF TypeOK, MarkStage
  <2>2. Marked(v) => stageLock'[scan[v]] = stageLock[scan[v]]
    <3> SUFFICES ASSUME Marked(v) PROVE stageLock'[scan[v]] = stageLock[scan[v]]
      OBVIOUS
    <3>1. stageLock[scan[v]] = v
      BY DEF LockInv, Holds
    <3>2. scan[v] # scan[w]
      BY <3>1, ConstantsAssumption DEF MarkStage, Lockable
    <3> QED BY <1>0, <3>2 DEF TypeOK, MarkStage
  <2> QED BY <2>1, <2>2, HoldsFrame DEF LockInv
<1> QED BY <1>2, <1>3 DEF LockInv

\* A step that ends the session of w.
LEMMA CloseLocks ==
  ASSUME LockInv, NEW w \in Workers, CloseSession(w), TypeInv',
         NEW to \in {"idle", "stopped"}, pc' = [pc EXCEPT ![w] = to]
  PROVE  LockInv'
<1>0. TypeOK
  BY DEF LockInv, TypeInv
<1>1. Holds(w)'
  BY <1>0 DEF TypeOK, CloseSession, Holds, Marked
<1>2. ASSUME NEW v \in Workers \ {w} PROVE Holds(v)'
  <2>1. pc'[v] = pc[v] /\ scan'[v] = scan[v] /\ next'[v] = next[v]
    BY <1>0 DEF TypeOK, CloseSession
  <2>2. Marked(v) => stageLock'[scan[v]] = stageLock[scan[v]]
    BY UnlockKeeps DEF CloseSession, Sessions
  <2> QED BY <2>1, <2>2, HoldsFrame DEF LockInv
<1> QED BY <1>1, <1>2 DEF LockInv

\* A step that leaves the locks on stage rows and the stage of every worker alone.
LEMMA QuietLocks ==
  ASSUME LockInv, NEW w \in Workers, TypeInv', UNCHANGED <<stageLock, next>>,
         \A v \in Workers \ {w} : pc'[v] = pc[v] /\ scan'[v] = scan[v],
         \/ pc[w] = "idle" /\ pc'[w] = "claiming"
         \/ /\ scan'[w] = scan[w]
            /\ pc'[w] = "inStage" => pc[w] = "inStage"
            /\ pc'[w] = "hung" => pc[w] = "inStage"
            /\ pc'[w] \in {"idle", "stopped", "claiming"} => pc[w] \in {"idle", "stopped"}
  PROVE  LockInv'
<1>0. TypeOK
  BY DEF LockInv, TypeInv
<1>1. Holds(w)'
  BY <1>0, ConstantsAssumption DEF LockInv, Holds, Marked, TypeOK
<1>2. \A v \in Workers \ {w} : Holds(v)'
  BY HoldsFrame DEF LockInv
<1> QED BY <1>1, <1>2 DEF LockInv

LEMMA WorkerLocks ==
  ASSUME LockInv, NEW w \in Workers, WorkerStep(w) \/ FaultStep(w) \/ Restart(w)
  PROVE  LockInv'
<1>0. TypeInv /\ TypeOK /\ TypeInv'
  BY WorkerType, FaultType DEF LockInv, TypeInv
<1>1. CASE SkipStage(w) \/ StartStage(w) \/ FinishStage(w)
           \/ \E m \in {StageErrorMessage, UnexpectedStage} : FailStage(w, m)
  <2>1. PICK row, advance : MarkStage(w, row, advance)
    BY <1>1 DEF SkipStage, StartStage, FinishStage, FailStage
  <2>2. /\ UNCHANGED scan /\ Busy(w)
        /\ \A v \in Workers \ {w} : pc'[v] = pc[v]
        /\ pc'[w] \in {"running", "inStage", "failing"}
    BY <1>0, <1>1 DEF TypeOK, Busy, Goto, SkipStage, StartStage, FinishStage, FailStage
  <2> QED BY <1>0, <2>1, <2>2, MarkLocks
<1>2. CASE RefuseExecution(w) \/ CommitResult(w) \/ (FaultStep(w) /\ ~Hang(w))
  <2>1. /\ CloseSession(w)
        /\ \E to \in {"idle", "stopped"} : pc' = [pc EXCEPT ![w] = to]
    BY <1>2 DEF RefuseExecution, CommitResult, FaultStep, DatabaseError, ClaimAckLost,
                ResultAckLost, Stop, Goto
  <2> QED BY <1>0, <2>1, CloseLocks
<1>3. CASE CommitClaim(w)
  <2>1. /\ UNCHANGED <<scan, next>> /\ Unlock(w)
        /\ pc[w] = "claiming" /\ pc'[w] = "claimed"
        /\ \A v \in Workers \ {w} : pc'[v] = pc[v]
    BY <1>0, <1>3 DEF TypeOK, CommitClaim, Goto, memory
  <2>2. Holds(w)'
    BY <2>1 DEF LockInv, Holds, Marked
  <2>3. \A v \in Workers \ {w} : Holds(v)'
    BY <2>1, UnlockKeeps, HoldsFrame DEF LockInv, Sessions
  <2> QED BY <1>0, <2>2, <2>3 DEF LockInv
<1>4. CASE \/ \E s \in Scans : Claim(w, s)
           \/ LoadForExecution(w) \/ StageRowMissing(w)
           \/ CompleteScan(w) \/ FailScan(w) \/ Hang(w) \/ Restart(w)
  <2>1. /\ UNCHANGED <<stageLock, next>>
        /\ \A v \in Workers \ {w} : pc'[v] = pc[v] /\ scan'[v] = scan[v]
        /\ \/ pc[w] = "idle" /\ pc'[w] = "claiming"
           \/ /\ scan'[w] = scan[w]
              /\ pc'[w] = "inStage" => pc[w] = "inStage"
              /\ pc'[w] = "hung" => pc[w] = "inStage"
              /\ pc'[w] \in {"idle", "stopped", "claiming"} => pc[w] \in {"idle", "stopped"}
    BY <1>0, <1>4
       DEF TypeOK, Goto, Claim, LoadForExecution, StageRowMissing, CompleteScan, FailScan,
           Finalize, Hang, Restart, locks, memory
  <2> QED BY <1>0, <2>1, QuietLocks
<1> QED BY <1>1, <1>2, <1>3, <1>4, BeginsOrRefuses DEF WorkerStep, FaultStep

LEMMA LockStep == LockInv /\ [Next]_vars => LockInv'
<1> SUFFICES ASSUME LockInv, [Next]_vars PROVE LockInv'
  OBVIOUS
<1>1. CASE UNCHANGED <<stageLock, pc, scan, next>> /\ TypeInv'
  BY <1>1, HoldsFrame DEF LockInv
<1>2. ASSUME NEW s \in Scans, CreateScan(s) PROVE LockInv'
  BY <1>1, <1>2, TypeStep DEF LockInv, CreateScan, locks, memory
<1>3. CASE UNCHANGED vars
  BY <1>1, <1>3, TypeStep DEF LockInv, vars
<1> QED BY <1>2, <1>3, CallerLocks, WorkerLocks DEF Next

\* Two pipelines of one scan never write at the same time, however often callers
\* have queued it (ScanService.transition checks no committed status).
THEOREM PipelinesApart == Spec => []PipelinesExclude
<1>1. Init => LockInv
  BY TypeInit DEF Init, LockInv, Holds, Marked
<1> QED BY <1>1, LockStep, LocksExclude, PTL DEF Spec

-----------------------------------------------------------------------------
(* What faults strand.                                                     *)

\* No caller moves a scan to PROCESSING, what a pipeline ends with is final, and an
\* idle worker has no scan.
Placed(w) ==
  /\ pc[w] = "finalizing" => mstatus[w] \in TerminalStatus
  /\ pc[w] \in {"idle", "stopped"} => scan[w] = NoScan

StrandInv ==
  /\ TypeInv
  /\ \A t \in Triggers : tpc[t] = "dirty" => request[t].status # "PROCESSING"
  /\ \A w \in Workers : Placed(w)
  /\ FaultsStrandAtMostOneEach

\* The parts of StrandInv that say where callers and workers stand.
LEMMA StrandControl ==
  ASSUME StrandInv, Next
  PROVE  /\ TypeInv'
         /\ \A t \in Triggers : tpc'[t] = "dirty" => request'[t].status # "PROCESSING"
         /\ \A w \in Workers : Placed(w)'
<1>0. TypeInv /\ TypeOK /\ TypeInv'
  BY TypeStep DEF StrandInv, TypeInv
<1>1. ASSUME NEW s \in Scans, CreateScan(s)
      PROVE  UNCHANGED <<tpc, request, pc, scan, mstatus>>
  BY <1>1 DEF CreateScan, memory, callers
<1>2. ASSUME NEW u \in Triggers, CallerStep(u)
      PROVE  /\ UNCHANGED <<pc, scan, mstatus>>
             /\ \A t \in Triggers : tpc'[t] = "dirty" => request'[t].status # "PROCESSING"
  <2>1. UNCHANGED <<pc, scan, mstatus>>
    BY <1>2 DEF CallerStep, LoadForTrigger, TriggerStep, TriggerTransition, TriggerCommit,
                TriggerAbort, memory
  <2>2. /\ \A t \in Triggers \ {u} : tpc'[t] = tpc[t] /\ request'[t] = request[t]
        /\ tpc'[u] = "dirty" => request'[u].status \in {"VALIDATING", "QUEUED", "FAILED"}
    BY <1>0, <1>2 DEF TypeOK, CallerStep, LoadForTrigger, TriggerStep, TriggerTransition,
                      TriggerCommit, TriggerAbort
  <2> QED BY <2>1, <2>2 DEF StrandInv
<1>3. ASSUME NEW w \in Workers, WorkerStep(w) \/ FaultStep(w) \/ Restart(w)
      PROVE  /\ UNCHANGED <<tpc, request>>
             /\ \A v \in Workers : Placed(v)'
  <2>1. UNCHANGED <<tpc, request>>
    BY <1>3
       DEF WorkerStep, FaultStep, Restart, Claim, CommitClaim, BeginExecution,
           LoadForExecution,
           RefuseExecution, SkipStage, StartStage, StageRowMissing, FinishStage, FailStage,
           CompleteScan, FailScan, Finalize, CommitResult, DatabaseError, ClaimAckLost,
           ResultAckLost, Stop, Hang, callers
  <2>2. \A v \in Workers \ {w} :
          pc'[v] = pc[v] /\ scan'[v] = scan[v] /\ mstatus'[v] = mstatus[v]
    BY <1>0, <1>3
       DEF TypeOK, WorkerStep, FaultStep, Restart, Claim, CommitClaim, BeginExecution,
           LoadForExecution,
           RefuseExecution, SkipStage, StartStage, StageRowMissing, FinishStage, FailStage,
           CompleteScan, FailScan, Finalize, CommitResult, DatabaseError, ClaimAckLost,
           ResultAckLost, Stop, Hang, Goto, CloseSession, memory
  <2>3. Placed(w)'
    BY <1>0, <1>3
       DEF StrandInv, Placed, TypeOK, WorkerStep, FaultStep, Restart, Claim, CommitClaim, BeginExecution,
           LoadForExecution,
           RefuseExecution, SkipStage, StartStage, StageRowMissing, FinishStage, FailStage,
           CompleteScan, FailScan, Finalize, CommitResult, DatabaseError, ClaimAckLost,
           ResultAckLost, Stop, Hang, Goto, CloseSession, TerminalStatus, memory
  <2> QED BY <2>1, <2>2, <2>3 DEF StrandInv, Placed
<1>4. UNCHANGED <<pc, scan, mstatus>> => \A w \in Workers : Placed(w)'
  BY DEF StrandInv, Placed
<1>5. UNCHANGED <<tpc, request>> =>
        \A t \in Triggers : tpc'[t] = "dirty" => request'[t].status # "PROCESSING"
  BY DEF StrandInv
<1> QED BY <1>0, <1>1, <1>2, <1>3, <1>4, <1>5 DEF Next

\* A step other than a fault strands nothing: the scan it makes PROCESSING stays
\* in hand, and the scan it lets go is not PROCESSING.
LEMMA NoFaultStrands ==
  ASSUME StrandInv, \/ \E s \in Scans : CreateScan(s)
                    \/ \E t \in Triggers : CallerStep(t)
                    \/ \E w \in Workers : WorkerStep(w) \/ Restart(w) \/ Hang(w)
  PROVE  Stranded' \subseteq Stranded
<1>0. TypeInv /\ TypeOK
  BY DEF StrandInv, TypeInv
<1> SUFFICES ASSUME NEW r \in Scans, status'[r] = "PROCESSING", ~InHand(r)',
                    InHand(r) \/ status[r] # "PROCESSING"
             PROVE  FALSE
  BY DEF Stranded
<1>1. ASSUME NEW s \in Scans, CreateScan(s) PROVE FALSE
  BY <1>0, <1>1 DEF TypeOK, CreateScan, InHand, memory
<1>2. ASSUME NEW t \in Triggers, CallerStep(t) PROVE FALSE
  <2>1. UNCHANGED scan
    BY <1>2 DEF CallerStep, LoadForTrigger, TriggerStep, TriggerTransition, TriggerCommit,
                TriggerAbort, memory
  <2>2. status'[r] = "PROCESSING" => status[r] = "PROCESSING"
    BY <1>0, <1>2 DEF StrandInv, TypeOK, CallerStep, LoadForTrigger, TriggerStep,
                      TriggerTransition, TriggerCommit, TriggerAbort, rows
  <2> QED BY <2>1, <2>2 DEF InHand
<1>3. ASSUME NEW w \in Workers, RefuseExecution(w) PROVE FALSE
  BY <1>0, <1>3 DEF TypeOK, InHand, RefuseExecution, CloseSession, rows
<1>4. ASSUME NEW w \in Workers, CommitResult(w) PROVE FALSE
  BY <1>0, <1>4 DEF StrandInv, Placed, TypeInv, ControlOK, Busy, TypeOK, InHand, CommitResult,
                    CloseSession, WriteResult, Goto, TerminalStatus
<1>5. ASSUME NEW w \in Workers, (\E s \in Scans : Claim(w, s)) PROVE FALSE
  <2>1. PICK s \in Scans : Claim(w, s)
    BY <1>5
  <2>2. status' = status /\ pc[w] = "idle" /\ status[s] = "QUEUED"
    BY <2>1 DEF Claim, Goto, rows, OldestOf, Claimable
  <2>3. PICK v \in Workers : scan[v] = r
    BY <2>2 DEF InHand
  <2>4. CASE v # w
    BY <1>0, <2>1, <2>3, <2>4 DEF TypeOK, InHand, Claim
  <2>5. CASE v = w
    BY <2>2, <2>3, <2>5, ConstantsAssumption DEF StrandInv, Placed
  <2> QED BY <2>4, <2>5
<1>6. ASSUME NEW w \in Workers, CommitClaim(w) PROVE FALSE
  BY <1>0, <1>6 DEF TypeOK, InHand, CommitClaim, memory
<1>7. ASSUME NEW w \in Workers,
             \/ LoadForExecution(w) \/ SkipStage(w) \/ StartStage(w) \/ StageRowMissing(w)
             \/ FinishStage(w) \/ (\E m \in {StageErrorMessage, UnexpectedStage} : FailStage(w, m))
             \/ CompleteScan(w) \/ FailScan(w) \/ Restart(w) \/ Hang(w)
      PROVE  FALSE
  BY <1>7 DEF LoadForExecution, SkipStage, StartStage, StageRowMissing, FinishStage, FailStage,
              CompleteScan, FailScan, Finalize, Restart, Hang, InHand, rows, memory
<1> QED BY <1>1, <1>2, <1>3, <1>4, <1>5, <1>6, <1>7, BeginsOrRefuses DEF WorkerStep

\* A fault strands at most the scan its worker has in hand.
LEMMA FaultStrands ==
  ASSUME StrandInv, NEW w \in Workers, FaultStep(w), ~Hang(w)
  PROVE  /\ Stranded' \subseteq Stranded \cup {scan[w]}
         /\ faults' = faults + 1
<1>0. TypeInv /\ TypeOK
  BY DEF StrandInv, TypeInv
<1>1. CloseSession(w) /\ faults' = faults + 1
  BY DEF FaultStep, DatabaseError, ClaimAckLost, ResultAckLost, Stop, Fault
<1>2. \A s \in Scans \ {scan[w]} : status'[s] = status[s]
  BY <1>0 DEF TypeOK, FaultStep, DatabaseError, ClaimAckLost, ResultAckLost, Stop,
              WriteResult, rows
<1>3. \A s \in Scans \ {scan[w]} : InHand(s) => InHand(s)'
  BY <1>0, <1>1 DEF TypeOK, CloseSession, InHand
<1> QED BY <1>1, <1>2, <1>3 DEF Stranded

LEMMA StrandStep ==
  ASSUME IsFiniteSet(Scans), StrandInv, [Next]_vars
  PROVE  StrandInv'
<1>1. Cardinality(Stranded) <= faults /\ faults \in Nat
  BY DEF StrandInv, TypeInv, TypeOK, FaultsStrandAtMostOneEach
<1>2. IsFiniteSet(Stranded) /\ Cardinality(Stranded) \in Nat
  BY FS_Subset, FS_CardinalityType DEF Stranded
<1>3. CASE UNCHANGED vars
  BY <1>3, TypeStep
     DEF StrandInv, Placed, FaultsStrandAtMostOneEach, Stranded, InHand, vars
<1>4. ASSUME NEW w \in Workers, FaultStep(w), ~Hang(w)
      PROVE  FaultsStrandAtMostOneEach'
  <2>1. /\ IsFiniteSet(Stranded \cup {scan[w]})
        /\ Cardinality(Stranded \cup {scan[w]}) <= Cardinality(Stranded) + 1
        /\ Cardinality(Stranded \cup {scan[w]}) \in Nat
    BY <1>2, FS_AddElement, FS_CardinalityType
  <2>2. Cardinality(Stranded') <= Cardinality(Stranded \cup {scan[w]})
    BY <1>4, <2>1, FaultStrands, FS_Subset
  <2>3. Cardinality(Stranded') \in Nat
    BY <1>4, <2>1, FaultStrands, FS_Subset, FS_CardinalityType
  <2>4. faults' = faults + 1
    BY <1>4, FaultStrands
  <2> QED BY <1>1, <1>2, <2>1, <2>2, <2>3, <2>4 DEF FaultsStrandAtMostOneEach
<1>5. ASSUME \/ \E s \in Scans : CreateScan(s)
             \/ \E t \in Triggers : CallerStep(t)
             \/ \E w \in Workers : WorkerStep(w) \/ Restart(w) \/ Hang(w)
      PROVE  FaultsStrandAtMostOneEach'
  <2>1. faults' \in Nat /\ faults' >= faults
    BY <1>1, <1>5
       DEF CreateScan, CallerStep, LoadForTrigger, TriggerStep, TriggerTransition,
           TriggerCommit, TriggerAbort, WorkerStep, Restart, Claim, CommitClaim,
           BeginExecution, LoadForExecution, RefuseExecution, SkipStage, StartStage, StageRowMissing,
           FinishStage, FailStage, CompleteScan, FailScan, Finalize, CommitResult, Hang, Fault
  <2>2. Cardinality(Stranded') <= Cardinality(Stranded) /\ Cardinality(Stranded') \in Nat
    BY <1>2, <1>5, NoFaultStrands, FS_Subset, FS_CardinalityType
  <2> QED BY <1>1, <1>2, <2>1, <2>2 DEF FaultsStrandAtMostOneEach
<1>6. CASE Next
  <2>1. FaultsStrandAtMostOneEach'
    BY <1>4, <1>5, <1>6 DEF Next
  <2> QED BY <1>6, <2>1, StrandControl DEF StrandInv
<1> QED BY <1>3, <1>6

\* Each fault leaves at most one scan PROCESSING for ever, and no other behaviour
\* does: not a failing stage, a missing row, two callers or two workers.
THEOREM StrandingBounded == IsFiniteSet(Scans) => (Spec => []FaultsStrandAtMostOneEach)
<1> SUFFICES ASSUME IsFiniteSet(Scans) PROVE Spec => []FaultsStrandAtMostOneEach
  OBVIOUS
<1>1. Init => StrandInv
  <2> SUFFICES ASSUME Init PROVE StrandInv
    OBVIOUS
  <2>1. Stranded = {} /\ Cardinality(Stranded) = 0
    BY FS_EmptySet DEF Init, Stranded
  <2> QED BY <2>1, TypeInit DEF Init, StrandInv, Placed, FaultsStrandAtMostOneEach
<1>2. StrandInv /\ [Next]_vars => StrandInv'
  BY StrandStep
<1>3. StrandInv => FaultsStrandAtMostOneEach
  BY DEF StrandInv
<1> QED BY <1>1, <1>2, <1>3, PTL DEF Spec

=============================================================================
