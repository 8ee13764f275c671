------------------------- MODULE ReportArtifactProofs -------------------------
(***************************************************************************)
(* Proofs about ReportArtifact, for any number of scans, workers, callers  *)
(* and faults, racing callers included: it implements ReportPublication    *)
(* and ScanExecution, faults leave bounded residue, outcome and report     *)
(* agree, no more reports are stored than pipelines were started, and no   *)
(* pipeline is started twice unless callers race.                          *)
(***************************************************************************)
EXTENDS ReportArtifact, ScanExecutionFaultProofs, ScanExecutionSafety

\* Every step of the report's model is a step, or a stutter, of ScanExecution: the
\* locks keep their invariant.
LEMMA ReportStepExecutes == NextReport => [Next]_vars
<1> SUFFICES ASSUME NextReport PROVE [Next]_vars
  OBVIOUS
<1>1. CASE CallersStep
  BY <1>1 DEF CallersStep, Next
<1>2. ASSUME NEW w \in Workers, ReportStep(w) PROVE [Next]_vars
  <2>1. UNCHANGED vars \/ FinishStage(w)
        \/ \E m \in {StageErrorMessage, UnexpectedStage} : FailStage(w, m)
    BY <1>2 DEF ReportStep, WriteTemp, StorePDF, FinishReport, FailReport
  <2> QED BY <2>1 DEF Next, WorkerStep
<1>3. ASSUME NEW w \in Workers,
             LoadRun(w) \/ StageOf(w) \/ CommitReport(w) \/ AbandonReport(w) \/ OtherStep(w)
      PROVE  Next
  BY <1>3, BeginsOrRefuses DEF LoadRun, StageOf, CommitReport, AbandonReport, OtherStep, Next, WorkerStep,
              FaultStep
<1> QED BY <1>1, <1>2, <1>3 DEF NextReport

\* A worker that has the reference to a PDF in its session is past the report
\* stage, so it holds the locks, and its reference is to what is stored.
Refers(w) ==
  /\ mreport[w] # 0 => next[w] > ReportStage /\ mreport[w] = pdf[scan[w]]
  /\ pc[w] = "claimed" => mreport[w] = 0

PublicationInv ==
  /\ LockInv
  /\ pdf \in [Scans -> Nat]
  /\ mreport \in [Workers -> Nat]
  /\ \E range : report \in [Scans -> range]
  /\ \A w \in Workers : Refers(w)

LEMMA ReportStageNat == ReportStage \in Nat /\ ReportStage >= 1
BY ReportAssumption, ConstantsAssumption

LEMMA RefersFrame ==
  ASSUME NEW v \in Workers, Refers(v),
         pc'[v] = pc[v], scan'[v] = scan[v], next'[v] = next[v], mreport'[v] = mreport[v],
         mreport[v] # 0 => pdf'[scan[v]] = pdf[scan[v]]
  PROVE  Refers(v)'
BY DEF Refers

\* The steps of w leave the other workers' places alone.
LEMMA OthersStay ==
  ASSUME TypeInv, NEW w \in Workers, WorkerStep(w) \/ FaultStep(w) \/ Restart(w)
  PROVE  \A v \in Workers \ {w} : pc'[v] = pc[v] /\ scan'[v] = scan[v] /\ next'[v] = next[v]
BY DEF TypeInv, TypeOK, WorkerStep, FaultStep, Restart, Claim, CommitClaim, BeginExecution,
       LoadForExecution, RefuseExecution, SkipStage, StartStage, StageRowMissing, FinishStage, FailStage,
       CompleteScan, FailScan, Finalize, CommitResult, DatabaseError, ClaimAckLost,
       ResultAckLost, Stop, Hang, Goto, MarkStage, CloseSession, memory

\* Of two workers with one scan, one in the report stage, the other holds no
\* reference to a PDF.
LEMMA StoringAlone ==
  ASSUME PublicationInv, NEW w \in Workers, AtReport(w), NEW v \in Workers, mreport[v] # 0
  PROVE  v # w /\ scan[v] # scan[w]
<1>1. next[v] > ReportStage /\ next[w] = ReportStage
  BY DEF PublicationInv, Refers, AtReport
<1>2. v # w
  BY <1>1, ReportStageNat
<1>3. next[v] \in Nat
  BY ConstantsAssumption DEF PublicationInv, LockInv, TypeInv, TypeOK
<1>4. Marked(v) /\ Marked(w)
  BY <1>1, <1>3, ReportStageNat DEF Marked, AtReport
<1> QED BY <1>2, <1>4 DEF PublicationInv, LockInv, Holds

LEMMA PublicationStep == PublicationInv /\ [NextReport]_<<vars, artifact>> => PublicationInv'
<1> SUFFICES ASSUME PublicationInv, [NextReport]_<<vars, artifact>> PROVE PublicationInv'
  OBVIOUS
<1>0. /\ LockInv /\ TypeInv /\ TypeOK
      /\ pdf \in [Scans -> Nat] /\ mreport \in [Workers -> Nat]
      /\ \A w \in Workers : Refers(w)
  BY DEF PublicationInv, LockInv, TypeInv
<1>1. LockInv'
  BY <1>0, LockStep, ReportStepExecutes DEF vars
<1>2. CASE UNCHANGED <<vars, artifact>>
  BY <1>1, <1>2, RefersFrame DEF PublicationInv, vars, artifact
<1>3. CASE CallersStep
  <2>1. UNCHANGED <<pc, scan, next, mreport, pdf, report>>
    BY <1>3 DEF CallersStep, CreateScan, CallerStep, LoadForTrigger, TriggerStep,
                TriggerTransition, TriggerCommit, TriggerAbort, memory, artifact
  <2> QED BY <1>1, <2>1, RefersFrame DEF PublicationInv
<1>4. ASSUME NEW w \in Workers, LoadRun(w) \/ StageOf(w) \/ OtherStep(w)
      PROVE  PublicationInv'
  <2>1. /\ WorkerStep(w) \/ FaultStep(w) \/ Restart(w)
        /\ UNCHANGED <<mreport, pdf, report>>
    BY <1>4, BeginsOrRefuses DEF LoadRun, StageOf, OtherStep, WorkerStep, FaultStep, artifact, files
  <2>2. \A v \in Workers \ {w} : Refers(v)'
    BY <1>0, <2>1, OthersStay, RefersFrame
  <2>3. Refers(w)'
    <3>0. next[w] \in Nat
      BY <1>0, ConstantsAssumption DEF TypeOK
    <3>1. CASE pc[w] \in {"idle", "stopped", "claiming", "claimed"}
      <4>1. mreport[w] = 0
        BY <1>0, <3>1, ReportStageNat DEF LockInv, Holds, Refers
      <4> QED BY <2>1, <4>1 DEF Refers
    <3>2. CASE pc[w] \notin {"idle", "stopped", "claiming", "claimed"}
      <4>1. /\ scan'[w] = scan[w] /\ pc'[w] # "claimed"
            /\ next'[w] = next[w] \/ next'[w] = next[w] + 1
        BY <1>0, <1>4, <3>2
           DEF TypeOK, LoadRun, StageOf, OtherStep, Claim, CommitClaim, LoadForExecution,
               RefuseExecution, SkipStage, StartStage, StageRowMissing, FinishStage,
               FailStage, CompleteScan, FailScan, Finalize, ClaimAckLost, Hang, Restart,
               Goto, MarkStage, memory
      <4> QED BY <1>0, <2>1, <3>0, <4>1, ReportStageNat DEF Refers
    <3> QED BY <3>1, <3>2
  <2> QED BY <1>0, <1>1, <2>1, <2>2, <2>3 DEF PublicationInv
<1>5. ASSUME NEW w \in Workers, WriteTemp(w) PROVE PublicationInv'
  BY <1>1, <1>5, RefersFrame DEF PublicationInv, WriteTemp, vars, files
<1>6. ASSUME NEW w \in Workers, StorePDF(w) PROVE PublicationInv'
  <2>1. /\ UNCHANGED <<pc, scan, next, mreport, report>>
        /\ pdf' = [pdf EXCEPT ![scan[w]] = @ + 1]
    BY <1>6 DEF StorePDF, vars
  <2>2. pdf' \in [Scans -> Nat]
    <3>1. scan[w] \in Scans
      BY <1>0, <1>6 DEF TypeInv, ControlOK, Busy, StorePDF, AtReport
    <3> QED BY <1>0, <2>1, <3>1
  <2>3. ASSUME NEW v \in Workers PROVE Refers(v)'
    <3>1. mreport[v] # 0 => pdf'[scan[v]] = pdf[scan[v]]
      BY <1>0, <1>6, <2>1, StoringAlone DEF StorePDF
    <3> QED BY <1>0, <2>1, <3>1, RefersFrame
  <2> QED BY <1>0, <1>1, <2>1, <2>2, <2>3 DEF PublicationInv
<1>7. ASSUME NEW w \in Workers, FinishReport(w) PROVE PublicationInv'
  <2>1. /\ FinishStage(w) /\ UNCHANGED <<scan, pdf, report>>
        /\ mreport' = [mreport EXCEPT ![w] = pdf[scan[w]]]
        /\ next[w] = ReportStage
    BY <1>7 DEF FinishReport, FinishStage, AtReport, files
  <2>2. next'[w] = ReportStage + 1 /\ pc'[w] = "running" /\ scan[w] \in Scans
    BY <1>0, <2>1 DEF TypeOK, TypeInv, ControlOK, Busy, FinishStage, MarkStage, Goto
  <2>3. mreport' \in [Workers -> Nat] /\ mreport'[w] = pdf'[scan'[w]]
    BY <1>0, <2>1, <2>2
  <2>4. Refers(w)'
    BY <2>2, <2>3, ReportStageNat DEF Refers
  <2>5. \A v \in Workers \ {w} : Refers(v)'
    BY <1>0, <2>1, OthersStay, RefersFrame DEF WorkerStep
  <2> QED BY <1>0, <1>1, <2>1, <2>3, <2>4, <2>5 DEF PublicationInv
<1>8. ASSUME NEW w \in Workers,
             \/ \E m \in {StageErrorMessage, UnexpectedStage} : FailReport(w, m)
             \/ CommitReport(w) \/ AbandonReport(w)
      PROVE  PublicationInv'
  <2>1. /\ WorkerStep(w) \/ FaultStep(w)
        /\ pdf' = pdf /\ mreport' = [mreport EXCEPT ![w] = 0]
        /\ \E value : report' = report \/ report' = [report EXCEPT ![scan[w]] = value]
    BY <1>8 DEF FailReport, CommitReport, AbandonReport, DropDraft, WorkerStep, FaultStep,
                files
  <2>2. \A v \in Workers : Refers(v)'
    BY <1>0, <2>1, OthersStay, RefersFrame DEF Refers
  <2>3. \E range : report' \in [Scans -> range]
    <3>1. PICK range, value :
            /\ report \in [Scans -> range]
            /\ report' = report \/ report' = [report EXCEPT ![scan[w]] = value]
      BY <2>1 DEF PublicationInv
    <3>2. report' \in [Scans -> range \cup {value}]
      BY <3>1
    <3> QED BY <3>2
  <2> QED BY <1>0, <1>1, <2>1, <2>2, <2>3 DEF PublicationInv
<1> QED
  BY <1>2, <1>3, <1>4, <1>5, <1>6, <1>7, <1>8 DEF NextReport, ReportStep

LEMMA PublicationRefines ==
  PublicationInv /\ [NextReport]_<<vars, artifact>> => [Publication!Next]_<<pdf, report>>
<1> SUFFICES ASSUME PublicationInv, [NextReport]_<<vars, artifact>>
             PROVE  [Publication!Next]_<<pdf, report>>
  OBVIOUS
<1>1. ASSUME NEW w \in Workers, StorePDF(w) PROVE Publication!Next
  <2>1. scan[w] \in Scans
    BY <1>1 DEF PublicationInv, LockInv, TypeInv, ControlOK, Busy, StorePDF, AtReport
  <2> QED BY <1>1, <2>1 DEF StorePDF, Publication!Next, Publication!Store
<1>2. ASSUME NEW w \in Workers, CommitReport(w) PROVE [Publication!Next]_<<pdf, report>>
  <2>1. scan[w] \in Scans /\ pdf' = pdf
    BY <1>2 DEF PublicationInv, LockInv, TypeInv, ControlOK, Busy, CommitReport,
                CommitResult, ResultAckLost, Goto, files
  <2>2. CASE mreport[w] = 0
    BY <1>2, <2>1, <2>2 DEF PublicationInv, CommitReport
  <2>3. CASE mreport[w] # 0
    <3>1. mreport[w] = pdf[scan[w]]
      BY <2>3 DEF PublicationInv, Refers
    <3>2. Publication!Publish(scan[w])
      BY <1>2, <2>1, <2>3, <3>1 DEF CommitReport, Publication!Publish
    <3> QED BY <2>1, <3>2 DEF Publication!Next
  <2> QED BY <2>2, <2>3
<1>3. ASSUME NEW w \in Workers,
             \/ LoadRun(w) \/ StageOf(w) \/ AbandonReport(w) \/ OtherStep(w)
             \/ WriteTemp(w) \/ FinishReport(w)
             \/ \E m \in {StageErrorMessage, UnexpectedStage} : FailReport(w, m)
      PROVE  UNCHANGED <<pdf, report>>
  BY <1>3 DEF LoadRun, StageOf, AbandonReport, OtherStep, WriteTemp, FinishReport,
              FailReport, artifact, files
<1>4. CallersStep \/ UNCHANGED <<vars, artifact>> => UNCHANGED <<pdf, report>>
  BY DEF CallersStep, artifact
<1> QED BY <1>1, <1>2, <1>3, <1>4 DEF NextReport, ReportStep

\* The commit of execution.py publishes the PDF that report.py stored and no other
\* pipeline has replaced, for any number of racing callers, workers and faults.
THEOREM PublicationImplemented == SpecReport => PublishesWhatIsStored
<1>1. InitReport => PublicationInv /\ Publication!Init
  <2> SUFFICES ASSUME InitReport PROVE PublicationInv /\ Publication!Init
    OBVIOUS
  <2>1. LockInv
    BY TypeInit DEF InitReport, Init, LockInv, Holds, Marked
  <2>2. report \in [Scans -> {0}]
    BY DEF InitReport
  <2> QED BY <2>1, <2>2 DEF InitReport, Init, PublicationInv, Refers, Publication!Init
<1> QED
  BY <1>1, PublicationStep, PublicationRefines, PTL
  DEF SpecReport, PublishesWhatIsStored, Publication!Spec

-----------------------------------------------------------------------------
(* What executions leave in storage.                                       *)

\* A worker that holds something of a PDF is in its pipeline or finalizing, and one
\* that stored its PDF has the reference to it unless it still is in the report stage.
Drafted(w) ==
  /\ draft[w] # "none" =>
       pc[w] \in {"running", "inStage", "failing", "finalizing", "hung"}
  /\ draft[w] = "stored" =>
       /\ pdf[scan[w]] # 0
       /\ mreport[w] # 0 \/ (pc[w] \in {"inStage", "hung"} /\ next[w] = ReportStage)

DraftInv ==
  /\ PublicationInv
  /\ report \in [Scans -> Nat]
  /\ draft \in [Workers -> {"none", "temp", "stored"}]
  /\ leftover \in Nat
  /\ \A w \in Workers : Drafted(w)

LEMMA DraftedFrame ==
  ASSUME NEW v \in Workers, Drafted(v),
         pc'[v] = pc[v], scan'[v] = scan[v], next'[v] = next[v],
         draft'[v] = draft[v], mreport'[v] = mreport[v],
         draft[v] # "none" /\ pdf[scan[v]] # 0 => pdf'[scan[v]] # 0
  PROVE  Drafted(v)'
BY DEF Drafted

\* What was stored stays stored.
LEMMA StoredStays ==
  ASSUME DraftInv, NextReport
  PROVE  \A s \in Scans : pdf[s] # 0 => pdf'[s] # 0
<1>1. ASSUME NEW w \in Workers, StorePDF(w) PROVE \A s \in Scans : pdf[s] # 0 => pdf'[s] # 0
  <2>1. pdf \in [Scans -> Nat] /\ pdf' = [pdf EXCEPT ![scan[w]] = @ + 1]
    BY <1>1 DEF DraftInv, PublicationInv, StorePDF
  <2>2. \A s \in Scans : pdf'[s] = pdf[s] \/ pdf'[s] = pdf[s] + 1
    BY <2>1
  <2> QED BY <2>1, <2>2
<1>2. pdf' = pdf \/ \E w \in Workers : StorePDF(w)
  BY DEF NextReport, ReportStep, CallersStep, LoadRun, StageOf, CommitReport, AbandonReport,
         OtherStep, WriteTemp, FinishReport, FailReport, artifact, files
<1> QED BY <1>1, <1>2

\* A step of w disturbs nothing that another worker holds.
LEMMA OthersUntouched ==
  ASSUME TypeInv, mreport \in [Workers -> Nat],
         draft \in [Workers -> {"none", "temp", "stored"}],
         NEW w \in Workers,
         \/ LoadRun(w) \/ StageOf(w) \/ ReportStep(w) \/ CommitReport(w)
         \/ AbandonReport(w) \/ OtherStep(w)
  PROVE  \A v \in Workers \ {w} :
           /\ pc'[v] = pc[v] /\ scan'[v] = scan[v] /\ next'[v] = next[v]
           /\ draft'[v] = draft[v] /\ mreport'[v] = mreport[v]
<1>1. UNCHANGED vars \/ WorkerStep(w) \/ FaultStep(w) \/ Restart(w)
  BY BeginsOrRefuses
     DEF LoadRun, StageOf, ReportStep, CommitReport, AbandonReport, OtherStep, WriteTemp,
         StorePDF, FinishReport, FailReport, WorkerStep, FaultStep
<1>2. \A v \in Workers \ {w} : pc'[v] = pc[v] /\ scan'[v] = scan[v] /\ next'[v] = next[v]
  BY <1>1, OthersStay DEF vars
<1>3. \A v \in Workers \ {w} : draft'[v] = draft[v] /\ mreport'[v] = mreport[v]
  BY DEF LoadRun, StageOf, ReportStep, CommitReport, AbandonReport, OtherStep, WriteTemp,
         StorePDF, FinishReport, FailReport, DropDraft, artifact, files
<1> QED BY <1>2, <1>3

\* No step is of two workers, one of which abandons a PDF it stored.
LEMMA OneAbandons ==
  ASSUME DraftInv, NEW v \in Workers, NEW w \in Workers, AbandonReport(v), AbandonReport(w),
         draft[v] = "stored"
  PROVE  v = w
<1> SUFFICES ASSUME v # w PROVE FALSE
  OBVIOUS
<1>1. draft'[v] = "none" /\ draft'[v] = draft[v]
  BY DEF DraftInv, AbandonReport, DropDraft
<1> QED BY <1>1

LEMMA DraftUnchanged ==
  ASSUME DraftInv, UNCHANGED <<vars, artifact>>
  PROVE  DraftInv'
BY PublicationStep, DraftedFrame DEF DraftInv, vars, artifact, files

LEMMA FaultsGrow ==
  ASSUME faults \in Nat, [Next]_vars
  PROVE  faults' \in Nat /\ faults' >= faults
BY DEF Next, CreateScan, CallerStep, LoadForTrigger, TriggerStep, TriggerTransition,
       TriggerCommit, TriggerAbort, WorkerStep, FaultStep, Restart, Claim, CommitClaim,
       BeginExecution, LoadForExecution, RefuseExecution, SkipStage, StartStage,
       StageRowMissing, FinishStage, FailStage, CompleteScan, FailScan, Finalize,
       CommitResult, DatabaseError, ClaimAckLost, ResultAckLost, Stop, Hang, Fault, vars

LEMMA PublicationInit == InitReport => PublicationInv
<1> SUFFICES ASSUME InitReport PROVE PublicationInv
  OBVIOUS
<1>1. LockInv
  BY TypeInit DEF InitReport, Init, LockInv, Holds, Marked
<1>2. report \in [Scans -> {0}]
  BY DEF InitReport
<1> QED BY <1>1, <1>2 DEF InitReport, Init, PublicationInv, Refers

LEMMA DraftStep ==
  ASSUME DraftInv, NextReport
  PROVE  DraftInv'
<1>0. /\ PublicationInv /\ LockInv /\ TypeInv /\ TypeOK
      /\ pdf \in [Scans -> Nat] /\ mreport \in [Workers -> Nat] /\ report \in [Scans -> Nat]
      /\ draft \in [Workers -> {"none", "temp", "stored"}] /\ leftover \in Nat
      /\ \A w \in Workers : Drafted(w)
  BY DEF DraftInv, PublicationInv, LockInv, TypeInv
<1>1. PublicationInv'
  BY <1>0, PublicationStep
<1>2. ASSUME NEW v \in Workers, draft[v] # "none"
      PROVE  scan[v] \in Scans
  BY <1>0, <1>2 DEF Drafted, TypeInv, ControlOK, Busy
<1>3. ASSUME NEW v \in Workers,
             pc'[v] = pc[v], scan'[v] = scan[v], next'[v] = next[v],
             draft'[v] = draft[v], mreport'[v] = mreport[v]
      PROVE  Drafted(v)'
  BY <1>0, <1>2, <1>3, DraftedFrame, StoredStays
<1>4. CASE CallersStep
  <2>1. UNCHANGED <<pc, scan, next, draft, mreport, report, leftover>>
    BY <1>4 DEF CallersStep, CreateScan, CallerStep, LoadForTrigger, TriggerStep,
                TriggerTransition, TriggerCommit, TriggerAbort, memory, artifact
  <2> QED BY <1>0, <1>1, <1>3, <2>1 DEF DraftInv
<1>5. ASSUME NEW w \in Workers,
             \/ LoadRun(w) \/ StageOf(w) \/ ReportStep(w) \/ CommitReport(w)
             \/ AbandonReport(w) \/ OtherStep(w)
      PROVE  DraftInv'
  <2>1. \A v \in Workers \ {w} :
          /\ pc'[v] = pc[v] /\ scan'[v] = scan[v] /\ next'[v] = next[v]
          /\ draft'[v] = draft[v] /\ mreport'[v] = mreport[v]
    BY <1>0, <1>5, OthersUntouched
  <2>2. \A v \in Workers \ {w} : Drafted(v)'
    BY <1>3, <2>1
  <2>3. /\ draft' \in [Workers -> {"none", "temp", "stored"}]
        /\ leftover' \in Nat
    BY <1>0, <1>5
       DEF LoadRun, StageOf, ReportStep, CommitReport, AbandonReport, OtherStep, WriteTemp,
           StorePDF, FinishReport, FailReport, DropDraft, artifact, files
  <2>4. report' \in [Scans -> Nat]
    BY <1>0, <1>5
       DEF LoadRun, StageOf, ReportStep, CommitReport, AbandonReport, OtherStep, WriteTemp,
           StorePDF, FinishReport, FailReport, artifact, files
  <2>5. Drafted(w)'
    <3>1. CASE \/ \E m \in {StageErrorMessage, UnexpectedStage} : FailReport(w, m)
               \/ CommitReport(w) \/ AbandonReport(w)
      <4>1. draft'[w] = "none"
        BY <1>0, <3>1 DEF FailReport, CommitReport, AbandonReport, DropDraft
      <4> QED BY <4>1 DEF Drafted
    <3>2. CASE WriteTemp(w)
      <4>1. draft'[w] = "temp" /\ pc'[w] = "inStage"
        BY <1>0, <3>2 DEF WriteTemp, AtReport, vars
      <4> QED BY <4>1 DEF Drafted
    <3>3. CASE StorePDF(w)
      <4>1. scan[w] \in Scans /\ pdf[scan[w]] \in Nat
        BY <1>0, <1>2, <3>3 DEF StorePDF
      <4>2. /\ draft'[w] = "stored" /\ pc'[w] = "inStage" /\ next'[w] = ReportStage
            /\ scan'[w] = scan[w] /\ pdf'[scan[w]] = pdf[scan[w]] + 1
        BY <1>0, <3>3, <4>1 DEF StorePDF, AtReport, vars
      <4> QED BY <4>1, <4>2 DEF Drafted
    <3>4. CASE FinishReport(w)
      <4>1. /\ draft'[w] = "stored" /\ pc'[w] = "running"
            /\ scan'[w] = scan[w] /\ pdf' = pdf /\ mreport'[w] = pdf[scan[w]]
        BY <1>0, <3>4 DEF FinishReport, FinishStage, Goto, TypeOK, files
      <4>2. pdf[scan[w]] # 0
        BY <1>0, <3>4 DEF FinishReport, Drafted
      <4> QED BY <4>1, <4>2 DEF Drafted
    <3>5. CASE LoadRun(w) \/ StageOf(w) \/ OtherStep(w)
      <4>1. draft'[w] = draft[w] /\ mreport'[w] = mreport[w] /\ pdf' = pdf
        BY <3>5 DEF LoadRun, StageOf, OtherStep, artifact, files
      <4>2. CASE draft[w] = "none"
        BY <4>1, <4>2 DEF Drafted
      <4>3. CASE draft[w] # "none"
        <5>1. /\ scan'[w] = scan[w]
              /\ pc'[w] \in {"running", "inStage", "failing", "finalizing", "hung"}
          BY <1>0, <3>5, <4>3
             DEF Drafted, TypeOK, LoadRun, StageOf, OtherStep, Claim, CommitClaim,
                 LoadForExecution, RefuseExecution, SkipStage, StartStage, StageRowMissing,
                 FinishStage, FailStage, CompleteScan, FailScan, Finalize, ClaimAckLost, Hang,
                 Restart, Goto, memory
        <5>2. pc[w] \in {"inStage", "hung"} /\ next[w] = ReportStage =>
                pc'[w] = "hung" /\ next'[w] = next[w]
          BY <1>0, <3>5
             DEF TypeOK, LoadRun, StageOf, OtherStep, AtReport, Claim, CommitClaim,
                 LoadForExecution, RefuseExecution, SkipStage, StartStage, StageRowMissing,
                 FinishStage, FailStage, CompleteScan, FailScan, Finalize, ClaimAckLost, Hang,
                 Restart, Goto, memory
        <5> QED BY <1>0, <4>1, <5>1, <5>2 DEF Drafted
      <4> QED BY <4>2, <4>3
    <3> QED BY <1>5, <3>1, <3>2, <3>3, <3>4, <3>5 DEF ReportStep
  <2> QED BY <1>1, <2>2, <2>3, <2>4, <2>5 DEF DraftInv
<1> QED BY <1>4, <1>5 DEF NextReport

Unaccounted == {s \in Scans : ~Accounted(s)}

ResidueInv == DraftInv /\ faults \in Nat /\ ResidueIsBoundedByFaults

\* A step that is no fault leaves nothing behind: the worker that stored a PDF keeps it
\* in hand until it commits the reference to it.
LEMMA OnlyFaultsLeave ==
  ASSUME DraftInv, NextReport, NEW s \in Scans, Accounted(s), ~Accounted(s)'
  PROVE  \E w \in Workers : AbandonReport(w) /\ s = scan[w] /\ draft[w] = "stored"
<1>0. /\ PublicationInv /\ TypeInv /\ TypeOK
      /\ pdf \in [Scans -> Nat] /\ mreport \in [Workers -> Nat] /\ report \in [Scans -> Nat]
      /\ draft \in [Workers -> {"none", "temp", "stored"}]
      /\ \A w \in Workers : Drafted(w)
  BY DEF DraftInv, PublicationInv, LockInv, TypeInv
<1>1. /\ pdf'[s] # 0 /\ report'[s] = 0
      /\ \A w \in Workers : scan'[w] = s => draft'[w] # "stored"
  BY DEF Accounted
<1>2. CASE CallersStep
  <2>1. UNCHANGED <<scan, draft, pdf, report>>
    BY <1>2 DEF CallersStep, CreateScan, CallerStep, LoadForTrigger, TriggerStep,
                TriggerTransition, TriggerCommit, TriggerAbort, memory, artifact
  <2> QED BY <1>1, <2>1 DEF Accounted
<1>3. ASSUME NEW w \in Workers,
             \/ LoadRun(w) \/ StageOf(w) \/ ReportStep(w) \/ CommitReport(w)
             \/ AbandonReport(w) \/ OtherStep(w)
      PROVE  AbandonReport(w) /\ s = scan[w] /\ draft[w] = "stored"
  <2>1. \A v \in Workers \ {w} : scan'[v] = scan[v] /\ draft'[v] = draft[v]
    BY <1>0, <1>3, OthersUntouched
  <2>2. report[s] # 0 => report'[s] # 0
    <3>1. report' = report \/ report' = [report EXCEPT ![scan[w]] =
                                           IF mreport[w] # 0 THEN mreport[w] ELSE @]
      BY <1>3
         DEF LoadRun, StageOf, ReportStep, CommitReport, AbandonReport, OtherStep, WriteTemp,
             StorePDF, FinishReport, FailReport, artifact, files
    <3> QED BY <1>0, <3>1
  <2>3. CASE StorePDF(w)
    <3>1. /\ scan'[w] = scan[w] /\ draft'[w] = "stored"
          /\ pdf' = [pdf EXCEPT ![scan[w]] = @ + 1]
          /\ report' = report /\ draft[w] = "temp"
      BY <1>0, <2>3 DEF StorePDF, vars
    <3>2. scan[w] # s
      BY <1>1, <3>1
    <3>3. pdf'[s] = pdf[s]
      BY <1>0, <3>1, <3>2
    <3> QED BY <1>1, <2>1, <3>1, <3>3 DEF Accounted
  <2>4. CASE ~StorePDF(w)
    <3>1. pdf' = pdf
      BY <1>3, <2>4
         DEF LoadRun, StageOf, ReportStep, CommitReport, AbandonReport, OtherStep, WriteTemp,
             StorePDF, FinishReport, FailReport, artifact, files
    <3>2. scan[w] = s /\ draft[w] = "stored" /\ (scan'[w] # s \/ draft'[w] # "stored")
      BY <1>1, <2>1, <2>2, <3>1 DEF Accounted
    <3>3. /\ pdf[s] # 0 /\ pc[w] \in {"running", "inStage", "failing", "finalizing", "hung"}
          /\ mreport[w] # 0 \/ (pc[w] \in {"inStage", "hung"} /\ next[w] = ReportStage)
      BY <1>0, <3>2 DEF Drafted
    <3>4. CASE LoadRun(w) \/ StageOf(w) \/ OtherStep(w)
      <4>1. scan'[w] = scan[w] /\ draft'[w] = draft[w]
        BY <3>3, <3>4
           DEF LoadRun, StageOf, OtherStep, Claim, CommitClaim, LoadForExecution,
               RefuseExecution, SkipStage, StartStage, StageRowMissing, FinishStage, FailStage,
               CompleteScan, FailScan, Finalize, ClaimAckLost, Hang, Restart, Goto, memory,
               artifact
      <4> QED BY <3>2, <4>1
    <3>5. CASE ReportStep(w)
      BY <2>4, <3>2, <3>5 DEF ReportStep, WriteTemp, FinishReport, FinishStage, FailReport, vars
    <3>6. CASE CommitReport(w)
      <4>1. pc[w] = "finalizing"
        BY <3>6 DEF CommitReport, CommitResult, ResultAckLost, Goto
      <4>2. mreport[w] # 0 /\ report' = [report EXCEPT ![scan[w]] = mreport[w]]
        BY <3>3, <3>6, <4>1 DEF CommitReport
      <4> QED BY <1>0, <1>1, <3>2, <4>2
    <3> QED BY <1>3, <3>2, <3>4, <3>5, <3>6
  <2> QED BY <2>3, <2>4
<1> QED BY <1>2, <1>3 DEF NextReport

LEMMA ResidueStep ==
  ASSUME IsFiniteSet(Scans), ResidueInv, [NextReport]_<<vars, artifact>>
  PROVE  ResidueInv'
<1>0. /\ DraftInv /\ TypeInv /\ TypeOK
      /\ leftover \in Nat /\ faults \in Nat
      /\ leftover + Cardinality(Unaccounted) <= faults
  BY DEF ResidueInv, DraftInv, PublicationInv, LockInv, TypeInv, ResidueIsBoundedByFaults,
         Unaccounted
<1>1. IsFiniteSet(Unaccounted) /\ Cardinality(Unaccounted) \in Nat
  BY FS_Subset, FS_CardinalityType DEF Unaccounted
<1>2. SUFFICES ASSUME NextReport PROVE ResidueInv'
  <2>1. ASSUME UNCHANGED <<vars, artifact>> PROVE ResidueInv'
    <3>1. DraftInv'
      BY <1>0, <2>1, DraftUnchanged
    <3>2. Unaccounted' = Unaccounted
      BY <2>1 DEF Unaccounted, Accounted, vars, artifact
    <3> QED BY <1>0, <2>1, <3>1, <3>2
            DEF ResidueInv, ResidueIsBoundedByFaults, Unaccounted, vars, artifact
  <2> QED BY <2>1
<1>3. DraftInv'
  BY <1>0, <1>2, DraftStep
<1>4. faults' \in Nat /\ faults' >= faults
  <2>1. [Next]_vars
    BY <1>2, ReportStepExecutes
  <2> QED BY <1>0, <2>1, FaultsGrow
<1>5. ASSUME NEW w \in Workers, AbandonReport(w)
      PROVE  /\ faults' = faults + 1
             /\ \/ leftover' = leftover /\ Unaccounted' \subseteq Unaccounted \cup {scan[w]}
                \/ leftover' = leftover + 1 /\ Unaccounted' \subseteq Unaccounted
  <2>1. faults' = faults + 1 /\ leftover' = leftover + IF draft[w] = "temp" THEN 1 ELSE 0
    BY <1>5 DEF AbandonReport, DatabaseError, Stop, Fault
  <2>2. ASSUME NEW s \in Scans, ~Accounted(s)', Accounted(s)
        PROVE  s = scan[w] /\ draft[w] = "stored"
    BY <1>0, <1>2, <1>5, <2>2, OnlyFaultsLeave, OneAbandons
  <2>3. Unaccounted' \subseteq Unaccounted \cup {scan[w]}
    BY <2>2 DEF Unaccounted
  <2>4. draft[w] = "temp" => Unaccounted' \subseteq Unaccounted
    BY <2>2 DEF Unaccounted
  <2> QED BY <1>0, <2>1, <2>3, <2>4
<1>6. CASE \A w \in Workers : ~AbandonReport(w)
  <2>1. leftover' = leftover
    BY <1>2, <1>6
       DEF NextReport, CallersStep, LoadRun, StageOf, ReportStep, CommitReport, OtherStep,
           WriteTemp, StorePDF, FinishReport, FailReport, artifact, files
  <2>2. Unaccounted' \subseteq Unaccounted
    BY <1>0, <1>2, <1>6, OnlyFaultsLeave DEF Unaccounted
  <2>3. Cardinality(Unaccounted') <= Cardinality(Unaccounted) /\ Cardinality(Unaccounted') \in Nat
    BY <1>1, <2>2, FS_Subset, FS_CardinalityType
  <2>4. leftover' + Cardinality(Unaccounted') <= faults'
    BY <1>0, <1>1, <1>4, <2>1, <2>3
  <2> QED BY <1>3, <1>4, <2>4 DEF ResidueInv, ResidueIsBoundedByFaults, Unaccounted
<1>7. ASSUME NEW w \in Workers, AbandonReport(w) PROVE ResidueInv'
  <2>1. /\ IsFiniteSet(Unaccounted \cup {scan[w]})
        /\ Cardinality(Unaccounted \cup {scan[w]}) <= Cardinality(Unaccounted) + 1
        /\ Cardinality(Unaccounted \cup {scan[w]}) \in Nat
    BY <1>1, FS_AddElement, FS_CardinalityType
  <2>2. /\ Unaccounted' \subseteq Unaccounted =>
             Cardinality(Unaccounted') <= Cardinality(Unaccounted)
        /\ Cardinality(Unaccounted') <= Cardinality(Unaccounted \cup {scan[w]})
        /\ Cardinality(Unaccounted') \in Nat
    <3>1. Unaccounted' \subseteq Unaccounted \cup {scan[w]}
      BY <1>5, <1>7
    <3> QED BY <1>1, <2>1, <3>1, FS_Subset, FS_CardinalityType
  <2>3. leftover' + Cardinality(Unaccounted') <= faults'
    <3>1. CASE leftover' = leftover
      BY <1>0, <1>1, <1>5, <1>7, <2>1, <2>2, <3>1
    <3>2. CASE leftover' = leftover + 1 /\ Unaccounted' \subseteq Unaccounted
      BY <1>0, <1>1, <1>5, <1>7, <2>2, <3>2
    <3> QED BY <1>5, <1>7, <3>1, <3>2
  <2> QED BY <1>3, <1>4, <2>3 DEF ResidueInv, ResidueIsBoundedByFaults, Unaccounted
<1> QED BY <1>6, <1>7

\* A fault leaves at most one file that no committed row refers to, a PDF or a
\* temporary one, and nothing else that report.py does leaves any.
THEOREM ResidueBoundedByFaults ==
  IsFiniteSet(Scans) => (SpecReport => []ResidueIsBoundedByFaults)
<1> SUFFICES ASSUME IsFiniteSet(Scans) PROVE SpecReport => []ResidueIsBoundedByFaults
  OBVIOUS
<1>1. InitReport => ResidueInv
  <2> SUFFICES ASSUME InitReport PROVE ResidueInv
    OBVIOUS
  <2>1. {s \in Scans : ~Accounted(s)} = {} /\ Cardinality({}) = 0
    BY FS_EmptySet DEF InitReport, Accounted
  <2>2. Cardinality({s \in Scans : ~Accounted(s)}) = 0
    BY <2>1
  <2>3. leftover = 0 /\ faults = 0
    BY DEF InitReport, Init
  <2>4. ResidueIsBoundedByFaults /\ faults \in Nat
    BY <2>2, <2>3 DEF ResidueIsBoundedByFaults
  <2> QED BY <2>4, PublicationInit DEF InitReport, ResidueInv, DraftInv, Drafted
<1>2. ResidueInv /\ [NextReport]_<<vars, artifact>> => ResidueInv'
  BY ResidueStep
<1>3. ResidueInv => ResidueIsBoundedByFaults
  BY DEF ResidueInv
<1> QED BY <1>1, <1>2, <1>3, PTL DEF SpecReport

-----------------------------------------------------------------------------
(* What rows and storage say of a scan whose pipeline was started once.    *)

\* What a caller is about to commit never is the outcome of a pipeline.
Calm(t) ==
  tpc[t] = "dirty" =>
    /\ request[t].status \in {"VALIDATING", "QUEUED", "FAILED"}
    /\ request[t].status = "FAILED" => request[t].error \in {NoError, RejectedError}

\* Where a worker's pipeline is, and whether it has stored its PDF.
Standing(w) ==
  /\ pc[w] \in {"claiming", "running", "inStage", "failing", "hung"} =>
       mstatus[w] = "PROCESSING"
  /\ pc[w] = "claimed" => next[w] = 1
  /\ pc[w] \in {"running", "inStage", "failing", "hung"} /\ next[w] > ReportStage =>
       mreport[w] # 0
  /\ pc[w] = "failing" => draft[w] # "stored"
  /\ pc[w] = "finalizing" =>
       \/ mstatus[w] = "COMPLETED" /\ mreport[w] # 0
       \/ mstatus[w] = "FAILED" /\ draft[w] # "stored"

RunsOn(w, s) ==
  scan[w] = s /\ pc[w] \in {"running", "inStage", "failing", "finalizing", "hung"}

\* No pipeline has ended on s.
Quiet(s) ==
  /\ report[s] = 0
  /\ status[s] # "COMPLETED"
  /\ error[s] \in {NoError, RejectedError}

\* Before the first start there is nothing; during the one execution, nothing but the
\* PDF that its worker stored; after it, what its outcome says.
Story(s) ==
  runs[s] <= 1 =>
    /\ runs[s] = 0 => Quiet(s) /\ pdf[s] = 0 /\ \A w \in Workers : ~RunsOn(w, s)
    /\ \A v, w \in Workers : RunsOn(v, s) /\ RunsOn(w, s) => v = w
    /\ \A w \in Workers :
         RunsOn(w, s) => Quiet(s) /\ (pdf[s] # 0 => draft[w] = "stored")
    /\ status[s] = "COMPLETED" => report[s] # 0 /\ pdf[s] = report[s]
    /\ error[s] \notin {NoError, RejectedError} => report[s] = 0 /\ pdf[s] = 0

StoryInv ==
  /\ DraftInv
  /\ runs \in [Scans -> Nat]
  /\ \A t \in Triggers : Calm(t)
  /\ \A w \in Workers : Standing(w)
  /\ \A s \in Scans : Story(s)

LEMMA StoryFrame ==
  ASSUME NEW s \in Scans, Story(s),
         runs'[s] = runs[s], pdf'[s] = pdf[s], report'[s] = report[s],
         status'[s] = "COMPLETED" => status[s] = "COMPLETED",
         error'[s] = error[s] \/ error'[s] \in {NoError, RejectedError},
         \A w \in Workers :
           RunsOn(w, s)' => RunsOn(w, s) /\ (draft[w] = "stored" => draft'[w] = "stored")
  PROVE  Story(s)'
BY DEF Story, Quiet

LEMMA CallersTell ==
  ASSUME StoryInv, CallersStep
  PROVE  StoryInv'
<1>0. /\ TypeOK /\ DraftInv' /\ runs \in [Scans -> Nat]
      /\ \A t \in Triggers : Calm(t)
      /\ \A w \in Workers : Standing(w)
      /\ \A s \in Scans : Story(s)
  BY DraftStep DEF StoryInv, DraftInv, PublicationInv, LockInv, TypeInv, NextReport
<1>1. UNCHANGED <<pc, scan, next, mstatus, artifact>>
  BY DEF CallersStep, CreateScan, CallerStep, LoadForTrigger, TriggerStep, TriggerTransition,
         TriggerCommit, TriggerAbort, memory
<1>2. ASSUME NEW t \in Triggers PROVE Calm(t)'
  <2>1. ASSUME NEW s \in Scans, CreateScan(s) PROVE Calm(t)'
    BY <1>0, <2>1 DEF CreateScan, callers, Calm
  <2>2. ASSUME NEW u \in Triggers, CallerStep(u), u # t PROVE Calm(t)'
    BY <1>0, <2>2 DEF TypeOK, CallerStep, LoadForTrigger, TriggerStep, TriggerTransition,
                      TriggerCommit, TriggerAbort, Calm
  <2>3. CASE CallerStep(t)
    BY <1>0, <2>3 DEF TypeOK, CallerStep, LoadForTrigger, TriggerStep, TriggerTransition,
                      TriggerCommit, TriggerAbort, Calm
  <2> QED BY <2>1, <2>2, <2>3 DEF CallersStep
<1>3. ASSUME NEW s \in Scans PROVE Story(s)'
  <2>1. /\ status'[s] = "COMPLETED" => status[s] = "COMPLETED"
        /\ error'[s] = error[s] \/ error'[s] \in {NoError, RejectedError}
    <3>1. ASSUME NEW r \in Scans, CreateScan(r)
          PROVE  error' = error /\ status'[s] \in {status[s], "CREATED"}
      BY <1>0, <3>1 DEF TypeOK, CreateScan
    <3>2. ASSUME NEW t \in Triggers, TriggerCommit(t)
          PROVE  /\ status'[s] = status[s] \/ status'[s] = request[t].status
                 /\ \/ error'[s] = error[s]
                    \/ request[t].status = "FAILED" /\ error'[s] = request[t].error
      BY <1>0, <3>2 DEF TypeOK, TriggerCommit
    <3>3. ASSUME NEW t \in Triggers, CallerStep(t), ~TriggerCommit(t)
          PROVE  UNCHANGED <<status, error>>
      BY <3>3 DEF CallerStep, LoadForTrigger, TriggerStep, TriggerTransition, TriggerAbort, rows
    <3>4. ASSUME NEW t \in Triggers, TriggerCommit(t)
          PROVE  /\ request[t].status # "COMPLETED"
                 /\ request[t].status = "FAILED" => request[t].error \in {NoError, RejectedError}
      BY <1>0, <3>4 DEF Calm, TriggerCommit
    <3> QED BY <3>1, <3>2, <3>3, <3>4 DEF CallersStep
  <2> QED BY <1>0, <1>1, <2>1, StoryFrame DEF artifact, RunsOn
<1> QED BY <1>0, <1>1, <1>2, <1>3 DEF StoryInv, Standing, artifact

LEMMA WorkerStands ==
  ASSUME ReportStage = StageCount, StoryInv, DraftInv', NEW w \in Workers,
         \/ LoadRun(w) \/ StageOf(w) \/ ReportStep(w) \/ CommitReport(w)
         \/ AbandonReport(w) \/ OtherStep(w)
  PROVE  Standing(w)'
<1>0. /\ TypeInv /\ TypeOK /\ Standing(w) /\ Refers(w) /\ Drafted(w)
      /\ mreport \in [Workers -> Nat] /\ pdf \in [Scans -> Nat]
      /\ draft \in [Workers -> {"none", "temp", "stored"}]
      /\ next[w] \in Nat /\ StageCount \in Nat
  BY ConstantsAssumption
     DEF StoryInv, DraftInv, PublicationInv, LockInv, TypeInv, TypeOK
<1>1. CASE CommitReport(w) \/ AbandonReport(w)
  <2>1. pc'[w] \in {"idle", "stopped"}
    BY <1>0, <1>1 DEF TypeOK, CommitReport, AbandonReport, CommitResult, ResultAckLost,
                      DatabaseError, Stop, Goto
  <2> QED BY <2>1 DEF Standing
<1>2. CASE LoadRun(w)
  <2>1. pc'[w] = "running" /\ mstatus'[w] = "PROCESSING" /\ next'[w] = next[w]
        /\ mreport'[w] = mreport[w] /\ pc[w] = "claimed"
    BY <1>0, <1>2 DEF TypeOK, LoadRun, LoadForExecution, Goto
  <2>2. next[w] = 1
    BY <1>0, <2>1 DEF Standing
  <2> QED BY <2>1, <2>2, ReportStageNat DEF Standing
<1>3. CASE WriteTemp(w) \/ StorePDF(w)
  <2>1. pc'[w] = "inStage" /\ next'[w] = ReportStage /\ mstatus'[w] = mstatus[w]
        /\ pc[w] = "inStage"
    BY <1>3 DEF WriteTemp, StorePDF, AtReport, vars
  <2> QED BY <1>0, <2>1 DEF Standing
<1>4. CASE FinishReport(w)
  <2>1. /\ pc'[w] = "running" /\ pc[w] = "inStage" /\ mstatus'[w] = mstatus[w]
        /\ mreport'[w] = pdf[scan[w]] /\ draft[w] = "stored"
    BY <1>0, <1>4 DEF TypeOK, FinishReport, FinishStage, Goto
  <2>2. pdf[scan[w]] # 0
    BY <1>0, <2>1 DEF Drafted
  <2> QED BY <1>0, <2>1, <2>2 DEF Standing
<1>5. ASSUME NEW m, FailReport(w, m) PROVE Standing(w)'
  <2>1. /\ pc'[w] = "failing" /\ pc[w] = "inStage" /\ mstatus'[w] = mstatus[w]
        /\ next'[w] = next[w] /\ next[w] = ReportStage /\ draft'[w] = "none"
    BY <1>0, <1>5 DEF TypeOK, FailReport, FailStage, MarkStage, DropDraft, AtReport, Goto
  <2> QED BY <1>0, <2>1 DEF Standing
<1>6. CASE StageOf(w)
  <2>1. draft'[w] = draft[w] /\ mreport'[w] = mreport[w] /\ mstatus'[w] = mstatus[w]
    BY <1>6 DEF StageOf, SkipStage, StartStage, StageRowMissing, FinishStage, FailStage, artifact
  <2>2. /\ pc[w] \in {"running", "inStage"} /\ pc'[w] \in {"running", "inStage", "failing"}
        /\ next[w] \in StageIndex
    BY <1>0, <1>6 DEF TypeInv, ControlOK, TypeOK, StageOf, SkipStage, StartStage,
                      StageRowMissing, FinishStage, FailStage, Goto
  <2>3. /\ next'[w] > ReportStage => next[w] > ReportStage
        /\ pc[w] = "inStage" => next[w] # ReportStage
    <3>1. CASE SkipStage(w)
      <4>1. next'[w] = next[w] + 1 /\ next[w] # ReportStage /\ pc[w] = "running"
        BY <1>0, <3>1, ReportAssumption DEF TypeOK, SkipStage, MarkStage, Goto
      <4> QED BY <1>0, <2>2, <4>1 DEF StageIndex
    <3>2. CASE StartStage(w) \/ StageRowMissing(w)
      <4>1. next'[w] = next[w] /\ pc[w] = "running"
        BY <1>0, <3>2 DEF TypeOK, StartStage, StageRowMissing, MarkStage, Goto
      <4> QED BY <4>1
    <3>3. CASE ~AtReport(w) /\ (FinishStage(w) \/ \E m \in {StageErrorMessage, UnexpectedStage} : FailStage(w, m))
      <4>1. next'[w] \in {next[w], next[w] + 1} /\ pc[w] = "inStage"
        BY <1>0, <3>3 DEF TypeOK, FinishStage, FailStage, MarkStage, Goto
      <4>2. next[w] # ReportStage
        BY <3>3, <4>1 DEF AtReport
      <4> QED BY <1>0, <2>2, <4>1, <4>2 DEF StageIndex
    <3> QED BY <1>6, <3>1, <3>2, <3>3 DEF StageOf
  <2>4. draft[w] # "stored"
    BY <1>0, <2>2, <2>3 DEF Drafted, Refers, StageIndex
  <2> QED BY <1>0, <2>1, <2>2, <2>3, <2>4 DEF Standing
<1>7. CASE OtherStep(w)
  <2>1. draft'[w] = draft[w] /\ mreport'[w] = mreport[w]
    BY <1>7 DEF OtherStep, artifact
  <2>2. CASE CompleteScan(w)
    <3>1. /\ pc[w] = "running" /\ pc'[w] = "finalizing" /\ mstatus'[w] = "COMPLETED"
          /\ next[w] = StageCount + 1
      BY <1>0, <2>2 DEF TypeOK, CompleteScan, Finalize, Goto
    <3> QED BY <1>0, <2>1, <3>1 DEF Standing
  <2>3. CASE FailScan(w)
    <3>1. pc[w] = "failing" /\ pc'[w] = "finalizing" /\ mstatus'[w] = "FAILED"
      BY <1>0, <2>3 DEF TypeOK, FailScan, Finalize, Goto
    <3> QED BY <1>0, <2>1, <3>1 DEF Standing
  <2>4. CASE Hang(w)
    <3>1. pc[w] = "inStage" /\ pc'[w] = "hung" /\ mstatus' = mstatus /\ next' = next
      BY <1>0, <2>4 DEF TypeOK, Hang, Goto, memory
    <3> QED BY <1>0, <2>1, <3>1 DEF Standing
  <2>5. ASSUME NEW s \in Scans, Claim(w, s) PROVE Standing(w)'
    <3>1. pc'[w] = "claiming" /\ mstatus'[w] = "PROCESSING"
      BY <1>0, <2>5 DEF TypeOK, Claim, Goto
    <3> QED BY <3>1 DEF Standing
  <2>6. CASE CommitClaim(w) \/ ClaimAckLost(w) \/ RefuseExecution(w) \/ Restart(w)
    <3>1. pc'[w] \in {"idle", "claimed"}
      BY <1>0, <2>6 DEF TypeOK, CommitClaim, ClaimAckLost, RefuseExecution, Restart, Goto
    <3>2. pc'[w] = "claimed" => next'[w] = 1
      <4>1. pc'[w] = "claimed" => pc[w] = "claiming" /\ next'[w] = next[w]
        BY <1>0, <2>6 DEF TypeOK, CommitClaim, ClaimAckLost, RefuseExecution, Restart, Goto,
                          memory
      <4>2. Holds(w)
        BY DEF StoryInv, DraftInv, PublicationInv, LockInv
      <4> QED BY <4>1, <4>2 DEF Holds
    <3> QED BY <3>1, <3>2 DEF Standing
  <2> QED BY <1>7, <2>2, <2>3, <2>4, <2>5, <2>6 DEF OtherStep
<1> QED BY <1>1, <1>2, <1>3, <1>4, <1>5, <1>6, <1>7 DEF ReportStep

\* A worker's step leaves the callers, and what the other workers have in memory, alone.
LEMMA OthersKeepStatus ==
  ASSUME TypeInv, NEW w \in Workers,
         \/ LoadRun(w) \/ StageOf(w) \/ ReportStep(w) \/ CommitReport(w)
         \/ AbandonReport(w) \/ OtherStep(w)
  PROVE  \A v \in Workers \ {w} : mstatus'[v] = mstatus[v]
<1>1. mstatus' = mstatus \/ \E value : mstatus' = [mstatus EXCEPT ![w] = value]
  BY DEF LoadRun, StageOf, ReportStep, CommitReport, AbandonReport, OtherStep, WriteTemp,
         StorePDF, FinishReport, FailReport, LoadForExecution, SkipStage, StartStage,
         StageRowMissing, FinishStage, FailStage, CommitResult, ResultAckLost, DatabaseError,
         Stop, Claim, CommitClaim, ClaimAckLost, RefuseExecution, CompleteScan, FailScan,
         Finalize, Hang, Restart, CloseSession, memory, vars
<1> QED BY <1>1 DEF TypeInv, TypeOK

LEMMA WorkersKeepCallers ==
  ASSUME StoryInv, NEW w \in Workers,
         \/ LoadRun(w) \/ StageOf(w) \/ ReportStep(w) \/ CommitReport(w)
         \/ AbandonReport(w) \/ OtherStep(w)
  PROVE  runs' \in [Scans -> Nat] /\ UNCHANGED callers
<1>1. runs' = runs \/ runs' = [runs EXCEPT ![scan[w]] = @ + 1]
  BY DEF LoadRun, StageOf, ReportStep, CommitReport, AbandonReport, OtherStep, WriteTemp,
         StorePDF, FinishReport, FailReport, artifact
<1>2. UNCHANGED callers
  BY DEF LoadRun, StageOf, ReportStep, CommitReport, AbandonReport, OtherStep, WriteTemp,
         StorePDF, FinishReport, FailReport, LoadForExecution, SkipStage, StartStage,
         StageRowMissing, FinishStage, FailStage, CommitResult, ResultAckLost, DatabaseError,
         Stop, Claim, CommitClaim, ClaimAckLost, RefuseExecution, CompleteScan, FailScan,
         Finalize, Hang, Restart, vars, callers
<1> QED BY <1>1, <1>2 DEF StoryInv

\* The scan of the worker that loads, stores or commits gets on with its story, and
\* no other step touches it.
LEMMA ScanTells ==
  ASSUME ReportStage = StageCount, StoryInv, NEW s \in Scans, NEW w \in Workers,
         \/ LoadRun(w) \/ StageOf(w) \/ ReportStep(w) \/ CommitReport(w)
         \/ AbandonReport(w) \/ OtherStep(w)
  PROVE  Story(s)'
<1>0. /\ TypeInv /\ TypeOK /\ Standing(w) /\ Refers(w) /\ Drafted(w) /\ Story(s)
      /\ mreport \in [Workers -> Nat] /\ pdf \in [Scans -> Nat] /\ report \in [Scans -> Nat]
      /\ draft \in [Workers -> {"none", "temp", "stored"}] /\ runs \in [Scans -> Nat]
  BY DEF StoryInv, DraftInv, PublicationInv, LockInv, TypeInv
<1>1. \A v \in Workers \ {w} :
        pc'[v] = pc[v] /\ scan'[v] = scan[v] /\ draft'[v] = draft[v]
  BY <1>0, OthersUntouched
<1>2. \A v \in Workers \ {w} :
        (RunsOn(v, s)' <=> RunsOn(v, s)) /\ draft'[v] = draft[v]
  BY <1>1 DEF RunsOn
<1>3. CASE LoadRun(w)
  <2>1. /\ UNCHANGED <<status, error, pdf, report, draft, scan>>
        /\ pc[w] = "claimed"
        /\ runs' = [runs EXCEPT ![scan[w]] = @ + 1]
    BY <1>3 DEF LoadRun, LoadForExecution, Goto, rows, files
  <2>2. ~RunsOn(w, s)
    BY <2>1 DEF RunsOn
  <2>3. CASE scan[w] # s
    <3>1. runs'[s] = runs[s] /\ ~RunsOn(w, s)'
      BY <1>0, <2>1, <2>3 DEF RunsOn
    <3> QED BY <1>0, <1>2, <2>1, <2>2, <3>1, StoryFrame
  <2>4. CASE scan[w] = s
    <3>1. runs'[s] = runs[s] + 1 /\ runs[s] \in Nat
      BY <1>0, <2>1, <2>4
    <3>2. CASE runs[s] = 0
      <4>1. Quiet(s)' /\ pdf'[s] = 0 /\ \A v \in Workers \ {w} : ~RunsOn(v, s)'
        BY <1>0, <1>2, <2>1, <3>2 DEF Story, Quiet
      <4> QED BY <3>1, <3>2, <4>1 DEF Story, Quiet
    <3>3. CASE runs[s] # 0
      <4>1. ~(runs'[s] <= 1)
        BY <3>1, <3>3
      <4> QED BY <4>1 DEF Story
    <3> QED BY <3>2, <3>3
  <2> QED BY <2>3, <2>4
<1>4. CASE StorePDF(w)
  <2>1. /\ UNCHANGED <<status, error, report, runs, scan, pc>>
        /\ draft' = [draft EXCEPT ![w] = "stored"]
        /\ pdf' = [pdf EXCEPT ![scan[w]] = @ + 1]
        /\ pc[w] = "inStage"
    BY <1>4 DEF StorePDF, AtReport, vars
  <2>2. RunsOn(w, s)' <=> RunsOn(w, s)
    BY <2>1 DEF RunsOn
  <2>3. CASE scan[w] # s
    <3>1. pdf'[s] = pdf[s] /\ ~RunsOn(w, s)
      BY <1>0, <2>1, <2>3 DEF RunsOn
    <3> QED BY <1>0, <1>2, <2>1, <2>2, <3>1, StoryFrame
  <2>4. CASE scan[w] = s
    <3>1. RunsOn(w, s) /\ draft'[w] = "stored"
      BY <1>0, <2>1, <2>4 DEF RunsOn
    <3> QED BY <1>0, <1>2, <2>1, <2>2, <3>1 DEF Story, Quiet
  <2> QED BY <2>3, <2>4
<1>5. CASE CommitReport(w)
  <2>1. /\ UNCHANGED <<pdf, runs>>
        /\ pc[w] = "finalizing" /\ pc'[w] = "idle" /\ scan[w] \in Scans
        /\ report' = [report EXCEPT ![scan[w]] = IF mreport[w] # 0 THEN mreport[w] ELSE @]
        /\ status' = [status EXCEPT ![scan[w]] = mstatus[w]]
        /\ error' = [error EXCEPT ![scan[w]] =
                       IF mstatus[w] = "FAILED" THEN merror[w] ELSE @]
    BY <1>0, <1>5 DEF TypeOK, TypeInv, ControlOK, Busy, CommitReport, CommitResult,
                      ResultAckLost, WriteResult, Goto, files
  <2>2. ~RunsOn(w, s)'
    BY <2>1 DEF RunsOn
  <2>3. CASE scan[w] # s
    <3>1. status'[s] = status[s] /\ error'[s] = error[s] /\ report'[s] = report[s]
      BY <1>0, <2>1, <2>3 DEF TypeOK
    <3> QED BY <1>0, <1>2, <2>1, <2>2, <3>1, StoryFrame
  <2>4. CASE scan[w] = s
    <3> SUFFICES ASSUME runs[s] <= 1 PROVE Story(s)'
      BY <2>1 DEF Story
    <3>1. RunsOn(w, s)
      BY <2>1, <2>4 DEF RunsOn
    <3>2. /\ Quiet(s) /\ (pdf[s] # 0 => draft[w] = "stored") /\ runs[s] # 0
          /\ \A v \in Workers : RunsOn(v, s) => v = w
      BY <1>0, <3>1 DEF Story
    <3>3. \A v \in Workers : ~RunsOn(v, s)'
      BY <1>2, <2>2, <3>2
    <3>4. /\ status'[s] = mstatus[w]
          /\ report'[s] = IF mreport[w] # 0 THEN mreport[w] ELSE 0
          /\ error'[s] = IF mstatus[w] = "FAILED" THEN merror[w] ELSE error[s]
      BY <1>0, <2>1, <2>4, <3>2 DEF TypeOK, Quiet
    <3>5. mreport[w] # 0 => mreport[w] = pdf[s]
      BY <1>0, <2>4 DEF Refers
    <3>6. CASE mstatus[w] = "COMPLETED" /\ mreport[w] # 0
      BY <2>1, <3>2, <3>3, <3>4, <3>5, <3>6 DEF Story, Quiet
    <3>7. CASE mstatus[w] = "FAILED" /\ draft[w] # "stored"
      <4>1. pdf[s] = 0 /\ mreport[w] = 0
        BY <3>2, <3>5, <3>7
      <4> QED BY <2>1, <3>2, <3>3, <3>4, <3>7, <4>1 DEF Story, Quiet
    <3> QED BY <1>0, <2>1, <3>6, <3>7 DEF Standing
  <2> QED BY <2>3, <2>4
<1>6. CASE AbandonReport(w)
  <2>1. UNCHANGED <<status, error, pdf, report, runs>> /\ pc'[w] \in {"idle", "stopped"}
    BY <1>0, <1>6 DEF TypeOK, AbandonReport, DatabaseError, Stop, rows
  <2>2. ~RunsOn(w, s)'
    BY <2>1 DEF RunsOn
  <2> QED BY <1>0, <1>2, <2>1, <2>2, StoryFrame
<1>7. CASE OtherStep(w) /\ (CommitClaim(w) \/ ClaimAckLost(w))
  <2>1. /\ UNCHANGED <<error, pdf, report, runs>> /\ pc'[w] \in {"idle", "claimed"}
        /\ pc[w] = "claiming" /\ status' = [status EXCEPT ![scan[w]] = mstatus[w]]
    BY <1>0, <1>7 DEF TypeOK, OtherStep, CommitClaim, ClaimAckLost, Goto, artifact
  <2>2. ~RunsOn(w, s)'
    BY <2>1 DEF RunsOn
  <2>3. status'[s] \in {status[s], "PROCESSING"}
    BY <1>0, <2>1 DEF TypeOK, Standing
  <2> QED BY <1>0, <1>2, <2>1, <2>2, <2>3, StoryFrame
<1>8. CASE OtherStep(w) /\ ~(CommitClaim(w) \/ ClaimAckLost(w))
  <2>1. UNCHANGED <<status, error, pdf, report, runs, draft>>
    BY <1>8 DEF OtherStep, Claim, RefuseExecution, CompleteScan, FailScan, Finalize, Hang,
                Restart, rows, artifact
  <2>2. RunsOn(w, s)' => RunsOn(w, s)
    BY <1>0, <1>8
       DEF TypeOK, RunsOn, OtherStep, Claim, RefuseExecution, CompleteScan, FailScan, Finalize,
           Hang, Restart, Goto, memory
  <2> QED BY <1>0, <1>2, <2>1, <2>2, StoryFrame
<1>9. CASE StageOf(w) \/ (ReportStep(w) /\ ~StorePDF(w))
  <2>1. /\ UNCHANGED <<status, error, pdf, report, runs>>
        /\ scan'[w] = scan[w] /\ pc[w] \in {"running", "inStage"}
    BY <1>9
       DEF StageOf, ReportStep, WriteTemp, FinishReport, FailReport, AtReport, SkipStage,
           StartStage, StageRowMissing, FinishStage, FailStage, Goto, rows, vars, files, artifact
  <2>2. draft[w] = "stored" => draft'[w] = "stored"
    BY <1>9 DEF StageOf, ReportStep, WriteTemp, FinishReport, FailReport, files, artifact
  <2> QED BY <1>0, <1>2, <2>1, <2>2, StoryFrame DEF RunsOn
<1> QED BY <1>3, <1>4, <1>5, <1>6, <1>7, <1>8, <1>9

LEMMA StoryStep ==
  ASSUME ReportStage = StageCount, StoryInv, [NextReport]_<<vars, artifact>>
  PROVE  StoryInv'
<1>1. CASE UNCHANGED <<vars, artifact>>
  <2>1. DraftInv'
    BY <1>1, DraftUnchanged DEF StoryInv
  <2>2. UNCHANGED <<pc, scan, next, mstatus, tpc, request, status, error, draft, mreport,
                    pdf, report, runs>>
    BY <1>1 DEF vars, artifact
  <2>3. \A s \in Scans : Story(s)'
    BY <2>2, StoryFrame DEF StoryInv, RunsOn
  <2> QED BY <2>1, <2>2, <2>3 DEF StoryInv, Calm, Standing
<1>2. ASSUME NEW w \in Workers,
             \/ LoadRun(w) \/ StageOf(w) \/ ReportStep(w) \/ CommitReport(w)
             \/ AbandonReport(w) \/ OtherStep(w)
      PROVE  StoryInv'
  <2>1. DraftInv'
    BY <1>2, DraftStep DEF StoryInv, NextReport
  <2>2. \A s \in Scans : Story(s)'
    BY <1>2, ScanTells
  <2>3. Standing(w)'
    BY <1>2, <2>1, WorkerStands
  <2>4. ASSUME NEW v \in Workers \ {w} PROVE Standing(v)'
    <3>1. /\ pc'[v] = pc[v] /\ next'[v] = next[v] /\ mstatus'[v] = mstatus[v]
          /\ draft'[v] = draft[v] /\ mreport'[v] = mreport[v]
      BY <1>2, OthersUntouched, OthersKeepStatus
         DEF StoryInv, DraftInv, PublicationInv, LockInv
    <3> QED BY <3>1 DEF StoryInv, Standing
  <2>5. runs' \in [Scans -> Nat] /\ UNCHANGED callers
    BY <1>2, WorkersKeepCallers
  <2> QED BY <2>1, <2>2, <2>3, <2>4, <2>5 DEF StoryInv, Calm, callers
<1> QED BY <1>1, <1>2, CallersTell DEF NextReport

\* What execution.py commits of a scan that was executed once agrees with what
\* report.py stored: the report of a completed scan is there, a failed one has none.
THEOREM ReportsMatchOutcomes ==
  ReportStage = StageCount => (SpecReport => []ReportMatchesOutcome)
<1> SUFFICES ASSUME ReportStage = StageCount PROVE SpecReport => []ReportMatchesOutcome
  OBVIOUS
<1>1. InitReport => StoryInv
  BY PublicationInit
     DEF InitReport, Init, StoryInv, DraftInv, Drafted, Calm, Standing, Story, Quiet, RunsOn
<1>2. StoryInv /\ [NextReport]_<<vars, artifact>> => StoryInv'
  BY StoryStep
<1>3. StoryInv => ReportMatchesOutcome
  BY DEF StoryInv, Story, ReportMatchesOutcome, FailedByPipeline
<1> QED BY <1>1, <1>2, <1>3, PTL DEF SpecReport

-----------------------------------------------------------------------------
(* Editions: every PDF that was stored belongs to an execution of its own. *)

\* The pipelines over s that have not stored a PDF, and still may.
Unstored(s) ==
  {w \in Workers :
     /\ scan[w] = s /\ draft[w] # "stored"
     /\ pc[w] \in {"running", "inStage", "failing", "finalizing", "hung"}}

\* TypeOKReport is not inductive: that no more PDFs are stored than pipelines were
\* started rests on each pipeline storing at most one.
EditionsInv ==
  /\ DraftInv
  /\ runs \in [Scans -> 0 .. MaxRuns]
  /\ mreport \in [Workers -> 0 .. MaxRuns]
  /\ report \in [Scans -> 0 .. MaxRuns]
  /\ \A s \in Scans :
       IsFiniteSet(Unstored(s)) /\ pdf[s] + Cardinality(Unstored(s)) <= runs[s]
  /\ \A s \in Scans : report[s] <= pdf[s]

LEMMA EditionsBound ==
  ASSUME EditionsInv, NEW s \in Scans
  PROVE  pdf[s] \in 0 .. MaxRuns /\ pdf[s] <= runs[s]
<1>1. /\ pdf[s] \in Nat /\ runs[s] \in 0 .. MaxRuns
      /\ Cardinality(Unstored(s)) \in Nat
      /\ pdf[s] + Cardinality(Unstored(s)) <= runs[s]
  BY FS_CardinalityType DEF EditionsInv, DraftInv, PublicationInv
<1> QED BY <1>1, ReportAssumption

\* A step that stores no PDF and starts no pipeline adds to none of these.
LEMMA UnstoredShrinks ==
  ASSUME EditionsInv, NEW s \in Scans, Unstored(s)' \in SUBSET Unstored(s),
         pdf'[s] = pdf[s], runs'[s] = runs[s]
  PROVE  IsFiniteSet(Unstored(s)') /\ pdf'[s] + Cardinality(Unstored(s)') <= runs'[s]
<1>1. /\ IsFiniteSet(Unstored(s)) /\ pdf[s] \in Nat /\ runs[s] \in 0 .. MaxRuns
      /\ pdf[s] + Cardinality(Unstored(s)) <= runs[s]
  BY DEF EditionsInv, DraftInv, PublicationInv
<1>2. /\ IsFiniteSet(Unstored(s)') /\ Cardinality(Unstored(s)') <= Cardinality(Unstored(s))
  BY <1>1, FS_Subset
<1>3. Cardinality(Unstored(s)) \in Nat
  BY <1>1, FS_CardinalityType
<1>4. Cardinality(Unstored(s)') \in Nat
  BY <1>2, FS_CardinalityType
<1> QED BY <1>1, <1>2, <1>3, <1>4, ReportAssumption

\* The worker that is left out, or the others' view of a step of w.
LEMMA UnstoredOthers ==
  ASSUME DraftInv, NEW s \in Scans, NEW w \in Workers,
         \/ LoadRun(w) \/ StageOf(w) \/ ReportStep(w) \/ CommitReport(w)
         \/ AbandonReport(w) \/ OtherStep(w)
  PROVE  Unstored(s)' \ {w} = Unstored(s) \ {w}
<1>1. \A v \in Workers \ {w} :
        pc'[v] = pc[v] /\ scan'[v] = scan[v] /\ draft'[v] = draft[v]
  BY OthersUntouched DEF DraftInv, PublicationInv, LockInv
<1> QED BY <1>1 DEF Unstored

\* A pipeline that starts: one more run, and one more that may store.
LEMMA LoadAddsRun ==
  ASSUME EditionsInv, NEW s \in Scans, NEW w \in Workers, LoadRun(w)
  PROVE  IsFiniteSet(Unstored(s)') /\ pdf'[s] + Cardinality(Unstored(s)') <= runs'[s]
<1>1. /\ IsFiniteSet(Unstored(s)) /\ pdf[s] \in Nat /\ runs[s] \in 0 .. MaxRuns
      /\ pdf[s] + Cardinality(Unstored(s)) <= runs[s]
      /\ DraftInv /\ TypeOK /\ runs \in [Scans -> 0 .. MaxRuns]
  BY DEF EditionsInv, DraftInv, PublicationInv, LockInv, TypeInv
<1>2. /\ pdf' = pdf /\ scan' = scan
      /\ runs' = [runs EXCEPT ![scan[w]] = @ + 1]
  BY DEF LoadRun, LoadForExecution, files
<1>3. Unstored(s)' \ {w} = Unstored(s) \ {w}
  BY <1>1, UnstoredOthers
<1>4. CASE scan[w] # s
  <2>1. w \notin Unstored(s)'
    BY <1>2, <1>4 DEF Unstored
  <2>2. Unstored(s)' \in SUBSET Unstored(s) /\ runs'[s] = runs[s]
    BY <1>1, <1>2, <1>3, <1>4, <2>1
  <2> QED BY <1>2, <2>2, UnstoredShrinks
<1>5. CASE scan[w] = s
  <2> DEFINE More == Unstored(s) \cup {w}
  <2>1. /\ IsFiniteSet(More)
        /\ Cardinality(More) = Cardinality(Unstored(s)) \/
             Cardinality(More) = Cardinality(Unstored(s)) + 1
    BY <1>1, FS_AddElement
  <2>2. Unstored(s)' \in SUBSET More
    BY <1>3
  <2>3. /\ IsFiniteSet(Unstored(s)') /\ Cardinality(Unstored(s)') <= Cardinality(More)
    BY <2>1, <2>2, FS_Subset
  <2>4. Cardinality(Unstored(s)) \in Nat
    BY <1>1, FS_CardinalityType
  <2>5. Cardinality(Unstored(s)') \in Nat
    BY <2>3, FS_CardinalityType
  <2>6. runs'[s] = runs[s] + 1 /\ pdf'[s] = pdf[s]
    BY <1>1, <1>2, <1>5
  <2> HIDE DEF More
  <2> QED BY <1>1, <2>1, <2>3, <2>4, <2>5, <2>6, ReportAssumption
<1> QED BY <1>4, <1>5

\* A pipeline that stores its PDF: one more edition, and one less that may store.
LEMMA StoreAddsEdition ==
  ASSUME EditionsInv, NEW s \in Scans, NEW w \in Workers, StorePDF(w)
  PROVE  IsFiniteSet(Unstored(s)') /\ pdf'[s] + Cardinality(Unstored(s)') <= runs'[s]
<1>1. /\ IsFiniteSet(Unstored(s)) /\ pdf[s] \in Nat /\ runs[s] \in 0 .. MaxRuns
      /\ pdf[s] + Cardinality(Unstored(s)) <= runs[s]
      /\ DraftInv /\ draft \in [Workers -> {"none", "temp", "stored"}]
      /\ pdf \in [Scans -> Nat]
  BY DEF EditionsInv, DraftInv, PublicationInv
<1>2. /\ runs' = runs /\ scan' = scan /\ pc[w] = "inStage" /\ draft[w] = "temp"
      /\ draft'[w] = "stored" /\ pdf' = [pdf EXCEPT ![scan[w]] = @ + 1]
  BY <1>1 DEF StorePDF, AtReport, vars
<1>3. Unstored(s)' = Unstored(s) \ {w}
  <2>1. w \notin Unstored(s)'
    BY <1>2 DEF Unstored
  <2>2. Unstored(s)' \ {w} = Unstored(s) \ {w}
    BY <1>1, UnstoredOthers DEF ReportStep
  <2> QED BY <2>1, <2>2
<1>4. CASE scan[w] # s
  BY <1>1, <1>2, <1>3, <1>4, UnstoredShrinks
<1>5. CASE scan[w] = s
  <2>1. w \in Unstored(s)
    BY <1>2, <1>5 DEF Unstored
  <2>2. /\ IsFiniteSet(Unstored(s) \ {w})
        /\ Cardinality(Unstored(s) \ {w}) = Cardinality(Unstored(s)) - 1
    BY <1>1, <2>1, FS_RemoveElement
  <2>3. Cardinality(Unstored(s)) \in Nat
    BY <1>1, FS_CardinalityType
  <2>4. pdf'[s] = pdf[s] + 1 /\ runs'[s] = runs[s]
    BY <1>1, <1>2, <1>5
  <2> QED BY <1>1, <1>3, <2>2, <2>3, <2>4, ReportAssumption
<1> QED BY <1>4, <1>5

LEMMA EditionsCount ==
  ASSUME EditionsInv, [NextReport]_<<vars, artifact>>, NEW s \in Scans
  PROVE  IsFiniteSet(Unstored(s)') /\ pdf'[s] + Cardinality(Unstored(s)') <= runs'[s]
<1>0. DraftInv /\ TypeOK
  BY DEF EditionsInv, DraftInv, PublicationInv, LockInv, TypeInv
<1>1. CASE UNCHANGED <<vars, artifact>>
  <2>1. UNCHANGED <<pc, scan, draft, pdf, runs>>
    BY <1>1 DEF vars, artifact
  <2>2. Unstored(s)' = Unstored(s)
    BY <2>1 DEF Unstored
  <2> QED BY <2>1, <2>2, UnstoredShrinks
<1>2. CASE CallersStep
  <2>1. UNCHANGED <<pc, scan, draft, pdf, runs>>
    BY <1>2 DEF CallersStep, CreateScan, CallerStep, LoadForTrigger, TriggerStep,
                TriggerTransition, TriggerCommit, TriggerAbort, memory, artifact
  <2>2. Unstored(s)' = Unstored(s)
    BY <2>1 DEF Unstored
  <2> QED BY <2>1, <2>2, UnstoredShrinks
<1>3. ASSUME NEW w \in Workers,
             \/ StageOf(w) \/ (ReportStep(w) /\ ~StorePDF(w)) \/ CommitReport(w)
             \/ AbandonReport(w) \/ OtherStep(w)
      PROVE  IsFiniteSet(Unstored(s)') /\ pdf'[s] + Cardinality(Unstored(s)') <= runs'[s]
  <2>1. pdf' = pdf /\ runs' = runs
    BY <1>3
       DEF StageOf, ReportStep, CommitReport, AbandonReport, OtherStep, WriteTemp,
           FinishReport, FailReport, artifact, files
  <2>2. Unstored(s)' \ {w} = Unstored(s) \ {w}
    BY <1>0, <1>3, UnstoredOthers
  <2>3. w \in Unstored(s)' => w \in Unstored(s)
    <3>1. CASE StageOf(w)
      <4>1. /\ scan' = scan /\ draft' = draft
            /\ pc[w] \in {"running", "inStage"}
        BY <3>1 DEF StageOf, SkipStage, StartStage, StageRowMissing, FinishStage, FailStage,
                    Goto, artifact
      <4> QED BY <4>1 DEF Unstored
    <3>2. CASE ReportStep(w) /\ ~StorePDF(w)
      <4>1. /\ pc[w] = "inStage" /\ scan' = scan
            /\ draft'[w] # "stored" => draft[w] # "stored"
        BY <3>2 DEF ReportStep, WriteTemp, FinishReport, FailReport, FinishStage,
                    FailStage, AtReport, vars
      <4> QED BY <4>1 DEF Unstored
    <3>3. CASE CommitReport(w) \/ AbandonReport(w)
      <4>1. pc'[w] \in {"idle", "stopped"}
        BY <1>0, <3>3 DEF TypeOK, CommitReport, CommitResult, ResultAckLost, AbandonReport,
                          DatabaseError, Stop, Goto
      <4> QED BY <4>1 DEF Unstored
    <3>4. CASE OtherStep(w)
      <4>1. draft' = draft
        BY <3>4 DEF OtherStep, artifact
      <4>2. pc'[w] \in {"running", "inStage", "failing", "finalizing", "hung"} =>
              /\ pc[w] \in {"running", "inStage", "failing"}
              /\ scan' = scan
        BY <1>0, <3>4
           DEF TypeOK, OtherStep, Claim, CommitClaim, ClaimAckLost, RefuseExecution,
               CompleteScan, FailScan, Finalize, Hang, Restart, Goto, memory
      <4> QED BY <4>1, <4>2 DEF Unstored
    <3> QED BY <1>3, <3>1, <3>2, <3>3, <3>4
  <2>4. Unstored(s)' \in SUBSET Unstored(s)
    BY <2>2, <2>3
  <2> QED BY <2>1, <2>4, UnstoredShrinks
<1> QED BY <1>1, <1>2, <1>3, LoadAddsRun, StoreAddsEdition DEF NextReport, ReportStep

LEMMA EditionsStep == EditionsInv /\ [NextReport]_<<vars, artifact>> => EditionsInv'
<1> SUFFICES ASSUME EditionsInv, [NextReport]_<<vars, artifact>> PROVE EditionsInv'
  OBVIOUS
<1>1. DraftInv /\ TypeInv /\ mreport \in [Workers -> 0 .. MaxRuns]
      /\ report \in [Scans -> 0 .. MaxRuns] /\ runs \in [Scans -> 0 .. MaxRuns]
      /\ PublicationInv /\ pdf \in [Scans -> Nat]
  BY DEF EditionsInv, DraftInv, PublicationInv, LockInv
<1>2. DraftInv'
  BY <1>1, DraftStep, DraftUnchanged
<1>3. \/ UNCHANGED <<mreport, report, runs>>
      \/ \E w \in Workers :
           \/ LoadRun(w) /\ UNCHANGED <<mreport, report>>
           \/ FinishReport(w) /\ UNCHANGED <<report, runs>>
           \/ mreport' = [mreport EXCEPT ![w] = 0] /\ runs' = runs
              /\ report' \in {report, [report EXCEPT ![scan[w]] =
                                         IF mreport[w] # 0 THEN mreport[w] ELSE @]}
  BY DEF NextReport, CallersStep, LoadRun, StageOf, ReportStep, CommitReport, AbandonReport,
         OtherStep, WriteTemp, StorePDF, FinishReport, FailReport, DropDraft, artifact, files
<1>4. runs' \in [Scans -> 0 .. MaxRuns]
  <2>1. ASSUME NEW w \in Workers, LoadRun(w) PROVE runs' \in [Scans -> 0 .. MaxRuns]
    <3>1. runs[scan[w]] < MaxRuns /\ runs' = [runs EXCEPT ![scan[w]] = @ + 1]
          /\ scan[w] \in Scans
      BY <1>1, <2>1 DEF LoadRun, LoadForExecution, Goto, TypeInv, ControlOK, Busy
    <3>2. runs[scan[w]] + 1 \in 0 .. MaxRuns
      BY <1>1, <3>1, ReportAssumption
    <3> QED BY <1>1, <3>1, <3>2
  <2> QED BY <1>1, <1>3, <2>1
<1>5. mreport' \in [Workers -> 0 .. MaxRuns]
  <2>1. ASSUME NEW w \in Workers, FinishReport(w) PROVE mreport' \in [Workers -> 0 .. MaxRuns]
    <3>1. scan[w] \in Scans /\ mreport' = [mreport EXCEPT ![w] = pdf[scan[w]]]
      BY <1>1, <2>1 DEF FinishReport, AtReport, TypeInv, ControlOK, Busy
    <3>2. pdf[scan[w]] \in 0 .. MaxRuns
      BY <3>1, EditionsBound
    <3> QED BY <1>1, <3>1, <3>2
  <2>2. 0 \in 0 .. MaxRuns
    BY ReportAssumption
  <2> QED BY <1>1, <1>3, <2>1, <2>2
<1>6. report' \in [Scans -> 0 .. MaxRuns]
  BY <1>1, <1>3
<1>7. ASSUME NEW s \in Scans PROVE report'[s] <= pdf'[s]
  <2>1. report[s] <= pdf[s] /\ report[s] \in Nat /\ pdf[s] \in Nat
    BY <1>1, ReportAssumption DEF EditionsInv
  <2>2. /\ pdf'[s] \in {pdf[s], pdf[s] + 1}
        /\ report'[s] \in {report[s], pdf[s]}
    BY <1>1, PublicationRefines
       DEF Publication!Next, Publication!Store, Publication!Publish, PublicationInv
  <2> QED BY <2>1, <2>2
<1> QED BY <1>2, <1>4, <1>5, <1>6, <1>7, EditionsCount DEF EditionsInv

\* However often a scan is queued and whatever fails, report.py stores no more PDFs
\* under its name than its pipeline was started, and the committed row and the sessions
\* of the workers refer to no edition that was not stored.
THEOREM ReportTypeCorrect == SpecReport => []TypeOKReport
<1>1. InitReport => EditionsInv
  <2> SUFFICES ASSUME InitReport PROVE EditionsInv
    OBVIOUS
  <2>1. DraftInv /\ 0 \in 0 .. MaxRuns
    BY PublicationInit, ReportAssumption DEF InitReport, Init, DraftInv, Drafted
  <2>2. ASSUME NEW s \in Scans PROVE Unstored(s) = {} /\ pdf[s] = 0 /\ runs[s] = 0
    BY DEF InitReport, Init, Unstored
  <2>3. IsFiniteSet({}) /\ Cardinality({}) = 0
    BY FS_EmptySet
  <2> QED BY <2>1, <2>2, <2>3 DEF InitReport, EditionsInv
<1>2. EditionsInv => TypeOKReport
  <2> SUFFICES ASSUME EditionsInv PROVE TypeOKReport
    OBVIOUS
  <2>1. pdf \in [Scans -> Nat]
    BY DEF EditionsInv, DraftInv, PublicationInv
  <2>2. pdf \in [Scans -> 0 .. MaxRuns] /\ \A s \in Scans : pdf[s] <= runs[s]
    BY <2>1, EditionsBound
  <2>3. ASSUME NEW w \in Workers, mreport[w] # 0 PROVE mreport[w] <= pdf[scan[w]]
    <3>1. mreport[w] \in Nat /\ mreport[w] = pdf[scan[w]]
      BY <2>3 DEF EditionsInv, DraftInv, PublicationInv, Refers
    <3> QED BY <3>1
  <2> QED BY <2>2, <2>3 DEF EditionsInv, DraftInv, TypeOKReport
<1> QED BY <1>1, <1>2, EditionsStep, PTL DEF SpecReport

\* What is stored in between changes nothing of how scans are executed: every theorem
\* of ScanExecution holds with reports as well.
THEOREM ReportExecutes == SpecReport => Spec
<1>1. InitReport => Init
  BY DEF InitReport
<1>2. [NextReport]_<<vars, artifact>> => [Next]_vars
  BY ReportStepExecutes DEF vars
<1> QED BY <1>1, <1>2, PTL DEF SpecReport, Spec

-----------------------------------------------------------------------------
(* One run, if no two callers submit the same scan.                        *)

\* No pipeline is started over a scan a second time, not even after a fault.
AtMostOneRun == \A s \in Scans : runs[s] <= 1

\* A COMPLETED scan refers to the PDF that is stored, one that its pipeline FAILED
\* has neither: ReportMatchesOutcome without its premise.
ReportsAgree ==
  \A s \in Scans :
    /\ status[s] = "COMPLETED" => report[s] # 0 /\ pdf[s] = report[s]
    /\ FailedByPipeline(s) => report[s] = 0 /\ pdf[s] = 0

Taken == {"PROCESSING", "COMPLETED", "FAILED"}

\* A scan whose pipeline was started is never QUEUED again, and no worker that has not
\* started it has it in hand.
StartedOnce(s) ==
  runs[s] # 0 =>
    /\ runs[s] = 1
    /\ status[s] \in Taken
    /\ \A w \in Workers : scan[w] = s => pc[w] \notin {"claiming", "claimed"}

OnceInv ==
  /\ SafetyInv
  /\ runs \in [Scans -> Nat]
  /\ \A s \in Scans : StartedOnce(s)

\* The table of transitions leads from these statuses to one another only.
LEMMA TakenStays ==
  ASSUME SingleTrigger, SafetyInv, [Next]_vars, NEW s \in Scans, status[s] \in Taken
  PROVE  status'[s] \in Taken
<1>1. [Lifecycle!Next]_(Lifecycle!vars)
  BY StepRefines
<1>2. status \in [Scans -> ScanStatus \cup {"ABSENT"}]
  BY DEF SafetyInv, TypeInv, TypeOK
<1>3. CASE UNCHANGED status
  BY <1>3
<1>4. ASSUME NEW r \in Scans,
             Lifecycle!Create(r) \/ Lifecycle!Submit(r) \/ Lifecycle!Reject(r)
             \/ Lifecycle!Claim(r) \/ Lifecycle!Finish(r)
      PROVE  status'[s] \in Taken
  BY <1>2, <1>4
     DEF Taken, Lifecycle!Create, Lifecycle!Submit, Lifecycle!Reject, Lifecycle!Claim,
         Lifecycle!Finish
<1> QED BY <1>1, <1>3, <1>4 DEF Lifecycle!Next, Lifecycle!vars

\* A worker has claimed a scan only if it had it in hand before, not started.
LEMMA ClaimedBefore ==
  ASSUME TypeInv, NextReport, NEW v \in Workers, pc'[v] = "claimed"
  PROVE  scan'[v] = scan[v] /\ pc[v] \in {"claiming", "claimed"} /\ ~LoadRun(v)
<1>0. TypeOK
  BY DEF TypeInv
<1>1. ~LoadRun(v)
  BY <1>0 DEF TypeOK, LoadRun, LoadForExecution, Goto
<1>2. CASE CallersStep
  <2>1. UNCHANGED <<pc, scan>>
    BY <1>2 DEF CallersStep, CreateScan, CallerStep, LoadForTrigger, TriggerStep,
                TriggerTransition, TriggerCommit, TriggerAbort, memory
  <2> QED BY <1>1, <2>1
<1>3. ASSUME NEW w \in Workers,
             \/ LoadRun(w) \/ StageOf(w) \/ ReportStep(w) \/ CommitReport(w)
             \/ AbandonReport(w) \/ OtherStep(w)
      PROVE  scan'[v] = scan[v] /\ pc[v] \in {"claiming", "claimed"}
  <2>1. UNCHANGED <<pc, scan>> \/ WorkerStep(w) \/ FaultStep(w) \/ Restart(w)
    BY <1>3, BeginsOrRefuses
       DEF LoadRun, StageOf, ReportStep, CommitReport, AbandonReport, OtherStep, WriteTemp,
           StorePDF, FinishReport, FailReport, WorkerStep, FaultStep, vars
  <2>2. CASE v # w
    BY <1>0, <2>1, <2>2, OthersStay DEF TypeInv
  <2>3. CASE v = w /\ ~UNCHANGED <<pc, scan>>
    <3>1. WorkerStep(v) \/ FaultStep(v) \/ Restart(v)
      BY <2>1, <2>3
    <3>2. pc' = pc \/ CommitClaim(v)
      BY <1>0, <3>1
         DEF TypeOK, WorkerStep, FaultStep, Restart, Claim, BeginExecution, LoadForExecution,
             RefuseExecution, SkipStage, StartStage, StageRowMissing, FinishStage, FailStage,
             CompleteScan, FailScan, Finalize, CommitResult, DatabaseError, ClaimAckLost,
             ResultAckLost, Stop, Hang, Goto
    <3>3. CASE CommitClaim(v)
      BY <3>3 DEF CommitClaim, Goto, memory
    <3>4. CASE pc' = pc
      <4>1. pc[v] = "claimed"
        BY <3>4
      <4> QED BY <1>0, <2>3, <3>1, <3>4, <4>1
              DEF TypeOK, WorkerStep, FaultStep, Restart, Claim, CommitClaim, BeginExecution,
                  LoadForExecution, RefuseExecution, SkipStage, StartStage, StageRowMissing,
                  FinishStage, FailStage, CompleteScan, FailScan, Finalize, CommitResult,
                  DatabaseError, ClaimAckLost, ResultAckLost, Stop, Hang, Goto
    <3> QED BY <3>2, <3>3, <3>4
  <2>4. CASE UNCHANGED <<pc, scan>>
    BY <2>4
  <2> QED BY <2>2, <2>3, <2>4
<1> QED BY <1>1, <1>2, <1>3 DEF NextReport

LEMMA OnceStep ==
  ASSUME SingleTrigger, OnceInv, [NextReport]_<<vars, artifact>>
  PROVE  OnceInv'
<1>0. /\ SafetyInv /\ TypeInv /\ AtMostOneExecutor /\ runs \in [Scans -> Nat]
      /\ \A s \in Scans : StartedOnce(s)
  BY DEF OnceInv, SafetyInv
<1>1. [Next]_vars
  BY ReportStepExecutes DEF vars
<1>2. SafetyInv'
  BY <1>0, <1>1, SafetyStep
<1>3. CASE UNCHANGED <<vars, artifact>>
  BY <1>0, <1>2, <1>3 DEF OnceInv, StartedOnce, vars, artifact
<1>4. ASSUME NextReport PROVE OnceInv'
  <2>1. \/ runs' = runs
        \/ \E w \in Workers : LoadRun(w) /\ runs' = [runs EXCEPT ![scan[w]] = @ + 1]
    BY <1>4 DEF NextReport, CallersStep, LoadRun, StageOf, ReportStep, CommitReport,
                AbandonReport, OtherStep, WriteTemp, StorePDF, FinishReport, FailReport,
                artifact
  <2>2. runs' \in [Scans -> Nat]
    BY <1>0, <2>1
  <2>3. ASSUME NEW s \in Scans, runs'[s] # 0, runs'[s] # runs[s]
        PROVE  \E w \in Workers :
                 LoadRun(w) /\ scan[w] = s /\ runs[s] = 0 /\ runs'[s] = 1
                 /\ status[s] = "PROCESSING"
    <3>1. PICK w \in Workers : LoadRun(w) /\ runs' = [runs EXCEPT ![scan[w]] = @ + 1]
      BY <2>1, <2>3
    <3>2. scan[w] = s /\ runs'[s] = runs[s] + 1
      BY <1>0, <2>3, <3>1
    <3>3. pc[w] = "claimed" /\ status[s] = "PROCESSING"
      BY <3>1, <3>2 DEF LoadRun, LoadForExecution, Goto
    <3>4. runs[s] = 0
      BY <1>0, <3>2, <3>3 DEF StartedOnce
    <3> QED BY <3>1, <3>2, <3>3, <3>4
  <2>4. ASSUME NEW s \in Scans, runs'[s] # 0 PROVE runs'[s] = 1 /\ status[s] \in Taken
    BY <1>0, <2>3, <2>4 DEF StartedOnce, Taken
  <2>5. ASSUME NEW s \in Scans, runs'[s] # 0, NEW v \in Workers, scan'[v] = s
        PROVE  pc'[v] \notin {"claiming", "claimed"}
    <3>1. status'[s] \in Taken
      BY <1>0, <1>1, <2>4, <2>5, TakenStays
    <3>2. pc'[v] # "claiming"
      BY <1>2, <2>5, <3>1 DEF SafetyInv, WorkerInv, Taken
    <3>3. ASSUME pc'[v] = "claimed" PROVE FALSE
      <4>1. scan[v] = s /\ pc[v] \in {"claiming", "claimed"} /\ ~LoadRun(v)
        BY <1>0, <1>4, <2>5, <3>3, ClaimedBefore
      <4>2. runs[s] = 0
        BY <1>0, <4>1 DEF StartedOnce
      <4>3. PICK w \in Workers : LoadRun(w) /\ scan[w] = s
        BY <2>3, <2>5, <4>2
      <4>4. v = w
        BY <1>0, <4>1, <4>3, ConstantsAssumption DEF AtMostOneExecutor
      <4> QED BY <4>1, <4>3, <4>4
    <3> QED BY <3>2, <3>3
  <2>6. ASSUME NEW s \in Scans PROVE StartedOnce(s)'
    <3>1. runs'[s] # 0 => status'[s] \in Taken
      BY <1>0, <1>1, <2>4, TakenStays
    <3>2. Taken' = Taken
      BY DEF Taken
    <3> QED BY <2>4, <2>5, <3>1, <3>2 DEF StartedOnce
  <2> QED BY <1>2, <2>2, <2>6 DEF OnceInv
<1> QED BY <1>3, <1>4

\* If no two callers submit the same scan, no scan's pipeline is ever started twice,
\* whatever fails in between: a fault after the claim strands a scan, but never puts it
\* back in the queue half done.
THEOREM ExecutedOnce == SingleTrigger => (SpecReport => []AtMostOneRun)
<1> SUFFICES ASSUME SingleTrigger PROVE SpecReport => []AtMostOneRun
  OBVIOUS
<1>1. InitReport => OnceInv
  BY SafetyInit DEF InitReport, OnceInv, StartedOnce
<1>2. OnceInv /\ [NextReport]_<<vars, artifact>> => OnceInv'
  BY OnceStep
<1>3. OnceInv => AtMostOneRun
  BY DEF OnceInv, StartedOnce, AtMostOneRun
<1> QED BY <1>1, <1>2, <1>3, PTL DEF SpecReport

\* So what is committed of a scan then always agrees with what report.py stored.
THEOREM ReportsAlwaysAgree ==
  SingleTrigger /\ ReportStage = StageCount => (SpecReport => []ReportsAgree)
<1> SUFFICES ASSUME SingleTrigger, ReportStage = StageCount PROVE SpecReport => []ReportsAgree
  OBVIOUS
<1>1. SpecReport => []AtMostOneRun
  BY ExecutedOnce
<1>2. SpecReport => []ReportMatchesOutcome
  BY ReportsMatchOutcomes
<1>3. AtMostOneRun /\ ReportMatchesOutcome => ReportsAgree
  BY DEF AtMostOneRun, ReportMatchesOutcome, ReportsAgree
<1> QED BY <1>1, <1>2, <1>3, PTL

=============================================================================
