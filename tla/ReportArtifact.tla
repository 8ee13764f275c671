--------------------------- MODULE ReportArtifact ---------------------------
(***************************************************************************)
(* The report stage inside a scan's execution: the PDF that                *)
(* workers/stages/report.py renders and moves into storage before the      *)
(* worker's transaction, with the reference to it, is committed.           *)
(*                                                                         *)
(* Every execution of a scan stores its PDF under the same name, the scan's*)
(* id.  pdf counts the editions that were moved there; report is the       *)
(* edition that the committed result_ref describes.  The file system has no*)
(* transaction: what is stored stays when the database rolls back.         *)
(***************************************************************************)
EXTENDS ScanExecution

CONSTANTS
  ReportStage,   \* the position of "report" in STAGE_ORDER
  MaxRuns        \* bound on the executions of one scan

ASSUME ReportAssumption ==
  /\ ReportStage \in Registered
  /\ MaxRuns \in Nat \ {0}

VARIABLES
  draft,      \* each worker: what it holds of a PDF, none, a temporary file, or stored
  mreport,    \* each worker: the edition its uncommitted result_ref describes, or 0
  pdf,        \* each scan: the edition stored under its name, or 0
  report,     \* each scan: the edition its committed result_ref describes, or 0
  leftover,   \* temporary files nobody will remove
  runs        \* each scan: how often its pipeline was started

files == <<pdf, leftover>>
artifact == <<draft, mreport, pdf, report, leftover, runs>>

InitReport ==
  /\ Init
  /\ draft = [w \in Workers |-> "none"]
  /\ mreport = [w \in Workers |-> 0]
  /\ pdf = [s \in Scans |-> 0]
  /\ report = [s \in Scans |-> 0]
  /\ leftover = 0
  /\ runs = [s \in Scans |-> 0]

AtReport(w) == pc[w] = "inStage" /\ next[w] = ReportStage

\* The session of w is gone, and with it what w knew of its PDF.
DropDraft(w) ==
  /\ draft' = [draft EXCEPT ![w] = "none"]
  /\ mreport' = [mreport EXCEPT ![w] = 0]

-----------------------------------------------------------------------------
(* ReportStage._render_and_store: no await, so only the end of the process *)
(* comes between two of these.                                             *)

\* The document is composed and rendered, and its bytes go to a temporary file.
WriteTemp(w) ==
  /\ AtReport(w) /\ draft[w] = "none"
  /\ draft' = [draft EXCEPT ![w] = "temp"]
  /\ UNCHANGED <<vars, mreport, files, report, runs>>

\* Mutant of StorePDF: the move is tried again after it succeeded.
StorePDFAgain(w) ==
  /\ AtReport(w) /\ draft[w] # "none"
  /\ draft' = [draft EXCEPT ![w] = "stored"]
  /\ pdf' = [pdf EXCEPT ![scan[w]] = @ + 1]
  /\ UNCHANGED <<vars, mreport, report, leftover, runs>>

\* storage.persist: os.replace to <scan id>.pdf, over the PDF of an earlier run.
StorePDF(w) ==
  /\ AtReport(w) /\ draft[w] = "temp"
  /\ draft' = [draft EXCEPT ![w] = "stored"]
  /\ pdf' = [pdf EXCEPT ![scan[w]] = @ + 1]
  /\ UNCHANGED <<vars, mreport, report, leftover, runs>>

\* Mutant of FinishReport: the result is returned before the file is moved.
FinishReportUnstored(w) ==
  /\ AtReport(w) /\ draft[w] = "temp"
  /\ FinishStage(w)
  /\ mreport' = [mreport EXCEPT ![w] = pdf[scan[w]] + 1]
  /\ UNCHANGED <<draft, files, report, runs>>

\* The stage returns a result_ref that names the stored file.
FinishReport(w) ==
  /\ AtReport(w) /\ draft[w] = "stored"
  /\ FinishStage(w)
  /\ mreport' = [mreport EXCEPT ![w] = pdf[scan[w]]]
  /\ UNCHANGED <<draft, files, report, runs>>

\* Mutant of FailReport: no `finally` removes the temporary file.
FailReportLeaving(w, message) ==
  /\ AtReport(w) /\ draft[w] # "stored"
  /\ message = StageErrorMessage
  /\ FailStage(w, message)
  /\ leftover' = leftover + IF draft[w] = "temp" THEN 1 ELSE 0
  /\ DropDraft(w)
  /\ UNCHANGED <<pdf, report, runs>>

\* Composing raises anything; rendering, writing or moving raise StageError, and
\* the temporary file is unlinked.
FailReport(w, message) ==
  /\ AtReport(w) /\ draft[w] # "stored"
  /\ draft[w] = "temp" => message = StageErrorMessage
  /\ FailStage(w, message)
  /\ DropDraft(w)
  /\ UNCHANGED <<files, report, runs>>

-----------------------------------------------------------------------------
(* The rest of a scan's execution, with what it does to the report.        *)

LoadRun(w) ==
  /\ LoadForExecution(w)
  /\ runs[scan[w]] < MaxRuns
  /\ runs' = [runs EXCEPT ![scan[w]] = @ + 1]
  /\ UNCHANGED <<draft, mreport, files, report>>

\* Mutant of StageOf: the report stage swallows a failure to render or to store.
StageOfSwallowing(w) ==
  /\ \/ SkipStage(w)
     \/ StartStage(w)
     \/ StageRowMissing(w)
     \/ FinishStage(w)
     \/ ~AtReport(w) /\ \E m \in {StageErrorMessage, UnexpectedStage} : FailStage(w, m)
  /\ UNCHANGED artifact

\* The stages other than the report.
StageOf(w) ==
  /\ \/ SkipStage(w)
     \/ StartStage(w)
     \/ StageRowMissing(w)
     \/ ~AtReport(w) /\ FinishStage(w)
     \/ ~AtReport(w) /\ \E m \in {StageErrorMessage, UnexpectedStage} : FailStage(w, m)
  /\ UNCHANGED artifact

ReportStep(w) ==
  \/ WriteTemp(w)
  \/ StorePDF(w)
  \/ FinishReport(w)
  \/ \E m \in {StageErrorMessage, UnexpectedStage} : FailReport(w, m)

\* The commit of the worker's transaction publishes its result_ref.
CommitReport(w) ==
  /\ CommitResult(w) \/ ResultAckLost(w)
  /\ report' =
       [report EXCEPT ![scan[w]] = IF mreport[w] # 0 THEN mreport[w] ELSE @]
  /\ DropDraft(w)
  /\ UNCHANGED <<files, runs>>

\* A rollback leaves the stored PDF; the death of the process leaves a temporary
\* file too.  No statement runs while the file is written, so none can fail then.
AbandonReport(w) ==
  /\ \/ DatabaseError(w) /\ draft[w] # "temp"
     \/ Stop(w)
  /\ leftover' = leftover + IF draft[w] = "temp" THEN 1 ELSE 0
  /\ DropDraft(w)
  /\ UNCHANGED <<pdf, report, runs>>

OtherStep(w) ==
  /\ \/ \E s \in Scans : Claim(w, s)
     \/ CommitClaim(w)
     \/ ClaimAckLost(w)
     \/ RefuseExecution(w)
     \/ CompleteScan(w)
     \/ FailScan(w)
     \/ Hang(w)
     \/ Restart(w)
  /\ UNCHANGED artifact

CallersStep ==
  /\ \/ \E s \in Scans : CreateScan(s)
     \/ \E t \in Triggers : CallerStep(t)
  /\ UNCHANGED artifact

NextReport ==
  \/ CallersStep
  \/ \E w \in Workers :
       \/ LoadRun(w)
       \/ StageOf(w)
       \/ ReportStep(w)
       \/ CommitReport(w)
       \/ AbandonReport(w)
       \/ OtherStep(w)

SpecReport == InitReport /\ [][NextReport]_<<vars, artifact>>

-----------------------------------------------------------------------------
(* Properties.                                                             *)

\* Types of the variables of this module; no more editions are stored than pipelines
\* were started, and rows and sessions refer to editions that were stored.
TypeOKReport ==
  /\ draft \in [Workers -> {"none", "temp", "stored"}]
  /\ mreport \in [Workers -> 0 .. MaxRuns]
  /\ pdf \in [Scans -> 0 .. MaxRuns]
  /\ report \in [Scans -> 0 .. MaxRuns]
  /\ leftover \in Nat
  /\ runs \in [Scans -> 0 .. MaxRuns]
  /\ \A s \in Scans : report[s] <= pdf[s] /\ pdf[s] <= runs[s]
  /\ \A w \in Workers : mreport[w] # 0 => mreport[w] <= pdf[scan[w]]

FailedByPipeline(s) ==
  status[s] = "FAILED" /\ error[s] \notin {NoError, RejectedError}

\* What committed rows and storage say together of a scan whose pipeline was
\* started at most once: a COMPLETED scan refers to the PDF that is stored, one
\* that its pipeline FAILED has neither (workers/stages/report.py: "a missing
\* report is never silently accepted").
ReportMatchesOutcome ==
  \A s \in Scans :
    runs[s] <= 1 =>
      /\ status[s] = "COMPLETED" => report[s] # 0 /\ pdf[s] = report[s]
      /\ FailedByPipeline(s) => report[s] = 0 /\ pdf[s] = 0

\* The PDF of s is known to its committed rows or to a worker that may commit it.
Accounted(s) ==
  \/ pdf[s] = 0
  \/ report[s] # 0
  \/ \E w \in Workers : scan[w] = s /\ draft[w] = "stored"

\* A fault leaves at most one file behind, a PDF no row refers to or a temporary
\* file, and without a fault none is left, however a stage fails.
ResidueIsBoundedByFaults ==
  leftover + Cardinality({s \in Scans : ~Accounted(s)}) <= faults

Publication == INSTANCE ReportPublication WITH file <- pdf, ref <- report

\* The commit of a result publishes the very PDF that is stored, even when the
\* scan was queued twice and two pipelines are under way: between the moment a
\* worker moves its PDF into place and the moment it commits, the locks on the
\* stage rows keep the other pipeline from moving another one over it.
PublishesWhatIsStored == Publication!Spec

=============================================================================
