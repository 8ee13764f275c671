# A formal model of the deepfake-forensics backend

The program is a FastAPI service over PostgreSQL and a local file system.  A
client uploads an image (`POST /api/v1/media/upload`), opens a scan of it
(`POST /api/v1/scans`), and a worker runs the scan through a fixed pipeline of
stages whose results end up in the scan's rows and in a PDF report.  This
directory holds TLA+ models of it, TLC configurations that check them, and TLAPS
proofs.  Paths are relative to `src/app/` unless they start with `docs/`.

## 1. Inventory

| Component | Code | State | Operations | Interacts with |
| --- | --- | --- | --- | --- |
| Scan state machine | `domain/scan.py`, `domain/taxonomy.py` | none: two tables | `can_transition`, `assert_transition`, `STAGE_ORDER` | every session, through `ScanService` |
| Scan service and repository | `services/scans.py`, `repositories/scan.py`, `db/models/scan.py` | rows of `scans`, `scan_stages`; objects of a session | `create_scan`, `get_scan`, `list_scans`, `transition`, `mark_stage` | PostgreSQL (flush takes row locks, commit publishes) |
| Analysis worker | `workers/queue.py`, started by `main.py` | its position in the loop | `run_once`, `run_forever`, `_claim_next` | claims rows with `FOR UPDATE SKIP LOCKED`, calls the execution service |
| Scan execution, runner | `services/execution.py`, `workers/runner.py` | one transaction per scan | `execute`, `PipelineRunner.run` | stages, `ScanService` |
| Media upload | `services/media.py`, `media/storage.py`, `media/detection.py` | temporary files, stored files, rows of `media` | `create_from_upload`, `persist`, `delete`, `detect_image` | thread pool, file system, PostgreSQL |
| API of scans | `api/v1/endpoints/scans.py`, `api/errors.py` | a session per request | create, get, list | `ScanService` |
| Stages on the file | `workers/stages/validate.py`, `fingerprint.py`, `metadata.py`, `detect.py`, `forensics.py`, `xai.py` | none (results are JSON in `scan_stages.result_ref`) | `run` | stored file, registries of detectors, analyzers, explainers |
| Evidence | `evidence/*`, `workers/stages/evidence.py` | none | normalize, deduplicate, count | results of earlier stages |
| Assessment | `assessment/*`, `workers/stages/{confidence,risk,verdict}.py` | none | three decisions | results of earlier stages |
| Report | `reports/*`, `workers/stages/report.py` | PDF in storage | compose, render, persist | all results; file system |
| Configuration, logging, health, model table, migrations | `core/*`, `db/*` | none that changes | - | - |

What is hard here, and the properties that make each part correct:

* **Scans.**  Several sessions work on one row: callers, workers of several
  processes, each with its own objects in memory and locks in the database.  A
  scan must be executed at most once; its status, error and stage rows must agree
  at every commit; transitions must follow the table although they are checked
  against memory; a queued scan must be finished; a crash, a database error, a
  lost acknowledgement or a shutdown must do bounded damage.
* **Upload.**  The file system has no transactions.  Every exit from the upload
  (rejection, I/O error, failed or ambiguous commit, cancellation while a thread
  works on, crash) must leave behind what can be accounted for, and an
  acknowledged upload must stay.
* **Evidence, assessment.**  Pure functions with many cases: counts must agree
  with the items, missing or failed inputs must lead to "insufficient evidence",
  never to a stronger statement and never to a failed scan.
* **Report.**  The PDF is stored before the scan's transaction commits, and every
  execution of a scan stores it under the same name: the committed reference must be
  to the file that is there, and faults must leave bounded residue.  Summary,
  sections, methodology and limitations are derived from the same results by separate
  code and must tell one story.
* **Reads.**  A detail and a page of a listing are two statements each, and commits
  fall in between: a reader must not be shown a finished scan with unfinished stages,
  nor miss a scan because others were created while it walked through the pages.

## 2. Modules

| Module | Models | Checked by | Proved in |
| --- | --- | --- | --- |
| `ScanStates` | vocabulary and transition table | (used by the next ones) | |
| `ScanLifecycle` | abstract specification: what readers of committed rows see | `scan_faults`, `analysis` (as a property) | `ScanExecutionSafety`, `ScanAnalysisProofs` |
| `ScanExecution` | callers, claim, pipeline, finalization, faults | `scan_*` with `MCScanExecution` | `ScanExecutionProofs`, `ScanExecutionSafety`, `ScanExecutionFaultProofs` |
| `ReportPublication` | abstract specification: a file and the reference to it | `report_artifact` (as a property) | `ReportArtifactProofs` |
| `ReportArtifact` (extends `ScanExecution`) | the PDF beside the scan's transaction | `report_artifact` with `MCReportArtifact` | `ReportArtifactProofs` |
| `ScanReads` (over `ScanLifecycle`) | a client reading details and pages while scans move | `scan_reads` with `MCScanReads` | `ScanReadsProofs` |
| `MediaUpload` | one upload from file name to answer | `upload_*` with `MCMediaUpload` | `MediaUploadProofs` |
| `Metadata` | operators: extraction, findings, payload | `analysis`, `metadata_absence` | `ScanAnalysisResultProofs` |
| `Evidence` (extends `Metadata`) | operators: normalization, availability, notes, correlation, counts | `analysis` | `ScanAnalysisProofs`, `ScanAnalysisResultProofs` |
| `Assessment` (extends `Evidence`) | operators: the three engines | `analysis` | `ScanAnalysisProofs`, `ScanAnalysisResultProofs` |
| `ReportDocument` (extends `Assessment`) | operators: the parts of the document | `analysis`, `report_*` | `ScanAnalysisProofs`, `ScanAnalysisResultProofs` |
| `ScanAnalysis` (extends `ReportDocument`) | one run of the eleven stages over one file: what each reads, writes and fails with | `analysis`, `report_*`, `metadata_absence` with `MCScanAnalysis` | `ScanAnalysisProofs`, `ScanAnalysisResultProofs` |

### ScanExecution

Committed rows are `status`, `stages`, `error`.  Each worker has a position `pc`,
the scan in hand `scan`, the index of its stage `next`, and what its session holds
in memory: `mstatus`, `mstages`, `merror`.  Each caller has `tpc` and `request`.
`scanLock` and `stageLock` say which session holds the row lock that its UPDATE
took.  A step is what happens between two awaits at which another session can
run:

| Action | Code |
| --- | --- |
| `CreateScan` | `create_scan` endpoint: insert and commit |
| `LoadForTrigger`, `TriggerStep`, `TriggerCommit`, `TriggerAbort` | a caller: `get_scan`, `transition` (flush), commit, rollback |
| `Claim`, `CommitClaim` | `_claim_next`: query and flush; commit |
| `BeginExecution`: `LoadForExecution` or `RefuseExecution` | `_execute_in`: re-read, refuse unless PROCESSING |
| `SkipStage`, `StartStage`, `FinishStage`, `FailStage`, `StageRowMissing` | the loop of `PipelineRunner.run`, `mark_stage` raising `NotFoundError` |
| `CompleteScan`, `FailScan`, `CommitResult` | finalization, its flush and its commit |
| `DatabaseError`, `ClaimAckLost`, `ResultAckLost`, `Stop`, `Restart`, `Hang` | a failing statement; a commit whose acknowledgement is lost; death of the process or cancellation by the lifespan; a new start; a stage that never returns |

There is no HTTP endpoint that queues a scan yet; the callers are what the
documentation calls the manual or queue trigger and what the tests do: load, one or
two transitions, commit.

Some decisions.  Transactions are READ COMMITTED, PostgreSQL's default: a load sees
the committed rows, an UPDATE waits for the row's lock and overwrites.  The session
factory turns autoflush off, but `set_status` and `set_stage_status` flush, so locks
are taken at those calls.  A failed flush makes the session refuse everything until
a rollback, so the handlers of `_execute_in`, which flush on the same session, raise
too: `DatabaseError` therefore drops the whole transaction from any position.
`RowsOf` gives the stage rows a scan has: stages are rows, not schema, so a scan
created before a name was added to `STAGE_ORDER` lacks that row.  In the default
build all eleven stages are registered; `Registered` lets a build have fewer.
`created_at` is a constant per scan.  Timestamps, durations, `result_ref` and the
wording of messages are left out; messages are told apart by their origin.  The
"scan not found" branch of `_execute_in` is left out: nothing deletes scans.
`LoadForExecution` reads the scan and its stages at once, where
`ScanRepository.get` has two SELECTs; that could matter only when callers race for a
scan that is being executed (`ScanReads` has the two).

### ScanLifecycle

The abstract specification has the committed rows only.  A scan is created,
submitted or rejected, claimed, and finished in one step that writes status, error
and all stage rows together: a `Success`, or a `Failure` at one stage.  Under it no
reader can see a half-finished result.

### ReportArtifact and ReportPublication

`ReportArtifact` adds to `ScanExecution` what the report stage does inside an
execution: `draft`, what the worker holds of a PDF; `mreport`, the edition that its
uncommitted `result_ref` describes; `pdf`, the edition in storage; `report`, the
edition that committed rows describe; `leftover`, temporary files nobody removes.

| Action | Code |
| --- | --- |
| `WriteTemp`, `StorePDF`, `FinishReport`, `FailReport` | `ReportStage._render_and_store`: render into a temporary file, `storage.persist`, the result, the `finally` |
| `CommitReport` | the commit of the worker's transaction, acknowledged or not |
| `AbandonReport` | a rollback or the death of the process, with what they leave on disk |
| `LoadRun`, `StageOf`, `OtherStep`, `CallersStep` | the rest of `ScanExecution` |

The file system has no transaction, so an edition that was stored stays when the
database rolls back, and an execution that follows overwrites it.
`ReportPublication` is what that must amount to: a file is stored, or stored again,
and a reference is only ever published to the file that is there.

### ScanReads

The committed rows move as `ScanLifecycle` says; a client reads a detail
(`ReadScan`, then `ReadStages`, which `selectinload` issues as a second SELECT) or
walks through the pages of a listing (`StartWalk`, then `CountScans` and `ReadPage`
for each page).  `created_at` is the start of the inserting transaction, so a scan
may become visible after one that is newer.  `ORDER BY created_at DESC` has no second
key; rows of one time come in an order that PostgreSQL may choose anew for each page
(`TieOrders`).  Two limits of the code are therefore premises of the properties of a
walk: distinct creation times, and a filter that a scan does not leave (none,
COMPLETED or FAILED).  With ties, or a filter such as QUEUED, a walk can miss scans.

### MediaUpload

Per upload: the position of its task, the job it handed to `asyncio.to_thread`,
the bytes received, and three facts: is there a temporary file, a stored file, a
committed row.  Thread jobs are steps of their own, because a cancelled task leaves
them running.  `hit` records which kinds of fault struck the upload, so that
`ResidueIsAccountedFor` can say which residue each fault can explain.  The client's
input is chosen in the initial state: safe name or not, length, content, matching
extension or not.  Content `unlisted` is an image whose corrupt bytes make Pillow
raise a class that `detect_image` does not catch.  Digest, dimensions and the
characters of names are left out.

| Action | Code |
| --- | --- |
| `RejectName`, `Open`, `ReadChunk`, `RejectSize`, `EndOfStream`, `RejectContent` | `create_from_upload`, `_stream_to_temp`, `detect_image` |
| `OpenFails`, `StreamFails`, `DetectionFails` | an I/O error of `mkdir` or `mkstemp` (or of closing what it made), of reading or writing the stream, of reading the temporary file: one caught as corrupt content while the image is parsed, and not caught before |
| `StartPersist`, `PersistRuns`, `Persisted`, `PersistRaised` | the move into storage: the task, and the thread beside it |
| `CommitSucceeds`, `CommitFails`, `CommitAckLost`, `CancelCommit` | the commit and its `except BaseException` |
| `StartDelete`, `DeleteRuns`, `Deleted`, `CancelDelete` | the handler that removes the stored file |
| `Unlink`, `UnlinkFails` | the `finally`, at the position "ending" of every path through the `try`; an error of it replaces the answer |
| `JobFails`, `Cancel`, `Crash` | a failing thread job, a cancelled request, the death of the process |

What the client should be told, `Verdict`, is written from the table of codes in
`docs/API_CONTRACTS.md`, on the whole input.  `MayEndWith` lists where the code
answers otherwise: a general error or nothing after a fault, `INVALID_CONTENT` for a
good image that could not be read, `INTERNAL_ERROR` for corrupt bytes whose exception
is not caught.  Each of the three does happen (the property fails without it), and
`upload_corrupt` shows the last one, for which no fault is needed.

### ScanAnalysis, ReportDocument, Assessment, Evidence, Metadata

`ScanExecution` abstracts a stage to its outcome; `ScanAnalysis` is the other half:
the contents of one run.  `at` is the position in `STAGE_ORDER`, `status` and
`result` are the stages' rows with the payload parsed, `blocks` is what the analyzers
of a forensics stage in progress have returned, `outcome` is the scan's status or the
cause of its failure.  `file` and `build` are chosen in the initial state: a stored
file (unchanged, altered, gone; decodable or not; its tags) and a registration of
stages, detectors, explainers and analyzers.

| Action | Code |
| --- | --- |
| `Skip`, `Complete`, `Fail`, `Finish` | `PipelineRunner.run` and `_execute_in`, without their transactions |
| `FileMissing`, `Validate`, `Fingerprint`, `ReadMetadata`, `Detect`, `Explain` | `run` of the stage of that name |
| `ForensicsRefused`, `RunAnalyzer`, `FinishForensics` | `VisualForensicsStage.run`, one step per analyzer |
| `AggregateEvidence`, `Confidence`, `Risk`, `Verdict`, `Report` | `run` of the stages that read results only |

Evidence items are a set of records rather than a sorted list; the order matters
only for which item of a correlation group comes first (`SortedCodes`).  What the
list counts twice, the presence of GPS as an observation and again as a finding with
the same code (`evidence/normalizer.py:164-221`), the set keeps apart by
`observation`; both count as independent.

`ReportDocument` is `compose_report`: the summary, each section, the methodology and
the limitations as sets of topics or records, each derived as its own function of the
composer derives it.  Left out are wording, rows that only copy a value, and the
identity of the explainer in the methodology.  Two of its answers are not what a
reader might expect: the metadata section says "absent" also when there is no
metadata result at all, and an unavailable source gets one fixed reason in the
summary whatever the stage's own was.

`RunIsAnExecution` composes this module with the others: seen as the execution of one
scan, a run ends in a way in which `ScanLifecycle` lets a scan be finished.

Detectors, explainers and analyzers are external code behind protocols
(`inference/base.py`, `xai/base.py`, `forensics/base.py`); they return anything the
protocol promises, or raise.  The default build has placeholders only, so that every
scan ends without detection; the checked builds add models, because the engines and
the report are written for them.  Promises that are only in a docstring are not
assumed.  `DetectionResult` has no validator, so a prediction is any combination of a
label or none, an evidence type or none, and an inference that was available or not
(`PredictionType`); only one of them is evidence (`Inferred`).  `XAIResult` has none
either: a completed explanation may leave its model or its interpretation out, or a
field of them (`ExplanationType`), and nothing compares the model it names with the
detection's, so that name is left out.  The xai stage calls its explainer for every
detection that can be parsed and whose detector it knows, prediction or not.  A
registry with detectors, but none of images, fails the detect stage; an empty one is
replaced by that of the placeholder (`NoDetector`, `Placeholder`).

`Evidence` keeps the three things that each normalizer returns apart, as the code
does: `ItemsOf`, `AvailabilityOf` and `NotesOf` are separate tables, and
`AvailabilityIsHonest` and `GapsAreReported` relate them.  `ReportDocument` likewise
has one operator per function of the composer, and none is shared by the summary,
the sections, the methodology and the limitations where the code repeats a condition.

Things a reader of the code should know.  `Exif.get` of Pillow looks only in the main
directory; capture date, exposure and ISO are normally in the Exif sub-directory, so
their findings need files that have them elsewhere.  `implausible_exposure_time` never
fires: `_rational` drops what is not positive before `_check_exposure` looks
(`metadata/extractor.py:391`, `metadata/analyzer.py:115`).  `DetectionStage` and
`XAIStage` build registries of their own, so that they agree only if both are given
the same one.

## 3. Runs

| Run | Bounds | Shows |
| --- | --- | --- |
| `scan_faults` | 2 scans, 2 workers, 2 callers, 3 stages (one unregistered; the second scan lacks one row), 2 faults | types; no scan in two hands; rows tell one story; faults strand at most one scan each; refinement of `ScanLifecycle`; every queued scan is finished unless a fault explains why not |
| `report_artifact` | 1 scan, 2 workers, 2 callers that both submit it, 2 stages, 2 faults, the pipeline started at most twice | types; two pipelines of one scan never write together; the outcome and the stored PDF agree; at most one file of residue per fault; refinement of `ReportPublication` |
| `scan_race_claims` | 1 scan, 2 workers, 2 callers of the same scan, no fault | *violated*: a scan is claimed twice |
| `scan_stranded` | as `scan_faults`, 1 database fault | *violated*: a scan is stranded without a crash |
| `upload_faults` | 2 uploads, 12 inputs, limit 3, chunks of 2, 2 faults | types; answers; durability; verified rows; residue; file before row; every upload ends |
| `upload_corrupt` | 2 uploads, a good and two corrupt images, no fault | *violated*: corrupt bytes are answered with a general error |
| `upload_orphan` | 2 uploads, 1 cancellation | *violated*: an orphan file without a crash |
| `analysis` | 22 files, 9 builds | types; availability, counts and decisions agree; only an inference of the detector takes sides; editing history is founded in the file; analyzers are isolated; gaps reach the report; the parts of the report agree; the run is an execution of `ScanLifecycle`; every scan ends |
| `report_identity` | the same | *violated*: the report stage fails though nothing failed to render or store |
| `report_unfinished` | the same | *violated*: the document of a completed scan calls it PROCESSING |
| `metadata_absence` | the same | *violated*: metadata that could not be read is recorded as observed to be absent |
| `scan_reads` | 3 scans of one stage, created at distinct times or two at one, pages of 1 or 2, no filter or COMPLETED | types; a detail is consistent; a walk misses no scan; the announced number of pages is enough |

Why the bounds are enough to be interesting.  Two workers and two scans give every
overlap of claims, and the second scan lets a worker go on after it lost the first.
Three stages have a first, a middle and a last one, implemented and not; both a
stage that fails and a stage without a row occur before, at and after the others.
Two faults let a second one strike during the aftermath of the first.  With a limit
of three and chunks of two, files of 0 to 5 bytes end below, at and above the limit
in the middle and at the end of a chunk.  Two callers
of one scan and two starts of its pipeline are the least at which a PDF can be replaced
while another pipeline is under way.  Three scans and pages of one and two give an
empty, a partly filled and a full last page, and a scan that appears before, inside and
behind the page just read.  The files of `analysis` cover each finding
with its boundary, each readable and unreadable section and each way in which a file
can be refused; the builds cover a missing stage before and after its readers, a model
with, without and with another's explainer, predictions and explanations with each
field left out in turn, no detector of images, and no, some and all analyzers.  The
stages keep no state between files, so one file at a time is enough.

The passing properties are not free: for each of them `PROJECT.json` names a
plausible slip in one definition (a lost `SKIP LOCKED`, an unmarked failing stage, a
missing `finally`, `>=` for `>`) that breaks it.

### What the violated runs say

* `transition` checks the status in memory and the flush overwrites the row
  (`services/scans.py:64`).  Two callers that both read VALIDATING are both let
  through; if the first one's scan has been claimed in between, the second one puts
  it back to QUEUED and it is claimed again.  The documents promise that even
  several worker processes cannot claim one scan twice.  `PipelinesExclude` shows
  what is left: two transactions never have stages of the scan marked at once.
* A database error after the claim strands the scan without any crash, contrary to
  `docs/BACKEND_IMPLEMENTATION.md` on failure semantics.
* A request cancelled during `persist` leaves a stored file without a row, though
  only a crash is documented to.
* Corrupt bytes whose exception `detect_image` does not catch (a broken PNG checksum,
  a decompression bomb) are answered `INTERNAL_ERROR`, though documented as
  `INVALID_CONTENT`.
* A completed explanation with a model that has no name, version or checkpoint, or
  an interpretation without target, semantics or summary, makes the composer raise
  (`reports/composer.py:464-502`), and a scan whose analysis is complete fails at
  its last stage.  The section on detection guards the fields of the model.
* An EXIF or XMP section that cannot be read is stored as not present
  (`metadata/extractor.py:182`), and the normalizer makes it VERIFIED evidence that the
  file has none, though VERIFIED is documented as directly observed.
* The report is composed before the scan is completed: `pipeline_status` is
  PROCESSING and `analyzed_at` empty in every stored document.

Three more statements of the documents differ from the code, and are seen in the
models without a run of their own.  `docs/API_CONTRACTS.md:178` and
`docs/BACKEND_IMPLEMENTATION.md:1740` have the progress of a PROCESSING scan in its
stage rows: there is one commit, at the end, and that all rows change in that one step
is what `ImplementsLifecycle` says.  An I/O error while a good image is parsed is
caught with the errors of corrupt bytes (`media/detection.py:92`) and answered
`INVALID_CONTENT`, which is the second disjunct of `MayEndWith`.  A detection that is
no usable evidence can still be explained, and since the first item of a correlation
group counts as independent whatever its source, the explanation then does, though
`evidence/aggregator.py:111-112` says that it never does.

### Fairness

`FairSpec` of `ScanExecution` assumes weak fairness of each worker's steps and of
`Restart`.  The event loop resumes a task that can run; `run_forever` polls for
ever and logs what is raised.  A stage only computes over local files and returns,
unless a `hang` fault strikes it: it has no timeout, so the worker is then held for
ever, and the claim of `QueuedScansFinish` is that every other scan is still finished
as long as one worker is left.  Callers are not assumed to do anything, so a scan
may stay CREATED.  Row locks never block a worker for ever: a caller holds the
lock of a scan only while it is not yet QUEUED.  In `MediaUpload` fairness is on
each request's task and on its thread job; clients are not fair.  In `ScanAnalysis` it
is on the runner's loop, whose process is taken not to die (that is `ScanExecution`'s
part) and whose detectors, explainers and analyzers are taken to return or raise.

In `ReportArtifact` and `ScanReads` only safety is stated, and no fairness.

## 4. Proofs

Everything here is for any number of scans, workers, callers, stages, uploads and
faults, any sizes and times, and any files and anything registered.  All theorems are
of the form `Spec => []Inv` or `Spec => Property`; the property a theorem is about is
checked by a run as well, but for `ReportExecutes` and for the two that follow from
others, `ExecutedOnce` and `ReportsAlwaysAgree`.

| Theorem | Property | Module |
| --- | --- | --- |
| `TypeCorrect` | `TypeOK` | `ScanExecutionProofs` |
| `NeverExecutedTwice` | `AtMostOneExecutor`, if `SingleTrigger` | `ScanExecutionSafety` |
| `OutcomeCorrect` | `OutcomeIsConsistent`, if `SingleTrigger` | `ScanExecutionSafety` |
| `LifecycleImplemented` | `ImplementsLifecycle`, if `SingleTrigger` | `ScanExecutionSafety` |
| `PipelinesApart` | `PipelinesExclude` | `ScanExecutionFaultProofs` |
| `StrandingBounded` | `FaultsStrandAtMostOneEach`, if `Scans` is finite | `ScanExecutionFaultProofs` |
| `PublicationImplemented` | `PublishesWhatIsStored` | `ReportArtifactProofs` |
| `ResidueBoundedByFaults` | `ResidueIsBoundedByFaults`, if `Scans` is finite | `ReportArtifactProofs` |
| `ReportsMatchOutcomes` | `ReportMatchesOutcome`, if `ReportStage = StageCount` | `ReportArtifactProofs` |
| `ReportTypeCorrect` | `TypeOKReport` | `ReportArtifactProofs` |
| `ExecutedOnce`, `ReportsAlwaysAgree` | `AtMostOneRun`, if `SingleTrigger`; `ReportsAgree`, if `SingleTrigger` and `ReportStage = StageCount` | `ReportArtifactProofs` |
| `ReportExecutes` | `Spec` of `ScanExecution`, with all that is proved of it | `ReportArtifactProofs` |
| `UploadTypeCorrect`, `AnswersSound`, `AcknowledgedStays`, `RowsSound`, `ResidueBounded`, `FileBeforeRow` | `TypeOK`, `AnswersAreVerdicts`, `AcknowledgedIsDurable`, `RowsAreVerified`, `ResidueIsAccountedFor`, `PersistBeforeCommit` | `MediaUploadProofs` |
| `ReadsTypeCorrect`, `WalksComplete`, `DetailsConsistent`, `AnnouncedPagesSuffice` | `TypeOK`, `WalkIsComplete`, `DetailIsConsistent`, `AnnouncedPagesReach` | `ScanReadsProofs` |
| `RunTypeCorrect`, `RunExecutes`, `AvailabilityHonest`, `DecisionsSound`, `GapsReported`, `AnalyzersStayIsolated` | `TypeOK`, `RunIsAnExecution`, `AvailabilityIsHonest`, `DecisionsAgree`, `GapsAreReported`, `AnalyzersIsolated` | `ScanAnalysisProofs` |
| `CountsCorrect`, `SidesTaken`, `EditingFounded`, `DocumentSound` | `CountsAgree`, `OnlyDetectorTakesSides`, `EditingHistoryIsFounded`, `DocumentAgrees` | `ScanAnalysisResultProofs` |

How they go:

* `ScanExecution`, types: `TypeOK` alone is not inductive; that `next` stays in range
  and that a busy worker has a scan depend on where the worker is (`ControlOK`).
* `ScanExecution`, safety: `SingleTrigger` says that no two callers submit the same
  scan; run `scan_race_claims` shows that it is needed.  The inductive invariant
  `SafetyInv` says how a scan is protected at each position: by the row lock while
  the claim is not committed, by the committed status PROCESSING afterwards; and
  that what a caller has read of an open scan stays true.  Its part `PipelineAt` says
  what the pipeline has in memory when it stands at stage `k`.  The refinement of
  `ScanLifecycle` rests on the same invariant.
* `ScanExecution`, faults: without `SingleTrigger` there is still `LockInv`: a worker
  whose transaction has marked a stage row holds that scan's lock until the
  transaction ends.  For `StrandingBounded`, a step that is no fault strands no scan,
  and a fault strands at most that of the worker it strikes, so the cardinality of the
  stranded scans is bounded by `faults`.
* `ReportArtifact`: every step of it is a step or stutter of `ScanExecution`, so
  `LockInv` holds; `Refers` adds that a worker which has a reference in its session is
  past the report stage and refers to what is stored.  A second pipeline of the scan
  that reached the report stage would hold the same locks, so nothing replaces the file
  before the commit.  For `ResidueBoundedByFaults`, `DraftInv` says what a worker holds
  of a PDF at each place, so that only the end of a pipeline by a fault
  (`AbandonReport`) loses a stored file, and each such end counts as a fault.  For
  `ReportsMatchOutcomes`, `StoryInv` follows a scan whose pipeline is started once: one
  worker at most runs it, and nothing but its PDF exists before that worker commits.
  The condition that the report is the last stage is that of `STAGE_ORDER`; a later
  stage that failed would leave the PDF of a FAILED scan behind.  For
  `ReportTypeCorrect`, which bounds the committed edition by the stored ones and those
  by the pipelines started, and is not inductive, `EditionsInv` counts: the PDFs
  stored for a scan and the pipelines over it that may still store one (`Unstored`) are
  together no more than the pipelines that were started.  `ExecutedOnce` uses the
  invariant and the refinement of `ScanExecution`: a scan whose pipeline was started is
  PROCESSING or finished, from which `ScanLifecycle` has no way back to QUEUED, and the
  worker that starts it is the only one that has it in hand.  With it the premise of
  `ReportMatchesOutcome` falls away (`ReportsAlwaysAgree`).
* `MediaUpload`: uploads share nothing but a crash, so the invariant is `Settled(u)`
  for each: what may be on disk, in the database and in a thread at each place of the
  task, with the faults that struck it, and that no row is about anything but a verified
  image.  That judging chunk by chunk is judging the whole needs the arithmetic of
  `Chunk` (`ChunkBounds`).
* `ScanReads`: without ties the positions of a list are exactly 0 to its length less one
  (`PositionsFill`, a pigeonhole from the theorems on finite sets), and a list that
  only grows only pushes its old members back.  So what is owed to the client always
  stands behind the pages it has read, and a page that is not full is the last.
  `PagesInv` adds that the last count is at most what is still listed, which with the
  rounding up of the quotient (`Quotient`) gives `AnnouncedPagesSuffice`.
  `ReadsTypeCorrect` allows ties: whichever order PostgreSQL picks is a strict order
  (`BeforeIsStrict`), so the rows of a page have distinct places in the list, and a page
  that is full lies within it (`FullPageFits`); a walk therefore ends after at most one
  page more than there are scans, though the list changes under it.
  `DetailsConsistent` needs `RowsInv`: the stages of a finished scan stay as they are.
* `ScanAnalysis`: `RunInv` is the order of the loop: what is behind `at` is completed
  or skipped, what is ahead untouched, only the completed has a result.  `EvidenceInv`
  adds that the stored evidence is the aggregate of the source results as they still
  are; `DecisionsInv`, that every stored decision is that of the evidence as it is
  stored (which needs that the normalizer makes nothing but inference of a detector's
  result, `AggregateOnlyInfers`: `confidence.py` asks for an inference, the others only
  for the source); `GapsInv`, that the report's limitations are those of the stored
  results; `BlocksInv`, that the blocks of a forensics stage are those of the analyzers
  run so far, in order.  For `AvailabilityHonest`,
  `EvidenceInv` also says that a stored detection is one the first detector can make,
  and a completed explanation one of an explainer that the registry finds for it
  (`FoundExplainers` says which those are); `Recorded`, that a completed fingerprint or
  metadata stage left a result.
* `ScanAnalysis`, contents: `ResultsInv` adds what the stored results are made from:
  each stage's payload is one that its handler may leave of this file
  (`ResultsFollowStages`), a stage of a decision that completed left a decision, which is
  of its type and so not `None` (`DecisionsStored`, `DecisionsAreStored`), and the
  document is the composer's of the results as they are (`ReportComposed`).
  `DocumentSound` then compares the parts of the document field by field: what the
  summary says (`SummaryTopics`), what the limitations say (`LimitationPairs`), and
  when the sections of the models show something that the evidence can use
  (`ModelSections`), each for any payloads the stages may leave.  For `SidesTaken` and `EditingFounded`, a
  dimension's count is positive exactly when an item has a direction of that dimension
  (`DimensionCounted`), and the direction of every item is traced to what made it
  (`ItemDirections`): an inference's label, or a finding, which speaks of editing exactly if the tags
  do (`FindingsSpeakOfEditing`).  For `CountsCorrect`, the six directions are a fixed
  finite set, so the fold that sums over them is unrolled, one direction at a time
  (`SumIsTotal`), without induction; a group has at most two items, told apart by their
  places in the list (`GroupPlaces`), and counts one of them.

The assumptions are `ConstantsAssumption`, `ReportAssumption`, `ReadsAssumption`,
`UploadAssumption` and `AnalysisAssumption`, which TLC evaluates in the runs of their
modules.  `AnalysisAssumption` says of `None`, which stands for Python's, that it is no
label and no payload of the fingerprint, metadata, confidence, risk or verdict stage:
without that, an arbitrary value could not be told from a stored result.

Every invariant and every action property that a passing run checks is proved.  Only
model-checked is liveness (`QueuedScansFinish`, `UploadsEnd`, `ScansEnd`): temporal
reasoning under fairness is out of the prover's reach.  The
disagreements with the documents are counterexamples of TLC and no theorems.

## 5. Plan

1. *Done*: `ScanStates`, `ScanLifecycle`, `ScanExecution` with proofs, hanging stages
   included; `MediaUpload` with proofs.
2. *Done*: `Metadata`, `Evidence`, `Assessment`, `ReportDocument`, `ScanAnalysis`, and
   its composition with `ScanLifecycle`, with proofs.
3. *Done*: `ReportArtifact` and `ReportPublication`; `ScanReads`; with proofs.
4. Left: an abstract specification of the upload (a row and its file, what a client is
   told) that `MediaUpload` could be shown to implement, as `ReportPublication` is for
   reports; and a walk with ties, for which only its end is proved.

## 6. Not modelled, and why

Image processing (ELA, noise, frequency, dHash), the parsing of EXIF and XMP by Pillow
and PDF rendering: computation over bytes that TLC cannot enumerate.  Configuration, logging, health
endpoint, schemas and the table of model versions: no state that changes.
Migrations: generated DDL.  `MediaRepository.list_all` pages as the listing of scans does,
but only tests call it.  Wording: the reasons of unavailable results and labels such
as a report's `format` are text (`docs/API_CONTRACTS.md` words some of them otherwise).
