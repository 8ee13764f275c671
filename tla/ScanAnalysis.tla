---------------------------- MODULE ScanAnalysis ----------------------------
(***************************************************************************)
(* What one run of the pipeline says about one file: the stages            *)
(* (workers/stages/) in the order of STAGE_ORDER, each reading what earlier *)
(* ones persisted in scan_stages.result_ref and writing its own result.    *)
(* Claiming, transactions and faults around the run are ScanExecution's.   *)
(*                                                                         *)
(* Detectors, explainers and analyzers are code behind the protocols of    *)
(* inference/base.py, xai/base.py and forensics/base.py; they return what  *)
(* those types allow, or raise.                                            *)
(***************************************************************************)
EXTENDS ReportDocument, Sequences, Functions

CONSTANTS
  Files,   \* the stored files that are scanned
  Builds   \* what is registered

StageOrder ==
  <<"validate", "fingerprint", "metadata", "detect", "forensics", "xai",
    "evidence", "confidence", "risk", "verdict", "report">>

Stages == {StageOrder[i] : i \in DOMAIN StageOrder}

\* The file on disk: that of the media row, another one, or none; whether all of it
\* is an image, or only what Image.open and verify look at, or not even that;
\* whether it has more than forensics_max_pixels; and what its metadata say.
FileType ==
  [state: {"intact", "altered", "missing"}, image: {"whole", "truncated", "no"},
   oversized: BOOLEAN, tags: MetadataType]

\* The upload opened and verified the image and recorded its format.
Possible(f) ==
  f.state = "intact" => f.image # "no" /\ ~f.tags.otherFormat

Labels == {"FAKE", "REAL", "OTHER"}

Analyzers == {"ela", "noise", "frequency"}

\* What DetectionResult allows a detector to say: a label, the type of evidence that
\* it is, and the status of the inference, each of them independent of the others.
PredictionType ==
  [label: {None} \cup Labels,
   type: {None, "VERIFIED", "INFERENCE", "HEURISTIC", "UNKNOWN"},
   status: {"AVAILABLE", "UNAVAILABLE"}]

NoPrediction == [label |-> None, type |-> None, status |-> "UNAVAILABLE"]

\* What XAIResult allows a completed explanation to say of its model and of its
\* interpretation: nothing, everything, or something with a field left out.  Which
\* model it names is left out, for nothing compares that with the detection's.
ExplanationType ==
  [identity: {"none", "full", "partial"}, interpretation: {"none", "full", "partial"}]

\* The registered stages, and what they hold for images: detectors with the name of
\* their model, if any, and what they may predict; explainers with the model that
\* they are for, or None for a fallback, and the explanations they may give.  The
\* xai stage has detectors of its own.  `others` and `otherDetectors` say that there
\* are analyzers or detectors for other media.
BuildType ==
  [stages: SUBSET Stages,
   detectors: Seq([name: STRING, model: {None} \cup STRING,
                   predictions: SUBSET PredictionType]),
   otherDetectors: BOOLEAN,
   xaiDetectors: SUBSET STRING,
   explainers: Seq([model: {None} \cup STRING, explanations: SUBSET ExplanationType]),
   analyzers: Seq(Analyzers),
   others: BOOLEAN]

ASSUME AnalysisAssumption ==
  /\ Files \subseteq FileType
  /\ \A f \in Files : Possible(f)
  /\ Builds \subseteq BuildType
  /\ \A b \in Builds :
       \A i, j \in DOMAIN b.analyzers : b.analyzers[i] = b.analyzers[j] => i = j
  /\ None \notin Labels
  /\ None # [hashed |-> TRUE] /\ \A f \in Files : None # MetadataPayload(f.tags)
  /\ None \notin ConfidenceType /\ None \notin RiskType /\ None \notin VerdictType

VARIABLES
  build, file,  \* what is registered, what is scanned: they do not change
  at,           \* index of the next stage
  blocks,       \* results of the analyzers that have run in this forensics stage
  status,       \* each stage's status
  result,       \* each stage's result_ref, parsed
  outcome       \* "PROCESSING", "COMPLETED", or why the scan FAILED

vars == <<build, file, at, blocks, status, result, outcome>>

Init ==
  /\ build \in Builds
  /\ file \in Files
  /\ at = 1
  /\ blocks = <<>>
  /\ status = [n \in Stages |-> "PENDING"]
  /\ result = [n \in Stages |-> None]
  /\ outcome = "PROCESSING"

-----------------------------------------------------------------------------
\* The runner (workers/runner.py).

Stage == StageOrder[at]

\* The registered stage `name` is running.
Runs(name) ==
  /\ outcome = "PROCESSING"
  /\ at \in DOMAIN StageOrder
  /\ Stage = name
  /\ name \in build.stages

\* Mutant of Skip: the stage's row is left as it is.
SkipUnmarked ==
  /\ outcome = "PROCESSING"
  /\ at \in DOMAIN StageOrder
  /\ Stage \notin build.stages
  /\ at' = at + 1
  /\ UNCHANGED <<build, file, blocks, status, result, outcome>>

Skip ==
  /\ outcome = "PROCESSING"
  /\ at \in DOMAIN StageOrder
  /\ Stage \notin build.stages
  /\ status' = [status EXCEPT ![Stage] = "SKIPPED"]
  /\ at' = at + 1
  /\ UNCHANGED <<build, file, blocks, result, outcome>>

Complete(name, payload) ==
  /\ status' = [status EXCEPT ![name] = "COMPLETED"]
  /\ result' = [result EXCEPT ![name] = payload]
  /\ at' = at + 1
  /\ UNCHANGED <<build, file, outcome>>

\* Mutant of Fail: the runner goes on after a stage that failed.
FailGoingOn(name, cause) ==
  /\ status' = [status EXCEPT ![name] = "FAILED"]
  /\ at' = at + 1
  /\ UNCHANGED <<build, file, blocks, result, outcome>>

Fail(name, cause) ==
  /\ status' = [status EXCEPT ![name] = "FAILED"]
  /\ outcome' = cause
  /\ UNCHANGED <<build, file, at, blocks, result>>

Finish ==
  /\ outcome = "PROCESSING"
  /\ at > Len(StageOrder)
  /\ outcome' = "COMPLETED"
  /\ UNCHANGED <<build, file, at, blocks, status, result>>

-----------------------------------------------------------------------------
\* The stages that work on the file.

FileStages == {"validate", "fingerprint", "metadata", "detect", "forensics", "xai"}

FileMissing ==
  /\ file.state = "missing"
  /\ blocks = <<>>
  /\ \E name \in FileStages : Runs(name) /\ Fail(name, "missing")

Validate ==
  /\ Runs("validate")
  /\ \/ file.state = "intact" /\ Complete("validate", None)
     \/ file.state = "altered" /\ Fail("validate", "altered")
  /\ UNCHANGED blocks

Fingerprint ==
  /\ Runs("fingerprint")
  /\ file.state # "missing"
  /\ \/ file.image = "whole" /\ Complete("fingerprint", [hashed |-> TRUE])
     \/ file.image # "whole" /\ Fail("fingerprint", "unreadable")
  /\ UNCHANGED blocks

ReadMetadata ==
  /\ Runs("metadata")
  /\ file.state # "missing"
  /\ \/ file.image # "no" /\ Complete("metadata", MetadataPayload(file.tags))
     \/ file.image = "no" /\ Fail("metadata", "unreadable")
  /\ UNCHANGED blocks

\* The detector of the default registry.
Placeholder == [name |-> "unavailable", model |-> None, predictions |-> {}]

\* A registry with nothing in it counts as none given, and the stage takes the
\* default one.
NoDetector == build.detectors = <<>> /\ build.otherDetectors

\* DetectorRegistry.find: the first one that serves images.
Detector == IF build.detectors = <<>> THEN Placeholder ELSE build.detectors[1]

Detected(d, p) ==
  [detector |-> d.name, model |-> d.model,
   label |-> p.label, type |-> p.type, status |-> p.status]

Detect ==
  /\ Runs("detect")
  /\ file.state # "missing"
  /\ \/ NoDetector /\ Fail("detect", "no detector")
     \/ /\ ~NoDetector
        /\ \E p \in Detector.predictions \cup {NoPrediction} :
             Complete("detect", Detected(Detector, p))
     \/ ~NoDetector /\ Fail("detect", "detector")
  /\ UNCHANGED blocks

\* VisualForensicsStage.run: failures of the image as a whole.

NoAnalyzers == build.analyzers = <<>> /\ ~build.others

ForensicsRefused ==
  /\ Runs("forensics")
  /\ file.state # "missing"
  /\ blocks = <<>>
  /\ \/ NoAnalyzers /\ Fail("forensics", "no analyzers")
     \/ ~NoAnalyzers /\ file.image = "no" /\ Fail("forensics", "unreadable")
     \/ ~NoAnalyzers /\ file.image # "no" /\ file.oversized
        /\ Fail("forensics", "oversized")

Analyzable == file.state # "missing" /\ file.image # "no" /\ ~file.oversized

NextAnalyzer == build.analyzers[Cardinality(DOMAIN blocks) + 1]

WithBlock(analyzer, verdict) ==
  [a \in DOMAIN blocks \cup {analyzer} |->
     IF a = analyzer THEN verdict ELSE blocks[a]]

\* Mutant of AnalyzerFails: what an analyzer raises leaves the stage.
AnalyzerFailsStage == Fail("forensics", "analyzer")

\* Mutant of AnalyzerFails: the analyzer is tried again.
AnalyzerRetries == UNCHANGED vars

\* _run_one: what an analyzer raises becomes its FAILED block.
AnalyzerFails ==
  /\ blocks' = WithBlock(NextAnalyzer, "FAILED")
  /\ UNCHANGED <<build, file, at, status, result, outcome>>

AnalyzerCompletes ==
  /\ file.image = "whole"
  /\ blocks' = WithBlock(NextAnalyzer, "COMPLETED")
  /\ UNCHANGED <<build, file, at, status, result, outcome>>

RunAnalyzer ==
  /\ Runs("forensics")
  /\ Analyzable
  /\ Cardinality(DOMAIN blocks) < Len(build.analyzers)
  /\ AnalyzerCompletes \/ AnalyzerFails

FinishForensics ==
  /\ Runs("forensics")
  /\ ~NoAnalyzers
  /\ Analyzable
  /\ Cardinality(DOMAIN blocks) = Len(build.analyzers)
  /\ Complete("forensics", blocks)
  /\ blocks' = <<>>

\* XAIExplainerRegistry.find: the first explainer of exactly this model, or else the
\* first fallback; at most one.
ExplainersFor(model) ==
  LET IndexesOf(m) == {i \in DOMAIN build.explainers : build.explainers[i].model = m}
      exact == IndexesOf(model)
      candidates == IF exact # {} THEN exact ELSE IndexesOf(None)
  IN {build.explainers[i] : i \in {k \in candidates : \A l \in candidates : k <= l}}

\* The explainer of a detection that could be read and whose detector the stage knows.
Explainers(detection) ==
  IF detection = None THEN {}
  ELSE IF detection.detector \notin build.xaiDetectors THEN {}
  ELSE ExplainersFor(detection.model)

NotExplained ==
  [status |-> "UNAVAILABLE", identity |-> "none", interpretation |-> "none"]

Explained(x) ==
  [status |-> "COMPLETED", identity |-> x.identity, interpretation |-> x.interpretation]

\* The stage asks the explainer whether or not there is a prediction to explain.
Explain ==
  /\ Runs("xai")
  /\ file.state # "missing"
  /\ \/ Complete("xai", NotExplained)
     \/ \E e \in Explainers(result["detect"]) :
          \/ \E x \in e.explanations : Complete("xai", Explained(x))
          \/ Fail("xai", "explainer")
  /\ UNCHANGED blocks

-----------------------------------------------------------------------------
\* The stages that work on results only.

StageOf ==
  [FINGERPRINT |-> "fingerprint", METADATA |-> "metadata", DETECTION |-> "detect",
   VISUAL_FORENSICS |-> "forensics", XAI |-> "xai"]

\* EvidenceAggregationStage._source_output.
SourceOutput(source) ==
  LET name == StageOf[source] IN
  [payload |-> IF status[name] = "FAILED" THEN None ELSE result[name],
   availability |-> IF status[name] = "FAILED" THEN "FAILED" ELSE "UNAVAILABLE"]

AggregateEvidence ==
  /\ Runs("evidence")
  /\ Complete("evidence", Aggregate([s \in Sources |-> SourceOutput(s)]))
  /\ UNCHANGED blocks

\* read_stage_json.
Read(name) == IF status[name] = "FAILED" THEN None ELSE result[name]

Confidence ==
  /\ Runs("confidence")
  /\ Complete("confidence", AssessConfidence(Read("evidence")))
  /\ UNCHANGED blocks

\* Mutant of Risk: the evidence argument is forgotten.
RiskWithoutEvidence ==
  /\ Runs("risk")
  /\ Complete("risk", AssessRisk(None, Read("confidence")))
  /\ UNCHANGED blocks

Risk ==
  /\ Runs("risk")
  /\ Complete("risk", AssessRisk(Read("evidence"), Read("confidence")))
  /\ UNCHANGED blocks

Verdict ==
  /\ Runs("verdict")
  /\ Complete("verdict", ReachVerdict(Read("evidence"), Read("confidence")))
  /\ UNCHANGED blocks
-----------------------------------------------------------------------------
\* The report stage: compose_report, render, store.

\* ReportStage._inputs.
Inputs == [n \in Stages |-> Read(n)]

\* The scan and its stages as they are while the report is composed.
Document == ComposeReport(Inputs, [status EXCEPT !["report"] = "RUNNING"], outcome)

Report ==
  /\ Runs("report")
  /\ \/ Composable(Inputs) /\ Complete("report", Document)
     \/ Composable(Inputs) /\ \E cause \in {"render", "store"} : Fail("report", cause)
     \/ ~Composable(Inputs) /\ Fail("report", "unexpected")
  /\ UNCHANGED blocks

-----------------------------------------------------------------------------
Done == outcome # "PROCESSING" /\ UNCHANGED vars

FileStage ==
  \/ FileMissing \/ Validate \/ Fingerprint \/ ReadMetadata \/ Detect
  \/ ForensicsRefused \/ RunAnalyzer \/ FinishForensics \/ Explain

ResultStage == AggregateEvidence \/ Confidence \/ Risk \/ Verdict \/ Report

Step == Skip \/ FileStage \/ ResultStage \/ Finish

Next == Step \/ Done

Spec == Init /\ [][Next]_vars

\* The runner's loop goes on while its process does; ScanExecution has the crashes.
FairSpec == Spec /\ WF_vars(Step)
-----------------------------------------------------------------------------
\* What holds of every scan.

\* The variables have their types; the stages before the next one have all been
\* completed or skipped and those after it have not been touched (the loop of
\* PipelineRunner.run leaves no gap), and only a completed stage has a result.
TypeOK ==
  /\ build \in Builds
  /\ file \in Files
  /\ at \in 1 .. Len(StageOrder) + 1
  /\ DOMAIN blocks \subseteq Analyzers
  /\ \A a \in DOMAIN blocks : blocks[a] \in {"COMPLETED", "FAILED"}
  /\ status \in [Stages -> {"PENDING", "COMPLETED", "FAILED", "SKIPPED"}]
  /\ DOMAIN result = Stages
  /\ \A i \in DOMAIN StageOrder :
       /\ i < at => status[StageOrder[i]] \in {"COMPLETED", "SKIPPED"}
       /\ i > at => status[StageOrder[i]] = "PENDING"
       /\ result[StageOrder[i]] # None => status[StageOrder[i]] = "COMPLETED"

\* What the evidence result says is available is there and could have been made: a
\* source is AVAILABLE exactly when there is an item of it; a fingerprint and metadata
\* whenever their stages completed; only forensics can be FAILED, and is so exactly
\* when it had analyzers and none completed; a detection is one that the first
\* detector of the build makes, as an inference, and an explanation is of an
\* explainer for that detector's model, or of a fallback where there is none.  In the
\* repository's own build, with the placeholder and a fallback that explains nothing,
\* neither of the two is ever available.
AvailabilityIsHonest ==
  LET e == result["evidence"]
      explainers == Range(build.explainers)
  IN e # None =>
    /\ \A s \in Sources :
         e.availability[s] = "AVAILABLE" <=> \E x \in e.items : x.source = s
    /\ e.availability["FINGERPRINT"] = "AVAILABLE" <=> status["fingerprint"] = "COMPLETED"
    /\ e.availability["METADATA"] = "AVAILABLE" <=> status["metadata"] = "COMPLETED"
    /\ \A s \in Sources \ {"VISUAL_FORENSICS"} : e.availability[s] # "FAILED"
    /\ e.availability["VISUAL_FORENSICS"] = "FAILED" <=>
         /\ result["forensics"] # None
         /\ build.analyzers # <<>>
         /\ Completed(result["forensics"]) = {}
    /\ e.availability["DETECTION"] = "AVAILABLE" =>
         \E p \in Detector.predictions : Inferred(p) /\ p.label = result["detect"].label
    /\ e.availability["XAI"] = "AVAILABLE" =>
         /\ Detector.name \in build.xaiDetectors
         /\ \E x \in explainers :
              /\ x.explanations # {}
              /\ \/ x.model = Detector.model
                 \/ x.model = None /\ \A y \in explainers : y.model # Detector.model

\* The counts of _build_summary agree with one another and with those which
\* build_references makes anew for the confidence: each correlation group is one
\* independent item, every item has one direction, and the dimensions partition
\* the directions.
CountsAgree ==
  LET e == result["evidence"]
      c == result["confidence"]
  IN e # None =>
       /\ e.independent =
            Cardinality({x \in e.items : x.group = None}) + Cardinality(e.groups)
       /\ e.total = SumFunction(e.byDirection)
       /\ c # None =>
            \A m \in Dimensions :
              c.byDimension[m] =
                SumFunctionOnSet(e.byDirection, {d \in Directions : Dimension(d) = m})

\* The three engines, which each read the evidence again, decide over the same
\* basis: the verdict over all of what the confidence lists, the risk over its
\* directional part, for the same reason and with the same caveat about the
\* detector's score.
DecisionsAgree ==
  LET c == result["confidence"]
      r == result["risk"]
      v == result["verdict"]
  IN /\ c # None /\ v # None =>
          c.basis = v.basis /\ (c.uncalibrated <=> v.scoreUnused)
     /\ c # None /\ r # None =>
          /\ r.basis = {x \in c.basis : Directional(x)}
          /\ c.reason = "directional" <=> r.basis # {}
     /\ r # None /\ v # None =>
          r.reason = v.reason /\ (r.scoreUnused <=> v.scoreUnused)

\* Only an inference of the detector makes a file look synthetic or authentic: nothing
\* that metadata or forensics lack or contain does (the docs' honesty rule), and no
\* label that is not classified as an available inference.
OnlyDetectorTakesSides ==
  LET c == result["confidence"]
      d == result["detect"]
      Infers(label) == d # None /\ Inferred(d) /\ d.label = label
  IN c # None /\ result["evidence"] # None =>
       /\ c.byDimension["SYNTHETIC"] > 0 <=> Infers("FAKE")
       /\ c.byDimension["AUTHENTIC"] > 0 <=> Infers("REAL")

\* What the file itself says of having been edited.
EditedAccordingTo(t) ==
  \/ /\ t.exifReadable
     /\ \/ "editor" \in t.exifSoftware
        \/ \E v \in t.orientation : v \notin 1 .. 8
        \/ \E v \in t.iso : v <= 0
        \/ \E c \in t.captured, m \in t.modified : c > m
  \/ t.xmp /\ t.xmpReadable /\ "editor" \in t.creatorTool \cup t.xmpSoftware

\* The confidence counts editing history exactly when the file's own tags speak of
\* it, through extraction, analysis, normalization and classification; an
\* unreadable section and an absent tag are never held against the file.
EditingHistoryIsFounded ==
  LET c == result["confidence"] IN
  c # None /\ result["evidence"] # None =>
    (c.byDimension["MANIPULATED"] > 0 <=>
       result["metadata"] # None /\ EditedAccordingTo(file.tags))

\* An analyzer that fails neither fails the stage nor keeps another from running
\* (VisualForensicsStage._run_one).
AnalyzersIsolated ==
  /\ status["forensics"] = "FAILED" => blocks = <<>>
  /\ result["forensics"] # None =>
       DOMAIN result["forensics"] = {build.analyzers[i] : i \in DOMAIN build.analyzers}

\* The source's stage left nothing that could be evidence.
Lacks(source) ==
  LET r == result[StageOf[source]] IN
  \/ r = None
  \/ source = "DETECTION" /\ ~Inferred(r)
  \/ source = "VISUAL_FORENSICS" /\ Completed(r) = {}
  \/ source = "XAI" /\ r.status # "COMPLETED"

\* The report names, in its limitations, every source that gave no evidence and
\* every analyzer that failed, and calls none absent that gave some; the notes come
\* from the evidence, the confidence and the stages' own results.
GapsAreReported ==
  result["report"] # None /\ result["evidence"] # None =>
    LET limitations == result["report"].limitations
        forensics == result["forensics"]
    IN /\ \A s \in Sources : Lacks(s) => \E l \in limitations : l[1] = s
       /\ \A s \in Sources, note \in {"missing", "unusable", "absent", "unavailable"} :
            <<s, note>> \in limitations => Lacks(s)
       /\ forensics # None =>
            \A a \in DOMAIN forensics \ Completed(forensics) :
              <<"VISUAL_FORENSICS", a>> \in limitations

\* The parts of the report, each derived on its own, tell the same story.  The
\* evidence section calls a source AVAILABLE exactly when that source's own section
\* shows what the evidence can use.  The methodology names the model that the
\* detection section shows, and each of its analyzers is either an item of the
\* evidence section or a failure among the limitations.  The summary says that a
\* model is missing or that a decision is open exactly when the limitations do.  A
\* stage that is shown as SKIPPED has no result anywhere.
DocumentAgrees ==
  LET d == result["report"] IN
  d # None =>
    /\ d.evidence # None =>
         /\ d.evidence.availability["DETECTION"] = "AVAILABLE" <=>
              d.detection.label # None /\ d.detection.type = "INFERENCE"
         /\ d.evidence.availability["XAI"] = "AVAILABLE" <=> d.xai.status = "COMPLETED"
         /\ d.evidence.availability["FINGERPRINT"] = "AVAILABLE" <=> d.fingerprint
         /\ d.evidence.availability["VISUAL_FORENSICS"] = "AVAILABLE" <=>
              Completed(d.forensics) # {}
         /\ \A a \in d.methodology.analyzers :
              (\E x \in d.evidence.items : x.source = "VISUAL_FORENSICS" /\ x.code = a)
                <=> <<"VISUAL_FORENSICS", a>> \notin d.limitations
    /\ d.methodology.model = d.detection.model
    /\ "detect" \in d.summary <=> <<"DETECTION", "unavailable">> \in d.limitations
    /\ "xai" \in d.summary <=> <<"XAI", "unavailable">> \in d.limitations
    /\ \A n \in {"risk", "verdict"} :
         n \in d.summary <=> <<n, "undecided">> \in d.limitations
    /\ "confidence" \in d.summary => <<"confidence", "undecided">> \in d.limitations
    /\ \A n \in DOMAIN d.decisions :
         d.stages[n] = "SKIPPED" <=> d.decisions[n] = "UNAVAILABLE"
    /\ d.stages["detect"] = "SKIPPED" => d.detection.label = None
    /\ d.stages["forensics"] = "SKIPPED" => d.forensics = <<>>

\* One run as the execution of one scan, of which ScanLifecycle is the contract: the
\* registered stages are those of the build b, every scan has all rows, and readers
\* see a run's rows when it has ended.
RunRow(name) ==
  [status |-> status[name],
   error |-> IF status[name] # "FAILED" THEN "none"
             ELSE IF outcome = "unexpected" THEN "unexpected stage failure"
             ELSE "stage error"]

RunError ==
  IF outcome \in {"PROCESSING", "COMPLETED"} THEN "none"
  ELSE RunRow(Stage).error

Ended == outcome # "PROCESSING"

Run(b) == INSTANCE ScanLifecycle WITH
  Scans <- {"scan"},
  StageCount <- Len(StageOrder),
  Registered <- {i \in DOMAIN StageOrder : StageOrder[i] \in b.stages},
  RowsOf <- [s \in {"scan"} |-> DOMAIN StageOrder],
  status <- [s \in {"scan"} |->
               IF Ended /\ outcome # "COMPLETED" THEN "FAILED" ELSE outcome],
  stages <- [s \in {"scan"} |->
               [i \in DOMAIN StageOrder |->
                  IF Ended THEN RunRow(StageOrder[i])
                  ELSE [status |-> "PENDING", error |-> "none"]]],
  error <- [s \in {"scan"} |-> RunError]

\* Whatever the stages make of the file, the run ends in a way in which ScanLifecycle
\* lets a scan be finished, and until then its readers see nothing of it: so what is
\* proved of scans there, and checked of executions, holds of these runs.
RunIsAnExecution ==
  [][\A b \in Builds :
       b = build => Run(b)!Finish("scan") \/ UNCHANGED <<Ended, Run(b)!vars>>]_vars

\* Every scan that is run ends, whatever is registered and whatever fails.
ScansEnd == <>(outcome # "PROCESSING")

-----------------------------------------------------------------------------
\* What the documentation says and the code does not do.

\* docs/API_CONTRACTS.md: the report stage fails only on render and persist errors.
ReportFailsOnlyToRenderOrStore ==
  status["report"] = "FAILED" => outcome \in {"render", "store"}

\* taxonomy.py says of VERIFIED evidence that it is directly observed in the metadata
\* of the file: so "no EXIF (or XMP) metadata is present in the file" may be VERIFIED
\* only of a section that could be read and was not there.
AbsenceIsObserved ==
  LET e == result["evidence"] IN
  e # None =>
    \A x \in e.items : x.type = "VERIFIED" =>
      /\ x.code = "exif_absent" => file.tags.exifReadable
      /\ x.code = "xmp_absent" => file.tags.xmpReadable

\* docs/API_CONTRACTS.md: the document of a completed scan says that the pipeline is
\* COMPLETED.
ReportShowsCompletion ==
  outcome = "COMPLETED" /\ result["report"] # None =>
    result["report"].pipelineStatus = "COMPLETED"
=============================================================================
