------------------------- MODULE ScanAnalysisProofs -------------------------
(***************************************************************************)
(* Proofs about ScanAnalysis, for any files and any registered stages,     *)
(* detectors, explainers and analyzers.                                    *)
(***************************************************************************)
EXTENDS ScanAnalysis, FiniteSetTheorems, TLAPS

\* The engines see only inference from the detector.
DetectorOnlyInfers(e) ==
  \A x \in e.items : x.source = "DETECTION" => x.type = "INFERENCE"

\* What the decision stages have not written yet, and what they can read.
DecisionOrder ==
  /\ at \in 1 .. 12
  /\ DOMAIN result = Stages
  /\ DOMAIN status = Stages
  /\ at <= 8 => result["confidence"] = None
  /\ at <= 9 => result["risk"] = None
  /\ at <= 10 => result["verdict"] = None
  /\ at > 7 => status["evidence"] # "FAILED"
  /\ at > 8 => status["confidence"] # "FAILED"

\* The stored decisions are those of the stored evidence, which the later stages
\* have read unchanged.
DecisionsFollowEvidence ==
  LET e == result["evidence"]
      c == result["confidence"]
      r == result["risk"]
      v == result["verdict"]
  IN /\ e # None => DetectorOnlyInfers(e)
     /\ c # None => c = AssessConfidence(e)
     /\ r # None => r = AssessRisk(e, c)
     /\ v # None => v = ReachVerdict(e, c)

DecisionsInv == DecisionOrder /\ DecisionsFollowEvidence

-----------------------------------------------------------------------------
(* The order of the stages.                                                *)

LEMMA StagePositions ==
  /\ DOMAIN StageOrder = 1 .. 11
  /\ Len(StageOrder) = 11
  /\ StageOrder[7] = "evidence" /\ StageOrder[8] = "confidence"
  /\ StageOrder[9] = "risk" /\ StageOrder[10] = "verdict"
  /\ \A i \in 1 .. 11 :
       /\ StageOrder[i] = "evidence" => i = 7
       /\ StageOrder[i] = "confidence" => i = 8
       /\ StageOrder[i] = "risk" => i = 9
       /\ StageOrder[i] = "verdict" => i = 10
       /\ StageOrder[i] \in Stages
BY DEF StageOrder, Stages

LEMMA DecisionStages ==
  {"evidence", "confidence", "risk", "verdict"} \subseteq Stages
BY StagePositions

\* Of what normalize_source makes of a detector's result, all is inference.
LEMMA AggregateOnlyInfers ==
  ASSUME NEW sources
  PROVE  DetectorOnlyInfers(Aggregate(sources))
<1> SUFFICES ASSUME NEW x \in Aggregate(sources).items, x.source = "DETECTION"
             PROVE  x.type = "INFERENCE"
  BY DEF DetectorOnlyInfers
<1>1. PICK s \in Sources : x \in ItemsOf(s, sources[s].payload)
  BY DEF Aggregate
<1>2. CASE s = "DETECTION"
  BY <1>1, <1>2 DEF ItemsOf, DetectionItems, Item
<1>3. CASE s = "FINGERPRINT"
  BY <1>1, <1>3 DEF ItemsOf, FingerprintItems, Plain, Item
<1>4. CASE s = "METADATA"
  BY <1>1, <1>4 DEF ItemsOf, MetadataItems, FindingItems, Plain, Item
<1>5. CASE s = "VISUAL_FORENSICS"
  BY <1>1, <1>5 DEF ItemsOf, ForensicItems, Item
<1>6. CASE s = "XAI"
  BY <1>1, <1>6 DEF ItemsOf, XaiItems, Item
<1> QED BY <1>2, <1>3, <1>4, <1>5, <1>6 DEF Sources

-----------------------------------------------------------------------------
(* The decisions.                                                          *)

LEMMA DecisionsInit == Init => DecisionsInv
<1> SUFFICES ASSUME Init PROVE DecisionsInv
  OBVIOUS
<1>1. DecisionOrder
  BY DecisionStages DEF Init, DecisionOrder
<1>2. DecisionsFollowEvidence
  BY DecisionStages DEF Init, DecisionsFollowEvidence
<1> QED BY <1>1, <1>2 DEF DecisionsInv

LEMMA SameResults ==
  ASSUME DecisionsFollowEvidence,
         result'["evidence"] = result["evidence"],
         result'["confidence"] = result["confidence"],
         result'["risk"] = result["risk"],
         result'["verdict"] = result["verdict"]
  PROVE  DecisionsFollowEvidence'
BY DEF DecisionsFollowEvidence

\* A step that writes no row.
LEMMA StayKeepsDecisions ==
  ASSUME DecisionsInv, result' = result, status' = status, at' = at
  PROVE  DecisionsInv'
<1>1. DecisionOrder'
  BY DEF DecisionsInv, DecisionOrder
<1>2. DecisionsFollowEvidence'
  BY SameResults DEF DecisionsInv
<1> QED BY <1>1, <1>2 DEF DecisionsInv

LEMMA FailKeepsDecisions ==
  ASSUME DecisionsInv, NEW name, NEW cause, Runs(name), Fail(name, cause)
  PROVE  DecisionsInv'
<1>1. at \in 1 .. 11 /\ StageOrder[at] = name
  BY StagePositions DEF Runs, Stage
<1>2. DecisionOrder'
  BY <1>1, StagePositions, DecisionStages DEF DecisionsInv, DecisionOrder, Fail
<1>3. DecisionsFollowEvidence'
  BY SameResults DEF DecisionsInv, Fail
<1> QED BY <1>2, <1>3 DEF DecisionsInv

LEMMA SkipKeepsDecisions == DecisionsInv /\ Skip => DecisionsInv'
<1> SUFFICES ASSUME DecisionsInv, Skip PROVE DecisionsInv'
  OBVIOUS
<1>1. at \in 1 .. 11 /\ Stage = StageOrder[at] /\ Stage \in Stages
  BY StagePositions DEF Skip, Stage
<1>2. DecisionOrder'
  BY <1>1, StagePositions, DecisionStages DEF DecisionsInv, DecisionOrder, Skip
<1>3. DecisionsFollowEvidence'
  BY SameResults DEF DecisionsInv, Skip
<1> QED BY <1>2, <1>3 DEF DecisionsInv

LEMMA CompleteKeepsOrder ==
  ASSUME DecisionsInv, NEW name, NEW payload, Runs(name), Complete(name, payload)
  PROVE  /\ DecisionOrder'
         /\ at \in 1 .. 11 /\ StageOrder[at] = name
         /\ \A n \in Stages : n # name => result'[n] = result[n]
         /\ result'[name] = payload
<1>1. at \in 1 .. 11 /\ StageOrder[at] = name /\ name \in Stages
  BY StagePositions DEF Runs, Stage
<1>2. /\ \A n \in Stages : n # name => result'[n] = result[n]
      /\ result'[name] = payload
      /\ DOMAIN result' = Stages
  BY <1>1 DEF DecisionsInv, DecisionOrder, Complete
<1>3. /\ \A n \in Stages : n # name => status'[n] = status[n]
      /\ status'[name] = "COMPLETED"
      /\ DOMAIN status' = Stages
      /\ at' = at + 1
  BY <1>1 DEF DecisionsInv, DecisionOrder, Complete
<1>4. DecisionOrder'
  BY <1>1, <1>2, <1>3, StagePositions, DecisionStages DEF DecisionsInv, DecisionOrder
<1> QED BY <1>1, <1>2, <1>4

\* A stage whose result the decisions do not read.
LEMMA OtherStageKeepsDecisions ==
  ASSUME DecisionsInv, NEW name, NEW payload, Runs(name), Complete(name, payload),
         name \notin {"evidence", "confidence", "risk", "verdict"}
  PROVE  DecisionsInv'
<1>1. /\ DecisionOrder'
      /\ \A n \in Stages : n # name => result'[n] = result[n]
  BY CompleteKeepsOrder
<1>2. DecisionsFollowEvidence'
  BY <1>1, DecisionStages, SameResults DEF DecisionsInv
<1> QED BY <1>1, <1>2 DEF DecisionsInv

LEMMA AggregateKeepsDecisions == DecisionsInv /\ AggregateEvidence => DecisionsInv'
<1> SUFFICES ASSUME DecisionsInv, AggregateEvidence PROVE DecisionsInv'
  OBVIOUS
<1> DEFINE e == Aggregate([s \in Sources |-> SourceOutput(s)])
<1>1. Runs("evidence") /\ Complete("evidence", e)
  BY DEF AggregateEvidence
<1>2. DetectorOnlyInfers(e)
  BY AggregateOnlyInfers
<1> HIDE DEF e
<1>3. /\ DecisionOrder'
      /\ at \in 1 .. 11 /\ StageOrder[at] = "evidence"
      /\ \A n \in Stages : n # "evidence" => result'[n] = result[n]
      /\ result'["evidence"] = e
  BY <1>1, CompleteKeepsOrder
<1>4. at = 7
  BY <1>3, StagePositions
<1>5. /\ result'["confidence"] = None
      /\ result'["risk"] = None
      /\ result'["verdict"] = None
  BY <1>3, <1>4, DecisionStages DEF DecisionsInv, DecisionOrder
<1>6. DecisionsFollowEvidence'
  BY <1>2, <1>3, <1>5 DEF DecisionsFollowEvidence, DetectorOnlyInfers
<1> QED BY <1>3, <1>6 DEF DecisionsInv

LEMMA ConfidenceKeepsDecisions == DecisionsInv /\ Confidence => DecisionsInv'
<1> SUFFICES ASSUME DecisionsInv, Confidence PROVE DecisionsInv'
  OBVIOUS
<1> DEFINE c == AssessConfidence(Read("evidence"))
<1>1. Runs("confidence") /\ Complete("confidence", c)
  BY DEF Confidence
<1>2. /\ DecisionOrder'
      /\ at \in 1 .. 11 /\ StageOrder[at] = "confidence"
      /\ \A n \in Stages : n # "confidence" => result'[n] = result[n]
      /\ result'["confidence"] = c
  <2> HIDE DEF c
  <2> QED BY <1>1, CompleteKeepsOrder
<1>3. at = 8
  BY <1>2, StagePositions
<1>4. c = AssessConfidence(result["evidence"])
  BY <1>3 DEF Read, DecisionsInv, DecisionOrder
<1> HIDE DEF c
<1>5. result'["risk"] = None /\ result'["verdict"] = None
  BY <1>2, <1>3, DecisionStages DEF DecisionsInv, DecisionOrder
<1>6. result'["evidence"] = result["evidence"]
  BY <1>2, DecisionStages
<1>7. DecisionsFollowEvidence'
  BY <1>2, <1>4, <1>5, <1>6 DEF DecisionsInv, DecisionsFollowEvidence
<1> QED BY <1>2, <1>7 DEF DecisionsInv

LEMMA RiskKeepsDecisions == DecisionsInv /\ Risk => DecisionsInv'
<1> SUFFICES ASSUME DecisionsInv, Risk PROVE DecisionsInv'
  OBVIOUS
<1> DEFINE r == AssessRisk(Read("evidence"), Read("confidence"))
<1>1. Runs("risk") /\ Complete("risk", r)
  BY DEF Risk
<1>2. /\ DecisionOrder'
      /\ at \in 1 .. 11 /\ StageOrder[at] = "risk"
      /\ \A n \in Stages : n # "risk" => result'[n] = result[n]
      /\ result'["risk"] = r
  <2> HIDE DEF r
  <2> QED BY <1>1, CompleteKeepsOrder
<1>3. at = 9
  BY <1>2, StagePositions
<1>4. r = AssessRisk(result["evidence"], result["confidence"])
  BY <1>3 DEF Read, DecisionsInv, DecisionOrder
<1> HIDE DEF r
<1>5. /\ result'["evidence"] = result["evidence"]
      /\ result'["confidence"] = result["confidence"]
      /\ result'["verdict"] = None
  BY <1>2, <1>3, DecisionStages DEF DecisionsInv, DecisionOrder
<1>6. DecisionsFollowEvidence'
  BY <1>2, <1>4, <1>5 DEF DecisionsInv, DecisionsFollowEvidence
<1> QED BY <1>2, <1>6 DEF DecisionsInv

LEMMA VerdictKeepsDecisions == DecisionsInv /\ Verdict => DecisionsInv'
<1> SUFFICES ASSUME DecisionsInv, Verdict PROVE DecisionsInv'
  OBVIOUS
<1> DEFINE v == ReachVerdict(Read("evidence"), Read("confidence"))
<1>1. Runs("verdict") /\ Complete("verdict", v)
  BY DEF Verdict
<1>2. /\ DecisionOrder'
      /\ at \in 1 .. 11 /\ StageOrder[at] = "verdict"
      /\ \A n \in Stages : n # "verdict" => result'[n] = result[n]
      /\ result'["verdict"] = v
  <2> HIDE DEF v
  <2> QED BY <1>1, CompleteKeepsOrder
<1>3. at = 10
  BY <1>2, StagePositions
<1>4. v = ReachVerdict(result["evidence"], result["confidence"])
  BY <1>3 DEF Read, DecisionsInv, DecisionOrder
<1> HIDE DEF v
<1>5. /\ result'["evidence"] = result["evidence"]
      /\ result'["confidence"] = result["confidence"]
      /\ result'["risk"] = result["risk"]
  BY <1>2, DecisionStages
<1>6. DecisionsFollowEvidence'
  BY <1>2, <1>4, <1>5 DEF DecisionsInv, DecisionsFollowEvidence
<1> QED BY <1>2, <1>6 DEF DecisionsInv

LEMMA FileStageKeepsDecisions == DecisionsInv /\ FileStage => DecisionsInv'
<1> SUFFICES ASSUME DecisionsInv, FileStage PROVE DecisionsInv'
  OBVIOUS
<1>1. CASE FileMissing
  <2>1. PICK name \in FileStages : Runs(name) /\ Fail(name, "missing")
    BY <1>1 DEF FileMissing
  <2> QED BY <2>1, FailKeepsDecisions
<1>2. CASE Validate
  BY <1>2, FailKeepsDecisions, OtherStageKeepsDecisions DEF Validate
<1>3. CASE Fingerprint
  BY <1>3, FailKeepsDecisions, OtherStageKeepsDecisions DEF Fingerprint
<1>4. CASE ReadMetadata
  BY <1>4, FailKeepsDecisions, OtherStageKeepsDecisions DEF ReadMetadata
<1>5. CASE Detect
  BY <1>5, FailKeepsDecisions, OtherStageKeepsDecisions DEF Detect
<1>6. CASE ForensicsRefused
  BY <1>6, FailKeepsDecisions DEF ForensicsRefused
<1>7. CASE RunAnalyzer
  BY <1>7, StayKeepsDecisions DEF RunAnalyzer, AnalyzerCompletes, AnalyzerFails
<1>8. CASE FinishForensics
  BY <1>8, OtherStageKeepsDecisions DEF FinishForensics
<1>9. CASE Explain
  BY <1>9, FailKeepsDecisions, OtherStageKeepsDecisions DEF Explain
<1> QED BY <1>1, <1>2, <1>3, <1>4, <1>5, <1>6, <1>7, <1>8, <1>9 DEF FileStage

LEMMA ReportKeepsDecisions == DecisionsInv /\ Report => DecisionsInv'
BY FailKeepsDecisions, OtherStageKeepsDecisions DEF Report

LEMMA DecisionsStep == DecisionsInv /\ [Next]_vars => DecisionsInv'
<1> SUFFICES ASSUME DecisionsInv, [Next]_vars PROVE DecisionsInv'
  OBVIOUS
<1>1. CASE Skip
  BY <1>1, SkipKeepsDecisions
<1>2. CASE FileStage
  BY <1>2, FileStageKeepsDecisions
<1>3. CASE ResultStage
  BY <1>3, AggregateKeepsDecisions, ConfidenceKeepsDecisions, RiskKeepsDecisions,
     VerdictKeepsDecisions, ReportKeepsDecisions DEF ResultStage
<1>4. CASE Finish
  BY <1>4, StayKeepsDecisions DEF Finish
<1>5. CASE UNCHANGED vars
  BY <1>5, StayKeepsDecisions DEF vars
<1> QED BY <1>1, <1>2, <1>3, <1>4, <1>5 DEF Next, Step, Done

LEMMA ConfidenceFields ==
  ASSUME NEW e
  PROVE  LET c == AssessConfidence(e) IN
         /\ c.basis = References(e)
         /\ c.uncalibrated = DetectorInferred(e)
         /\ c.reason =
              IF e = None THEN "no evidence"
              ELSE IF e.items = {} THEN "no items"
              ELSE IF \E x \in e.items : Directional(x) THEN "directional"
              ELSE "neutral"
<1>1. AssessConfidence(e).basis = References(e)
  BY ZenonT(30) DEF AssessConfidence
<1>2. AssessConfidence(e).uncalibrated = DetectorInferred(e)
  BY ZenonT(30) DEF AssessConfidence
<1>3. AssessConfidence(e).reason =
        IF e = None THEN "no evidence"
        ELSE IF e.items = {} THEN "no items"
        ELSE IF \E x \in e.items : Directional(x) THEN "directional"
        ELSE "neutral"
  BY ZenonT(30) DEF AssessConfidence
<1> QED BY <1>1, <1>2, <1>3

LEMMA DecisionsFollowed == DecisionsInv => DecisionsAgree
<1> SUFFICES ASSUME DecisionsInv PROVE DecisionsAgree
  OBVIOUS
<1> DEFINE e == result["evidence"]
           c == result["confidence"]
           r == result["risk"]
           v == result["verdict"]
<1>1. /\ e # None => DetectorOnlyInfers(e)
      /\ c # None => c = AssessConfidence(e)
      /\ r # None => r = AssessRisk(e, c)
      /\ v # None => v = ReachVerdict(e, c)
  BY DEF DecisionsInv, DecisionsFollowEvidence
<1> HIDE DEF e, c, r, v
\* A reference to the detector is one to its inference.
<1>2. DetectorInferred(e) <=> ScoreSet(e)
  BY <1>1 DEF DetectorInferred, ScoreSet, References, DetectorOnlyInfers
<1>3. ASSUME c # None
      PROVE  /\ c.basis = References(e)
             /\ c.uncalibrated <=> ScoreSet(e)
             /\ c.reason = "directional" <=>
                  \E x \in References(e) : Directional(x)
  <2>1. /\ c.basis = References(e)
        /\ c.uncalibrated = DetectorInferred(e)
        /\ c.reason =
             IF e = None THEN "no evidence"
             ELSE IF e.items = {} THEN "no items"
             ELSE IF \E x \in e.items : Directional(x) THEN "directional"
             ELSE "neutral"
    BY <1>1, <1>3, ConfidenceFields
  <2>2. References(e) = IF e = None THEN {} ELSE e.items
    BY DEF References
  <2> QED BY <2>1, <2>2, <1>2
<1>4. ASSUME r # None
      PROVE  /\ r.basis = {x \in References(e) : Directional(x)}
             /\ r.reason = DecisionReason(e, c)
             /\ r.scoreUnused = ScoreSet(e)
  BY <1>1, <1>4 DEF AssessRisk
<1>5. ASSUME v # None
      PROVE  /\ v.basis = References(e)
             /\ v.reason = DecisionReason(e, c)
             /\ v.scoreUnused = ScoreSet(e)
  BY <1>1, <1>5 DEF ReachVerdict
<1>6. /\ c # None /\ v # None =>
           c.basis = v.basis /\ (c.uncalibrated <=> v.scoreUnused)
      /\ c # None /\ r # None =>
           /\ r.basis = {x \in c.basis : Directional(x)}
           /\ c.reason = "directional" <=> r.basis # {}
      /\ r # None /\ v # None =>
           r.reason = v.reason /\ (r.scoreUnused <=> v.scoreUnused)
  BY <1>3, <1>4, <1>5
<1> QED BY <1>6 DEF DecisionsAgree, e, c, r, v

\* The confidence, the risk and the verdict of every scan rest on the same evidence
\* (confidence.py, risk.py and verdict.py each read it again), for any files and
\* any registered stages, detectors, explainers and analyzers.
THEOREM DecisionsSound == Spec => []DecisionsAgree
<1>1. Init => DecisionsInv
  BY DecisionsInit
<1>2. DecisionsInv /\ [Next]_vars => DecisionsInv'
  BY DecisionsStep
<1>3. DecisionsInv => DecisionsAgree
  BY DecisionsFollowed
<1> QED BY <1>1, <1>2, <1>3, PTL DEF Spec

-----------------------------------------------------------------------------
(* Where the run stands.                                                   *)

\* Where the run stands: what is behind it was completed or skipped by registration,
\* what is ahead of it is untouched.
RunInv ==
  /\ build \in Builds /\ file \in Files
  /\ at \in 1 .. 12
  /\ DOMAIN blocks \subseteq Analyzers
  /\ \A a \in DOMAIN blocks : blocks[a] \in {"COMPLETED", "FAILED"}
  /\ status \in [Stages -> {"PENDING", "COMPLETED", "FAILED", "SKIPPED"}]
  /\ DOMAIN result = Stages
  /\ \A i \in 1 .. 11 :
       /\ i < at => status[StageOrder[i]] =
                      IF StageOrder[i] \in build.stages THEN "COMPLETED" ELSE "SKIPPED"
       /\ i > at \/ (i = at /\ outcome = "PROCESSING") => status[StageOrder[i]] = "PENDING"
       /\ result[StageOrder[i]] # None => status[StageOrder[i]] = "COMPLETED"

\* STAGE_ORDER names each stage once.
LEMMA StageNames ==
  /\ DOMAIN StageOrder = 1 .. 11 /\ Len(StageOrder) = 11
  /\ Stages = {StageOrder[i] : i \in 1 .. 11}
  /\ \A i, j \in 1 .. 11 : StageOrder[i] = StageOrder[j] => i = j
<1>1. DOMAIN StageOrder = 1 .. 11 /\ Len(StageOrder) = 11
  BY DEF StageOrder
<1>2. \A i, j \in 1 .. 11 : StageOrder[i] = StageOrder[j] => i = j
  BY SMTT(60) DEF StageOrder
<1> QED BY <1>1, <1>2 DEF Stages

LEMMA RunInit == Init => RunInv
<1> SUFFICES ASSUME Init PROVE RunInv
  OBVIOUS
<1> QED BY StageNames DEF Init, RunInv

\* The three ways in which the runner moves on from a stage.
LEMMA CompleteRuns ==
  ASSUME RunInv, NEW name, NEW payload, Runs(name), Complete(name, payload),
         blocks' = blocks \/ blocks' = <<>>
  PROVE  RunInv'
<1>1. at \in 1 .. 11 /\ StageOrder[at] = name /\ name \in Stages /\ name \in build.stages
  BY StageNames DEF Runs, Stage
<1>2. /\ status' = [status EXCEPT ![name] = "COMPLETED"] /\ at' = at + 1
      /\ result' = [result EXCEPT ![name] = payload]
      /\ UNCHANGED <<build, file, outcome>>
  BY DEF Complete
<1>3. /\ DOMAIN blocks' \subseteq Analyzers
      /\ \A a \in DOMAIN blocks' : blocks'[a] \in {"COMPLETED", "FAILED"}
  BY DEF RunInv
<1>4. ASSUME NEW i \in 1 .. 11
      PROVE  /\ i < at' => status'[StageOrder[i]] =
                  IF StageOrder[i] \in build'.stages THEN "COMPLETED" ELSE "SKIPPED"
             /\ i > at' \/ (i = at' /\ outcome' = "PROCESSING") => status'[StageOrder[i]] = "PENDING"
             /\ result'[StageOrder[i]] # None => status'[StageOrder[i]] = "COMPLETED"
  <2>1. StageOrder[i] \in Stages /\ (i # at => StageOrder[i] # name)
    BY <1>1, StageNames
  <2>2. CASE i = at
    BY <1>1, <1>2, <2>2 DEF RunInv
  <2>3. CASE i # at
    BY <1>1, <1>2, <2>1, <2>3 DEF RunInv
  <2> QED BY <2>2, <2>3
<1> QED BY <1>1, <1>2, <1>3, <1>4 DEF RunInv

LEMMA SkipRuns == ASSUME RunInv, Skip PROVE RunInv'
<1>1. at \in 1 .. 11 /\ StageOrder[at] = Stage /\ Stage \in Stages /\ Stage \notin build.stages
  BY StageNames DEF Skip, Stage
<1>2. /\ status' = [status EXCEPT ![Stage] = "SKIPPED"] /\ at' = at + 1
      /\ UNCHANGED <<build, file, blocks, result, outcome>> /\ outcome = "PROCESSING"
  BY DEF Skip
<1>3. ASSUME NEW i \in 1 .. 11
      PROVE  /\ i < at' => status'[StageOrder[i]] =
                  IF StageOrder[i] \in build'.stages THEN "COMPLETED" ELSE "SKIPPED"
             /\ i > at' \/ (i = at' /\ outcome' = "PROCESSING") => status'[StageOrder[i]] = "PENDING"
             /\ result'[StageOrder[i]] # None => status'[StageOrder[i]] = "COMPLETED"
  <2>1. StageOrder[i] \in Stages /\ (i # at => StageOrder[i] # Stage)
    BY <1>1, StageNames
  <2>2. CASE i = at
    BY <1>1, <1>2, <2>2 DEF RunInv
  <2>3. CASE i # at
    BY <1>1, <1>2, <2>1, <2>3 DEF RunInv
  <2> QED BY <2>2, <2>3
<1> QED BY <1>1, <1>2, <1>3 DEF RunInv

LEMMA FailRuns ==
  ASSUME RunInv, NEW name, NEW cause, Runs(name), Fail(name, cause), cause # "PROCESSING"
  PROVE  RunInv'
<1>1. at \in 1 .. 11 /\ StageOrder[at] = name /\ name \in Stages
  BY StageNames DEF Runs, Stage
<1>2. /\ status' = [status EXCEPT ![name] = "FAILED"] /\ outcome' # "PROCESSING"
      /\ UNCHANGED <<build, file, at, blocks, result>> /\ outcome = "PROCESSING"
  BY DEF Fail, Runs
<1>3. ASSUME NEW i \in 1 .. 11
      PROVE  /\ i < at' => status'[StageOrder[i]] =
                  IF StageOrder[i] \in build'.stages THEN "COMPLETED" ELSE "SKIPPED"
             /\ i > at' \/ (i = at' /\ outcome' = "PROCESSING") => status'[StageOrder[i]] = "PENDING"
             /\ result'[StageOrder[i]] # None => status'[StageOrder[i]] = "COMPLETED"
  <2>1. StageOrder[i] \in Stages /\ (i # at => StageOrder[i] # name)
    BY <1>1, StageNames
  <2>2. CASE i = at
    BY <1>1, <1>2, <2>2 DEF RunInv
  <2>3. CASE i # at
    BY <1>1, <1>2, <2>1, <2>3 DEF RunInv
  <2> QED BY <2>2, <2>3
<1> QED BY <1>1, <1>2, <1>3 DEF RunInv

LEMMA AnalyzersFinite == IsFiniteSet(Analyzers)
<1>1. /\ IsFiniteSet({} \cup {"ela"})
      /\ Analyzers = (({} \cup {"ela"}) \cup {"noise"}) \cup {"frequency"}
  BY FS_EmptySet, FS_AddElement DEF Analyzers
<1>2. IsFiniteSet(({} \cup {"ela"}) \cup {"noise"})
  BY <1>1, FS_AddElement
<1> QED BY <1>1, <1>2, FS_AddElement

\* An analyzer's block: the analyzers are counted by the blocks there are.
LEMMA AnalyzerRuns == ASSUME RunInv, RunAnalyzer PROVE RunInv'
<1>1. build.analyzers \in Seq(Analyzers)
  BY AnalysisAssumption DEF RunInv, BuildType
<1>3. Cardinality(DOMAIN blocks) \in Nat
  BY AnalyzersFinite, FS_Subset, FS_CardinalityType DEF RunInv
<1>4. NextAnalyzer \in Analyzers
  BY <1>1, <1>3 DEF RunAnalyzer, NextAnalyzer
<1>5. PICK verdict \in {"COMPLETED", "FAILED"} : blocks' = WithBlock(NextAnalyzer, verdict)
  BY DEF RunAnalyzer, AnalyzerCompletes, AnalyzerFails
<1>6. /\ DOMAIN blocks' \subseteq Analyzers
      /\ \A a \in DOMAIN blocks' : blocks'[a] \in {"COMPLETED", "FAILED"}
  BY <1>4, <1>5 DEF WithBlock, RunInv
<1>7. UNCHANGED <<build, file, at, status, result, outcome>>
  BY DEF RunAnalyzer, AnalyzerCompletes, AnalyzerFails
<1> QED BY <1>6, <1>7 DEF RunInv

\* What ends a stage.
Completes == \E name, payload : Runs(name) /\ Complete(name, payload)
Fails == \E name, cause : Runs(name) /\ Fail(name, cause) /\ cause \notin {"PROCESSING", "COMPLETED"}

LEMMA DetectEnds ==
  ASSUME Detect
  PROVE  /\ Runs("detect") /\ blocks' = blocks
         /\ \/ \E cause \in {"no detector", "detector"} : Fail("detect", cause)
            \/ \E payload : Complete("detect", payload)
<1>1. /\ Runs("detect") /\ blocks' = blocks
      /\ \/ Fail("detect", "no detector") \/ Fail("detect", "detector")
         \/ \E p \in Detector.predictions \cup {NoPrediction} :
              Complete("detect", Detected(Detector, p))
  BY DEF Detect
<1> QED BY <1>1

\* Every step of a stage is one of three kinds.
LEMMA StageKinds ==
  ASSUME FileStage \/ ResultStage
  PROVE  \/ Completes /\ (blocks' = blocks \/ blocks' = <<>>)
         \/ Fails
         \/ RunAnalyzer
<1>1. CASE FileMissing
  BY <1>1 DEF FileMissing, Fails
<1>2. CASE Validate
  BY <1>2 DEF Validate, Fails, Completes
<1>3. CASE Fingerprint
  BY <1>3 DEF Fingerprint, Fails, Completes
<1>4. CASE ReadMetadata
  BY <1>4 DEF ReadMetadata, Fails, Completes
<1>5. CASE Detect
  BY <1>5, DetectEnds DEF Fails, Completes
<1>6. CASE ForensicsRefused
  <2>1. Runs("forensics") /\ \E cause \in {"no analyzers", "unreadable", "oversized"} : Fail("forensics", cause)
    BY <1>6 DEF ForensicsRefused
  <2> QED BY <2>1 DEF Fails
<1>7. CASE FinishForensics
  BY <1>7 DEF FinishForensics, Completes
<1>8. CASE Explain
  BY <1>8 DEF Explain, Fails, Completes
<1>9. CASE AggregateEvidence \/ Confidence \/ Risk \/ Verdict
  BY <1>9 DEF AggregateEvidence, Confidence, Risk, Verdict, Completes
<1>10. CASE Report
  BY <1>10 DEF Report, Fails, Completes
<1> QED BY <1>1, <1>2, <1>3, <1>4, <1>5, <1>6, <1>7, <1>8, <1>9, <1>10 DEF FileStage, ResultStage

LEMMA RunStep == ASSUME RunInv, [Next]_vars PROVE RunInv'
<1>1. CASE Skip
  BY <1>1, SkipRuns
<1>2. CASE Completes /\ (blocks' = blocks \/ blocks' = <<>>)
  BY <1>2, CompleteRuns DEF Completes
<1>3. CASE Fails
  BY <1>3, FailRuns DEF Fails
<1>4. CASE RunAnalyzer
  BY <1>4, AnalyzerRuns
<1>5. CASE Finish
  BY <1>5 DEF Finish, RunInv
<1>6. CASE UNCHANGED vars
  BY <1>6 DEF vars, RunInv
<1> QED BY <1>1, <1>2, <1>3, <1>4, <1>5, <1>6, StageKinds DEF Next, Step, Done

\* The loop of PipelineRunner.run leaves no gap: what is behind the next stage is
\* completed or skipped, what is ahead is untouched, and only what completed has a
\* result.
THEOREM RunTypeCorrect == Spec => []TypeOK
<1>1. Init => RunInv
  BY RunInit
<1>2. RunInv /\ [Next]_vars => RunInv'
  BY RunStep
<1>3. RunInv => TypeOK
  BY StageNames DEF RunInv, TypeOK
<1> QED BY <1>1, <1>2, <1>3, PTL DEF Spec

-----------------------------------------------------------------------------
(* A run is an execution in the sense of ScanLifecycle.                    *)

\* What ScanLifecycle makes of the rows of a run that has ended.
LEMMA EndedRows ==
  ASSUME RunInv', NEW b \in Builds, b = build', Ended',
         NEW rows, rows = [i \in DOMAIN StageOrder |-> RunRow(StageOrder[i])']
  PROVE  /\ outcome' = "COMPLETED" /\ at' = 12 => Run(b)!Success("scan", rows, RunError')
         /\ outcome' # "COMPLETED" /\ at' < 12 /\ status'[Stage'] = "FAILED" /\ Stage' \in build'.stages
              => Run(b)!Failure("scan", rows, RunError')
<1> USE StageNames DEF Run!StageIndex, Run!PassedUpTo, Run!PassedRow, Run!FreshStages,
        Run!Pending, Run!Completed, Run!Skipped, Run!NoError
<1>1. ASSUME NEW i \in 1 .. 11, i < at' PROVE rows[i] = Run(b)!PassedRow(i)
  <2>1. status'[StageOrder[i]] = IF StageOrder[i] \in build'.stages THEN "COMPLETED" ELSE "SKIPPED"
    BY <1>1 DEF RunInv
  <2> QED BY <2>1 DEF RunRow
<1>2. ASSUME NEW i \in 1 .. 11, i > at' PROVE rows[i] = [status |-> "PENDING", error |-> "none"]
  BY <1>2 DEF RunRow, RunInv
<1>3. ASSUME outcome' = "COMPLETED", at' = 12 PROVE Run(b)!Success("scan", rows, RunError')
  <2>1. rows = Run(b)!PassedUpTo("scan", 12)
    BY <1>1, <1>3
  <2> QED BY <2>1, <1>3 DEF Run!Success, RunError
<1>4. ASSUME outcome' # "COMPLETED", at' < 12, status'[Stage'] = "FAILED", Stage' \in build'.stages
      PROVE  Run(b)!Failure("scan", rows, RunError')
  <2>1. at' \in 1 .. 11 /\ RunError' = RunRow(Stage)'.error /\ Stage' = StageOrder[at']
    BY <1>4 DEF RunInv, RunError, Ended, Stage
  <2>2. RunError' \in {"stage error", "unexpected stage failure"}
        /\ rows[at'] = [status |-> "FAILED", error |-> RunError']
    BY <1>4, <2>1 DEF RunRow
  <2>3. \A i \in 1 .. 11 :
          /\ i < at' => rows[i] = Run(b)!PassedRow(i)
          /\ i > at' => rows[i] = [status |-> "PENDING", error |-> "none"]
    BY <1>1, <1>2
  <2>4. rows = [Run(b)!PassedUpTo("scan", at') EXCEPT ![at'] = [status |-> "FAILED", error |-> RunError']]
    <3>1. PICK k \in 1 .. 11 : k = at'
      BY <2>1
    <3>2. PICK row : row = [status |-> "FAILED", error |-> RunError']
      OBVIOUS
    <3>3. Run(b)!PassedUpTo("scan", k) =
            [i \in 1 .. 11 |-> IF i < k THEN Run(b)!PassedRow(i) ELSE [status |-> "PENDING", error |-> "none"]]
      OBVIOUS
    <3>4. rows = [i \in 1 .. 11 |-> rows[i]]
      OBVIOUS
    <3>5. rows[k] = row
      BY <2>2, <3>1, <3>2
    <3>6. [Run(b)!PassedUpTo("scan", k) EXCEPT ![k] = row] =
            [i \in 1 .. 11 |-> IF i = k THEN row ELSE
                                IF i < k THEN Run(b)!PassedRow(i) ELSE [status |-> "PENDING", error |-> "none"]]
      BY <3>3
    <3>7. \A i \in 1 .. 11 : rows[i] = IF i = k THEN row ELSE
                                IF i < k THEN Run(b)!PassedRow(i) ELSE [status |-> "PENDING", error |-> "none"]
      BY <2>3, <3>1, <3>5
    <3>8. rows = [Run(b)!PassedUpTo("scan", k) EXCEPT ![k] = row]
      BY <3>4, <3>6, <3>7
    <3> QED BY <3>1, <3>2, <3>8
  <2>5. at' \in Run(b)!StageIndex /\ at' \in {i \in DOMAIN StageOrder : StageOrder[i] \in b.stages}
    BY <1>4, <2>1
  <2>6. Run(b)!FailedAt("scan", at', rows, RunError')
    <3> HIDE DEF Run!PassedUpTo, Run!PassedRow, Run!FreshStages, Run!StageIndex
    <3>1. 1 .. (at' - 1) \subseteq DOMAIN StageOrder /\ at' \in DOMAIN StageOrder
      <4>1. PICK k \in 1 .. 11 : k = at'
        BY <2>1
      <4>2. 1 .. (k - 1) \subseteq 1 .. 11
        OBVIOUS
      <4> QED BY <4>1, <4>2
    <3>2. RunError' \in {Run(b)!StageErrorMessage, Run(b)!UnexpectedStage}
      BY <2>2 DEF Run!StageErrorMessage, Run!UnexpectedStage
    <3> QED BY <2>4, <2>5, <3>1, <3>2 DEF Run!FailedAt, Run!StageFailed
  <2> QED BY <2>5, <2>6 DEF Run!Failure
<1> QED BY <1>3, <1>4

\* The step that ends a run is ScanLifecycle's Finish.
LEMMA EndRefines ==
  ASSUME RunInv', NEW b \in Builds, b = build', outcome = "PROCESSING",
         \/ outcome' = "COMPLETED" /\ at' = 12
         \/ /\ outcome' \notin {"PROCESSING", "COMPLETED"} /\ at' < 12
            /\ status'[Stage'] = "FAILED" /\ Stage' \in build'.stages
  PROVE  Run(b)!Finish("scan")
<1>1. PICK rows : rows = [i \in DOMAIN StageOrder |-> RunRow(StageOrder[i])']
  OBVIOUS
<1>2. Ended' /\ ~Ended
  BY DEF Ended
<1>3. /\ outcome' = "COMPLETED" => Run(b)!Success("scan", rows, RunError')
      /\ outcome' # "COMPLETED" => Run(b)!Failure("scan", rows, RunError')
  BY <1>1, <1>2, EndedRows
<1> QED BY <1>1, <1>2, <1>3 DEF Run!Finish

\* A step of the run ends it, or its readers do not see it.
LEMMA StepExecutes ==
  ASSUME RunInv, RunInv', [Next]_vars, NEW b \in Builds, b = build
  PROVE  Run(b)!Finish("scan") \/ UNCHANGED <<Ended, Run(b)!vars>>
<1>1. ASSUME outcome = "PROCESSING", outcome' = "PROCESSING"
      PROVE  UNCHANGED <<Ended, Run(b)!vars>>
  BY <1>1 DEF Ended, RunError, Run!vars
<1>2. CASE Done \/ UNCHANGED vars
  <2>1. UNCHANGED vars
    BY <1>2 DEF Done
  <2> QED BY <2>1 DEF vars, Ended, RunError, RunRow, Stage, Run!vars
<1>3. CASE Skip \/ Completes \/ RunAnalyzer
  BY <1>1, <1>3 DEF Skip, Completes, Complete, Runs, RunAnalyzer, AnalyzerCompletes, AnalyzerFails
<1>4. CASE Fails
  <2>1. PICK name, cause : Runs(name) /\ Fail(name, cause) /\ cause \notin {"PROCESSING", "COMPLETED"}
    BY <1>4 DEF Fails
  <2>2. /\ outcome = "PROCESSING" /\ at \in 1 .. 11 /\ Stage = name /\ name \in build.stages
        /\ name \in Stages /\ outcome' = cause
        /\ status' = [status EXCEPT ![name] = "FAILED"] /\ at' = at /\ build' = build
    BY <2>1, StageNames DEF Runs, Fail, Stage
  <2>3. Stage' = name /\ status'[name] = "FAILED" /\ at' < 12
    BY <2>2 DEF Stage, RunInv
  <2> QED BY <2>1, <2>2, <2>3, EndRefines
<1>5. CASE Finish
  BY <1>5, EndRefines, StageNames DEF Finish, RunInv
<1> QED BY <1>2, <1>3, <1>4, <1>5, StageKinds DEF Next, Step

LEMMA RunStepOrStutter ==
  RunInv /\ RunInv' /\ [Next]_vars =>
    [\A b \in Builds : b = build => Run(b)!Finish("scan") \/ UNCHANGED <<Ended, Run(b)!vars>>]_vars
BY StepExecutes

\* Whatever the stages make of a file, the run is the execution of a scan that
\* ScanLifecycle allows.
THEOREM RunExecutes == Spec => RunIsAnExecution
<1>1. Init => RunInv
  BY RunInit
<1>2. RunInv /\ [Next]_vars => RunInv'
  BY RunStep
<1> QED BY <1>1, <1>2, RunStepOrStutter, PTL DEF Spec, RunIsAnExecution

-----------------------------------------------------------------------------
(* The evidence is that of the sources' results.                           *)

\* The stages whose results become evidence.
SourceNames == {"fingerprint", "metadata", "detect", "forensics", "xai"}

SourceOutputs == [s \in Sources |-> SourceOutput(s)]

\* The stored evidence is that of the sources' results as they are stored, which the
\* later stages leave alone; the detection is of the build's detector; and what has
\* been explained had an explainer that can.
EvidenceFollowsSources ==
  LET d == result["detect"]
      x == result["xai"]
      e == result["evidence"]
  IN /\ d # None =>
          \E p \in Detector.predictions \cup {NoPrediction} : d = Detected(Detector, p)
     /\ x # None /\ x.status = "COMPLETED" => \E y \in Explainers(d) : y.explanations # {}
     /\ e # None => at > 7 /\ e = Aggregate(SourceOutputs)

EvidenceInv == RunInv /\ EvidenceFollowsSources

LEMMA SourcePositions ==
  /\ SourceNames \subseteq Stages /\ "evidence" \in Stages
  /\ \A i \in 1 .. 11 :
       /\ StageOrder[i] \in SourceNames => i < 7
       /\ StageOrder[i] = "detect" <=> i = 4
       /\ StageOrder[i] = "xai" <=> i = 6
       /\ StageOrder[i] = "evidence" <=> i = 7
  /\ \A s \in Sources : StageOf[s] \in SourceNames
<1>1. \A i \in 1 .. 11 :
       /\ StageOrder[i] \in SourceNames => i < 7
       /\ StageOrder[i] = "detect" <=> i = 4
       /\ StageOrder[i] = "xai" <=> i = 6
       /\ StageOrder[i] = "evidence" <=> i = 7
  BY DEF StageOrder, SourceNames
<1>2. /\ StageOrder[2] = "fingerprint" /\ StageOrder[3] = "metadata" /\ StageOrder[4] = "detect"
      /\ StageOrder[5] = "forensics" /\ StageOrder[6] = "xai" /\ StageOrder[7] = "evidence"
  BY DEF StageOrder
<1>3. SourceNames \subseteq Stages /\ "evidence" \in Stages
  BY <1>2, StageNames DEF SourceNames
<1>4. \A s \in Sources : StageOf[s] \in SourceNames
  BY DEF Sources, StageOf, SourceNames
<1> QED BY <1>1, <1>3, <1>4

LEMMA SourcesStay ==
  ASSUME \A n \in SourceNames : status'[n] = status[n] /\ result'[n] = result[n]
  PROVE  SourceOutputs' = SourceOutputs
<1>1. \A s \in Sources : SourceOutput(s)' = SourceOutput(s)
  BY SourcePositions DEF SourceOutput
<1> QED BY <1>1 DEF SourceOutputs

\* Nothing is registered while a scan runs.
LEMMA SameBuild ==
  ASSUME build' = build
  PROVE  Detector' = Detector /\ \A m : ExplainersFor(m)' = ExplainersFor(m)
BY DEF Detector, Placeholder, ExplainersFor

LEMMA SameExplainers ==
  ASSUME build' = build, result'["detect"] = result["detect"]
  PROVE  Explainers(result["detect"])' = Explainers(result["detect"])
BY SameBuild DEF Explainers

LEMMA StayKeepsEvidence ==
  ASSUME EvidenceInv, RunInv', result' = result, status' = status, at' = at, build' = build
  PROVE  EvidenceInv'
<1>1. SourceOutputs' = SourceOutputs
  BY SourcesStay
<1> QED BY <1>1, SameBuild, SameExplainers DEF EvidenceInv, EvidenceFollowsSources

\* Skipping or failing gives no result, and comes after the evidence or before it.
LEMMA RowKeepsEvidence ==
  ASSUME EvidenceInv, RunInv', NEW k \in 1 .. 11, k = at, NEW value,
         status' = [status EXCEPT ![StageOrder[k]] = value], result' = result,
         at' \in {at, at + 1}, build' = build
  PROVE  EvidenceInv'
<1>1. ASSUME result["evidence"] # None PROVE SourceOutputs' = SourceOutputs
  <2>1. at > 7
    BY <1>1 DEF EvidenceInv, EvidenceFollowsSources
  <2>2. StageOrder[k] \notin SourceNames
    BY <2>1, SourcePositions
  <2>3. \A n \in SourceNames : status'[n] = status[n] /\ result'[n] = result[n]
    BY <2>2, SourcePositions DEF EvidenceInv, RunInv
  <2> QED BY <2>3, SourcesStay
<1> QED BY <1>1, SameBuild, SameExplainers DEF EvidenceInv, EvidenceFollowsSources, RunInv

\* What completing a stage does to the results.
LEMMA CompleteResults ==
  ASSUME RunInv, NEW name, NEW payload, Runs(name), Complete(name, payload)
  PROVE  /\ at \in 1 .. 11 /\ StageOrder[at] = name /\ at' = at + 1
         /\ \A n \in Stages : n # name => result'[n] = result[n] /\ status'[n] = status[n]
         /\ result'[name] = payload
         /\ \A i \in 1 .. 11 : i >= at => result[StageOrder[i]] = None
<1>1. at \in 1 .. 11 /\ StageOrder[at] = name /\ name \in Stages /\ outcome = "PROCESSING"
  BY StageNames DEF Runs, Stage
<1>2. \A i \in 1 .. 11 : i >= at => result[StageOrder[i]] = None
  BY <1>1 DEF RunInv
<1> QED BY <1>1, <1>2 DEF Complete, RunInv

\* A stage that is neither the detector's, the explainer's nor the evidence's.
LEMMA OtherKeepsEvidence ==
  ASSUME EvidenceInv, RunInv', NEW name, NEW payload, Runs(name), Complete(name, payload),
         name \notin {"detect", "xai", "evidence"}
  PROVE  EvidenceInv'
<1>1. /\ at \in 1 .. 11 /\ StageOrder[at] = name /\ at' = at + 1
      /\ \A n \in Stages : n # name => result'[n] = result[n] /\ status'[n] = status[n]
  BY CompleteResults DEF EvidenceInv
<1>2. \A n \in {"detect", "xai", "evidence"} : result'[n] = result[n]
  BY <1>1, SourcePositions DEF SourceNames
<1>3. ASSUME result["evidence"] # None PROVE SourceOutputs' = SourceOutputs
  <2>1. at > 7
    BY <1>3 DEF EvidenceInv, EvidenceFollowsSources
  <2>2. name \notin SourceNames
    BY <1>1, <2>1, SourcePositions
  <2>3. \A n \in SourceNames : status'[n] = status[n] /\ result'[n] = result[n]
    BY <1>1, <2>2, SourcePositions
  <2> QED BY <2>3, SourcesStay
<1>4. build' = build
  BY DEF Complete
<1> QED BY <1>1, <1>2, <1>3, <1>4, SameBuild, SameExplainers
        DEF EvidenceInv, EvidenceFollowsSources

LEMMA DetectKeepsEvidence ==
  ASSUME EvidenceInv, RunInv', Detect
  PROVE  EvidenceInv'
<1>1. CASE \E cause : Runs("detect") /\ Fail("detect", cause)
  <2>1. PICK cause : Runs("detect") /\ Fail("detect", cause)
    BY <1>1
  <2>2. PICK k \in 1 .. 11 : k = at /\ StageOrder[k] = "detect"
    BY <2>1, StageNames DEF Runs, Stage
  <2> QED BY <2>1, <2>2, RowKeepsEvidence DEF Fail
<1>2. ASSUME NEW p \in Detector.predictions \cup {NoPrediction}, NEW d, d = Detected(Detector, p),
             Runs("detect"), Complete("detect", d)
      PROVE  EvidenceInv'
  <2>1. /\ at = 4 /\ result'["detect"] = d
        /\ result'["xai"] = None /\ result'["evidence"] = None
    BY <1>2, CompleteResults, SourcePositions DEF EvidenceInv, SourceNames
  <2>2. Detector' = Detector
    BY <1>2, SameBuild DEF Complete
  <2>3. \E q \in Detector'.predictions \cup {NoPrediction} : result'["detect"] = Detected(Detector', q)
    BY <1>2, <2>1, <2>2
  <2> QED BY <2>1, <2>3 DEF EvidenceInv, EvidenceFollowsSources, Detected, NoPrediction
<1> QED BY <1>1, <1>2 DEF Detect

LEMMA ExplainKeepsEvidence ==
  ASSUME EvidenceInv, RunInv', Explain
  PROVE  EvidenceInv'
<1>1. CASE \E cause : Runs("xai") /\ Fail("xai", cause)
  <2>1. PICK cause : Runs("xai") /\ Fail("xai", cause)
    BY <1>1
  <2>2. PICK k \in 1 .. 11 : k = at /\ StageOrder[k] = "xai"
    BY <2>1, StageNames DEF Runs, Stage
  <2> QED BY <2>1, <2>2, RowKeepsEvidence DEF Fail
<1>2. ASSUME NEW p, Runs("xai"), Complete("xai", p),
             p.status = "COMPLETED" => \E y \in Explainers(result["detect"]) : y.explanations # {}
      PROVE  EvidenceInv'
  <2>1. /\ at = 6 /\ result'["xai"] = p /\ result'["detect"] = result["detect"]
        /\ result'["evidence"] = None
    BY <1>2, CompleteResults, SourcePositions DEF EvidenceInv, SourceNames
  <2>2. build' = build
    BY <1>2 DEF Complete
  <2> QED BY <1>2, <2>1, <2>2, SameBuild, SameExplainers DEF EvidenceInv, EvidenceFollowsSources
<1>3. NotExplained.status # "COMPLETED"
  BY DEF NotExplained
<1> QED BY <1>1, <1>2, <1>3 DEF Explain

LEMMA AggregateKeepsEvidence ==
  ASSUME EvidenceInv, RunInv', AggregateEvidence
  PROVE  EvidenceInv'
<1> DEFINE e == Aggregate(SourceOutputs)
<1>1. Runs("evidence") /\ Complete("evidence", e)
  BY DEF AggregateEvidence, SourceOutputs
<1> HIDE DEF e
<1>2. /\ at = 7 /\ at' = 8 /\ result'["evidence"] = e
      /\ \A n \in SourceNames : status'[n] = status[n] /\ result'[n] = result[n]
  BY <1>1, CompleteResults, SourcePositions DEF EvidenceInv, SourceNames
<1>3. SourceOutputs' = SourceOutputs
  BY <1>2, SourcesStay
<1>4. result'["evidence"] = Aggregate(SourceOutputs')
  BY <1>2, <1>3 DEF e
<1>5. build' = build
  BY <1>1 DEF Complete
<1> QED BY <1>2, <1>4, <1>5, SameBuild, SameExplainers DEF EvidenceInv, EvidenceFollowsSources, SourceNames

\* What refuses the image as a whole fails the stage.
LEMMA RefusalFails == ForensicsRefused => Fails
<1>1. ForensicsRefused =>
        Runs("forensics") /\ \E cause \in {"no analyzers", "unreadable", "oversized"} : Fail("forensics", cause)
  BY DEF ForensicsRefused
<1> QED BY <1>1 DEF Fails

LEMMA EvidenceStep == ASSUME EvidenceInv, [Next]_vars PROVE EvidenceInv'
<1>0. RunInv /\ RunInv'
  BY RunStep DEF EvidenceInv
<1>1. CASE Skip
  <2>1. PICK k \in 1 .. 11 : k = at /\ StageOrder[k] = Stage
    BY <1>1, StageNames DEF Skip, Stage
  <2> QED BY <1>0, <1>1, <2>1, RowKeepsEvidence DEF Skip
<1>2. CASE Fails
  <2>1. PICK name, cause : Runs(name) /\ Fail(name, cause)
    BY <1>2 DEF Fails
  <2>2. PICK k \in 1 .. 11 : k = at /\ StageOrder[k] = name
    BY <2>1, StageNames DEF Runs, Stage
  <2> QED BY <1>0, <2>1, <2>2, RowKeepsEvidence DEF Fail
<1>3. CASE Detect
  BY <1>0, <1>3, DetectKeepsEvidence
<1>4. CASE Explain
  BY <1>0, <1>4, ExplainKeepsEvidence
<1>5. CASE AggregateEvidence
  BY <1>0, <1>5, AggregateKeepsEvidence
<1>6. ASSUME NEW name, NEW payload, Runs(name), Complete(name, payload),
             name \notin {"detect", "xai", "evidence"}
      PROVE  EvidenceInv'
  BY <1>0, <1>6, OtherKeepsEvidence
<1>7. CASE RunAnalyzer \/ Finish \/ Done \/ UNCHANGED vars
  BY <1>0, <1>7, StayKeepsEvidence DEF RunAnalyzer, AnalyzerCompletes, AnalyzerFails, Finish, Done, vars
<1>8. CASE FileMissing \/ Validate \/ Fingerprint \/ ReadMetadata \/ ForensicsRefused \/ FinishForensics
  <2>1. Fails \/ \E name \in {"validate", "fingerprint", "metadata", "forensics"} : \E payload :
                   Runs(name) /\ Complete(name, payload)
    <3>1. CASE FileMissing
      BY <3>1 DEF FileMissing, Fails
    <3>2. CASE Validate
      BY <3>2 DEF Validate, Fails
    <3>3. CASE Fingerprint
      BY <3>3 DEF Fingerprint, Fails
    <3>4. CASE ReadMetadata
      BY <3>4 DEF ReadMetadata, Fails
    <3>5. CASE FinishForensics
      BY <3>5 DEF FinishForensics
    <3>6. CASE ForensicsRefused
      BY <3>6, RefusalFails
    <3> QED BY <1>8, <3>1, <3>2, <3>3, <3>4, <3>5, <3>6
  <2> QED BY <1>2, <1>6, <2>1
<1>9. CASE Confidence \/ Risk \/ Verdict \/ Report
  <2>1. Fails \/ \E name \in {"confidence", "risk", "verdict", "report"} : \E payload :
                   Runs(name) /\ Complete(name, payload)
    <3>1. CASE Confidence \/ Risk \/ Verdict
      BY <3>1 DEF Confidence, Risk, Verdict
    <3>2. CASE Report
      BY <3>2 DEF Report, Fails
    <3> QED BY <1>9, <3>1, <3>2
  <2> QED BY <1>2, <1>6, <2>1
<1> QED BY <1>1, <1>2, <1>3, <1>4, <1>5, <1>7, <1>8, <1>9 DEF Next, Step, FileStage, ResultStage

LEMMA EvidenceInit == Init => EvidenceInv
<1> SUFFICES ASSUME Init PROVE EvidenceInv
  OBVIOUS
<1>1. \A n \in {"detect", "xai", "evidence"} : result[n] = None
  BY SourcePositions DEF Init, SourceNames
<1> QED BY <1>1, RunInit DEF EvidenceInv, EvidenceFollowsSources

\* An item names the source it was made of.
LEMMA ItemsNameSource ==
  ASSUME NEW s \in Sources, NEW p, NEW x \in ItemsOf(s, p)
  PROVE  x.source = s
<1>1. CASE s = "DETECTION"
  BY <1>1 DEF ItemsOf, DetectionItems, Item
<1>2. CASE s = "FINGERPRINT"
  BY <1>2 DEF ItemsOf, FingerprintItems, Plain, Item
<1>3. CASE s = "METADATA"
  BY <1>3 DEF ItemsOf, MetadataItems, FindingItems, Plain, Item
<1>4. CASE s = "VISUAL_FORENSICS"
  BY <1>4 DEF ItemsOf, ForensicItems, Item
<1>5. CASE s = "XAI"
  BY <1>5 DEF ItemsOf, XaiItems, Item
<1> QED BY <1>1, <1>2, <1>3, <1>4, <1>5 DEF Sources

\* A normalizer's availability says whether it returned items.
LEMMA AvailableItems ==
  ASSUME NEW s \in Sources, NEW p
  PROVE  AvailabilityOf(s, p) = "AVAILABLE" <=> ItemsOf(s, p) # {}
<1>1. CASE s = "FINGERPRINT"
  BY <1>1 DEF AvailabilityOf, ItemsOf, FingerprintItems
<1>2. CASE s = "METADATA"
  <2>1. Plain("METADATA", IF p.presence["exif"] THEN PresentCode["exif"] ELSE AbsentCode["exif"],
              "presence", "VERIFIED") \in MetadataItems(p)
    BY DEF MetadataItems
  <2>2. ItemsOf(s, p) = MetadataItems(p) /\ AvailabilityOf(s, p) = "AVAILABLE"
    BY <1>2 DEF ItemsOf, AvailabilityOf
  <2> QED BY <2>1, <2>2
<1>3. CASE s = "DETECTION"
  <2>1. ItemsOf(s, p) = DetectionItems(p)
    BY <1>3 DEF ItemsOf
  <2> QED BY <1>3, <2>1 DEF DetectionItems, AvailabilityOf
<1>4. CASE s = "VISUAL_FORENSICS"
  <2>1. ItemsOf(s, p) = ForensicItems(p)
    BY <1>4 DEF ItemsOf
  <2>2. ForensicItems(p) = {} <=> Completed(p) = {}
    BY DEF ForensicItems
  <2>3. DOMAIN p = {} => Completed(p) = {}
    BY DEF Completed
  <2> QED BY <1>4, <2>1, <2>2, <2>3 DEF AvailabilityOf
<1>5. CASE s = "XAI"
  <2>1. ItemsOf(s, p) = XaiItems(p)
    BY <1>5 DEF ItemsOf
  <2> QED BY <1>5, <2>1 DEF XaiItems, AvailabilityOf
<1> QED BY <1>1, <1>2, <1>3, <1>4, <1>5 DEF Sources

\* What aggregate_evidence says of each source, from what it was given.
LEMMA AggregateAvailability ==
  ASSUME NEW sources, NEW s \in Sources,
         \A t \in Sources : sources[t].availability # "AVAILABLE"
  PROVE  LET a == Aggregate(sources).availability[s]
             p == sources[s].payload
         IN /\ a = IF p # None THEN AvailabilityOf(s, p) ELSE sources[s].availability
            /\ a = "AVAILABLE" <=> p # None /\ ItemsOf(s, p) # {}
            /\ a = "AVAILABLE" <=> \E x \in Aggregate(sources).items : x.source = s
<1> DEFINE a == Aggregate(sources).availability[s]
           p == sources[s].payload
<1>1. a = IF p # None THEN AvailabilityOf(s, p) ELSE sources[s].availability
  BY DEF Aggregate
<1>2. a = "AVAILABLE" <=> p # None /\ ItemsOf(s, p) # {}
  BY <1>1, AvailableItems
<1>3. \A x : x \in Aggregate(sources).items <=>
             \E t \in Sources : sources[t].payload # None /\ x \in ItemsOf(t, sources[t].payload)
  BY DEF Aggregate
<1>4. (\E x \in Aggregate(sources).items : x.source = s) <=> p # None /\ ItemsOf(s, p) # {}
  BY <1>3, ItemsNameSource
<1> QED BY <1>1, <1>2, <1>4

\* When the evidence has been aggregated, no source had failed.
LEMMA SourceOutputsRead ==
  ASSUME RunInv, at > 7, NEW s \in Sources
  PROVE  /\ SourceOutputs[s].payload = result[StageOf[s]]
         /\ SourceOutputs[s].availability = "UNAVAILABLE"
<1>1. PICK i \in 1 .. 11 : StageOrder[i] = StageOf[s] /\ i < 7
  BY SourcePositions, StageNames
<1>2. status[StageOf[s]] # "FAILED"
  BY <1>1 DEF RunInv
<1> QED BY <1>2 DEF SourceOutputs, SourceOutput

-----------------------------------------------------------------------------
(* The report's limitations.                                               *)

\* What the limitations of a document say, and all they say, of the sources: the notes
\* of the evidence, what the confidence misses, and which models were unavailable.
SourcesLimited(limitations, d, x, e, c) ==
  /\ \A s \in Sources : \A note \in e.notes[s] : <<s, note>> \in limitations
  /\ \A s \in Sources, note \in {"missing", "unusable", "absent", "unavailable"} :
       <<s, note>> \in limitations =>
         \/ note \in e.notes[s]
         \/ note = "absent" /\ c # None /\ s \in c.missing
         \/ note = "unavailable" /\ s = "DETECTION" /\ IsUnavailable(d)
         \/ note = "unavailable" /\ s = "XAI" /\ IsUnavailable(x)

ReportFollowsResults ==
  /\ result["forensics"] # None => DOMAIN result["forensics"] \subseteq Analyzers
  /\ result["report"] # None /\ result["evidence"] # None =>
       SourcesLimited(result["report"].limitations, result["detect"], result["xai"],
                      result["evidence"], result["confidence"])

GapsInv == EvidenceInv /\ DecisionsInv /\ ReportFollowsResults

LEMMA LimitationsOfSources ==
  ASSUME NEW inputs, inputs["evidence"] # None
  PROVE  SourcesLimited(Limitations(inputs), inputs["detect"], inputs["xai"],
                        inputs["evidence"], inputs["confidence"])
<1> DEFINE e == inputs["evidence"]
           c == inputs["confidence"]
           noted == UNION {{s} \X e.notes[s] : s \in Sources}
           absent == IF c = None THEN {} ELSE c.missing \X {"absent"}
           undetected == IF inputs["detect"] # None /\ inputs["detect"].status = "UNAVAILABLE"
                         THEN {<<"DETECTION", "unavailable">>} ELSE {}
           unexplained == IF inputs["xai"] # None /\ inputs["xai"].status = "UNAVAILABLE"
                          THEN {<<"XAI", "unavailable">>} ELSE {}
           uncertain == IF c = None \/ c.confidence # "SUFFICIENT_EVIDENCE"
                        THEN {<<"confidence", "undecided">>} ELSE {}
           unrated == IF inputs["risk"] # None /\ inputs["risk"].level = "UNDETERMINED"
                      THEN {<<"risk", "undecided">>} ELSE {}
           undecided == IF /\ inputs["verdict"] # None
                           /\ inputs["verdict"].verdict = "INSUFFICIENT_EVIDENCE"
                        THEN {<<"verdict", "undecided">>} ELSE {}
           observational == IF inputs["forensics"] = None THEN {}
                            ELSE {<<"measurements", "observational">>}
<1>1. Limitations(inputs) =
        noted \cup absent \cup undetected \cup unexplained \cup uncertain
        \cup unrated \cup undecided \cup observational
  BY DEF Limitations
<1>2. ASSUME NEW s \in Sources, NEW note \in e.notes[s]
      PROVE  <<s, note>> \in Limitations(inputs)
  <2>1. <<s, note>> \in {s} \X e.notes[s]
    OBVIOUS
  <2>2. <<s, note>> \in noted
    BY <2>1
  <2> HIDE DEF noted, absent, undetected, unexplained, uncertain, unrated, undecided, observational
  <2> QED BY <1>1, <2>2
<1>3. ASSUME NEW s \in Sources, NEW note \in {"missing", "unusable", "absent", "unavailable"},
             <<s, note>> \in Limitations(inputs)
      PROVE  \/ note \in e.notes[s]
             \/ note = "absent" /\ c # None /\ s \in c.missing
             \/ note = "unavailable" /\ s = "DETECTION" /\ IsUnavailable(inputs["detect"])
             \/ note = "unavailable" /\ s = "XAI" /\ IsUnavailable(inputs["xai"])
  <2>1. CASE <<s, note>> \in noted
    <3>1. PICK t \in Sources : <<s, note>> \in {t} \X e.notes[t]
      BY <2>1
    <3> QED BY <3>1
  <2>2. CASE <<s, note>> \in absent
    BY <2>2
  <2>3. CASE <<s, note>> \in undetected
    BY <2>3 DEF IsUnavailable
  <2>4. CASE <<s, note>> \in unexplained
    BY <2>4 DEF IsUnavailable
  <2>5. CASE <<s, note>> \in uncertain \cup unrated \cup undecided \cup observational
    BY <2>5
  <2> HIDE DEF noted, absent, undetected, unexplained, uncertain, unrated, undecided, observational
  <2> QED BY <1>1, <1>3, <2>1, <2>2, <2>3, <2>4, <2>5
<1> QED BY <1>2, <1>3 DEF SourcesLimited

LEMMA ReportPositions ==
  /\ StageOrder[11] = "report"
  /\ \A i \in 1 .. 11 : StageOrder[i] = "report" <=> i = 11
  /\ {"detect", "xai", "forensics", "evidence", "confidence", "report"} \subseteq Stages
<1>1. /\ StageOrder[11] = "report" /\ StageOrder[8] = "confidence"
      /\ \A i \in 1 .. 11 : StageOrder[i] = "report" <=> i = 11
  BY DEF StageOrder
<1> QED BY <1>1, StageNames, SourcePositions DEF SourceNames

\* Until the report there is no report to contradict, and after it nothing completes.
LEMMA CompleteKeepsReport ==
  ASSUME GapsInv, NEW name, NEW payload, Runs(name), Complete(name, payload),
         name # "report", name = "forensics" => DOMAIN payload \subseteq Analyzers
  PROVE  ReportFollowsResults'
<1>1. /\ \A n \in Stages : n # name => result'[n] = result[n]
      /\ result'[name] = payload
      /\ result["report"] = None
  BY CompleteResults, ReportPositions DEF GapsInv, EvidenceInv
<1>2. result'["report"] = None
  BY <1>1, ReportPositions
<1>3. result'["forensics"] # None => DOMAIN result'["forensics"] \subseteq Analyzers
  BY <1>1, ReportPositions DEF GapsInv, ReportFollowsResults
<1> QED BY <1>2, <1>3 DEF ReportFollowsResults

LEMMA ReportKeepsReport ==
  ASSUME GapsInv, Runs("report"), Complete("report", Document)
  PROVE  ReportFollowsResults'
<1> DEFINE read == {"detect", "xai", "forensics", "evidence", "confidence"}
<1>1. RunInv
  BY DEF GapsInv, EvidenceInv
<1>2. /\ at \in 1 .. 11 /\ StageOrder[at] = "report"
      /\ \A n \in Stages : n # "report" => result'[n] = result[n]
      /\ result'["report"] = Document
  <2> DEFINE d == Document
  <2>1. Complete("report", d)
    OBVIOUS
  <2> HIDE DEF d
  <2>2. /\ at \in 1 .. 11 /\ StageOrder[at] = "report"
        /\ \A n \in Stages : n # "report" => result'[n] = result[n]
        /\ result'["report"] = d
    BY <1>1, <2>1, CompleteResults
  <2> QED BY <2>2 DEF d
<1>3. \A n \in read : Inputs[n] = result[n] /\ result'[n] = result[n]
  <2> SUFFICES ASSUME NEW n \in read PROVE Inputs[n] = result[n] /\ result'[n] = result[n]
    OBVIOUS
  <2>1. n \in Stages /\ n # "report"
    BY ReportPositions
  <2>2. PICK i \in 1 .. 11 : StageOrder[i] = n
    BY <2>1, StageNames
  <2>3. at = 11 /\ i < at
    BY <1>2, <2>1, <2>2, ReportPositions
  <2>4. status[n] # "FAILED"
    BY <1>1, <2>2, <2>3 DEF RunInv
  <2> QED BY <1>2, <2>1, <2>4 DEF Inputs, Read
<1>4. Document.limitations = Limitations(Inputs)
  BY DEF Document, ComposeReport
<1>5. ASSUME result'["evidence"] # None
      PROVE  SourcesLimited(result'["report"].limitations, result'["detect"], result'["xai"],
                            result'["evidence"], result'["confidence"])
  <2>1. SourcesLimited(Limitations(Inputs), Inputs["detect"], Inputs["xai"],
                       Inputs["evidence"], Inputs["confidence"])
    BY <1>3, <1>5, LimitationsOfSources
  <2> QED BY <1>2, <1>3, <1>4, <2>1
<1>6. result'["forensics"] # None => DOMAIN result'["forensics"] \subseteq Analyzers
  BY <1>3 DEF GapsInv, ReportFollowsResults
<1> QED BY <1>5, <1>6 DEF ReportFollowsResults

LEMMA SameResultsKeepReport ==
  ASSUME ReportFollowsResults, result' = result
  PROVE  ReportFollowsResults'
BY DEF ReportFollowsResults

LEMMA GapsStep == ASSUME GapsInv, [Next]_vars PROVE GapsInv'
<1>0. EvidenceInv' /\ DecisionsInv'
  BY EvidenceStep, DecisionsStep DEF GapsInv
<1>1. CASE Skip \/ Fails \/ RunAnalyzer \/ Finish \/ Done \/ UNCHANGED vars
  <2>1. result' = result
    BY <1>1 DEF Skip, Fails, Fail, RunAnalyzer, AnalyzerCompletes, AnalyzerFails, Finish, Done, vars
  <2> QED BY <1>0, <2>1, SameResultsKeepReport DEF GapsInv
<1>2. CASE FinishForensics
  <2>1. Runs("forensics") /\ Complete("forensics", blocks) /\ DOMAIN blocks \subseteq Analyzers
    BY <1>2 DEF FinishForensics, GapsInv, EvidenceInv, RunInv
  <2> QED BY <1>0, <2>1, CompleteKeepsReport DEF GapsInv
<1>3. CASE Report
  BY <1>0, <1>1, <1>3, ReportKeepsReport DEF Report, Fails, GapsInv
<1>4. ASSUME NEW name \in {"validate", "fingerprint", "metadata", "detect", "xai", "evidence",
                           "confidence", "risk", "verdict"},
             NEW payload, Runs(name), Complete(name, payload)
      PROVE  GapsInv'
  BY <1>0, <1>4, CompleteKeepsReport DEF GapsInv
<1>5. CASE FileMissing \/ Validate \/ Fingerprint \/ ReadMetadata
  BY <1>1, <1>4, <1>5 DEF FileMissing, Validate, Fingerprint, ReadMetadata, Fails
<1>6. CASE Detect
  BY <1>1, <1>4, <1>6, DetectEnds DEF Fails
<1>7. CASE Explain
  BY <1>1, <1>4, <1>7 DEF Explain, Fails
<1>8. CASE ForensicsRefused
  <2>1. Fails
    BY <1>8, RefusalFails
  <2> QED BY <1>1, <2>1
<1>9. CASE AggregateEvidence \/ Confidence \/ Risk \/ Verdict
  BY <1>4, <1>9 DEF AggregateEvidence, Confidence, Risk, Verdict
<1> QED BY <1>1, <1>2, <1>3, <1>5, <1>6, <1>7, <1>8, <1>9 DEF Next, Step, FileStage, ResultStage

LEMMA GapsInit == Init => GapsInv
<1> SUFFICES ASSUME Init PROVE GapsInv
  OBVIOUS
<1>1. result["forensics"] = None /\ result["report"] = None
  BY ReportPositions DEF Init
<1> QED BY <1>1, EvidenceInit, DecisionsInit DEF GapsInv, ReportFollowsResults

\* A source whose result is without items lacks them, and the other way round.
LEMMA NoItemsNoEvidence ==
  ASSUME NEW s \in Sources, result[StageOf[s]] # None
  PROVE  ItemsOf(s, result[StageOf[s]]) = {} <=> Lacks(s)
<1> DEFINE p == result[StageOf[s]]
<1>1. ItemsOf(s, p) = {} <=> AvailabilityOf(s, p) # "AVAILABLE"
  BY AvailableItems
<1>2. Lacks(s) <=> \/ s = "DETECTION" /\ ~Inferred(p)
                   \/ s = "VISUAL_FORENSICS" /\ Completed(p) = {}
                   \/ s = "XAI" /\ p.status # "COMPLETED"
  BY DEF Lacks
<1>3. AvailabilityOf(s, p) # "AVAILABLE" <=> \/ s = "DETECTION" /\ ~Inferred(p)
                                             \/ s = "VISUAL_FORENSICS" /\ Completed(p) = {}
                                             \/ s = "XAI" /\ p.status # "COMPLETED"
  <2>1. DOMAIN p = {} => Completed(p) = {}
    BY DEF Completed
  <2> HIDE DEF p
  <2> QED BY <2>1 DEF Sources, AvailabilityOf
<1> QED BY <1>1, <1>2, <1>3

\* The notes and the availability of a source, from its stage's result.
LEMMA NotesOfResults ==
  ASSUME EvidenceInv, result["evidence"] # None, NEW s \in Sources
  PROVE  LET e == result["evidence"]
             p == result[StageOf[s]]
         IN /\ p = None => e.notes[s] = {"missing"}
            /\ p # None => e.notes[s] = NotesOf(s, p)
            /\ e.availability[s] # "AVAILABLE" => Lacks(s)
<1> DEFINE e == result["evidence"]
           p == result[StageOf[s]]
<1>1. /\ e = Aggregate(SourceOutputs) /\ at > 7
      /\ \A t \in Sources : /\ SourceOutputs[t].payload = result[StageOf[t]]
                            /\ SourceOutputs[t].availability = "UNAVAILABLE"
  BY SourceOutputsRead DEF EvidenceInv, EvidenceFollowsSources
<1>2. e.notes[s] = IF p # None THEN NotesOf(s, p) ELSE {"missing"}
  BY <1>1 DEF Aggregate
<1>3. e.availability[s] = "AVAILABLE" <=> p # None /\ ItemsOf(s, p) # {}
  <2>1. /\ SourceOutputs[s].payload = p
        /\ \A t \in Sources : SourceOutputs[t].availability # "AVAILABLE"
    BY <1>1
  <2> HIDE DEF e, p
  <2>2. Aggregate(SourceOutputs).availability[s] = "AVAILABLE" <=> p # None /\ ItemsOf(s, p) # {}
    BY <2>1, AggregateAvailability
  <2> QED BY <1>1, <2>2
<1>4. p = None => Lacks(s)
  BY DEF Lacks
<1> QED BY <1>2, <1>3, <1>4, NoItemsNoEvidence

LEMMA ConfidenceMisses ==
  ASSUME NEW e, e # None
  PROVE  AssessConfidence(e).missing = {s \in Sources : e.availability[s] # "AVAILABLE"}
BY ZenonT(30) DEF AssessConfidence

LEMMA GapsFollow == GapsInv => GapsAreReported
<1> SUFFICES ASSUME GapsInv, result["report"] # None, result["evidence"] # None
             PROVE  GapsAreReported
  BY DEF GapsAreReported
<1> DEFINE e == result["evidence"]
           c == result["confidence"]
           limitations == result["report"].limitations
<1>0. EvidenceInv
  BY DEF GapsInv
<1>1. /\ \A s \in Sources : \A note \in e.notes[s] : <<s, note>> \in limitations
      /\ \A s \in Sources, note \in {"missing", "unusable", "absent", "unavailable"} :
           <<s, note>> \in limitations =>
             \/ note \in e.notes[s]
             \/ note = "absent" /\ c # None /\ s \in c.missing
             \/ note = "unavailable" /\ s = "DETECTION" /\ IsUnavailable(result["detect"])
             \/ note = "unavailable" /\ s = "XAI" /\ IsUnavailable(result["xai"])
  BY DEF GapsInv, ReportFollowsResults, SourcesLimited
<1>2. \A s \in Sources :
        /\ result[StageOf[s]] = None => e.notes[s] = {"missing"}
        /\ result[StageOf[s]] # None => e.notes[s] = NotesOf(s, result[StageOf[s]])
        /\ e.availability[s] # "AVAILABLE" => Lacks(s)
  BY <1>0, NotesOfResults
<1>3. c # None => c.missing = {s \in Sources : e.availability[s] # "AVAILABLE"}
  <2>1. c # None => c = AssessConfidence(e)
    BY DEF GapsInv, DecisionsInv, DecisionsFollowEvidence
  <2> QED BY <2>1, ConfidenceMisses
<1> HIDE DEF e, c, limitations
<1>4. ASSUME NEW s \in Sources, Lacks(s)
      PROVE  \E l \in limitations : l[1] = s
  <2>1. \E note : note \in e.notes[s]
    <3>1. CASE result[StageOf[s]] = None
      BY <1>2, <3>1
    <3>2. CASE result[StageOf[s]] # None
      <4> DEFINE p == result[StageOf[s]]
      <4>1. \/ s = "DETECTION" /\ ~Inferred(p)
            \/ s = "VISUAL_FORENSICS" /\ Completed(p) = {}
            \/ s = "XAI" /\ p.status # "COMPLETED"
        BY <1>4, <3>2 DEF Lacks
      <4>2. e.notes[s] = NotesOf(s, p)
        BY <1>2, <3>2
      <4> HIDE DEF p
      <4> QED BY <4>1, <4>2 DEF NotesOf
    <3> QED BY <3>1, <3>2
  <2>2. PICK note : <<s, note>> \in limitations
    BY <1>1, <2>1
  <2>3. <<s, note>>[1] = s
    OBVIOUS
  <2> QED BY <2>2, <2>3
<1>5. ASSUME NEW s \in Sources, NEW note \in {"missing", "unusable", "absent", "unavailable"},
             <<s, note>> \in limitations
      PROVE  Lacks(s)
  <2>1. CASE note \in e.notes[s]
    <3>1. CASE result[StageOf[s]] = None
      BY <3>1 DEF Lacks
    <3>2. CASE result[StageOf[s]] # None
      <4>1. note \in NotesOf(s, result[StageOf[s]])
        BY <1>2, <2>1, <3>2
      <4>2. s = "VISUAL_FORENSICS" => note \notin DOMAIN result[StageOf[s]]
        BY <3>2 DEF GapsInv, ReportFollowsResults, StageOf, Analyzers
      <4>3. CASE s = "VISUAL_FORENSICS"
        <5>1. DOMAIN result[StageOf[s]] = {}
          BY <4>1, <4>2, <4>3 DEF NotesOf
        <5> QED BY <4>3, <5>1 DEF Lacks, Completed
      <4>4. CASE s = "DETECTION" \/ s = "XAI"
        BY <4>1, <4>4 DEF NotesOf, Lacks
      <4>5. CASE s = "FINGERPRINT" \/ s = "METADATA"
        BY <4>1, <4>5 DEF NotesOf
      <4> QED BY <4>3, <4>4, <4>5 DEF Sources
    <3> QED BY <3>1, <3>2
  <2>2. CASE note = "absent" /\ c # None /\ s \in c.missing
    BY <1>2, <1>3, <2>2
  <2>3. CASE s = "DETECTION" /\ IsUnavailable(result["detect"])
    <3>1. result["detect"] # None /\ ~Inferred(result["detect"])
      BY <2>3 DEF IsUnavailable, Inferred
    <3> QED BY <2>3, <3>1 DEF Lacks, StageOf
  <2>4. CASE s = "XAI" /\ IsUnavailable(result["xai"])
    <3>1. result["xai"] # None /\ result["xai"].status # "COMPLETED"
      BY <2>4 DEF IsUnavailable
    <3> QED BY <2>4, <3>1 DEF Lacks, StageOf
  <2> QED BY <1>1, <1>5, <2>1, <2>2, <2>3, <2>4
<1>6. ASSUME result["forensics"] # None,
             NEW a \in DOMAIN result["forensics"] \ Completed(result["forensics"])
      PROVE  <<"VISUAL_FORENSICS", a>> \in limitations
  <2>1. "VISUAL_FORENSICS" \in Sources /\ StageOf["VISUAL_FORENSICS"] = "forensics"
    BY DEF Sources, StageOf
  <2>2. e.notes["VISUAL_FORENSICS"] = NotesOf("VISUAL_FORENSICS", result["forensics"])
    BY <1>2, <1>6, <2>1
  <2>3. a \in NotesOf("VISUAL_FORENSICS", result["forensics"])
    BY <1>6 DEF NotesOf
  <2> QED BY <1>1, <2>1, <2>2, <2>3
<1> QED BY <1>4, <1>5, <1>6 DEF GapsAreReported, limitations

\* Whatever gave no evidence is named among the report's limitations, and nothing
\* that gave some is.
THEOREM GapsReported == Spec => []GapsAreReported
BY GapsInit, GapsStep, GapsFollow, PTL DEF Spec

-----------------------------------------------------------------------------
(* The analyzers of a forensics stage.                                     *)

\* The analyzers that have run are the first ones of the registered, and they have run
\* in a stage that goes on.
BlocksInOrder ==
  LET k == Cardinality(DOMAIN blocks) IN
  /\ k <= Len(build.analyzers)
  /\ DOMAIN blocks = {build.analyzers[i] : i \in 1 .. k}
  /\ blocks # <<>> => at = 5 /\ outcome = "PROCESSING" /\ "forensics" \in build.stages
  /\ result["forensics"] # None =>
       DOMAIN result["forensics"] = {build.analyzers[i] : i \in DOMAIN build.analyzers}

BlocksInv == RunInv /\ BlocksInOrder

LEMMA ForensicsPosition ==
  /\ StageOrder[5] = "forensics" /\ "forensics" \in Stages
  /\ \A i \in 1 .. 11 : StageOrder[i] = "forensics" => i = 5
BY StageNames DEF StageOrder

LEMMA NoBlocks == DOMAIN <<>> = {} /\ Cardinality({}) = 0
BY FS_EmptySet

LEMMA BuildAnalyzers ==
  ASSUME RunInv
  PROVE  /\ build.analyzers \in Seq(Analyzers)
         /\ \A i, j \in DOMAIN build.analyzers :
              build.analyzers[i] = build.analyzers[j] => i = j
BY AnalysisAssumption DEF RunInv, BuildType

LEMMA BlocksInit == Init => BlocksInv
<1> SUFFICES ASSUME Init PROVE BlocksInv
  OBVIOUS
<1>1. blocks = <<>> /\ DOMAIN blocks = {} /\ Cardinality(DOMAIN blocks) = 0
  BY NoBlocks DEF Init
<1>2. Len(build.analyzers) \in Nat
  BY RunInit, BuildAnalyzers
<1>3. result["forensics"] = None
  BY ForensicsPosition DEF Init
<1> QED BY <1>1, <1>2, <1>3, RunInit DEF BlocksInv, BlocksInOrder

\* A step that leaves the forensics stage and its blocks alone.
LEMMA FrameKeepsBlocks ==
  ASSUME BlocksInv, RunInv', blocks' = blocks, build' = build,
         result'["forensics"] = result["forensics"],
         blocks # <<>> => at' = at /\ outcome' = outcome
  PROVE  BlocksInv'
BY DEF BlocksInv, BlocksInOrder

LEMMA AnalyzerKeepsBlocks == ASSUME BlocksInv, RunInv', RunAnalyzer PROVE BlocksInv'
<1> DEFINE k == Cardinality(DOMAIN blocks)
<1>1. /\ build.analyzers \in Seq(Analyzers)
      /\ \A i, j \in DOMAIN build.analyzers : build.analyzers[i] = build.analyzers[j] => i = j
  BY BuildAnalyzers DEF BlocksInv
<1>2. IsFiniteSet(DOMAIN blocks) /\ k \in Nat
  BY AnalyzersFinite, FS_Subset, FS_CardinalityType DEF BlocksInv, RunInv
<1>3. k + 1 \in DOMAIN build.analyzers /\ NextAnalyzer = build.analyzers[k + 1]
  BY <1>1, <1>2 DEF RunAnalyzer, NextAnalyzer
<1>4. DOMAIN blocks = {build.analyzers[i] : i \in 1 .. k}
  BY DEF BlocksInv, BlocksInOrder
<1>5. DOMAIN blocks' = DOMAIN blocks \cup {NextAnalyzer}
  BY DEF RunAnalyzer, AnalyzerCompletes, AnalyzerFails, WithBlock
<1>6. UNCHANGED <<build, at, result, outcome>> /\ at \in 1 .. 11 /\ StageOrder[at] = "forensics"
      /\ outcome = "PROCESSING"
  BY StageNames DEF RunAnalyzer, AnalyzerCompletes, AnalyzerFails, Runs, Stage
<1> HIDE DEF k
<1>7. NextAnalyzer \notin DOMAIN blocks
  <2>1. \A i \in 1 .. k : i \in DOMAIN build.analyzers /\ i # k + 1
    BY <1>1, <1>2, <1>3
  <2> QED BY <1>1, <1>3, <1>4, <2>1
<1>8. Cardinality(DOMAIN blocks') = k + 1
  BY <1>2, <1>5, <1>7, FS_AddElement DEF k
<1>9. DOMAIN blocks' = {build.analyzers[i] : i \in 1 .. k + 1}
  <2>1. 1 .. k + 1 = (1 .. k) \cup {k + 1}
    BY <1>2
  <2> QED BY <1>3, <1>4, <1>5, <2>1
<1>10. k + 1 <= Len(build.analyzers)
  BY <1>1, <1>3
<1>11. at = 5 /\ "forensics" \in build.stages
  BY <1>6, ForensicsPosition DEF RunAnalyzer, Runs
<1> QED BY <1>6, <1>8, <1>9, <1>10, <1>11 DEF BlocksInv, BlocksInOrder

LEMMA FinishKeepsBlocks == ASSUME BlocksInv, RunInv', FinishForensics PROVE BlocksInv'
<1>1. /\ build.analyzers \in Seq(Analyzers)
      /\ Cardinality(DOMAIN blocks) = Len(build.analyzers)
      /\ Runs("forensics") /\ Complete("forensics", blocks) /\ blocks' = <<>>
  BY BuildAnalyzers DEF BlocksInv, FinishForensics
<1>2. result'["forensics"] = blocks /\ build' = build
  BY <1>1, CompleteResults DEF BlocksInv, Complete
<1>3. DOMAIN blocks = {build.analyzers[i] : i \in DOMAIN build.analyzers}
  <2>1. DOMAIN build.analyzers = 1 .. Len(build.analyzers)
    BY <1>1
  <2> QED BY <1>1, <2>1 DEF BlocksInv, BlocksInOrder
<1>4. DOMAIN blocks' = {} /\ Cardinality(DOMAIN blocks') = 0
  BY <1>1, NoBlocks
<1>5. Len(build.analyzers) \in Nat
  BY <1>1
<1> QED BY <1>1, <1>2, <1>3, <1>4, <1>5 DEF BlocksInv, BlocksInOrder

\* While an analyzer's block waits, nothing but the forensics stage can go on.
LEMMA OthersKeepBlocks ==
  ASSUME BlocksInv, RunInv', blocks' = blocks,
         \/ Skip
         \/ \E name, payload : Runs(name) /\ Complete(name, payload) /\ name # "forensics"
         \/ \E name, cause : Runs(name) /\ Fail(name, cause) /\ blocks = <<>>
         \/ \E name, cause : Runs(name) /\ Fail(name, cause) /\ name # "forensics"
  PROVE  BlocksInv'
<1>0. RunInv /\ (blocks # <<>> => at = 5 /\ StageOrder[at] = "forensics"
                                   /\ "forensics" \in build.stages)
  BY ForensicsPosition DEF BlocksInv, BlocksInOrder
<1>1. CASE Skip
  <2>1. blocks = <<>>
    BY <1>0, <1>1 DEF Skip, Stage
  <2> QED BY <1>1, <2>1, FrameKeepsBlocks DEF Skip
<1>2. ASSUME NEW name, NEW payload, Runs(name), Complete(name, payload), name # "forensics"
      PROVE  BlocksInv'
  <2>1. blocks = <<>>
    BY <1>0, <1>2 DEF Runs, Stage
  <2>2. result'["forensics"] = result["forensics"] /\ build' = build
    BY <1>0, <1>2, CompleteResults, ForensicsPosition DEF Complete
  <2> QED BY <2>1, <2>2, FrameKeepsBlocks
<1>3. ASSUME NEW name, NEW cause, Runs(name), Fail(name, cause),
             blocks = <<>> \/ name # "forensics"
      PROVE  BlocksInv'
  <2>1. blocks = <<>>
    BY <1>0, <1>3 DEF Runs, Stage
  <2> QED BY <1>3, <2>1, FrameKeepsBlocks DEF Fail
<1> QED BY <1>1, <1>2, <1>3

LEMMA BlocksStep == ASSUME BlocksInv, [Next]_vars PROVE BlocksInv'
<1>0. RunInv /\ RunInv'
  BY RunStep DEF BlocksInv
<1>1. CASE RunAnalyzer
  BY <1>0, <1>1, AnalyzerKeepsBlocks
<1>2. CASE FinishForensics
  BY <1>0, <1>2, FinishKeepsBlocks
<1>3. CASE Skip
  BY <1>0, <1>3, OthersKeepBlocks DEF Skip
<1>4. CASE Finish
  <2>1. blocks = <<>>
    BY <1>4, StageNames DEF Finish, BlocksInv, BlocksInOrder
  <2> QED BY <1>0, <1>4, <2>1, FrameKeepsBlocks DEF Finish
<1>5. CASE Done \/ UNCHANGED vars
  BY <1>0, <1>5, FrameKeepsBlocks DEF Done, vars
<1>6. CASE FileMissing
  BY <1>0, <1>6, OthersKeepBlocks DEF FileMissing, Fail
<1>7. CASE ForensicsRefused
  <2>1. blocks = <<>> /\ \E cause \in {"no analyzers", "unreadable", "oversized"} :
          Runs("forensics") /\ Fail("forensics", cause)
    BY <1>7 DEF ForensicsRefused
  <2> QED BY <1>0, <2>1, OthersKeepBlocks DEF Fail
<1>8. ASSUME NEW name, blocks' = blocks, name # "forensics",
             \/ \E payload : Runs(name) /\ Complete(name, payload)
             \/ \E cause : Runs(name) /\ Fail(name, cause)
      PROVE  BlocksInv'
  BY <1>0, <1>8, OthersKeepBlocks
<1>9. CASE Validate \/ Fingerprint \/ ReadMetadata
  BY <1>8, <1>9 DEF Validate, Fingerprint, ReadMetadata
<1>10. CASE Detect \/ Explain
  BY <1>8, <1>10 DEF Detect, Explain
<1>11. CASE AggregateEvidence \/ Confidence \/ Risk \/ Verdict
  BY <1>8, <1>11 DEF AggregateEvidence, Confidence, Risk, Verdict
<1>12. CASE Report
  BY <1>8, <1>12 DEF Report
<1> QED BY <1>1, <1>2, <1>3, <1>4, <1>5, <1>6, <1>7, <1>9, <1>10, <1>11, <1>12
        DEF Next, Step, FileStage, ResultStage

\* VisualForensicsStage._run_one keeps an analyzer's failure to itself: the stage never
\* fails once an analyzer has run, and its result has a block of every analyzer.
THEOREM AnalyzersStayIsolated == Spec => []AnalyzersIsolated
<1>1. BlocksInv /\ [Next]_vars => BlocksInv'
  BY BlocksStep
<1>2. BlocksInv => AnalyzersIsolated
  <2> SUFFICES ASSUME BlocksInv PROVE AnalyzersIsolated
    OBVIOUS
  <2>1. status["forensics"] = "FAILED" => outcome # "PROCESSING" \/ at # 5
    BY ForensicsPosition DEF BlocksInv, RunInv
  <2> QED BY <2>1 DEF BlocksInv, BlocksInOrder, AnalyzersIsolated
<1> QED BY <1>1, <1>2, BlocksInit, PTL DEF Spec

-----------------------------------------------------------------------------
(* What the evidence says is available.                                    *)

\* A completed fingerprint or metadata stage has a result.
Recorded ==
  \A n \in {"fingerprint", "metadata"} : status[n] = "COMPLETED" => result[n] # None

HonestInv == EvidenceInv /\ BlocksInv /\ Recorded

LEMMA RecordedStep == ASSUME RunInv, Recorded, [Next]_vars PROVE Recorded'
<1> DEFINE names == {"fingerprint", "metadata"}
<1>0. names \subseteq Stages /\ DOMAIN status = Stages
  BY SourcePositions DEF SourceNames, RunInv
<1>1. CASE Skip \/ Fails
  <2>1. /\ result' = result
        /\ \E n, value : status' = [status EXCEPT ![n] = value] /\ value # "COMPLETED"
    BY <1>1 DEF Skip, Fails, Fail
  <2> QED BY <1>0, <2>1 DEF Recorded
<1>2. CASE RunAnalyzer \/ Finish \/ Done \/ UNCHANGED vars
  <2>1. result' = result /\ status' = status
    BY <1>2 DEF RunAnalyzer, AnalyzerCompletes, AnalyzerFails, Finish, Done, vars
  <2> QED BY <2>1 DEF Recorded
<1>3. ASSUME NEW name, NEW payload, Runs(name), Complete(name, payload),
             name \notin names \/ payload # None
      PROVE  Recorded'
  <2>1. /\ \A n \in Stages : n # name => result'[n] = result[n] /\ status'[n] = status[n]
        /\ result'[name] = payload
    BY <1>3, CompleteResults
  <2> QED BY <1>0, <1>3, <2>1 DEF Recorded
<1>4. CASE Fingerprint
  <2>1. PICK payload : payload = [hashed |-> TRUE]
    OBVIOUS
  <2>2. Runs("fingerprint") /\ (Fail("fingerprint", "unreadable") \/ Complete("fingerprint", payload))
    BY <1>4, <2>1 DEF Fingerprint
  <2>3. payload # None
    BY <2>1, AnalysisAssumption
  <2> QED BY <1>1, <1>3, <2>2, <2>3 DEF Fails
<1>5. CASE ReadMetadata
  <2>1. PICK payload : payload = MetadataPayload(file.tags)
    OBVIOUS
  <2>2. Runs("metadata") /\ (Fail("metadata", "unreadable") \/ Complete("metadata", payload))
    BY <1>5, <2>1 DEF ReadMetadata
  <2>3. payload # None
    BY <2>1, AnalysisAssumption DEF RunInv
  <2> QED BY <1>1, <1>3, <2>2, <2>3 DEF Fails
<1>6. ASSUME NEW name, name \notin names,
             Fails \/ \E payload : Runs(name) /\ Complete(name, payload)
      PROVE  Recorded'
  BY <1>1, <1>3, <1>6
<1>7. CASE FileMissing \/ ForensicsRefused
  BY <1>1, <1>7, RefusalFails DEF FileMissing, Fails
<1>8. CASE Validate \/ FinishForensics
  BY <1>6, <1>8 DEF Validate, FinishForensics, Fails
<1>9. CASE Detect
  <2>1. Fails \/ \E payload : Runs("detect") /\ Complete("detect", payload)
    BY <1>9, DetectEnds DEF Fails
  <2> QED BY <1>6, <2>1
<1>10. CASE Explain
  <2>1. /\ Runs("xai")
        /\ Fail("xai", "explainer") \/ \E payload : Complete("xai", payload)
    BY <1>10 DEF Explain
  <2> QED BY <1>6, <2>1 DEF Fails
<1>11. CASE AggregateEvidence \/ Confidence \/ Risk \/ Verdict
  BY <1>6, <1>11 DEF AggregateEvidence, Confidence, Risk, Verdict
<1>12. CASE Report
  BY <1>6, <1>12 DEF Report, Fails
<1> QED BY <1>1, <1>2, <1>4, <1>5, <1>7, <1>8, <1>9, <1>10, <1>11, <1>12
        DEF Next, Step, FileStage, ResultStage

LEMMA HonestInit == Init => HonestInv
<1> SUFFICES ASSUME Init PROVE HonestInv
  OBVIOUS
<1>1. \A n \in {"fingerprint", "metadata"} : status[n] = "PENDING"
  BY SourcePositions DEF Init, SourceNames
<1> QED BY <1>1, EvidenceInit, BlocksInit DEF HonestInv, Recorded

\* The explainer that XAIExplainerRegistry.find returns.
LEMMA FoundExplainers ==
  ASSUME NEW m, NEW y \in ExplainersFor(m)
  PROVE  /\ y \in Range(build.explainers)
         /\ \/ y.model = m
            \/ y.model = None /\ \A z \in Range(build.explainers) : z.model # m
<1> DEFINE exact == {i \in DOMAIN build.explainers : build.explainers[i].model = m}
           fallbacks == {i \in DOMAIN build.explainers : build.explainers[i].model = None}
<1>1. PICK i \in (IF exact # {} THEN exact ELSE fallbacks) : y = build.explainers[i]
  BY DEF ExplainersFor
<1>2. i \in DOMAIN build.explainers /\ y \in Range(build.explainers)
  BY <1>1 DEF Range
<1>3. y.model = m \/ (y.model = None /\ exact = {})
  BY <1>1
<1>4. exact = {} => \A z \in Range(build.explainers) : z.model # m
  BY DEF Range
<1> QED BY <1>2, <1>3, <1>4

LEMMA EvidenceHonest == HonestInv => AvailabilityIsHonest
<1> SUFFICES ASSUME HonestInv, result["evidence"] # None PROVE AvailabilityIsHonest
  BY DEF AvailabilityIsHonest
<1> DEFINE e == result["evidence"]
<1>0. EvidenceInv /\ RunInv
  BY DEF HonestInv, EvidenceInv
<1>1. e = Aggregate(SourceOutputs) /\ at > 7
  BY <1>0 DEF EvidenceInv, EvidenceFollowsSources
<1>2. \A s \in Sources : /\ SourceOutputs[s].payload = result[StageOf[s]]
                         /\ SourceOutputs[s].availability = "UNAVAILABLE"
  BY <1>0, <1>1, SourceOutputsRead
<1>3. ASSUME NEW s \in Sources
      PROVE  /\ e.availability[s] =
                  IF result[StageOf[s]] # None THEN AvailabilityOf(s, result[StageOf[s]])
                  ELSE "UNAVAILABLE"
             /\ e.availability[s] = "AVAILABLE" <=> \E x \in e.items : x.source = s
  <2> HIDE DEF e
  <2> QED BY <1>1, <1>2, AggregateAvailability
<1> HIDE DEF e
<1>4. \A n \in {"fingerprint", "metadata"} : result[n] # None <=> status[n] = "COMPLETED"
  BY <1>0, SourcePositions, StageNames DEF HonestInv, Recorded, RunInv, SourceNames
<1>5. /\ e.availability["FINGERPRINT"] = "AVAILABLE" <=> status["fingerprint"] = "COMPLETED"
      /\ e.availability["METADATA"] = "AVAILABLE" <=> status["metadata"] = "COMPLETED"
  BY <1>3, <1>4 DEF Sources, StageOf, AvailabilityOf
<1>6. \A s \in Sources \ {"VISUAL_FORENSICS"} : e.availability[s] # "FAILED"
  BY <1>3 DEF Sources, AvailabilityOf
<1>7. e.availability["VISUAL_FORENSICS"] = "FAILED" <=>
        /\ result["forensics"] # None
        /\ build.analyzers # <<>>
        /\ Completed(result["forensics"]) = {}
  <2> DEFINE p == result["forensics"]
  <2>1. e.availability["VISUAL_FORENSICS"] =
          IF p # None THEN AvailabilityOf("VISUAL_FORENSICS", p) ELSE "UNAVAILABLE"
    BY <1>3 DEF Sources, StageOf
  <2>2. p # None => DOMAIN p = {build.analyzers[i] : i \in DOMAIN build.analyzers}
    BY DEF HonestInv, BlocksInv, BlocksInOrder
  <2>3. build.analyzers = <<>> <=> DOMAIN build.analyzers = {}
    BY <1>0, BuildAnalyzers
  <2>4. p # None => (DOMAIN p = {} <=> build.analyzers = <<>>)
    BY <2>2, <2>3
  <2> HIDE DEF p
  <2>5. AvailabilityOf("VISUAL_FORENSICS", p) = "FAILED" <=> DOMAIN p # {} /\ Completed(p) = {}
    BY DEF AvailabilityOf
  <2> QED BY <2>1, <2>4, <2>5 DEF p
<1>8. ASSUME e.availability["DETECTION"] = "AVAILABLE"
      PROVE  \E p \in Detector.predictions : Inferred(p) /\ p.label = result["detect"].label
  <2>1. result["detect"] # None /\ Inferred(result["detect"])
    BY <1>3, <1>8 DEF Sources, StageOf, AvailabilityOf
  <2>2. PICK p \in Detector.predictions \cup {NoPrediction} : result["detect"] = Detected(Detector, p)
    BY <1>0, <2>1 DEF EvidenceInv, EvidenceFollowsSources
  <2>3. Inferred(p) /\ p.label = result["detect"].label
    BY <2>1, <2>2 DEF Detected, Inferred
  <2>4. p # NoPrediction
    BY <2>3 DEF NoPrediction, Inferred
  <2> QED BY <2>2, <2>3, <2>4
<1>9. ASSUME e.availability["XAI"] = "AVAILABLE"
      PROVE  /\ Detector.name \in build.xaiDetectors
             /\ \E x \in Range(build.explainers) :
                  /\ x.explanations # {}
                  /\ \/ x.model = Detector.model
                     \/ /\ x.model = None
                        /\ \A y \in Range(build.explainers) : y.model # Detector.model
  <2>1. result["xai"] # None /\ result["xai"].status = "COMPLETED"
    BY <1>3, <1>9 DEF Sources, StageOf, AvailabilityOf
  <2>2. PICK y \in Explainers(result["detect"]) : y.explanations # {}
    BY <1>0, <2>1 DEF EvidenceInv, EvidenceFollowsSources
  <2>3. /\ result["detect"] # None /\ result["detect"].detector \in build.xaiDetectors
        /\ y \in ExplainersFor(result["detect"].model)
    BY <2>2 DEF Explainers
  <2>4. result["detect"].detector = Detector.name /\ result["detect"].model = Detector.model
    <3>1. PICK p : result["detect"] = Detected(Detector, p)
      BY <1>0, <2>3 DEF EvidenceInv, EvidenceFollowsSources
    <3> QED BY <3>1 DEF Detected
  <2>5. /\ y \in Range(build.explainers)
        /\ \/ y.model = result["detect"].model
           \/ /\ y.model = None
              /\ \A z \in Range(build.explainers) : z.model # result["detect"].model
    BY <2>3, FoundExplainers
  <2> QED BY <2>2, <2>3, <2>4, <2>5
<1> QED BY <1>3, <1>5, <1>6, <1>7, <1>8, <1>9 DEF AvailabilityIsHonest, e

\* The availability of every source in the stored evidence is that of its items, of its
\* stage and, for detections and explanations, of what is registered.
THEOREM AvailabilityHonest == Spec => []AvailabilityIsHonest
<1>1. HonestInv /\ [Next]_vars => HonestInv'
  BY EvidenceStep, BlocksStep, RecordedStep DEF HonestInv, EvidenceInv
<1> QED BY <1>1, HonestInit, EvidenceHonest, PTL DEF Spec
=============================================================================
