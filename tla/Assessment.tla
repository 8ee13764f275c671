----------------------------- MODULE Assessment -----------------------------
(***************************************************************************)
(* The three decisions over the evidence result (assessment/): the         *)
(* confidence, the risk and the verdict.  An argument that could not be    *)
(* read is None.  Reasons are told apart by the branch they come from.     *)
(***************************************************************************)
EXTENDS Evidence

Dimensions == {"AUTHENTIC", "MANIPULATED", "SYNTHETIC", "UNKNOWN"}

\* Mutant of Dimension: editing counts as synthesis.
DimensionMixed(direction) ==
  CASE direction = "SUPPORTING_AUTHENTICITY" -> "AUTHENTIC"
    [] direction \in {"SUPPORTING_MANIPULATION", "SUPPORTING_EDITING_HISTORY",
                      "SUPPORTING_SYNTHETIC"} -> "SYNTHETIC"
    [] OTHER -> "UNKNOWN"

\* _DIRECTION_DIMENSION.
Dimension(direction) ==
  CASE direction = "SUPPORTING_AUTHENTICITY" -> "AUTHENTIC"
    [] direction \in {"SUPPORTING_MANIPULATION", "SUPPORTING_EDITING_HISTORY"} ->
         "MANIPULATED"
    [] direction = "SUPPORTING_SYNTHETIC" -> "SYNTHETIC"
    [] OTHER -> "UNKNOWN"

Directional(item) == Dimension(item.direction) # "UNKNOWN"

\* build_references: every item, whose dimension is a function of it.
References(evidence) == IF evidence = None THEN {} ELSE evidence.items

ByDimension(evidence) ==
  CountBy([x \in References(evidence) |-> Dimension(x.direction)], Dimensions)

DetectorInferred(evidence) ==
  \E x \in References(evidence) : x.source = "DETECTION" /\ x.type = "INFERENCE"

\* ConfidenceEngine.assess.
AssessConfidence(evidence) ==
  [confidence |-> "INSUFFICIENT_EVIDENCE",
   basis |-> References(evidence),
   byDimension |-> ByDimension(evidence),
   reason |->
     IF evidence = None THEN "no evidence"
     ELSE IF evidence.items = {} THEN "no items"
     ELSE IF \E x \in evidence.items : Directional(x) THEN "directional"
     ELSE "neutral",
   uncalibrated |-> DetectorInferred(evidence),
   missing |->
     IF evidence = None THEN {"EVIDENCE"}
     ELSE {s \in Sources : evidence.availability[s] # "AVAILABLE"}]

\* What the fields of the three results hold (assessment/domain.py).
ConfidenceType ==
  [confidence: {"INSUFFICIENT_EVIDENCE", "SUFFICIENT_EVIDENCE"},
   basis: SUBSET ItemType, byDimension: [Dimensions -> Nat],
   reason: {"no evidence", "no items", "directional", "neutral"},
   uncalibrated: BOOLEAN, missing: SUBSET (Sources \cup {"EVIDENCE"})]

DecisionReasons == {"not sufficient", "not registered", "not directional"}

RiskType ==
  [level: {"UNDETERMINED", "LOW", "MEDIUM", "HIGH", "CRITICAL"},
   basis: SUBSET ItemType, reason: DecisionReasons, scoreUnused: BOOLEAN]

VerdictType ==
  [verdict: {"INSUFFICIENT_EVIDENCE", "INCONCLUSIVE", "LIKELY_AUTHENTIC",
             "LIKELY_MANIPULATED", "LIKELY_SYNTHETIC"},
   basis: SUBSET ItemType, reason: DecisionReasons, scoreUnused: BOOLEAN]

\* The branch that RiskEngine.assess and VerdictEngine.reach take.
DecisionReason(evidence, confidence) ==
  IF confidence = None THEN "not sufficient"
  ELSE IF confidence.confidence # "SUFFICIENT_EVIDENCE" THEN "not sufficient"
  ELSE IF \E x \in References(evidence) : Directional(x) THEN "not registered"
  ELSE "not directional"

ScoreSet(evidence) == \E x \in References(evidence) : x.source = "DETECTION"

\* RiskEngine.assess.
AssessRisk(evidence, confidence) ==
  [level |-> "UNDETERMINED",
   basis |-> {x \in References(evidence) : Directional(x)},
   reason |-> DecisionReason(evidence, confidence),
   scoreUnused |-> ScoreSet(evidence)]

\* VerdictEngine.reach.
ReachVerdict(evidence, confidence) ==
  [verdict |-> "INSUFFICIENT_EVIDENCE",
   basis |-> References(evidence),
   reason |-> DecisionReason(evidence, confidence),
   scoreUnused |-> ScoreSet(evidence)]
=============================================================================
