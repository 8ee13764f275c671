---------------------- MODULE ScanAnalysisResultProofs ----------------------
(***************************************************************************)
(* Proofs about what the results of a run say: which items the evidence is *)
(* made of, how they are counted, and the report that is composed of them. *)
(***************************************************************************)
EXTENDS ScanAnalysisProofs

\* What a stage has left is what it makes of the file and of the results before it.
ResultsFollowStages ==
  LET m == result["metadata"]
      d == result["detect"]
      f == result["forensics"]
  IN /\ m # None => m = MetadataPayload(file.tags)
     /\ d # None => d.status \in {"AVAILABLE", "UNAVAILABLE"}
     /\ f # None => DOMAIN f \subseteq Analyzers

Engines == {"confidence", "risk", "verdict"}

\* A decision stage that completed left a decision.
DecisionsStored == \A n \in Engines : status[n] = "COMPLETED" => result[n] # None

\* inputs and statuses are the results and the statuses of all stages but the report.
ReadBefore(inputs, statuses) ==
  \A n \in Stages \ {"report"} : inputs[n] = result[n] /\ statuses[n] = status[n]

\* The report was composed of the results and statuses that are stored, which did not
\* change after it.
ReportComposed ==
  result["report"] # None =>
    /\ at = 12
    /\ \E inputs, statuses :
         /\ ReadBefore(inputs, statuses)
         /\ result["report"] = ComposeReport(inputs, statuses, "PROCESSING")

ResultsInv == /\ EvidenceInv /\ DecisionsInv
              /\ ResultsFollowStages /\ DecisionsStored /\ ReportComposed

-----------------------------------------------------------------------------
(* The items of the evidence.                                              *)

Codes == {SortedCodes[i] : i \in DOMAIN SortedCodes}

Observations ==
  {"digest", "hash", "presence", "software", "finding", "inference", "measurements",
   "explanation"}

LEMMA ItemTyped ==
  ASSUME NEW source \in Sources, NEW code \in Codes, NEW observation \in Observations,
         NEW type \in {"VERIFIED", "INFERENCE", "HEURISTIC", "UNKNOWN"},
         NEW direction \in Directions,
         NEW group \in {None, "model-inference", "visual-compression"}
  PROVE  Item(source, code, observation, type, direction, group) \in ItemType
BY DEF Item, ItemType, Codes, Observations

\* The codes that the normalizer gives.
LEMMA CodesSorted ==
  {"prediction", "dhash", "sha256", "capture_later_than_modification",
   "editing_software_metadata", "exif_absent", "exif_orientation_out_of_range",
   "exif_present", "format_mime_mismatch", "gps_absent", "gps_present",
   "icc_absent", "icc_present", "implausible_exposure_time", "implausible_iso",
   "software_present", "xmp_absent", "xmp_present", "ela", "frequency", "noise",
   "explanation"} \subseteq Codes
<1>1. /\ DOMAIN SortedCodes = 1 .. 22
      /\ SortedCodes[1] = "prediction" /\ SortedCodes[2] = "dhash"
      /\ SortedCodes[3] = "sha256" /\ SortedCodes[4] = "capture_later_than_modification"
      /\ SortedCodes[5] = "editing_software_metadata" /\ SortedCodes[6] = "exif_absent"
      /\ SortedCodes[7] = "exif_orientation_out_of_range" /\ SortedCodes[8] = "exif_present"
      /\ SortedCodes[9] = "format_mime_mismatch" /\ SortedCodes[10] = "gps_absent"
      /\ SortedCodes[11] = "gps_present" /\ SortedCodes[12] = "icc_absent"
      /\ SortedCodes[13] = "icc_present" /\ SortedCodes[14] = "implausible_exposure_time"
      /\ SortedCodes[15] = "implausible_iso" /\ SortedCodes[16] = "software_present"
      /\ SortedCodes[17] = "xmp_absent" /\ SortedCodes[18] = "xmp_present"
      /\ SortedCodes[19] = "ela" /\ SortedCodes[20] = "frequency"
      /\ SortedCodes[21] = "noise" /\ SortedCodes[22] = "explanation"
  BY DEF SortedCodes
<1> QED BY <1>1 DEF Codes

LEMMA DirectionsTyped ==
  /\ "NEUTRAL" \in Directions
  /\ \A code : FindingDirection(code) \in Directions
  /\ \A label : LabelDirection(label) \in Directions
BY DEF Directions, FindingDirection, LabelDirection

\* What analyze_metadata finds.
FindingCodes ==
  {"exif_orientation_out_of_range", "implausible_iso", "implausible_exposure_time",
   "gps_present", "editing_software_metadata", "format_mime_mismatch",
   "capture_later_than_modification"}

LEMMA FindingsTyped ==
  ASSUME NEW f
  PROVE  LET findings == MetadataPayload(f).findings IN
         findings.verified \subseteq FindingCodes /\ findings.heuristic \subseteq FindingCodes
<1> DEFINE exif == ExtractExif(f)
           xmp == ExtractXmp(f)
<1>1. MetadataPayload(f).findings =
        [verified |-> VerifiedFindings(exif, xmp, f.otherFormat),
         heuristic |-> HeuristicFindings(exif)]
  BY DEF MetadataPayload, AnalyzeMetadata
<1> HIDE DEF exif, xmp
<1>2. VerifiedFindings(exif, xmp, f.otherFormat) \subseteq FindingCodes
  BY DEF VerifiedFindings, FindingCodes
<1>3. HeuristicFindings(exif) \subseteq FindingCodes
  BY DEF HeuristicFindings, FindingCodes
<1> QED BY <1>1, <1>2, <1>3

\* Seven codes are finitely many.
LEMMA FindingCodesFinite == IsFiniteSet(FindingCodes)
<1> DEFINE f == <<"exif_orientation_out_of_range", "implausible_iso",
                  "implausible_exposure_time", "gps_present", "editing_software_metadata",
                  "format_mime_mismatch", "capture_later_than_modification">>
<1>1. \A c \in FindingCodes : \E i \in 1 .. 7 : f[i] = c
  <2>1. /\ f[1] = "exif_orientation_out_of_range" /\ f[2] = "implausible_iso"
        /\ f[3] = "implausible_exposure_time" /\ f[4] = "gps_present"
        /\ f[5] = "editing_software_metadata" /\ f[6] = "format_mime_mismatch"
        /\ f[7] = "capture_later_than_modification"
    OBVIOUS
  <2> HIDE DEF f
  <2> QED BY <2>1 DEF FindingCodes
<1>2. \A i \in 1 .. 7 : f[i] \in FindingCodes
  BY DEF FindingCodes
<1> HIDE DEF f
<1> DEFINE g == [i \in 1 .. 7 |-> f[i]]
<1>3. g \in Surjection(1 .. 7, FindingCodes)
  BY <1>1, <1>2 DEF Surjection
<1>4. IsFiniteSet(1 .. 7)
  <2>1. 1 \in Int /\ 7 \in Int
    OBVIOUS
  <2> QED BY <2>1, FS_Interval
<1> HIDE DEF g
<1> QED BY <1>3, <1>4, FS_Surjection

LEMMA FiniteRange ==
  ASSUME NEW S, IsFiniteSet(S), NEW f
  PROVE  IsFiniteSet({f[x] : x \in S})
<1> DEFINE T == {f[x] : x \in S}
           g == [x \in S |-> f[x]]
<1>1. g \in Surjection(S, T)
  BY DEF Surjection
<1> HIDE DEF g, T
<1> QED BY <1>1, FS_Surjection DEF T

LEMMA FinitePair == \A a, b : IsFiniteSet({a, b})
<1> SUFFICES ASSUME NEW a, NEW b PROVE IsFiniteSet({a, b})
  OBVIOUS
<1>1. {a, b} = {a} \cup {b} /\ IsFiniteSet({a})
  BY FS_Singleton
<1> QED BY <1>1, FS_AddElement

LEMMA OneItem ==
  ASSUME NEW x \in ItemType, NEW items, items = {x} \/ items = {}
  PROVE  IsFiniteSet(items) /\ items \subseteq ItemType
BY FS_EmptySet, FS_Singleton

LEMMA FindingItemsTyped ==
  ASSUME NEW codes, codes \subseteq FindingCodes, NEW type \in {"VERIFIED", "HEURISTIC"}
  PROVE  IsFiniteSet(FindingItems(codes, type)) /\ FindingItems(codes, type) \subseteq ItemType
<1>1. IsFiniteSet(codes)
  BY FindingCodesFinite, FS_Subset
<1> DEFINE g == [c \in codes |-> Item("METADATA", c, "finding", type, FindingDirection(c), None)]
<1>2. FindingItems(codes, type) = {g[c] : c \in codes}
  BY DEF FindingItems
<1>3. IsFiniteSet({g[c] : c \in codes})
  <2> HIDE DEF g
  <2> QED BY <1>1, FiniteRange
<1>4. ASSUME NEW c \in codes
      PROVE  Item("METADATA", c, "finding", type, FindingDirection(c), None) \in ItemType
  <2>1. c \in Codes
    BY CodesSorted DEF FindingCodes
  <2>2. "METADATA" \in Sources /\ "finding" \in Observations
    BY DEF Sources, Observations
  <2> HIDE DEF g
  <2> QED BY <2>1, <2>2, ItemTyped, DirectionsTyped
<1> QED BY <1>2, <1>3, <1>4 DEF FindingItems

LEMMA MetadataItemsTyped ==
  ASSUME NEW f
  PROVE  LET items == MetadataItems(MetadataPayload(f)) IN
         IsFiniteSet(items) /\ items \subseteq ItemType
<1> DEFINE p == MetadataPayload(f)
           presence == {Plain("METADATA", IF p.presence[k] THEN PresentCode[k] ELSE AbsentCode[k],
                              "presence", "VERIFIED") : k \in {"exif", "xmp", "icc", "gps"}}
           software == IF p.software = {} THEN {}
                       ELSE {Plain("METADATA", "software_present", "software", "VERIFIED")}
           verified == FindingItems(p.findings.verified, "VERIFIED")
           heuristic == FindingItems(p.findings.heuristic, "HEURISTIC")
<1>1. MetadataItems(p) = presence \cup software \cup verified \cup heuristic
  BY DEF MetadataItems
<1>2. p.findings.verified \subseteq FindingCodes /\ p.findings.heuristic \subseteq FindingCodes
  BY FindingsTyped
<1> HIDE DEF p
<1>3. IsFiniteSet(presence)
  <2> DEFINE g == [k \in {"exif", "xmp", "icc", "gps"} |->
                     Plain("METADATA", IF p.presence[k] THEN PresentCode[k] ELSE AbsentCode[k],
                           "presence", "VERIFIED")]
  <2>1. presence = {g[k] : k \in {"exif", "xmp", "icc", "gps"}}
    OBVIOUS
  <2>2. IsFiniteSet({"exif", "xmp", "icc", "gps"})
    <3> HIDE DEF g, presence, software, verified, heuristic
    <3>1. {"exif", "xmp", "icc", "gps"} = {"exif", "xmp"} \cup {"icc", "gps"}
      OBVIOUS
    <3>2. IsFiniteSet({"exif", "xmp"}) /\ IsFiniteSet({"icc", "gps"})
      BY FinitePair
    <3>3. IsFiniteSet({"exif", "xmp"} \cup {"icc", "gps"})
      BY <3>2, FS_Union
    <3> QED BY <3>1, <3>3
  <2> HIDE DEF g, presence
  <2> QED BY <2>1, <2>2, FiniteRange
<1>4. presence \subseteq ItemType
  <2> SUFFICES ASSUME NEW k \in {"exif", "xmp", "icc", "gps"}
               PROVE  Plain("METADATA", IF p.presence[k] THEN PresentCode[k] ELSE AbsentCode[k],
                            "presence", "VERIFIED") \in ItemType
    OBVIOUS
  <2>1. PresentCode[k] \in Codes /\ AbsentCode[k] \in Codes
    BY CodesSorted DEF PresentCode, AbsentCode
  <2>2. "METADATA" \in Sources /\ "presence" \in Observations
    BY DEF Sources, Observations
  <2> QED BY <2>1, <2>2, ItemTyped, DirectionsTyped DEF Plain
<1>5. IsFiniteSet(software) /\ software \subseteq ItemType
  <2>1. Plain("METADATA", "software_present", "software", "VERIFIED") \in ItemType
    BY CodesSorted, ItemTyped, DirectionsTyped DEF Plain, Sources, Observations
  <2> QED BY <2>1, FS_EmptySet, FS_Singleton
<1>6. /\ IsFiniteSet(verified) /\ verified \subseteq ItemType
      /\ IsFiniteSet(heuristic) /\ heuristic \subseteq ItemType
  BY <1>2, FindingItemsTyped
<1> HIDE DEF presence, software, verified, heuristic
<1>7. IsFiniteSet(presence \cup software \cup verified \cup heuristic)
  BY <1>3, <1>5, <1>6, FS_Union
<1> QED BY <1>1, <1>4, <1>5, <1>6, <1>7 DEF p

\* What the normalizer makes of a stage's result are finitely many items.
LEMMA SourceItemsTyped ==
  ASSUME ResultsFollowStages, NEW s \in Sources, result[StageOf[s]] # None
  PROVE  LET items == ItemsOf(s, result[StageOf[s]]) IN
         IsFiniteSet(items) /\ items \subseteq ItemType
<1> DEFINE p == result[StageOf[s]]
<1> USE DEF Sources
<1>1. CASE s = "FINGERPRINT"
  <2>1. /\ Plain("FINGERPRINT", "sha256", "digest", "VERIFIED") \in ItemType
        /\ Plain("FINGERPRINT", "dhash", "hash", "HEURISTIC") \in ItemType
    BY CodesSorted, ItemTyped, DirectionsTyped DEF Plain, Observations
  <2>2. IsFiniteSet(FingerprintItems(p))
    BY FinitePair DEF FingerprintItems
  <2>3. FingerprintItems(p) \subseteq ItemType
    BY <2>1 DEF FingerprintItems
  <2>4. ItemsOf(s, p) = FingerprintItems(p)
    BY <1>1 DEF ItemsOf
  <2> QED BY <2>2, <2>3, <2>4
<1>2. CASE s = "METADATA"
  <2>1. p = MetadataPayload(file.tags)
    BY <1>2 DEF ResultsFollowStages, StageOf
  <2>2. ItemsOf(s, p) = MetadataItems(p)
    BY <1>2 DEF ItemsOf
  <2> QED BY <2>1, <2>2, MetadataItemsTyped
<1>3. CASE s = "DETECTION"
  <2> DEFINE x == Item("DETECTION", "prediction", "inference", "INFERENCE",
                       LabelDirection(p.label), "model-inference")
  <2>1. x \in ItemType
    BY CodesSorted, ItemTyped, DirectionsTyped DEF Observations
  <2>2. ItemsOf(s, p) = {x} \/ ItemsOf(s, p) = {}
    BY <1>3 DEF ItemsOf, DetectionItems
  <2>3. IsFiniteSet(ItemsOf(s, p)) /\ ItemsOf(s, p) \subseteq ItemType
    <3> HIDE DEF x, p
    <3> QED BY <2>1, <2>2, OneItem
  <2> QED BY <2>3
<1>4. CASE s = "VISUAL_FORENSICS"
  <2> DEFINE g == [a \in Completed(p) |->
                     Item("VISUAL_FORENSICS", a, "measurements", "VERIFIED", "NEUTRAL",
                          CompressionGroup(a))]
  <2>1. Completed(p) \subseteq Analyzers
    BY <1>4 DEF ResultsFollowStages, StageOf, Completed
  <2>2. IsFiniteSet(Completed(p))
    BY <2>1, AnalyzersFinite, FS_Subset
  <2>3. ItemsOf(s, p) = {g[a] : a \in Completed(p)}
    BY <1>4 DEF ItemsOf, ForensicItems
  <2>4. ASSUME NEW a \in Completed(p)
        PROVE  Item("VISUAL_FORENSICS", a, "measurements", "VERIFIED", "NEUTRAL",
                    CompressionGroup(a)) \in ItemType
    <3>1. a \in Codes /\ "measurements" \in Observations
      BY <2>1, CodesSorted DEF Analyzers, Observations
    <3>2. CompressionGroup(a) \in {None, "model-inference", "visual-compression"}
      BY DEF CompressionGroup
    <3> HIDE DEF g, p
    <3> QED BY <3>1, <3>2, ItemTyped, DirectionsTyped
  <2>5. ItemsOf(s, p) \subseteq ItemType
    BY <2>3, <2>4
  <2> HIDE DEF g
  <2> QED BY <2>2, <2>3, <2>5, FiniteRange
<1>5. CASE s = "XAI"
  <2> DEFINE x == Item("XAI", "explanation", "explanation", "INFERENCE", "NEUTRAL",
                       "model-inference")
  <2>1. x \in ItemType
    BY CodesSorted, ItemTyped, DirectionsTyped DEF Observations
  <2>2. ItemsOf(s, p) = {x} \/ ItemsOf(s, p) = {}
    BY <1>5 DEF ItemsOf, XaiItems
  <2>3. IsFiniteSet(ItemsOf(s, p)) /\ ItemsOf(s, p) \subseteq ItemType
    <3> HIDE DEF x, p
    <3> QED BY <2>1, <2>2, OneItem
  <2> QED BY <2>3
<1> QED BY <1>1, <1>2, <1>3, <1>4, <1>5

\* The stored evidence, item by item.
LEMMA EvidenceItems ==
  ASSUME EvidenceInv, ResultsFollowStages, result["evidence"] # None
  PROVE  LET items == result["evidence"].items IN
         /\ IsFiniteSet(items) /\ items \subseteq ItemType
         /\ \A x : x \in items <=> \E s \in Sources : /\ result[StageOf[s]] # None
                                                    /\ x \in ItemsOf(s, result[StageOf[s]])
<1> DEFINE present == {s \in Sources : result[StageOf[s]] # None}
           Made == {ItemsOf(s, result[StageOf[s]]) : s \in present}
<1>1. result["evidence"] = Aggregate(SourceOutputs) /\ at > 7
  BY DEF EvidenceInv, EvidenceFollowsSources
<1>2. \A s \in Sources : SourceOutputs[s].payload = result[StageOf[s]]
  BY <1>1, SourceOutputsRead DEF EvidenceInv
<1>3. result["evidence"].items = UNION Made
  <2>1. Aggregate(SourceOutputs).items =
          UNION {ItemsOf(s, SourceOutputs[s].payload) :
                   s \in {t \in Sources : SourceOutputs[t].payload # None}}
    BY DEF Aggregate
  <2> QED BY <1>1, <1>2, <2>1
<1>4. \A S \in Made : IsFiniteSet(S) /\ S \subseteq ItemType
  BY SourceItemsTyped
<1>5. IsFiniteSet(Made)
  <2> DEFINE g == [s \in present |-> ItemsOf(s, result[StageOf[s]])]
  <2>1. Made = {g[s] : s \in present}
    OBVIOUS
  <2>2. IsFiniteSet(present)
    <3>1. Sources = {"FINGERPRINT", "METADATA"} \cup {"DETECTION", "VISUAL_FORENSICS"} \cup {"XAI"}
      BY DEF Sources
    <3>2. IsFiniteSet({"FINGERPRINT", "METADATA"}) /\ IsFiniteSet({"DETECTION", "VISUAL_FORENSICS"})
      BY FinitePair
    <3>3. IsFiniteSet({"FINGERPRINT", "METADATA"} \cup {"DETECTION", "VISUAL_FORENSICS"})
      BY <3>2, FS_Union
    <3>4. IsFiniteSet(Sources)
      BY <3>1, <3>3, FS_AddElement
    <3>5. present \subseteq Sources
      OBVIOUS
    <3> HIDE DEF present
    <3> QED BY <3>4, <3>5, FS_Subset
  <2> HIDE DEF g, Made, present
  <2> QED BY <2>1, <2>2, FiniteRange
<1>6. IsFiniteSet(UNION Made)
  <2> HIDE DEF Made
  <2> QED BY <1>4, <1>5, FS_UNION
<1> QED BY <1>3, <1>4, <1>6

-----------------------------------------------------------------------------
(* What the decision stages store.                                         *)

\* Counting by class gives a number for each class.
LEMMA CountsTyped ==
  ASSUME NEW class, IsFiniteSet(DOMAIN class), NEW classes
  PROVE  CountBy(class, classes) \in [classes -> Nat]
<1> SUFFICES ASSUME NEW c \in classes
             PROVE  Cardinality({x \in DOMAIN class : class[x] = c}) \in Nat
  BY DEF CountBy
<1>1. IsFiniteSet({x \in DOMAIN class : class[x] = c})
  BY FS_Subset
<1> QED BY <1>1, FS_CardinalityType

LEMMA DecisionsAreStored ==
  ASSUME NEW e, NEW c, e = None \/ (IsFiniteSet(e.items) /\ e.items \subseteq ItemType)
  PROVE  /\ AssessConfidence(e) # None
         /\ AssessRisk(e, c) # None
         /\ ReachVerdict(e, c) # None
<1>1. IsFiniteSet(References(e)) /\ References(e) \subseteq ItemType
  BY FS_EmptySet DEF References
<1>2. ByDimension(e) \in [Dimensions -> Nat]
  <2> DEFINE class == [x \in References(e) |-> Dimension(x.direction)]
  <2>1. DOMAIN class = References(e)
    OBVIOUS
  <2>2. CountBy(class, Dimensions) \in [Dimensions -> Nat]
    <3> HIDE DEF class
    <3> QED BY <1>1, <2>1, CountsTyped
  <2> QED BY <2>2 DEF ByDimension
<1>3. ASSUME NEW basis, basis \subseteq ItemType,
             NEW byDimension \in [Dimensions -> Nat],
             NEW reason \in {"no evidence", "no items", "directional", "neutral"},
             NEW uncalibrated \in BOOLEAN,
             NEW missing, missing \subseteq Sources \cup {"EVIDENCE"}
      PROVE  [confidence |-> "INSUFFICIENT_EVIDENCE", basis |-> basis,
              byDimension |-> byDimension, reason |-> reason,
              uncalibrated |-> uncalibrated, missing |-> missing] \in ConfidenceType
  BY <1>3 DEF ConfidenceType
<1>4. AssessConfidence(e) \in ConfidenceType
  <2> DEFINE reason == IF e = None THEN "no evidence"
                       ELSE IF e.items = {} THEN "no items"
                       ELSE IF \E x \in e.items : Directional(x) THEN "directional"
                       ELSE "neutral"
             missing == IF e = None THEN {"EVIDENCE"}
                        ELSE {s \in Sources : e.availability[s] # "AVAILABLE"}
  <2>1. reason \in {"no evidence", "no items", "directional", "neutral"}
    OBVIOUS
  <2>2. missing \subseteq Sources \cup {"EVIDENCE"}
    OBVIOUS
  <2>3. DetectorInferred(e) \in BOOLEAN
    BY DEF DetectorInferred
  <2>4. AssessConfidence(e) =
          [confidence |-> "INSUFFICIENT_EVIDENCE", basis |-> References(e),
           byDimension |-> ByDimension(e), reason |-> reason,
           uncalibrated |-> DetectorInferred(e), missing |-> missing]
    BY ZenonT(30) DEF AssessConfidence
  <2> HIDE DEF reason, missing
  <2>5. [confidence |-> "INSUFFICIENT_EVIDENCE", basis |-> References(e),
         byDimension |-> ByDimension(e), reason |-> reason,
         uncalibrated |-> DetectorInferred(e), missing |-> missing] \in ConfidenceType
    BY <1>1, <1>2, <1>3, <2>1, <2>2, <2>3
  <2> QED BY <2>4, <2>5
<1>5. DecisionReason(e, c) \in DecisionReasons
  BY DEF DecisionReason, DecisionReasons
<1>6. ScoreSet(e) \in BOOLEAN
  BY DEF ScoreSet
<1>7. ASSUME NEW basis, basis \subseteq ItemType, NEW reason \in DecisionReasons,
             NEW score \in BOOLEAN
      PROVE  /\ [level |-> "UNDETERMINED", basis |-> basis, reason |-> reason,
                 scoreUnused |-> score] \in RiskType
             /\ [verdict |-> "INSUFFICIENT_EVIDENCE", basis |-> basis, reason |-> reason,
                 scoreUnused |-> score] \in VerdictType
  BY <1>7 DEF RiskType, VerdictType
<1>8. AssessRisk(e, c) \in RiskType /\ ReachVerdict(e, c) \in VerdictType
  <2>1. {x \in References(e) : Directional(x)} \subseteq ItemType
    BY <1>1
  <2> QED BY <1>1, <1>5, <1>6, <1>7, <2>1 DEF AssessRisk, ReachVerdict
<1> QED BY <1>4, <1>8, AnalysisAssumption

-----------------------------------------------------------------------------
(* The results follow the stages.                                          *)

LEMMA ResultPositions ==
  /\ StageOrder[3] = "metadata" /\ StageOrder[4] = "detect" /\ StageOrder[5] = "forensics"
  /\ StageOrder[6] = "xai" /\ StageOrder[8] = "confidence" /\ StageOrder[9] = "risk"
  /\ StageOrder[10] = "verdict" /\ StageOrder[11] = "report"
  /\ \A i \in 1 .. 11 :
       /\ StageOrder[i] = "detect" => i = 4
       /\ StageOrder[i] = "report" => i = 11
  /\ {"metadata", "detect", "forensics", "xai", "report"} \cup Engines \subseteq Stages
BY StageNames DEF StageOrder, Engines

\* What a stage may leave.
MayLeave(name, p) ==
  /\ name = "metadata" => p = MetadataPayload(file.tags)
  /\ name = "detect" => p.status \in {"AVAILABLE", "UNAVAILABLE"}
  /\ name = "forensics" => DOMAIN p \subseteq Analyzers
  /\ name \in Engines => p # None
  /\ name = "report" => \E inputs, statuses :
                          /\ ReadBefore(inputs, statuses)
                          /\ p = ComposeReport(inputs, statuses, "PROCESSING")

LEMMA StayKeepsResults ==
  ASSUME ResultsFollowStages, DecisionsStored, ReportComposed,
         UNCHANGED <<build, file, at, status, result>>
  PROVE  ResultsFollowStages' /\ DecisionsStored' /\ ReportComposed'
<1>1. ResultsFollowStages'
  BY DEF ResultsFollowStages
<1>2. DecisionsStored'
  BY DEF DecisionsStored
<1>3. ReportComposed'
  BY DEF ReportComposed, ReadBefore
<1> QED BY <1>1, <1>2, <1>3

\* A stage is skipped or fails: there is no report yet.
LEMMA RowKeepsResults ==
  ASSUME RunInv, ResultsFollowStages, DecisionsStored, ReportComposed,
         NEW name \in Stages, NEW value, value # "COMPLETED",
         at \in 1 .. 11, StageOrder[at] = name, status' = [status EXCEPT ![name] = value],
         UNCHANGED <<build, file, result>>
  PROVE  ResultsFollowStages' /\ DecisionsStored' /\ ReportComposed'
<1>1. ResultsFollowStages'
  BY DEF ResultsFollowStages
<1>2. DecisionsStored'
  BY ResultPositions DEF DecisionsStored, RunInv
<1>3. ReportComposed'
  BY DEF ReportComposed
<1> QED BY <1>1, <1>2, <1>3

LEMMA CompleteKeepsResults ==
  ASSUME RunInv, ResultsFollowStages, DecisionsStored, ReportComposed,
         NEW name, NEW payload, Runs(name), Complete(name, payload),
         MayLeave(name, payload)
  PROVE  ResultsFollowStages' /\ DecisionsStored' /\ ReportComposed'
<1>1. /\ at \in 1 .. 11 /\ StageOrder[at] = name /\ at' = at + 1 /\ name \in Stages
      /\ \A n \in Stages : n # name => result'[n] = result[n] /\ status'[n] = status[n]
      /\ result'[name] = payload
      /\ \A i \in 1 .. 11 : i >= at => result[StageOrder[i]] = None
      /\ build' = build /\ file' = file
  <2>1. at \in 1 .. 11 /\ StageOrder[at] = name /\ name \in Stages
    BY StageNames DEF Runs, Stage
  <2>2. build' = build /\ file' = file
    BY DEF Complete
  <2> QED BY <2>1, <2>2, CompleteResults
<1>2. ResultsFollowStages'
  <2>1. result'["metadata"] # None => result'["metadata"] = MetadataPayload(file.tags)
    BY <1>1, ResultPositions DEF ResultsFollowStages, MayLeave
  <2>2. result'["detect"] # None => result'["detect"].status \in {"AVAILABLE", "UNAVAILABLE"}
    BY <1>1, ResultPositions DEF ResultsFollowStages, MayLeave
  <2>3. result'["forensics"] # None => DOMAIN result'["forensics"] \subseteq Analyzers
    BY <1>1, ResultPositions DEF ResultsFollowStages, MayLeave
  <2> QED BY <1>1, <2>1, <2>2, <2>3 DEF ResultsFollowStages
<1>3. DecisionsStored'
  BY <1>1, ResultPositions DEF DecisionsStored, MayLeave
<1>4. CASE name = "report"
  <2>1. PICK inputs, statuses : /\ ReadBefore(inputs, statuses)
                                /\ payload = ComposeReport(inputs, statuses, "PROCESSING")
    BY <1>4 DEF MayLeave
  <2>2. ReadBefore(inputs, statuses)'
    BY <1>1, <1>4, <2>1 DEF ReadBefore
  <2>3. at' = 12
    BY <1>1, <1>4, ResultPositions
  <2> QED BY <1>1, <1>2, <1>3, <1>4, <2>1, <2>2, <2>3 DEF ReportComposed
<1>5. CASE name # "report"
  <2>1. result'["report"] = None
    BY <1>1, <1>5, ResultPositions
  <2> QED BY <1>2, <1>3, <2>1 DEF ReportComposed
<1> QED BY <1>4, <1>5

\* The evidence that a decision stage reads.
LEMMA EvidenceRead ==
  ASSUME ResultsInv
  PROVE  LET e == Read("evidence") IN
         e = None \/ (IsFiniteSet(e.items) /\ e.items \subseteq ItemType)
BY EvidenceItems DEF Read, ResultsInv

\* When the report is composed, nothing before it had failed.
LEMMA InputsAreResults ==
  ASSUME ResultsInv, Runs("report")
  PROVE  /\ ReadBefore(Inputs, [status EXCEPT !["report"] = "RUNNING"])
         /\ outcome = "PROCESSING"
<1>1. at = 11 /\ outcome = "PROCESSING"
  BY StageNames, ResultPositions DEF Runs, Stage
<1>2. ASSUME NEW n \in Stages \ {"report"}
      PROVE  Inputs[n] = result[n] /\ [status EXCEPT !["report"] = "RUNNING"][n] = status[n]
  <2>1. PICK i \in 1 .. 11 : n = StageOrder[i]
    BY StageNames
  <2>2. i < 11
    BY <2>1, ResultPositions
  <2>3. status[n] # "FAILED"
    BY <1>1, <2>1, <2>2 DEF ResultsInv, EvidenceInv, RunInv
  <2>4. DOMAIN status = Stages
    BY DEF ResultsInv, EvidenceInv, RunInv
  <2> QED BY <2>3, <2>4 DEF Inputs, Read
<1> QED BY <1>1, <1>2 DEF ReadBefore

\* What the registered detector may say.
LEMMA DetectorSays ==
  ASSUME RunInv, NEW p \in Detector.predictions \cup {NoPrediction}
  PROVE  Detected(Detector, p).status \in {"AVAILABLE", "UNAVAILABLE"}
<1>1. Detector.predictions \subseteq PredictionType
  <2>1. CASE build.detectors = <<>>
    BY <2>1 DEF Detector, Placeholder
  <2>2. CASE build.detectors # <<>>
    <3> DEFINE D == [name: STRING, model: {None} \cup STRING,
                     predictions: SUBSET PredictionType]
    <3>1. build \in BuildType
      BY AnalysisAssumption DEF RunInv
    <3>2. build.detectors \in Seq(D)
      BY <3>1 DEF BuildType
    <3>3. Detector \in D
      <4> HIDE DEF D
      <4>1. 1 \in 1 .. Len(build.detectors)
        BY <2>2, <3>2
      <4> QED BY <2>2, <3>2, <4>1 DEF Detector
    <3> QED BY <3>3
  <2> QED BY <2>1, <2>2
<1>2. p.status \in {"AVAILABLE", "UNAVAILABLE"}
  BY <1>1 DEF PredictionType, NoPrediction
<1> QED BY <1>2 DEF Detected

\* A stage completes with what it may leave.
Leaves == \E name, payload : Runs(name) /\ Complete(name, payload) /\ MayLeave(name, payload)

LEMMA StageResults ==
  ASSUME ResultsInv, FileStage \/ ResultStage
  PROVE  Leaves \/ Fails \/ RunAnalyzer
<1>1. CASE FileMissing
  BY <1>1 DEF FileMissing, Fails
<1>2. CASE Validate
  BY <1>2 DEF Validate, Fails, Leaves, MayLeave, Engines
<1>3. CASE Fingerprint
  BY <1>3 DEF Fingerprint, Fails, Leaves, MayLeave, Engines
<1>4. CASE ReadMetadata
  <2>1. MayLeave("metadata", MetadataPayload(file.tags))
    BY DEF MayLeave, Engines
  <2> QED BY <1>4, <2>1 DEF ReadMetadata, Fails, Leaves
<1>5. CASE Detect
  <2>1. ASSUME NEW p \in Detector.predictions \cup {NoPrediction}
        PROVE  MayLeave("detect", Detected(Detector, p))
    BY DetectorSays DEF MayLeave, Engines, ResultsInv, EvidenceInv
  <2>2. /\ Runs("detect")
        /\ \/ \E cause \in {"no detector", "detector"} : Fail("detect", cause)
           \/ \E p \in Detector.predictions \cup {NoPrediction} :
                Complete("detect", Detected(Detector, p))
    BY <1>5 DEF Detect
  <2> QED BY <2>1, <2>2 DEF Fails, Leaves
<1>6. CASE ForensicsRefused
  BY <1>6, RefusalFails
<1>7. CASE FinishForensics
  <2>1. MayLeave("forensics", blocks)
    BY DEF MayLeave, Engines, ResultsInv, EvidenceInv, RunInv
  <2> QED BY <1>7, <2>1 DEF FinishForensics, Leaves
<1>8. CASE Explain
  <2>1. \A p : MayLeave("xai", p)
    BY DEF MayLeave, Engines
  <2>2. /\ Runs("xai")
        /\ Fail("xai", "explainer") \/ \E payload : Complete("xai", payload)
    BY <1>8 DEF Explain
  <2> QED BY <2>1, <2>2 DEF Fails, Leaves
<1>9. CASE AggregateEvidence
  BY <1>9 DEF AggregateEvidence, Leaves, MayLeave, Engines
<1>10. CASE Confidence \/ Risk \/ Verdict
  <2>1. /\ AssessConfidence(Read("evidence")) # None
        /\ \A c : /\ AssessRisk(Read("evidence"), c) # None
                  /\ ReachVerdict(Read("evidence"), c) # None
    <3> DEFINE e == Read("evidence")
    <3>1. e = None \/ (IsFiniteSet(e.items) /\ e.items \subseteq ItemType)
      BY EvidenceRead
    <3> HIDE DEF e
    <3>2. /\ AssessConfidence(e) # None
          /\ \A c : AssessRisk(e, c) # None /\ ReachVerdict(e, c) # None
      BY <3>1, DecisionsAreStored
    <3> QED BY <3>2 DEF e
  <2>2. \A n \in Engines : \A p : p # None => MayLeave(n, p)
    BY DEF MayLeave, Engines
  <2> QED BY <1>10, <2>1, <2>2 DEF Confidence, Risk, Verdict, Leaves, Engines
<1>11. CASE Report
  <2>1. Runs("report") /\ (Complete("report", Document) \/ Fails)
    BY <1>11 DEF Report, Fails
  <2>2. MayLeave("report", Document)
    BY <2>1, InputsAreResults DEF MayLeave, Engines, Document
  <2> QED BY <2>1, <2>2 DEF Leaves
<1> QED BY <1>1, <1>2, <1>3, <1>4, <1>5, <1>6, <1>7, <1>8, <1>9, <1>10, <1>11
        DEF FileStage, ResultStage

LEMMA ResultsStep == ASSUME ResultsInv, [Next]_vars PROVE ResultsInv'
<1>1. EvidenceInv' /\ DecisionsInv'
  BY EvidenceStep, DecisionsStep DEF ResultsInv
<1>2. RunInv /\ ResultsFollowStages /\ DecisionsStored /\ ReportComposed
  BY DEF ResultsInv, EvidenceInv
<1>3. CASE Skip
  <2>1. at \in 1 .. 11 /\ StageOrder[at] = Stage /\ Stage \in Stages
    BY <1>3, StageNames DEF Skip, Stage
  <2>2. /\ status' = [status EXCEPT ![Stage] = "SKIPPED"]
        /\ UNCHANGED <<build, file, result>>
    BY <1>3 DEF Skip
  <2>3. ResultsFollowStages' /\ DecisionsStored' /\ ReportComposed'
    BY <1>2, <2>1, <2>2, RowKeepsResults
  <2> QED BY <1>1, <2>3 DEF ResultsInv
<1>4. CASE Fails
  <2>1. PICK name, cause : Runs(name) /\ Fail(name, cause)
    BY <1>4 DEF Fails
  <2>2. at \in 1 .. 11 /\ StageOrder[at] = name /\ name \in Stages
    BY <2>1, StageNames DEF Runs, Stage
  <2>3. status' = [status EXCEPT ![name] = "FAILED"] /\ UNCHANGED <<build, file, result>>
    BY <2>1 DEF Fail
  <2>4. ResultsFollowStages' /\ DecisionsStored' /\ ReportComposed'
    BY <1>2, <2>2, <2>3, RowKeepsResults
  <2> QED BY <1>1, <2>4 DEF ResultsInv
<1>5. CASE Leaves
  <2>1. ResultsFollowStages' /\ DecisionsStored' /\ ReportComposed'
    BY <1>2, <1>5, CompleteKeepsResults DEF Leaves
  <2> QED BY <1>1, <2>1 DEF ResultsInv
<1>6. CASE RunAnalyzer \/ Finish \/ Done \/ UNCHANGED vars
  <2>1. UNCHANGED <<build, file, at, status, result>>
    BY <1>6 DEF RunAnalyzer, AnalyzerCompletes, AnalyzerFails, Finish, Done, vars
  <2>2. ResultsFollowStages' /\ DecisionsStored' /\ ReportComposed'
    BY <1>2, <2>1, StayKeepsResults
  <2> QED BY <1>1, <2>2 DEF ResultsInv
<1> QED BY <1>3, <1>4, <1>5, <1>6, StageResults DEF Next, Step

LEMMA ResultsInit == Init => ResultsInv
<1> SUFFICES ASSUME Init PROVE ResultsInv
  OBVIOUS
<1>1. /\ \A n \in Stages : result[n] = None
      /\ \A n \in Stages : status[n] # "COMPLETED"
  BY DEF Init
<1>2. ResultsFollowStages /\ DecisionsStored /\ ReportComposed
  BY <1>1, ResultPositions DEF ResultsFollowStages, DecisionsStored, ReportComposed
<1> QED BY <1>2, EvidenceInit, DecisionsInit DEF ResultsInv

-----------------------------------------------------------------------------
(* The report as a whole.                                                  *)

LEMMA DocumentFields ==
  ASSUME NEW inputs, NEW statuses, NEW pipelineStatus
  PROVE  LET d == ComposeReport(inputs, statuses, pipelineStatus) IN
         /\ \A n \in Stages : d.stages[n] = statuses[n]
         /\ d.summary = Summary(inputs)
         /\ d.fingerprint = (inputs["fingerprint"] # None)
         /\ d.detection = DetectionSection(inputs["detect"])
         /\ d.forensics = ForensicsSection(inputs["forensics"])
         /\ d.xai = XaiSection(inputs["xai"])
         /\ d.evidence = EvidenceSection(inputs["evidence"])
         /\ d.decisions = DecisionSections(inputs)
         /\ d.methodology = Methodology(inputs)
         /\ d.limitations = Limitations(inputs)
<1>1. \A n \in Stages : n \in ReportedStages
  BY StageNames DEF StageOrder, ReportedStages
<1> DEFINE fingerprint == (inputs["fingerprint"] # None)
<1>2. ComposeReport(inputs, statuses, pipelineStatus) =
        [pipelineStatus |-> pipelineStatus,
         stages |-> [n \in ReportedStages |-> statuses[n]],
         summary |-> Summary(inputs),
         fingerprint |-> fingerprint,
         metadata |-> MetadataSection(inputs["metadata"]),
         detection |-> DetectionSection(inputs["detect"]),
         forensics |-> ForensicsSection(inputs["forensics"]),
         xai |-> XaiSection(inputs["xai"]),
         evidence |-> EvidenceSection(inputs["evidence"]),
         decisions |-> DecisionSections(inputs),
         methodology |-> Methodology(inputs),
         limitations |-> Limitations(inputs)]
  BY ZenonT(30) DEF ComposeReport
<1> HIDE DEF fingerprint
<1> QED BY <1>1, <1>2 DEF fingerprint

\* What the limitations of a document say of something, whichever part says it.
LEMMA LimitationPairs ==
  ASSUME NEW inputs, NEW s, NEW note
  PROVE  <<s, note>> \in Limitations(inputs) <=>
           \/ inputs["evidence"] # None /\ s \in Sources /\ note \in inputs["evidence"].notes[s]
           \/ inputs["confidence"] # None /\ s \in inputs["confidence"].missing /\ note = "absent"
           \/ s = "DETECTION" /\ note = "unavailable" /\ IsUnavailable(inputs["detect"])
           \/ s = "XAI" /\ note = "unavailable" /\ IsUnavailable(inputs["xai"])
           \/ /\ s = "risk" /\ note = "undecided"
              /\ inputs["risk"] # None /\ inputs["risk"].level = "UNDETERMINED"
           \/ /\ s = "verdict" /\ note = "undecided"
              /\ inputs["verdict"] # None
              /\ inputs["verdict"].verdict = "INSUFFICIENT_EVIDENCE"
           \/ /\ s = "confidence" /\ note = "undecided"
              /\ \/ inputs["confidence"] = None
                 \/ inputs["confidence"].confidence # "SUFFICIENT_EVIDENCE"
           \/ s = "measurements" /\ note = "observational" /\ inputs["forensics"] # None
<1> DEFINE e == inputs["evidence"]
           c == inputs["confidence"]
           noted == IF e = None THEN {} ELSE UNION {{t} \X e.notes[t] : t \in Sources}
           absent == IF c = None THEN {} ELSE c.missing \X {"absent"}
           undetected == IF inputs["detect"] # None /\ inputs["detect"].status = "UNAVAILABLE"
                         THEN {<<"DETECTION", "unavailable">>} ELSE {}
           unexplained == IF inputs["xai"] # None /\ inputs["xai"].status = "UNAVAILABLE"
                          THEN {<<"XAI", "unavailable">>} ELSE {}
           unrated == IF inputs["risk"] # None /\ inputs["risk"].level = "UNDETERMINED"
                      THEN {<<"risk", "undecided">>} ELSE {}
           undecided == IF /\ inputs["verdict"] # None
                           /\ inputs["verdict"].verdict = "INSUFFICIENT_EVIDENCE"
                        THEN {<<"verdict", "undecided">>} ELSE {}
           uncertain == IF c = None \/ c.confidence # "SUFFICIENT_EVIDENCE"
                        THEN {<<"confidence", "undecided">>} ELSE {}
           observational == IF inputs["forensics"] = None THEN {}
                            ELSE {<<"measurements", "observational">>}
<1>1. Limitations(inputs) =
        noted \cup absent \cup undetected \cup unexplained \cup uncertain
        \cup unrated \cup undecided \cup observational
  BY DEF Limitations
<1>2. <<s, note>> \in noted <=> e # None /\ s \in Sources /\ note \in e.notes[s]
  <2>1. CASE e = None
    BY <2>1
  <2>2. CASE e # None
    <3>1. <<s, note>> \in noted <=> \E t \in Sources : <<s, note>> \in {t} \X e.notes[t]
      BY <2>2
    <3>2. \A t \in Sources : <<s, note>> \in {t} \X e.notes[t] <=> s = t /\ note \in e.notes[t]
      OBVIOUS
    <3> QED BY <2>2, <3>1, <3>2
  <2> QED BY <2>1, <2>2
<1>3. <<s, note>> \in absent <=> c # None /\ s \in c.missing /\ note = "absent"
  OBVIOUS
<1>4. /\ <<s, note>> \in undetected <=>
           s = "DETECTION" /\ note = "unavailable" /\ IsUnavailable(inputs["detect"])
      /\ <<s, note>> \in unexplained <=>
           s = "XAI" /\ note = "unavailable" /\ IsUnavailable(inputs["xai"])
  BY DEF IsUnavailable
<1>5. /\ <<s, note>> \in unrated <=>
           /\ s = "risk" /\ note = "undecided"
           /\ inputs["risk"] # None /\ inputs["risk"].level = "UNDETERMINED"
      /\ <<s, note>> \in undecided <=>
           /\ s = "verdict" /\ note = "undecided"
           /\ inputs["verdict"] # None
           /\ inputs["verdict"].verdict = "INSUFFICIENT_EVIDENCE"
  OBVIOUS
<1>6. <<s, note>> \in uncertain <=>
        /\ s = "confidence" /\ note = "undecided"
        /\ c = None \/ c.confidence # "SUFFICIENT_EVIDENCE"
  OBVIOUS
<1>7. <<s, note>> \in observational <=>
        s = "measurements" /\ note = "observational" /\ inputs["forensics"] # None
  OBVIOUS
<1> HIDE DEF noted, absent, undetected, unexplained, unrated, undecided, uncertain, observational
<1> QED BY <1>1, <1>2, <1>3, <1>4, <1>5, <1>6, <1>7

\* A source is available unless its stage left nothing that could be evidence.
LEMMA AvailableUnlessLacking ==
  ASSUME EvidenceInv, result["evidence"] # None, NEW s \in Sources
  PROVE  result["evidence"].availability[s] = "AVAILABLE" <=> ~Lacks(s)
<1> DEFINE e == result["evidence"]
           p == result[StageOf[s]]
<1>1. /\ e = Aggregate(SourceOutputs) /\ at > 7
      /\ \A t \in Sources : /\ SourceOutputs[t].payload = result[StageOf[t]]
                            /\ SourceOutputs[t].availability = "UNAVAILABLE"
  BY SourceOutputsRead DEF EvidenceInv, EvidenceFollowsSources
<1>2. /\ SourceOutputs[s].payload = p
      /\ \A t \in Sources : SourceOutputs[t].availability # "AVAILABLE"
  BY <1>1
<1>3. Aggregate(SourceOutputs).availability[s] = "AVAILABLE" <=> p # None /\ ItemsOf(s, p) # {}
  <2> HIDE DEF e, p
  <2> QED BY <1>2, AggregateAvailability
<1>4. p = None => Lacks(s)
  BY DEF Lacks
<1>5. p # None => (ItemsOf(s, p) = {} <=> Lacks(s))
  BY NoItemsNoEvidence
<1> QED BY <1>1, <1>3, <1>4, <1>5

\* The detector's result and the explainer's, as a report shows them.
LEMMA ModelSections ==
  ASSUME ResultsInv
  PROVE  LET d == DetectionSection(result["detect"])
             x == XaiSection(result["xai"])
         IN /\ d.label # None /\ d.type = "INFERENCE" <=> ~Lacks("DETECTION")
            /\ result["detect"] = None => d.label = None
            /\ d.model = IF result["detect"] # None /\ result["detect"].status = "AVAILABLE"
                         THEN result["detect"].model ELSE None
            /\ x.status = "COMPLETED" <=> ~Lacks("XAI")
<1> DEFINE r == result["detect"]
           e == result["xai"]
           d == DetectionSection(r)
           x == XaiSection(e)
<1>1. r # None => r.status \in {"AVAILABLE", "UNAVAILABLE"}
  BY DEF ResultsInv, ResultsFollowStages
<1>2. /\ Lacks("DETECTION") <=> r = None \/ ~Inferred(r)
      /\ Lacks("XAI") <=> e = None \/ e.status # "COMPLETED"
  BY DEF Lacks, StageOf
<1> HIDE DEF r, e
<1>3. x.status = "COMPLETED" <=> ~Lacks("XAI")
  BY <1>2 DEF XaiSection
<1>4. CASE r = None \/ r.status = "UNAVAILABLE"
  <2>1. d.label = None /\ d.model = None
    BY <1>4 DEF DetectionSection, IsUnavailable
  <2> QED BY <1>2, <1>3, <1>4, <2>1 DEF Inferred, r, e
<1>5. CASE r # None /\ r.status = "AVAILABLE"
  <2>1. d.label = r.label /\ d.type = r.type /\ d.model = r.model
    BY <1>5 DEF DetectionSection, IsUnavailable
  <2> QED BY <1>2, <1>3, <1>5, <2>1 DEF Inferred, r, e
<1> QED BY <1>1, <1>4, <1>5

\* The items of the analyzers, and the notes on them.
LEMMA AnalyzerNotes ==
  ASSUME ResultsInv, result["evidence"] # None, result["forensics"] # None,
         NEW a \in DOMAIN result["forensics"]
  PROVE  /\ (\E x \in result["evidence"].items : x.source = "VISUAL_FORENSICS" /\ x.code = a)
              <=> a \in Completed(result["forensics"])
         /\ a \in result["evidence"].notes["VISUAL_FORENSICS"]
              <=> a \notin Completed(result["forensics"])
<1> DEFINE p == result["forensics"]
           items == result["evidence"].items
<1>1. "VISUAL_FORENSICS" \in Sources /\ StageOf["VISUAL_FORENSICS"] = "forensics"
  BY DEF Sources, StageOf
<1>2. \A x : x \in items <=> \E s \in Sources : /\ result[StageOf[s]] # None
                                               /\ x \in ItemsOf(s, result[StageOf[s]])
  BY EvidenceItems DEF ResultsInv
<1>3. \A x : x \in items /\ x.source = "VISUAL_FORENSICS" <=> x \in ForensicItems(p)
  <2>1. ItemsOf("VISUAL_FORENSICS", p) = ForensicItems(p)
    BY DEF ItemsOf
  <2> HIDE DEF items
  <2> QED BY <1>1, <1>2, <2>1, ItemsNameSource
<1>4. (\E x \in ForensicItems(p) : x.code = a) <=> a \in Completed(p)
  <2> HIDE DEF p
  <2>1. \A b : Item("VISUAL_FORENSICS", b, "measurements", "VERIFIED", "NEUTRAL",
                   CompressionGroup(b)).code = b
    BY DEF Item
  <2>2. \A x : x \in ForensicItems(p) <=>
           \E b \in Completed(p) :
             x = Item("VISUAL_FORENSICS", b, "measurements", "VERIFIED", "NEUTRAL",
                      CompressionGroup(b))
    BY DEF ForensicItems
  <2> QED BY <2>1, <2>2
<1>5. (\E x \in items : x.source = "VISUAL_FORENSICS" /\ x.code = a) <=> a \in Completed(p)
  <2> HIDE DEF items, p
  <2> QED BY <1>3, <1>4
<1>6. result["evidence"].notes["VISUAL_FORENSICS"] = NotesOf("VISUAL_FORENSICS", p)
  BY <1>1, NotesOfResults DEF ResultsInv
<1>7. NotesOf("VISUAL_FORENSICS", p) = DOMAIN p \ Completed(p)
  BY DEF NotesOf
<1> QED BY <1>5, <1>6, <1>7

\* When the report is stored, every other stage was completed with its result or skipped.
LEMMA StagesBeforeReport ==
  ASSUME ResultsInv, at = 12, NEW n \in Stages
  PROVE  /\ status[n] = "SKIPPED" => result[n] = None
         /\ n \in Engines => (status[n] = "SKIPPED" <=> result[n] = None)
<1>1. PICK i \in 1 .. 11 : n = StageOrder[i]
  BY StageNames
<1>2. status[n] \in {"COMPLETED", "SKIPPED"}
  BY <1>1 DEF ResultsInv, EvidenceInv, RunInv
<1>3. result[n] # None => status[n] = "COMPLETED"
  BY <1>1 DEF ResultsInv, EvidenceInv, RunInv
<1> QED BY <1>2, <1>3 DEF ResultsInv, DecisionsStored

\* The decisions are decided by nothing in this build: each says so.
LEMMA DecisionLevels ==
  ASSUME ResultsInv
  PROVE  /\ result["confidence"] # None => result["confidence"].confidence = "INSUFFICIENT_EVIDENCE"
         /\ result["risk"] # None => result["risk"].level = "UNDETERMINED"
         /\ result["verdict"] # None => result["verdict"].verdict = "INSUFFICIENT_EVIDENCE"
<1>1. /\ result["confidence"] # None => result["confidence"] = AssessConfidence(result["evidence"])
      /\ result["risk"] # None =>
           result["risk"] = AssessRisk(result["evidence"], result["confidence"])
      /\ result["verdict"] # None =>
           result["verdict"] = ReachVerdict(result["evidence"], result["confidence"])
  BY DEF ResultsInv, DecisionsInv, DecisionsFollowEvidence
<1>2. \A e : AssessConfidence(e).confidence = "INSUFFICIENT_EVIDENCE"
  BY ZenonT(30) DEF AssessConfidence
<1>3. \A e, c : AssessRisk(e, c).level = "UNDETERMINED"
  BY DEF AssessRisk
<1>4. \A e, c : ReachVerdict(e, c).verdict = "INSUFFICIENT_EVIDENCE"
  BY DEF ReachVerdict
<1> QED BY <1>1, <1>2, <1>3, <1>4

\* The notes of the model sources never call a model unavailable.
LEMMA ModelNotes ==
  ASSUME ResultsInv, result["evidence"] # None, NEW s \in {"DETECTION", "XAI"}
  PROVE  "unavailable" \notin result["evidence"].notes[s]
<1>1. s \in Sources
  BY DEF Sources
<1>2. \/ result["evidence"].notes[s] = {"missing"}
      \/ result["evidence"].notes[s] = NotesOf(s, result[StageOf[s]])
  BY <1>1, NotesOfResults DEF ResultsInv
<1>3. NotesOf(s, result[StageOf[s]]) \subseteq {"unusable"}
  BY DEF NotesOf
<1> QED BY <1>2, <1>3

\* What the summary says.
LEMMA SummaryTopics ==
  ASSUME NEW inputs
  PROVE  /\ \A n \in {"detect", "xai"} : n \in Summary(inputs) <=> IsUnavailable(inputs[n])
         /\ "risk" \in Summary(inputs) <=>
              inputs["risk"] # None /\ inputs["risk"].level = "UNDETERMINED"
         /\ "verdict" \in Summary(inputs) <=>
              inputs["verdict"] # None /\ inputs["verdict"].verdict = "INSUFFICIENT_EVIDENCE"
         /\ "confidence" \in Summary(inputs) <=>
              /\ inputs["confidence"] # None
              /\ inputs["confidence"].confidence = "INSUFFICIENT_EVIDENCE"
BY DEF Summary

LEMMA DocumentFollows == ResultsInv => DocumentAgrees
<1> SUFFICES ASSUME ResultsInv, result["report"] # None PROVE DocumentAgrees
  BY DEF DocumentAgrees
<1>1. /\ at = 12
      /\ \E inputs, statuses : /\ ReadBefore(inputs, statuses)
                               /\ result["report"] = ComposeReport(inputs, statuses, "PROCESSING")
  BY DEF ResultsInv, ReportComposed
<1>2. PICK inputs, statuses : /\ ReadBefore(inputs, statuses)
                              /\ result["report"] = ComposeReport(inputs, statuses, "PROCESSING")
  BY <1>1
<1>3. /\ {"fingerprint", "detect", "forensics", "xai", "evidence"} \cup Engines
           \subseteq Stages \ {"report"}
      /\ \A n \in Stages \ {"report"} : inputs[n] = result[n] /\ statuses[n] = status[n]
  BY <1>2, StageNames DEF ReadBefore, StageOrder, Engines
<1>4. /\ inputs["fingerprint"] = result["fingerprint"]
      /\ inputs["detect"] = result["detect"] /\ inputs["forensics"] = result["forensics"]
      /\ inputs["xai"] = result["xai"] /\ inputs["evidence"] = result["evidence"]
      /\ \A n \in Engines : inputs[n] = result[n]
  BY <1>3
<1> DEFINE d == result["report"]
<1>5. /\ \A n \in Stages \ {"report"} : d.stages[n] = status[n]
      /\ d.summary = Summary(inputs)
      /\ d.fingerprint = (result["fingerprint"] # None)
      /\ d.detection = DetectionSection(result["detect"])
      /\ d.forensics = ForensicsSection(result["forensics"])
      /\ d.xai = XaiSection(result["xai"])
      /\ d.evidence = EvidenceSection(result["evidence"])
      /\ d.decisions = DecisionSections(inputs)
      /\ d.methodology = Methodology(inputs)
      /\ d.limitations = Limitations(inputs)
  <2> HIDE DEF d
  <2>1. d = ComposeReport(inputs, statuses, "PROCESSING")
    BY <1>2 DEF d
  <2> QED BY <1>3, <1>4, <2>1, DocumentFields
<1> HIDE DEF d
<1>6. EvidenceInv
  BY DEF ResultsInv
\* The sections.
<1>7. ASSUME d.evidence # None
      PROVE  /\ d.evidence.availability["DETECTION"] = "AVAILABLE" <=>
                  d.detection.label # None /\ d.detection.type = "INFERENCE"
             /\ d.evidence.availability["XAI"] = "AVAILABLE" <=> d.xai.status = "COMPLETED"
             /\ d.evidence.availability["FINGERPRINT"] = "AVAILABLE" <=> d.fingerprint
             /\ d.evidence.availability["VISUAL_FORENSICS"] = "AVAILABLE" <=>
                  Completed(d.forensics) # {}
             /\ \A a \in d.methodology.analyzers :
                  (\E x \in d.evidence.items : x.source = "VISUAL_FORENSICS" /\ x.code = a)
                    <=> <<"VISUAL_FORENSICS", a>> \notin d.limitations
  <2>1. /\ result["evidence"] # None
        /\ d.evidence.availability = result["evidence"].availability
        /\ d.evidence.items = result["evidence"].items
    BY <1>5, <1>7 DEF EvidenceSection
  <2>2. \A s \in Sources : d.evidence.availability[s] = "AVAILABLE" <=> ~Lacks(s)
    BY <1>6, <2>1, AvailableUnlessLacking
  <2>3. Lacks("FINGERPRINT") <=> result["fingerprint"] = None
    BY DEF Lacks, StageOf
  <2>4. Lacks("VISUAL_FORENSICS") <=> Completed(d.forensics) = {}
    <3>1. Lacks("VISUAL_FORENSICS") <=>
            result["forensics"] = None \/ Completed(result["forensics"]) = {}
      BY DEF Lacks, StageOf
    <3>2. Completed(<<>>) = {}
      BY DEF Completed
    <3> QED BY <1>5, <3>1, <3>2 DEF ForensicsSection
  <2>5. /\ d.detection.label # None /\ d.detection.type = "INFERENCE" <=> ~Lacks("DETECTION")
        /\ d.xai.status = "COMPLETED" <=> ~Lacks("XAI")
    BY <1>5, ModelSections
  <2>6. ASSUME NEW a \in d.methodology.analyzers
        PROVE  (\E x \in d.evidence.items : x.source = "VISUAL_FORENSICS" /\ x.code = a)
                 <=> <<"VISUAL_FORENSICS", a>> \notin d.limitations
    <3>1. result["forensics"] # None /\ a \in DOMAIN result["forensics"] /\ a \in Analyzers
      BY <1>4, <1>5 DEF Methodology, ResultsInv, ResultsFollowStages
    <3>2. a \notin {"absent", "unavailable", "undecided", "observational"}
      BY <3>1 DEF Analyzers
    <3>3. <<"VISUAL_FORENSICS", a>> \in Limitations(inputs) <=>
            a \in result["evidence"].notes["VISUAL_FORENSICS"]
      BY <1>4, <2>1, <3>2, LimitationPairs DEF Sources
    <3> QED BY <1>5, <2>1, <3>1, <3>3, AnalyzerNotes
  <2> QED BY <1>5, <2>2, <2>3, <2>4, <2>5, <2>6 DEF Sources
<1>8. d.methodology.model = d.detection.model
  <2>1. d.methodology.model =
          IF result["detect"] # None /\ result["detect"].status = "AVAILABLE"
          THEN result["detect"].model ELSE None
    BY <1>4, <1>5 DEF Methodology
  <2> QED BY <1>5, <2>1, ModelSections
\* The summary and the limitations.
<1>9. result["evidence"] # None => /\ "unavailable" \notin result["evidence"].notes["DETECTION"]
                                   /\ "unavailable" \notin result["evidence"].notes["XAI"]
  BY ModelNotes
<1>10. "detect" \in d.summary <=> <<"DETECTION", "unavailable">> \in d.limitations
  <2>1. <<"DETECTION", "unavailable">> \in Limitations(inputs) <=> IsUnavailable(inputs["detect"])
    BY <1>4, <1>9, LimitationPairs
  <2> QED BY <1>5, <2>1, SummaryTopics
<1>11. "xai" \in d.summary <=> <<"XAI", "unavailable">> \in d.limitations
  <2>1. <<"XAI", "unavailable">> \in Limitations(inputs) <=> IsUnavailable(inputs["xai"])
    BY <1>4, <1>9, LimitationPairs
  <2> QED BY <1>5, <2>1, SummaryTopics
<1>12. ASSUME NEW n \in {"risk", "verdict"}
       PROVE  n \in d.summary <=> <<n, "undecided">> \in d.limitations
  <2>1. <<n, "undecided">> \in Limitations(inputs) <=>
          \/ n = "risk" /\ inputs["risk"] # None /\ inputs["risk"].level = "UNDETERMINED"
          \/ /\ n = "verdict" /\ inputs["verdict"] # None
             /\ inputs["verdict"].verdict = "INSUFFICIENT_EVIDENCE"
    BY LimitationPairs DEF Sources
  <2> QED BY <1>5, <2>1, SummaryTopics
<1>13. "confidence" \in d.summary => <<"confidence", "undecided">> \in d.limitations
  <2>1. \/ inputs["confidence"] = None
        \/ inputs["confidence"].confidence # "SUFFICIENT_EVIDENCE"
        => <<"confidence", "undecided">> \in Limitations(inputs)
    BY LimitationPairs
  <2> QED BY <1>5, <2>1, SummaryTopics
\* The stages that were skipped.
<1>14. ASSUME NEW n \in DOMAIN d.decisions
       PROVE  d.stages[n] = "SKIPPED" <=> d.decisions[n] = "UNAVAILABLE"
  <2>1. n \in Engines
    BY <1>5 DEF DecisionSections, Engines
  <2>2. d.decisions[n] = "UNAVAILABLE" <=> result[n] = None
    BY <1>4, <1>5, <2>1, DecisionLevels DEF DecisionSections, Engines
  <2> QED BY <1>1, <1>3, <1>5, <2>1, <2>2, StagesBeforeReport
<1>15. /\ d.stages["detect"] = "SKIPPED" => d.detection.label = None
       /\ d.stages["forensics"] = "SKIPPED" => d.forensics = <<>>
  <2>1. /\ d.stages["detect"] = "SKIPPED" => result["detect"] = None
        /\ d.stages["forensics"] = "SKIPPED" => result["forensics"] = None
    BY <1>1, <1>3, <1>5, StagesBeforeReport
  <2>2. result["detect"] = None => d.detection.label = None
    BY <1>5, ModelSections
  <2>3. result["forensics"] = None => d.forensics = <<>>
    BY <1>5 DEF ForensicsSection
  <2> QED BY <2>1, <2>2, <2>3
<1> QED BY <1>7, <1>8, <1>10, <1>11, <1>12, <1>13, <1>14, <1>15 DEF DocumentAgrees, d

\* The parts of a report, which reports/composer.py derives separately, tell the same
\* story of the results, whatever is registered and whatever the stages made of the file.
THEOREM DocumentSound == Spec => []DocumentAgrees
<1>1. ResultsInv /\ [Next]_vars => ResultsInv'
  BY ResultsStep
<1> QED BY <1>1, ResultsInit, DocumentFollows, PTL DEF Spec

-----------------------------------------------------------------------------
(* Which sides the evidence takes.                                         *)

\* The confidence counts the items of each dimension.
LEMMA DimensionCounted ==
  ASSUME ResultsInv, result["confidence"] # None, result["evidence"] # None,
         NEW m \in Dimensions
  PROVE  LET matching == {x \in result["evidence"].items : Dimension(x.direction) = m} IN
         /\ result["confidence"].byDimension[m] = Cardinality(matching)
         /\ IsFiniteSet(matching)
         /\ result["confidence"].byDimension[m] > 0 <=> matching # {}
<1> DEFINE e == result["evidence"]
           matching == {x \in e.items : Dimension(x.direction) = m}
<1>1. result["confidence"] = AssessConfidence(e) /\ e # None
  BY DEF ResultsInv, DecisionsInv, DecisionsFollowEvidence
<1>2. IsFiniteSet(e.items)
  BY EvidenceItems DEF ResultsInv
<1> HIDE DEF e
<1>3. AssessConfidence(e).byDimension = ByDimension(e)
  BY ZenonT(30) DEF AssessConfidence
<1>4. ByDimension(e)[m] = Cardinality(matching)
  <2> DEFINE class == [x \in e.items |-> Dimension(x.direction)]
  <2>1. ByDimension(e) = CountBy(class, Dimensions)
    BY <1>1 DEF ByDimension, References
  <2>2. {x \in DOMAIN class : class[x] = m} = matching
    OBVIOUS
  <2> HIDE DEF class, matching
  <2> QED BY <2>1, <2>2 DEF CountBy
<1>5. IsFiniteSet(matching)
  BY <1>2, FS_Subset
<1>6. Cardinality(matching) \in Nat /\ (Cardinality(matching) = 0 <=> matching = {})
  <2> HIDE DEF matching
  <2> QED BY <1>5, FS_CardinalityType, FS_EmptySet
<1> QED BY <1>1, <1>3, <1>4, <1>5, <1>6 DEF e

\* What the items of each source point to.
LEMMA ItemDirections ==
  ASSUME NEW s \in Sources, NEW p, NEW x \in ItemsOf(s, p)
  PROVE  /\ s \notin {"METADATA", "DETECTION"} => x.direction = "NEUTRAL"
         /\ s = "METADATA" => x.direction \in {"NEUTRAL", "SUPPORTING_EDITING_HISTORY"}
         /\ s = "DETECTION" => /\ x.direction = LabelDirection(p.label)
                               /\ Inferred(p)
<1>1. CASE s = "FINGERPRINT"
  BY <1>1 DEF ItemsOf, FingerprintItems, Plain, Item
<1>2. CASE s = "METADATA"
  BY <1>2 DEF ItemsOf, MetadataItems, FindingItems, FindingDirection, Plain, Item
<1>3. CASE s = "DETECTION"
  BY <1>3 DEF ItemsOf, DetectionItems, Item
<1>4. CASE s = "VISUAL_FORENSICS"
  BY <1>4 DEF ItemsOf, ForensicItems, Item
<1>5. CASE s = "XAI"
  BY <1>5 DEF ItemsOf, XaiItems, Item
<1> QED BY <1>1, <1>2, <1>3, <1>4, <1>5 DEF Sources

\* The dimension of a direction, read backwards.
LEMMA DimensionDirections ==
  /\ \A d : Dimension(d) = "SYNTHETIC" <=> d = "SUPPORTING_SYNTHETIC"
  /\ \A d : Dimension(d) = "AUTHENTIC" <=> d = "SUPPORTING_AUTHENTICITY"
  /\ \A d : Dimension(d) = "MANIPULATED" <=>
              d \in {"SUPPORTING_MANIPULATION", "SUPPORTING_EDITING_HISTORY"}
  /\ \A label : LabelDirection(label) = "SUPPORTING_SYNTHETIC" <=> label = "FAKE"
  /\ \A label : LabelDirection(label) = "SUPPORTING_AUTHENTICITY" <=> label = "REAL"
  /\ \A label : LabelDirection(label) \in
                  {"SUPPORTING_SYNTHETIC", "SUPPORTING_AUTHENTICITY", "NEUTRAL"}
BY DEF Dimension, LabelDirection

LEMMA SidesFollow == ResultsInv => OnlyDetectorTakesSides
<1> SUFFICES ASSUME ResultsInv, result["confidence"] # None, result["evidence"] # None
             PROVE  OnlyDetectorTakesSides
  BY DEF OnlyDetectorTakesSides
<1> DEFINE items == result["evidence"].items
           p == result["detect"]
           Takes(direction) == p # None /\ Inferred(p) /\ LabelDirection(p.label) = direction
<1>1. \A x : x \in items <=> \E s \in Sources : /\ result[StageOf[s]] # None
                                               /\ x \in ItemsOf(s, result[StageOf[s]])
  BY EvidenceItems DEF ResultsInv
\* A side is taken exactly if an inference takes it.
<1>3. ASSUME NEW direction \in {"SUPPORTING_SYNTHETIC", "SUPPORTING_AUTHENTICITY"}
      PROVE  (\E x \in items : x.direction = direction) <=> Takes(direction)
  <2>1. ASSUME NEW x \in items, x.direction = direction
        PROVE  Takes(direction)
    <3>1. PICK s \in Sources : result[StageOf[s]] # None /\ x \in ItemsOf(s, result[StageOf[s]])
      BY <1>1
    <3>2. s = "DETECTION"
      BY <2>1, <3>1, ItemDirections
    <3>3. p # None /\ x.direction = LabelDirection(p.label) /\ Inferred(p)
      BY <3>1, <3>2, ItemDirections DEF StageOf
    <3> QED BY <2>1, <3>3
  <2>2. ASSUME Takes(direction)
        PROVE  \E x \in items : x.direction = direction
    <3> DEFINE x == Item("DETECTION", "prediction", "inference", "INFERENCE",
                         LabelDirection(p.label), "model-inference")
    <3>3. x \in ItemsOf("DETECTION", p) /\ x.direction = direction
      BY <2>2 DEF ItemsOf, DetectionItems, Item
    <3>4. "DETECTION" \in Sources /\ StageOf["DETECTION"] = "detect"
      BY DEF Sources, StageOf
    <3> HIDE DEF x
    <3>5. x \in items
      BY <1>1, <2>2, <3>3, <3>4
    <3> QED BY <3>3, <3>5
  <2> QED BY <2>1, <2>2
<1>4. /\ result["confidence"].byDimension["SYNTHETIC"] > 0 <=>
           \E x \in items : x.direction = "SUPPORTING_SYNTHETIC"
      /\ result["confidence"].byDimension["AUTHENTIC"] > 0 <=>
           \E x \in items : x.direction = "SUPPORTING_AUTHENTICITY"
  <2>1. ASSUME NEW m \in {"SYNTHETIC", "AUTHENTIC"}
        PROVE  result["confidence"].byDimension[m] > 0 <=>
                 \E x \in items : Dimension(x.direction) = m
    <3>1. m \in Dimensions
      BY DEF Dimensions
    <3>2. result["confidence"].byDimension[m] > 0 <=>
            {x \in items : Dimension(x.direction) = m} # {}
      BY <3>1, DimensionCounted
    <3> QED BY <3>2
  <2> QED BY <2>1, DimensionDirections
<1> HIDE DEF items
<1>5. /\ result["confidence"].byDimension["SYNTHETIC"] > 0 <=>
           p # None /\ Inferred(p) /\ p.label = "FAKE"
      /\ result["confidence"].byDimension["AUTHENTIC"] > 0 <=>
           p # None /\ Inferred(p) /\ p.label = "REAL"
  <2> HIDE DEF p
  <2> QED BY <1>3, <1>4, DimensionDirections
<1> QED BY <1>5 DEF OnlyDetectorTakesSides

\* The findings that speak of editing.
EditingCodes == FindingCodes \ {"gps_present", "format_mime_mismatch"}

\* The findings speak of editing exactly when the tags do: an exposure that Rational
\* keeps is never implausible.
LEMMA FindingsSpeakOfEditing ==
  ASSUME NEW f \in MetadataType
  PROVE  LET findings == MetadataPayload(f).findings IN
         (\E c \in EditingCodes : c \in findings.verified \cup findings.heuristic) <=>
           EditedAccordingTo(f)
<1> DEFINE exif == ExtractExif(f)
           xmp == ExtractXmp(f)
           verified == VerifiedFindings(exif, xmp, f.otherFormat)
           heuristic == HeuristicFindings(exif)
<1>1. MetadataPayload(f).findings = [verified |-> verified, heuristic |-> heuristic]
  BY DEF MetadataPayload, AnalyzeMetadata
<1>2. /\ exif.orientation = IF f.exifReadable THEN f.orientation ELSE {}
      /\ exif.iso = IF f.exifReadable THEN f.iso ELSE {}
      /\ exif.captured = IF f.exifReadable THEN f.captured ELSE {}
      /\ exif.modified = IF f.exifReadable THEN f.modified ELSE {}
      /\ exif.software = IF f.exifReadable THEN f.exifSoftware ELSE {}
      /\ exif.exposure = IF f.exifReadable THEN Rational(f.exposure) ELSE {}
  BY DEF ExtractExif, NothingRead
<1>3. /\ xmp.creatorTool = IF f.xmp /\ f.xmpReadable THEN f.creatorTool ELSE {}
      /\ xmp.software = IF f.xmp /\ f.xmpReadable THEN f.xmpSoftware ELSE {}
  BY DEF ExtractXmp
<1>4. /\ f.exifReadable \in BOOLEAN /\ f.xmp \in BOOLEAN /\ f.xmpReadable \in BOOLEAN
      /\ f.exposure \subseteq Int
  BY DEF MetadataType
<1>5. ~ \E v \in exif.exposure : v <= 0
  BY <1>2, <1>4 DEF Rational
<1> HIDE DEF exif, xmp
<1>6. ASSUME NEW c \in EditingCodes
      PROVE  /\ c \in verified <=>
                  \/ c = "exif_orientation_out_of_range" /\ \E v \in exif.orientation : v \notin 1 .. 8
                  \/ c = "implausible_iso" /\ \E v \in exif.iso : v <= 0
                  \/ /\ c = "editing_software_metadata"
                     /\ "editor" \in exif.software \cup xmp.creatorTool \cup xmp.software
             /\ c \in heuristic <=>
                  /\ c = "capture_later_than_modification"
                  /\ \E a \in exif.captured, m \in exif.modified : a > m
  <2>1. c \notin {"gps_present", "format_mime_mismatch"}
    BY DEF EditingCodes
  <2>2. c \in heuristic <=>
          /\ c = "capture_later_than_modification"
          /\ \E a \in exif.captured, m \in exif.modified : a > m
    BY DEF HeuristicFindings
  <2>3. (exif.orientation \ (1 .. 8) # {}) <=> \E v \in exif.orientation : v \notin 1 .. 8
    OBVIOUS
  <2>4. c \in verified <=>
          \/ c = "exif_orientation_out_of_range" /\ exif.orientation \ (1 .. 8) # {}
          \/ c = "implausible_iso" /\ \E v \in exif.iso : v <= 0
          \/ /\ c = "editing_software_metadata"
             /\ "editor" \in exif.software \cup xmp.creatorTool \cup xmp.software
    BY <1>5, <2>1 DEF VerifiedFindings
  <2> QED BY <2>2, <2>3, <2>4
<1>7. {"exif_orientation_out_of_range", "implausible_iso", "editing_software_metadata",
       "capture_later_than_modification"} \subseteq EditingCodes
  BY DEF EditingCodes, FindingCodes
<1> HIDE DEF verified, heuristic
<1>8. (\E c \in EditingCodes : c \in verified \cup heuristic) <=>
        \/ \E v \in exif.orientation : v \notin 1 .. 8
        \/ \E v \in exif.iso : v <= 0
        \/ "editor" \in exif.software \cup xmp.creatorTool \cup xmp.software
        \/ \E a \in exif.captured, m \in exif.modified : a > m
  BY <1>6, <1>7
<1>9. (\E c \in EditingCodes : c \in verified \cup heuristic) <=> EditedAccordingTo(f)
  BY <1>2, <1>3, <1>4, <1>8 DEF EditedAccordingTo
<1> QED BY <1>1, <1>9

LEMMA EditingFollows == ResultsInv => EditingHistoryIsFounded
<1> SUFFICES ASSUME ResultsInv, result["confidence"] # None, result["evidence"] # None
             PROVE  EditingHistoryIsFounded
  BY DEF EditingHistoryIsFounded
<1> DEFINE items == result["evidence"].items
           p == result["metadata"]
           findings == p.findings
           codes == findings.verified \cup findings.heuristic
<1>1. \A x : x \in items <=> \E s \in Sources : /\ result[StageOf[s]] # None
                                               /\ x \in ItemsOf(s, result[StageOf[s]])
  BY EvidenceItems DEF ResultsInv
<1>2. p # None => p = MetadataPayload(file.tags)
  BY DEF ResultsInv, ResultsFollowStages
<1>3. file.tags \in MetadataType
  BY AnalysisAssumption DEF ResultsInv, EvidenceInv, RunInv, FileType
<1>4. ASSUME p # None
      PROVE  /\ codes \subseteq FindingCodes
             /\ (\E c \in EditingCodes : c \in codes) <=> EditedAccordingTo(file.tags)
  <2>1. LET fs == MetadataPayload(file.tags).findings IN
        /\ fs.verified \cup fs.heuristic \subseteq FindingCodes
        /\ (\E c \in EditingCodes : c \in fs.verified \cup fs.heuristic) <=>
             EditedAccordingTo(file.tags)
    BY <1>3, FindingsTyped, FindingsSpeakOfEditing
  <2> HIDE DEF p
  <2> QED BY <1>2, <1>4, <2>1
<1>5. "METADATA" \in Sources /\ StageOf["METADATA"] = "metadata"
  BY DEF Sources, StageOf
\* An item that speaks of editing is a finding that does.
<1>6. ASSUME NEW x \in items, Dimension(x.direction) = "MANIPULATED"
      PROVE  p # None /\ \E c \in EditingCodes : c \in codes
  <2>1. x.direction \in {"SUPPORTING_MANIPULATION", "SUPPORTING_EDITING_HISTORY"}
    BY <1>6, DimensionDirections
  <2>2. PICK s \in Sources : result[StageOf[s]] # None /\ x \in ItemsOf(s, result[StageOf[s]])
    BY <1>1
  <2>3. s = "METADATA" /\ x.direction = "SUPPORTING_EDITING_HISTORY"
    BY <2>1, <2>2, ItemDirections, DimensionDirections
  <2>4. p # None /\ x \in MetadataItems(p)
    BY <1>5, <2>2, <2>3 DEF ItemsOf
  <2>5. x \in FindingItems(findings.verified, "VERIFIED")
              \cup FindingItems(findings.heuristic, "HEURISTIC")
    BY <2>3, <2>4 DEF MetadataItems, Plain, Item
  <2>6. PICK c \in codes : x.direction = FindingDirection(c)
    BY <2>5 DEF FindingItems, Item
  <2>7. c \in EditingCodes
    BY <1>4, <2>3, <2>4, <2>6 DEF FindingDirection, EditingCodes
  <2> QED BY <2>4, <2>6, <2>7
<1>7. ASSUME p # None, NEW c \in EditingCodes, c \in codes
      PROVE  \E x \in items : Dimension(x.direction) = "MANIPULATED"
  <2>1. FindingDirection(c) = "SUPPORTING_EDITING_HISTORY"
    BY DEF EditingCodes, FindingDirection
  <2>2. PICK type : Item("METADATA", c, "finding", type, FindingDirection(c), None) \in MetadataItems(p)
    BY <1>7 DEF MetadataItems, FindingItems
  <2> DEFINE x == Item("METADATA", c, "finding", type, FindingDirection(c), None)
  <2>3. x.direction = "SUPPORTING_EDITING_HISTORY"
    BY <2>1 DEF Item
  <2>4. x \in ItemsOf("METADATA", p)
    BY <2>2 DEF ItemsOf
  <2> HIDE DEF x
  <2>5. x \in items
    BY <1>1, <1>5, <1>7, <2>4
  <2> QED BY <2>3, <2>5, DimensionDirections
<1>8. result["confidence"].byDimension["MANIPULATED"] > 0 <=>
        \E x \in items : Dimension(x.direction) = "MANIPULATED"
  <2>1. "MANIPULATED" \in Dimensions
    BY DEF Dimensions
  <2>2. result["confidence"].byDimension["MANIPULATED"] > 0 <=>
          {x \in items : Dimension(x.direction) = "MANIPULATED"} # {}
    BY <2>1, DimensionCounted
  <2> QED BY <2>2
<1>9. result["confidence"].byDimension["MANIPULATED"] > 0 <=>
        p # None /\ EditedAccordingTo(file.tags)
  <2> HIDE DEF items, p, codes
  <2> QED BY <1>4, <1>6, <1>7, <1>8
<1> QED BY <1>9 DEF EditingHistoryIsFounded

\* Only an available inference of the detector makes a file look synthetic or authentic:
\* nothing that metadata or forensics lack or contain does, and no other prediction
\* (_DIRECTION_DIMENSION over what evidence/normalizer.py gives), for any files and
\* any builds.
THEOREM SidesTaken == Spec => []OnlyDetectorTakesSides
<1>1. ResultsInv /\ [Next]_vars => ResultsInv'
  BY ResultsStep
<1> QED BY <1>1, ResultsInit, SidesFollow, PTL DEF Spec

\* The confidence counts editing history exactly when the file's own tags speak of it,
\* through extraction, analysis, normalization and classification (metadata/extractor.py
\* to assessment/confidence.py), for any tags.
THEOREM EditingFounded == Spec => []EditingHistoryIsFounded
<1>1. ResultsInv /\ [Next]_vars => ResultsInv'
  BY ResultsStep
<1> QED BY <1>1, ResultsInit, EditingFollows, PTL DEF Spec

-----------------------------------------------------------------------------
(* The sums over the directions.                                           *)

\* What f gives the directions in s, added up.
Share(f, s, d) == IF d \in s THEN f[d] ELSE 0

Total(f, s) ==
  Share(f, s, "UNKNOWN") + Share(f, s, "NEUTRAL")
  + Share(f, s, "SUPPORTING_AUTHENTICITY") + Share(f, s, "SUPPORTING_MANIPULATION")
  + Share(f, s, "SUPPORTING_SYNTHETIC") + Share(f, s, "SUPPORTING_EDITING_HISTORY")

LEMMA TotalRemoves ==
  ASSUME NEW f \in [Directions -> Nat], NEW s \in SUBSET Directions, NEW d \in s
  PROVE  Total(f, s) = f[d] + Total(f, s \ {d}) /\ Total(f, s) \in Nat
<1>1. \A k \in Directions : f[k] \in Nat
  OBVIOUS
<1>2. \A k \in Directions : Share(f, s, k) = IF k \in s THEN f[k] ELSE 0
  BY DEF Share
<1>3. \A k \in Directions : Share(f, s \ {d}, k) = IF k = d THEN 0 ELSE Share(f, s, k)
  BY DEF Share
<1>4. /\ Share(f, s, d) = f[d] /\ Share(f, s \ {d}, d) = 0 /\ d \in Directions
      /\ \A k \in Directions : Share(f, s, k) \in Nat
  BY <1>1, <1>2, <1>3
<1>5. \A k \in Directions : k # d => Share(f, s \ {d}, k) = Share(f, s, k)
  BY <1>3
<1>6. {"UNKNOWN", "NEUTRAL", "SUPPORTING_AUTHENTICITY", "SUPPORTING_MANIPULATION",
       "SUPPORTING_SYNTHETIC", "SUPPORTING_EDITING_HISTORY"} = Directions
  BY DEF Directions
<1> QED BY <1>4, <1>5, <1>6 DEF Total, Directions

\* The number of the directions in s.
One == [d \in Directions |-> 1]
Size(s) == Total(One, s)

LEMMA SizeFalls ==
  ASSUME NEW s \in SUBSET Directions, NEW d \in s
  PROVE  Size(s) = 1 + Size(s \ {d}) /\ Size(s \ {d}) \in Nat
<1>1. One \in [Directions -> Nat] /\ One[d] = 1 /\ d \in Directions
  BY DEF One
<1>2. Total(One, s) = 1 + Total(One, s \ {d}) /\ Total(One, s) \in Nat
  BY <1>1, TotalRemoves
<1>3. Total(One, s \ {d}) \in Nat
  <2>1. CASE s \ {d} = {}
    BY <2>1 DEF Total, Share
  <2>2. CASE s \ {d} # {}
    <3>1. PICK k \in s \ {d} : s \ {d} \in SUBSET Directions
      BY <2>2
    <3> QED BY <1>1, <3>1, TotalRemoves
  <2> QED BY <2>1, <2>2
<1> QED BY <1>2, <1>3 DEF Size

LEMMA SizeAtMostSix == \A s \in SUBSET Directions : Size(s) <= 6
<1> SUFFICES ASSUME NEW s \in SUBSET Directions PROVE Size(s) <= 6
  OBVIOUS
<1>1. \A d \in Directions : Share(One, s, d) \in {0, 1}
  BY DEF Share, One
<1> QED BY <1>1 DEF Size, Total, Directions

\* Whatever grows by f[d] with some direction d of a set, from 0 on, is the sum: as
\* there are six directions, six steps lead from any set to the empty one.
LEMMA TotalUnique ==
  ASSUME NEW f \in [Directions -> Nat], NEW S \in SUBSET Directions, NEW h,
         h[{}] = 0,
         \A s \in SUBSET S : s # {} => \E d \in s : h[s] = f[d] + h[s \ {d}]
  PROVE  h[S] = Total(f, S)
<1> DEFINE Reached(k) == \A s \in SUBSET S : Size(s) <= k => h[s] = Total(f, s)
<1>1. ASSUME NEW s \in SUBSET S, s # {} PROVE Size(s) \in Nat /\ Size(s) >= 1
  <2>1. PICK d \in s : s \in SUBSET Directions
    BY <1>1
  <2>2. Size(s) = 1 + Size(s \ {d}) /\ Size(s \ {d}) \in Nat
    BY <2>1, SizeFalls
  <2> QED BY <2>2
<1>2. Total(f, {}) = 0
  BY DEF Total, Share
<1>3. Reached(0)
  <2> SUFFICES ASSUME NEW s \in SUBSET S, Size(s) <= 0 PROVE h[s] = Total(f, s)
    OBVIOUS
  <2>1. s = {}
    BY <1>1
  <2> QED BY <1>2, <2>1
<1>4. ASSUME NEW k \in Nat, Reached(k) PROVE Reached(k + 1)
  <2> SUFFICES ASSUME NEW s \in SUBSET S, Size(s) <= k + 1 PROVE h[s] = Total(f, s)
    OBVIOUS
  <2>1. CASE s = {}
    BY <1>2, <2>1
  <2>2. CASE s # {}
    <3>1. PICK d \in s : h[s] = f[d] + h[s \ {d}]
      BY <2>2
    <3>2. Size(s \ {d}) <= k /\ s \ {d} \in SUBSET S
      BY SizeFalls
    <3>3. h[s \ {d}] = Total(f, s \ {d})
      BY <1>4, <3>2
    <3> QED BY <3>1, <3>3, TotalRemoves
  <2> QED BY <2>1, <2>2
<1>5. Size(S) <= 6
  BY SizeAtMostSix
<1> HIDE DEF Reached
<1>6. Reached(1) /\ Reached(2) /\ Reached(3)
  <2>1. Reached(0 + 1)
    BY <1>3, <1>4
  <2>2. Reached((0 + 1) + 1)
    BY <1>4, <2>1
  <2>3. Reached(((0 + 1) + 1) + 1)
    BY <1>4, <2>2
  <2>4. 0 + 1 = 1 /\ (0 + 1) + 1 = 2 /\ ((0 + 1) + 1) + 1 = 3
    OBVIOUS
  <2> QED BY <2>1, <2>2, <2>3, <2>4
<1>7. Reached(6)
  <2>1. Reached(3 + 1)
    BY <1>4, <1>6
  <2>2. Reached((3 + 1) + 1)
    BY <1>4, <2>1
  <2>3. Reached(((3 + 1) + 1) + 1)
    BY <1>4, <2>2
  <2>4. ((3 + 1) + 1) + 1 = 6
    OBVIOUS
  <2> QED BY <2>3, <2>4
<1> QED BY <1>5, <1>7 DEF Reached

\* The fold of Functions adds up the chosen elements one after the other.
Folded(f, S, g) ==
  g = [s \in SUBSET S |->
         IF s = {} THEN 0
         ELSE f[CHOOSE d \in s : TRUE] + g[s \ {CHOOSE d \in s : TRUE}]]

LEMMA SumIsTotal ==
  ASSUME NEW f \in [Directions -> Nat], NEW S \in SUBSET Directions
  PROVE  SumFunctionOnSet(f, S) = Total(f, S)
<1> DEFINE w == [s \in SUBSET S |-> Total(f, s)]
           g == CHOOSE g : Folded(f, S, g)
<1>1. Folded(f, S, w)
  <2>1. ASSUME NEW s \in SUBSET S, s # {}
        PROVE  Total(f, s) = f[CHOOSE d \in s : TRUE] + w[s \ {CHOOSE d \in s : TRUE}]
    <3> DEFINE d == CHOOSE d \in s : TRUE
    <3>1. d \in s /\ s \ {d} \in SUBSET S
      BY <2>1
    <3> HIDE DEF d
    <3>2. Total(f, s) = f[d] + Total(f, s \ {d})
      BY <3>1, TotalRemoves
    <3>3. Total(f, s) = f[d] + w[s \ {d}]
      BY <3>1, <3>2
    <3> QED BY <3>3 DEF d
  <2>2. Total(f, {}) = 0
    BY DEF Total, Share
  <2>3. \A s \in SUBSET S :
          Total(f, s) = IF s = {} THEN 0
                        ELSE f[CHOOSE d \in s : TRUE] + w[s \ {CHOOSE d \in s : TRUE}]
    <3> HIDE DEF w
    <3> QED BY <2>1, <2>2
  <2>4. w = [s \in SUBSET S |->
               IF s = {} THEN 0
               ELSE f[CHOOSE d \in s : TRUE] + w[s \ {CHOOSE d \in s : TRUE}]]
    BY <2>3
  <2> HIDE DEF w
  <2> QED BY <2>4 DEF Folded
<1>2. Folded(f, S, g)
  BY <1>1
<1>3. SumFunctionOnSet(f, S) = g[S]
  BY DEF SumFunctionOnSet, FoldFunctionOnSet, MapThenFoldSet, Folded
<1> HIDE DEF g
<1>4. g[{}] = 0
  BY <1>2 DEF Folded
<1>5. ASSUME NEW s \in SUBSET S, s # {}
      PROVE  \E d \in s : g[s] = f[d] + g[s \ {d}]
  <2>1. (CHOOSE d \in s : TRUE) \in s
    BY <1>5
  <2>2. g[s] = f[CHOOSE d \in s : TRUE] + g[s \ {CHOOSE d \in s : TRUE}]
    BY <1>2, <1>5 DEF Folded
  <2> QED BY <2>1, <2>2
<1> QED BY <1>3, <1>4, <1>5, TotalUnique

-----------------------------------------------------------------------------
(* The counts of the evidence.                                             *)

\* The counts of the stored evidence, which are those of its items.
LEMMA EvidenceCounts ==
  ASSUME EvidenceInv, result["evidence"] # None
  PROVE  LET e == result["evidence"] IN
         /\ e.total = Cardinality(e.items)
         /\ e.independent = Cardinality(Independent(e.items))
         /\ e.byDirection = CountBy([x \in e.items |-> x.direction], Directions)
         /\ e.groups = {x.group : x \in e.items} \ {None}
<1>1. result["evidence"] = Aggregate(SourceOutputs)
  BY DEF EvidenceInv, EvidenceFollowsSources
<1>2. LET e == Aggregate(SourceOutputs) IN
      /\ e.total = Cardinality(e.items)
      /\ e.independent = Cardinality(Independent(e.items))
      /\ e.byDirection = CountBy([x \in e.items |-> x.direction], Directions)
      /\ e.groups = {x.group : x \in e.items} \ {None}
  BY DEF Aggregate
<1> QED BY <1>1, <1>2

\* The items with one of some directions are as many as the sum of the counts says.
LEMMA DirectionsCounted ==
  ASSUME NEW items, IsFiniteSet(items), items \subseteq ItemType,
         NEW S \in SUBSET Directions
  PROVE  LET byDirection == CountBy([x \in items |-> x.direction], Directions) IN
         /\ byDirection \in [Directions -> Nat]
         /\ Cardinality({x \in items : x.direction \in S}) = SumFunctionOnSet(byDirection, S)
<1> DEFINE class == [x \in items |-> x.direction]
           f == CountBy(class, Directions)
           h == [s \in SUBSET S |-> Cardinality({x \in items : x.direction \in s})]
<1>1. f \in [Directions -> Nat]
  <2>1. IsFiniteSet(DOMAIN class)
    OBVIOUS
  <2> HIDE DEF class
  <2> QED BY <2>1, CountsTyped
<1>2. \A d \in Directions : f[d] = Cardinality({x \in items : x.direction = d})
  <2> SUFFICES ASSUME NEW d \in Directions
               PROVE  f[d] = Cardinality({x \in items : x.direction = d})
    OBVIOUS
  <2>1. {x \in DOMAIN class : class[x] = d} = {x \in items : x.direction = d}
    OBVIOUS
  <2> HIDE DEF class
  <2>2. f[d] = Cardinality({x \in DOMAIN class : class[x] = d})
    BY DEF CountBy
  <2> HIDE DEF f
  <2> QED BY <2>1, <2>2
<1>3. h[{}] = 0
  <2>1. {x \in items : x.direction \in {}} = {}
    OBVIOUS
  <2>2. h[{}] = Cardinality({x \in items : x.direction \in {}})
    OBVIOUS
  <2> HIDE DEF h
  <2> QED BY <2>1, <2>2, FS_EmptySet
<1>4. ASSUME NEW s \in SUBSET S, s # {}
      PROVE  \E d \in s : h[s] = f[d] + h[s \ {d}]
  <2>1. PICK d \in s : d \in Directions
    BY <1>4
  <2> DEFINE A == {x \in items : x.direction = d}
             B == {x \in items : x.direction \in s \ {d}}
             C == {x \in items : x.direction \in s}
  <2>2. IsFiniteSet(A) /\ IsFiniteSet(B)
    BY FS_Subset
  <2>3. C = A \cup B /\ A \cap B = {}
    OBVIOUS
  <2>4. h[s] = Cardinality(C) /\ h[s \ {d}] = Cardinality(B) /\ f[d] = Cardinality(A)
    <3>1. s \ {d} \in SUBSET S
      OBVIOUS
    <3>2. h[s] = Cardinality(C) /\ h[s \ {d}] = Cardinality(B)
      BY <3>1
    <3>3. f[d] = Cardinality(A)
      BY <1>2, <2>1
    <3> QED BY <3>2, <3>3
  <2> HIDE DEF A, B, C, h, f
  <2>5. Cardinality(A \cup B) = Cardinality(A) + Cardinality(B) - Cardinality(A \cap B)
    BY <2>2, FS_Union
  <2>6. Cardinality(A \cap B) = 0 /\ Cardinality(A) \in Nat /\ Cardinality(B) \in Nat
    BY <2>2, <2>3, FS_EmptySet, FS_CardinalityType
  <2>7. h[s] = f[d] + h[s \ {d}]
    BY <2>3, <2>4, <2>5, <2>6
  <2> QED BY <2>7
<1>5. h[S] = Cardinality({x \in items : x.direction \in S})
  OBVIOUS
<1> HIDE DEF h, f
<1>6. h[S] = Total(f, S)
  BY <1>1, <1>3, <1>4, TotalUnique
<1>7. Cardinality({x \in items : x.direction \in S}) = SumFunctionOnSet(f, S)
  BY <1>1, <1>5, <1>6, SumIsTotal
<1> QED BY <1>1, <1>7 DEF f

\* The positions of the codes whose items are correlated.
LEMMA CorrelatedPositions ==
  /\ Position("prediction") = 1 /\ Position("ela") = 19
  /\ Position("frequency") = 20 /\ Position("explanation") = 22
<1>1. /\ DOMAIN SortedCodes = 1 .. 22
      /\ SortedCodes[1] = "prediction" /\ SortedCodes[19] = "ela"
      /\ SortedCodes[20] = "frequency" /\ SortedCodes[22] = "explanation"
  BY DEF SortedCodes
<1>2. \A i \in 1 .. 22 :
        /\ SortedCodes[i] = "prediction" => i = 1
        /\ SortedCodes[i] = "ela" => i = 19
        /\ SortedCodes[i] = "frequency" => i = 20
        /\ SortedCodes[i] = "explanation" => i = 22
  BY SMTT(60) DEF SortedCodes
<1>3. Position("prediction") = 1
  BY <1>1, <1>2 DEF Position
<1>4. Position("ela") = 19
  BY <1>1, <1>2 DEF Position
<1>5. Position("frequency") = 20
  BY <1>1, <1>2 DEF Position
<1>6. Position("explanation") = 22
  BY <1>1, <1>2 DEF Position
<1> QED BY <1>3, <1>4, <1>5, <1>6

\* The correlated items: at most one of each code.
LEMMA CorrelatedItems ==
  ASSUME NEW s \in Sources, NEW p, s = "VISUAL_FORENSICS" => DOMAIN p \subseteq Analyzers,
         NEW x \in ItemsOf(s, p), x.group # None
  PROVE  \/ /\ s = "DETECTION" /\ x.group = "model-inference"
            /\ x = Item("DETECTION", "prediction", "inference", "INFERENCE",
                        LabelDirection(p.label), "model-inference")
         \/ /\ s = "XAI" /\ x.group = "model-inference"
            /\ x = Item("XAI", "explanation", "explanation", "INFERENCE", "NEUTRAL",
                        "model-inference")
         \/ /\ s = "VISUAL_FORENSICS" /\ x.group = "visual-compression"
            /\ \E a \in {"ela", "frequency"} :
                 x = Item("VISUAL_FORENSICS", a, "measurements", "VERIFIED", "NEUTRAL",
                          "visual-compression")
<1>1. CASE s = "FINGERPRINT"
  BY <1>1 DEF ItemsOf, FingerprintItems, Plain, Item
<1>2. CASE s = "METADATA"
  BY <1>2 DEF ItemsOf, MetadataItems, FindingItems, Plain, Item
<1>3. CASE s = "DETECTION"
  BY <1>3 DEF ItemsOf, DetectionItems, Item
<1>4. CASE s = "VISUAL_FORENSICS"
  <2>1. PICK a \in Completed(p) :
          x = Item("VISUAL_FORENSICS", a, "measurements", "VERIFIED", "NEUTRAL", CompressionGroup(a))
    BY <1>4 DEF ItemsOf, ForensicItems
  <2>2. x.group = CompressionGroup(a)
    BY <2>1 DEF Item
  <2>3. a \in {"ela", "frequency"} /\ CompressionGroup(a) = "visual-compression"
    BY <2>2 DEF CompressionGroup
  <2> QED BY <1>4, <2>1, <2>2, <2>3
<1>5. CASE s = "XAI"
  BY <1>5 DEF ItemsOf, XaiItems, Item
<1> QED BY <1>1, <1>2, <1>3, <1>4, <1>5 DEF Sources

\* A correlation group has at most two items, which differ in their places.
LEMMA GroupPlaces ==
  ASSUME ResultsInv, result["evidence"] # None
  PROVE  LET items == result["evidence"].items IN
         /\ \A x \in items : x.group # None =>
              Position(x.code) \in (IF x.group = "model-inference" THEN {1, 22} ELSE {19, 20})
         /\ \A x, y \in items :
              x.group # None /\ x.group = y.group /\ Position(x.code) = Position(y.code) => x = y
<1> DEFINE items == result["evidence"].items
           Prediction == Item("DETECTION", "prediction", "inference", "INFERENCE",
                              LabelDirection(result["detect"].label), "model-inference")
           Explanation == Item("XAI", "explanation", "explanation", "INFERENCE", "NEUTRAL",
                               "model-inference")
           Measurement(a) == Item("VISUAL_FORENSICS", a, "measurements", "VERIFIED", "NEUTRAL",
                                  "visual-compression")
<1>1. ASSUME NEW x \in items, x.group # None
      PROVE  \/ x.group = "model-inference" /\ x \in {Prediction, Explanation}
             \/ x.group = "visual-compression" /\ x \in {Measurement("ela"), Measurement("frequency")}
  <2>1. PICK s \in Sources : result[StageOf[s]] # None /\ x \in ItemsOf(s, result[StageOf[s]])
    BY EvidenceItems DEF ResultsInv
  <2> DEFINE p == result[StageOf[s]]
  <2>2. s = "VISUAL_FORENSICS" => DOMAIN p \subseteq Analyzers
    BY <2>1 DEF ResultsInv, ResultsFollowStages, StageOf
  <2>3. s = "DETECTION" => p = result["detect"]
    BY DEF StageOf
  <2>4. x \in ItemsOf(s, p)
    BY <2>1
  <2> HIDE DEF p, items
  <2>5. \/ /\ s = "DETECTION" /\ x.group = "model-inference"
           /\ x = Item("DETECTION", "prediction", "inference", "INFERENCE",
                       LabelDirection(p.label), "model-inference")
        \/ s = "XAI" /\ x.group = "model-inference" /\ x = Explanation
        \/ /\ s = "VISUAL_FORENSICS" /\ x.group = "visual-compression"
           /\ \E a \in {"ela", "frequency"} : x = Measurement(a)
    BY <1>1, <2>2, <2>4, CorrelatedItems
  <2> QED BY <2>3, <2>5
<1>2. /\ Prediction.code = "prediction" /\ Explanation.code = "explanation"
      /\ Measurement("ela").code = "ela" /\ Measurement("frequency").code = "frequency"
  BY DEF Item
<1> HIDE DEF items, Prediction, Explanation, Measurement
<1>3. ASSUME NEW x \in items, x.group # None
      PROVE  Position(x.code) \in (IF x.group = "model-inference" THEN {1, 22} ELSE {19, 20})
  BY <1>1, <1>2, <1>3, CorrelatedPositions
<1>4. ASSUME NEW x \in items, NEW y \in items, x.group # None, x.group = y.group,
             Position(x.code) = Position(y.code)
      PROVE  x = y
  <2>1. CASE x.group = "model-inference"
    <3>1. x \in {Prediction, Explanation} /\ y \in {Prediction, Explanation}
      BY <1>1, <1>4, <2>1
    <3> QED BY <1>2, <1>4, <3>1, CorrelatedPositions
  <2>2. CASE x.group = "visual-compression"
    <3>1. /\ x \in {Measurement("ela"), Measurement("frequency")}
          /\ y \in {Measurement("ela"), Measurement("frequency")}
      BY <1>1, <1>4, <2>2
    <3> QED BY <1>2, <1>4, <3>1, CorrelatedPositions
  <2> QED BY <1>1, <1>4, <2>1, <2>2
<1> QED BY <1>3, <1>4 DEF items

\* Of each correlation group one item counts.
LEMMA IndependentCounted ==
  ASSUME ResultsInv, result["evidence"] # None
  PROVE  LET e == result["evidence"] IN
         Cardinality(Independent(e.items)) =
           Cardinality({x \in e.items : x.group = None}) + Cardinality(e.groups)
<1> DEFINE items == result["evidence"].items
           groups == {x.group : x \in items} \ {None}
           alone == {x \in items : x.group = None}
           firsts == {x \in items : /\ x.group # None
                                    /\ ~ \E y \in items : y.group = x.group /\ Precedes(y, x)}
           f == [x \in firsts |-> x.group]
<1>1. IsFiniteSet(items)
  BY EvidenceItems DEF ResultsInv
<1>2. /\ \A x \in items : x.group # None =>
           Position(x.code) \in (IF x.group = "model-inference" THEN {1, 22} ELSE {19, 20})
      /\ \A x, y \in items :
           x.group # None /\ x.group = y.group /\ Position(x.code) = Position(y.code) => x = y
  BY GroupPlaces
<1> HIDE DEF items
<1>3. \A x, y \in firsts : x.group = y.group => x = y
  <2> SUFFICES ASSUME NEW x \in firsts, NEW y \in firsts, x.group = y.group PROVE x = y
    OBVIOUS
  <2>1. /\ ~(Position(x.code) < Position(y.code)) /\ ~(Position(y.code) < Position(x.code))
        /\ x \in items /\ y \in items /\ x.group # None
    BY DEF Precedes
  <2>2. Position(x.code) \in Int /\ Position(y.code) \in Int
    BY <1>2, <2>1
  <2> QED BY <1>2, <2>1, <2>2
<1>4. ASSUME NEW g \in groups PROVE \E x \in firsts : x.group = g
  <2>1. PICK x \in items : x.group = g /\ g # None
    OBVIOUS
  <2>2. CASE \E y \in items : y.group = g /\ Precedes(y, x)
    <3>1. PICK y \in items : y.group = g /\ Position(y.code) < Position(x.code)
      BY <2>2 DEF Precedes
    <3>2. Position(y.code) \in {1, 19}
      BY <1>2, <2>1, <3>1
    <3>3. ASSUME NEW z \in items, z.group = g PROVE ~ (Position(z.code) < Position(y.code))
      BY <1>2, <2>1, <3>1, <3>2, <3>3
    <3>4. y \in firsts
      BY <2>1, <3>1, <3>3 DEF Precedes
    <3> QED BY <3>1, <3>4
  <2>3. CASE ~ \E y \in items : y.group = g /\ Precedes(y, x)
    BY <2>1, <2>3
  <2> QED BY <2>2, <2>3
<1>5. IsFiniteSet(alone) /\ IsFiniteSet(firsts)
  BY <1>1, FS_Subset
<1>6. Independent(items) = alone \cup firsts /\ alone \cap firsts = {}
  BY DEF Independent
<1>7. f \in Surjection(firsts, groups) /\ f \in Injection(firsts, groups)
  <2>1. \A x \in firsts : x.group \in groups
    OBVIOUS
  <2> HIDE DEF firsts, groups
  <2>2. f \in [firsts -> groups]
    BY <2>1
  <2>3. f \in Surjection(firsts, groups)
    BY <1>4, <2>2 DEF Surjection
  <2>4. f \in Injection(firsts, groups)
    BY <1>3, <2>2 DEF Injection, IsInjective
  <2> QED BY <2>3, <2>4
<1> HIDE DEF alone, firsts, groups, f
<1>8. Cardinality(groups) = Cardinality(firsts)
  BY <1>5, <1>7, FS_Surjection
<1>9. Cardinality(alone \cup firsts) = Cardinality(alone) + Cardinality(firsts)
  <2>1. Cardinality(alone \cup firsts) =
          Cardinality(alone) + Cardinality(firsts) - Cardinality(alone \cap firsts)
    BY <1>5, FS_Union
  <2>2. /\ Cardinality(alone \cap firsts) = 0
        /\ Cardinality(alone) \in Nat /\ Cardinality(firsts) \in Nat
    BY <1>5, <1>6, FS_EmptySet, FS_CardinalityType
  <2> QED BY <2>1, <2>2
<1>10. result["evidence"].groups = groups
  BY EvidenceCounts DEF ResultsInv, groups, items
<1> QED BY <1>6, <1>8, <1>9, <1>10 DEF alone, items

LEMMA CountsFollow == ResultsInv => CountsAgree
<1> SUFFICES ASSUME ResultsInv, result["evidence"] # None PROVE CountsAgree
  BY DEF CountsAgree
<1> DEFINE e == result["evidence"]
           c == result["confidence"]
           byDirection == CountBy([x \in e.items |-> x.direction], Directions)
           Of(m) == {d \in Directions : Dimension(d) = m}
<1>1. /\ e.total = Cardinality(e.items)
      /\ e.independent = Cardinality(Independent(e.items))
      /\ e.byDirection = byDirection
  BY EvidenceCounts DEF ResultsInv
<1>2. IsFiniteSet(e.items) /\ e.items \subseteq ItemType
  BY EvidenceItems DEF ResultsInv
<1>3. e.independent = Cardinality({x \in e.items : x.group = None}) + Cardinality(e.groups)
  BY <1>1, IndependentCounted
<1>4. \A x \in e.items : x.direction \in Directions
  BY <1>2 DEF ItemType
<1>5. \A S \in SUBSET Directions :
        /\ byDirection \in [Directions -> Nat]
        /\ Cardinality({x \in e.items : x.direction \in S}) = SumFunctionOnSet(byDirection, S)
  <2> HIDE DEF e
  <2> QED BY <1>2, DirectionsCounted
<1>6. e.total = SumFunction(e.byDirection)
  <2>1. {x \in e.items : x.direction \in Directions} = e.items
    BY <1>4
  <2>2. Directions \in SUBSET Directions
    OBVIOUS
  <2> HIDE DEF e, byDirection
  <2>3. DOMAIN byDirection = Directions
    BY <1>5, <2>2
  <2>4. SumFunction(byDirection) = SumFunctionOnSet(byDirection, DOMAIN byDirection)
    BY DEF SumFunction
  <2> QED BY <1>1, <1>5, <2>1, <2>2, <2>3, <2>4
<1>7. ASSUME c # None, NEW m \in Dimensions
      PROVE  c.byDimension[m] = SumFunctionOnSet(e.byDirection, Of(m))
  <2>1. c.byDimension[m] = Cardinality({x \in e.items : Dimension(x.direction) = m})
    BY <1>7, DimensionCounted
  <2>2. {x \in e.items : Dimension(x.direction) = m} = {x \in e.items : x.direction \in Of(m)}
    BY <1>4
  <2>3. Of(m) \in SUBSET Directions
    OBVIOUS
  <2> HIDE DEF e, c, byDirection, Of
  <2> QED BY <1>1, <1>5, <2>1, <2>2, <2>3
<1> QED BY <1>3, <1>6, <1>7 DEF CountsAgree

\* The counts of the evidence, which evidence/aggregator.py and assessment/confidence.py
\* make separately, agree with one another: each correlation group counts once, and the
\* directions and the dimensions partition the items.
THEOREM CountsCorrect == Spec => []CountsAgree
<1>1. ResultsInv /\ [Next]_vars => ResultsInv'
  BY ResultsStep
<1> QED BY <1>1, ResultsInit, CountsFollow, PTL DEF Spec
=============================================================================
