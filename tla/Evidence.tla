------------------------------ MODULE Evidence ------------------------------
(***************************************************************************)
(* The evidence stage: every source's persisted result is normalized into  *)
(* items (evidence/normalizer.py), which are counted, with correlated ones *)
(* counted once (evidence/aggregator.py).                                  *)
(*                                                                         *)
(* The code keeps a list sorted by source and code.  Here it is the set of *)
(* its items, which are told apart by `observation` when their codes are   *)
(* equal; the order matters only within a correlation group and is given   *)
(* by SortedCodes.  Categories, details and wording are left out.          *)
(***************************************************************************)
EXTENDS Metadata, FiniteSets

CONSTANT None  \* Python's None

Sources == {"FINGERPRINT", "METADATA", "DETECTION", "VISUAL_FORENSICS", "XAI"}

Directions ==
  {"UNKNOWN", "NEUTRAL", "SUPPORTING_AUTHENTICITY", "SUPPORTING_MANIPULATION",
   "SUPPORTING_SYNTHETIC", "SUPPORTING_EDITING_HISTORY"}

\* The codes in the order in which (source, code) sorts them.
SortedCodes ==
  <<"prediction", "dhash", "sha256", "capture_later_than_modification",
    "editing_software_metadata", "exif_absent", "exif_orientation_out_of_range",
    "exif_present", "format_mime_mismatch", "gps_absent", "gps_present",
    "icc_absent", "icc_present", "implausible_exposure_time", "implausible_iso",
    "software_present", "xmp_absent", "xmp_present", "ela", "frequency", "noise",
    "explanation">>

Position(code) == CHOOSE i \in DOMAIN SortedCodes : SortedCodes[i] = code

Precedes(x, y) == Position(x.code) < Position(y.code)

Item(source, code, observation, type, direction, group) ==
  [source |-> source, code |-> code, observation |-> observation, type |-> type,
   direction |-> direction, group |-> group]

Plain(source, code, observation, type) ==
  Item(source, code, observation, type, "NEUTRAL", None)

\* What the fields of EvidenceItem hold.
ItemType ==
  [source: Sources, code: {SortedCodes[i] : i \in DOMAIN SortedCodes},
   observation: {"digest", "hash", "presence", "software", "finding", "inference",
                 "measurements", "explanation"},
   type: {"VERIFIED", "INFERENCE", "HEURISTIC", "UNKNOWN"},
   direction: Directions, group: {None, "model-inference", "visual-compression"}]

-----------------------------------------------------------------------------
\* normalize_source, source by source: items, and notes that become limitations.

FingerprintItems(p) ==
  {Plain("FINGERPRINT", "sha256", "digest", "VERIFIED"),
   Plain("FINGERPRINT", "dhash", "hash", "HEURISTIC")}

PresentCode ==
  [exif |-> "exif_present", xmp |-> "xmp_present", icc |-> "icc_present",
   gps |-> "gps_present"]

AbsentCode ==
  [exif |-> "exif_absent", xmp |-> "xmp_absent", icc |-> "icc_absent",
   gps |-> "gps_absent"]

\* _METADATA_FINDING_META.
FindingDirection(code) ==
  IF code \in {"gps_present", "format_mime_mismatch"} THEN "NEUTRAL"
  ELSE "SUPPORTING_EDITING_HISTORY"

FindingItems(codes, type) ==
  {Item("METADATA", c, "finding", type, FindingDirection(c), None) : c \in codes}

MetadataItems(p) ==
  {Plain("METADATA", IF p.presence[k] THEN PresentCode[k] ELSE AbsentCode[k],
         "presence", "VERIFIED") : k \in {"exif", "xmp", "icc", "gps"}}
  \cup (IF p.software = {} THEN {}
        ELSE {Plain("METADATA", "software_present", "software", "VERIFIED")})
  \cup FindingItems(p.findings.verified, "VERIFIED")
  \cup FindingItems(p.findings.heuristic, "HEURISTIC")

\* _DETECTION_LABEL_META.
LabelDirection(label) ==
  CASE label = "FAKE" -> "SUPPORTING_SYNTHETIC"
    [] label = "REAL" -> "SUPPORTING_AUTHENTICITY"
    [] OTHER -> "NEUTRAL"

\* The only results of a detector that are evidence.  Nothing in DetectionResult
\* keeps its fields together.
Inferred(p) == p.label # None /\ p.type = "INFERENCE" /\ p.status = "AVAILABLE"

DetectionItems(p) ==
  IF Inferred(p)
  THEN {Item("DETECTION", "prediction", "inference", "INFERENCE",
             LabelDirection(p.label), "model-inference")}
  ELSE {}

Completed(p) == {a \in DOMAIN p : p[a] = "COMPLETED"}

CompressionGroup(analyzer) ==
  IF analyzer \in {"ela", "frequency"} THEN "visual-compression" ELSE None

ForensicItems(p) ==
  {Item("VISUAL_FORENSICS", a, "measurements", "VERIFIED", "NEUTRAL",
        CompressionGroup(a)) : a \in Completed(p)}

XaiItems(p) ==
  IF p.status = "COMPLETED"
  THEN {Item("XAI", "explanation", "explanation", "INFERENCE", "NEUTRAL",
             "model-inference")}
  ELSE {}

ItemsOf(source, p) ==
  CASE source = "FINGERPRINT" -> FingerprintItems(p)
    [] source = "METADATA" -> MetadataItems(p)
    [] source = "DETECTION" -> DetectionItems(p)
    [] source = "VISUAL_FORENSICS" -> ForensicItems(p)
    [] source = "XAI" -> XaiItems(p)

\* Each normalizer returns, beside its items, an availability and the notes that
\* become limitations.

\* Mutant of AvailabilityOf: analyzers that have run are enough.
AvailabilityOfRun(source, p) ==
  CASE source \in {"FINGERPRINT", "METADATA"} -> "AVAILABLE"
    [] source = "DETECTION" -> IF Inferred(p) THEN "AVAILABLE" ELSE "UNAVAILABLE"
    [] source = "VISUAL_FORENSICS" ->
         IF DOMAIN p = {} THEN "UNAVAILABLE" ELSE "AVAILABLE"
    [] source = "XAI" -> IF p.status = "COMPLETED" THEN "AVAILABLE" ELSE "UNAVAILABLE"

AvailabilityOf(source, p) ==
  CASE source \in {"FINGERPRINT", "METADATA"} -> "AVAILABLE"
    [] source = "DETECTION" -> IF Inferred(p) THEN "AVAILABLE" ELSE "UNAVAILABLE"
    [] source = "VISUAL_FORENSICS" ->
         IF DOMAIN p = {} THEN "UNAVAILABLE"
         ELSE IF Completed(p) = {} THEN "FAILED" ELSE "AVAILABLE"
    [] source = "XAI" -> IF p.status = "COMPLETED" THEN "AVAILABLE" ELSE "UNAVAILABLE"

\* Mutant of NotesOf: failed analyzers are noted only if no other completed.
NotesOfUnusable(source, p) ==
  CASE source = "FINGERPRINT" -> {}
    [] source = "METADATA" -> {"provenance"}
    [] source = "DETECTION" -> IF Inferred(p) THEN {} ELSE {"unusable"}
    [] source = "VISUAL_FORENSICS" ->
         IF DOMAIN p = {} THEN {"unusable"}
         ELSE IF Completed(p) = {} THEN DOMAIN p ELSE {}
    [] source = "XAI" -> IF p.status = "COMPLETED" THEN {} ELSE {"unusable"}

\* That there is no provenance, that nothing was usable, or which analyzers failed.
NotesOf(source, p) ==
  CASE source = "FINGERPRINT" -> {}
    [] source = "METADATA" -> {"provenance"}
    [] source = "DETECTION" -> IF Inferred(p) THEN {} ELSE {"unusable"}
    [] source = "VISUAL_FORENSICS" ->
         IF DOMAIN p = {} THEN {"unusable"} ELSE DOMAIN p \ Completed(p)
    [] source = "XAI" -> IF p.status = "COMPLETED" THEN {} ELSE {"unusable"}

-----------------------------------------------------------------------------
\* aggregate_evidence.

\* Mutant of Independent: all members of a group are counted.
IndependentOfAll(items) == items

\* _independent_items: of each correlation group, the first in order.
Independent(items) ==
  {x \in items : x.group = None
                 \/ ~ \E y \in items : y.group = x.group /\ Precedes(y, x)}

\* `class` maps every item to its class.
CountBy(class, classes) ==
  [c \in classes |-> Cardinality({x \in DOMAIN class : class[x] = c})]

\* `sources` gives what the stage could read of each source.
Aggregate(sources) ==
  LET present == {s \in Sources : sources[s].payload # None}
      items == UNION {ItemsOf(s, sources[s].payload) : s \in present}
  IN [items |-> items,
      availability |->
        [s \in Sources |->
           IF s \in present THEN AvailabilityOf(s, sources[s].payload)
           ELSE sources[s].availability],
      notes |->
        [s \in Sources |->
           IF s \in present THEN NotesOf(s, sources[s].payload) ELSE {"missing"}],
      total |-> Cardinality(items),
      independent |-> Cardinality(Independent(items)),
      byDirection |-> CountBy([x \in items |-> x.direction], Directions),
      groups |-> {x.group : x \in items} \ {None}]
=============================================================================
