--------------------------- MODULE ReportDocument ---------------------------
(***************************************************************************)
(* compose_report (reports/composer.py): the document that the report      *)
(* stage makes of the results of the earlier stages.                       *)
(*                                                                         *)
(* The summary, each section, the methodology and the limitations are      *)
(* derived from the same inputs by separate code.  inputs[n] is what could *)
(* be read of the result of stage n, or None.  What a part of the document *)
(* says is a set of topics or a record; wording and rows that only copy a  *)
(* value are left out.                                                     *)
(***************************************************************************)
EXTENDS Assessment

\* _STAGE_ORDER, the composer's own list of the stages.
ReportedStages ==
  {"validate", "fingerprint", "metadata", "detect", "forensics", "xai", "evidence",
   "confidence", "risk", "verdict", "report"}

IsUnavailable(r) == r # None /\ r.status = "UNAVAILABLE"

\* Mutant of Summary: it asks for the explainer only when there was a model.
SummaryOfOneGap(inputs) ==
  LET parts ==
        (IF inputs["verdict"] = None THEN {}
         ELSE IF inputs["verdict"].verdict = "INSUFFICIENT_EVIDENCE" THEN {"verdict"}
         ELSE {"conclusion"})
        \cup {n \in {"confidence"} :
               inputs[n] # None /\ inputs[n].confidence = "INSUFFICIENT_EVIDENCE"}
        \cup {n \in {"risk"} : inputs[n] # None /\ inputs[n].level = "UNDETERMINED"}
        \cup (IF IsUnavailable(inputs["detect"]) THEN {"detect"}
              ELSE {n \in {"xai"} : IsUnavailable(inputs[n])})
  IN IF parts = {} THEN {"completed"} ELSE parts

\* _executive_summary: the conclusion, or what is undecided, and which model is
\* missing; if there is nothing to say, that the analysis is completed.
Summary(inputs) ==
  LET parts ==
        (IF inputs["verdict"] = None THEN {}
         ELSE IF inputs["verdict"].verdict = "INSUFFICIENT_EVIDENCE" THEN {"verdict"}
         ELSE {"conclusion"})
        \cup {n \in {"confidence"} :
               inputs[n] # None /\ inputs[n].confidence = "INSUFFICIENT_EVIDENCE"}
        \cup {n \in {"risk"} : inputs[n] # None /\ inputs[n].level = "UNDETERMINED"}
        \cup {n \in {"detect", "xai"} : IsUnavailable(inputs[n])}
  IN IF parts = {} THEN {"completed"} ELSE parts

-----------------------------------------------------------------------------
(* The sections.                                                           *)

\* _metadata_section, the presence of each kind of metadata: _present(None) says
\* absent, so that is also what it says without a result.
MetadataSection(r) ==
  [k \in {"exif", "xmp", "icc", "gps"} |->
     IF r = None THEN "absent" ELSE IF r.presence[k] THEN "present" ELSE "absent"]

\* _detection_section: unless the inference was unavailable, the model, and the
\* prediction and its type if they are set.
DetectionSection(r) ==
  IF r = None \/ IsUnavailable(r)
  THEN [status |-> "UNAVAILABLE", model |-> None, label |-> None, type |-> None]
  ELSE [status |-> r.status, model |-> r.model, label |-> r.label, type |-> r.type]

\* _forensics_section: every analyzer with its status.
ForensicsSection(r) == IF r = None THEN <<>> ELSE r

XaiSection(r) == [status |-> IF r = None THEN "UNAVAILABLE" ELSE r.status]

\* _evidence_section.
EvidenceSection(r) ==
  IF r = None THEN None
  ELSE [availability |-> r.availability, total |-> r.total,
        independent |-> r.independent, items |-> r.items]

\* _confidence_section, _risk_section, _verdict_section.
DecisionSections(inputs) ==
  [confidence |-> IF inputs["confidence"] = None THEN "UNAVAILABLE"
                  ELSE inputs["confidence"].confidence,
   risk |-> IF inputs["risk"] = None THEN "UNAVAILABLE" ELSE inputs["risk"].level,
   verdict |-> IF inputs["verdict"] = None THEN "UNAVAILABLE"
               ELSE inputs["verdict"].verdict]

\* A row's value must be a string (SectionRow).  _xai_section puts the name, the
\* version and the checkpoint of the model that an explanation names, and the target,
\* the semantics and the summary of its interpretation, into rows as they are, and
\* each may be None.
Composable(inputs) ==
  LET r == inputs["xai"] IN
  r # None /\ r.status = "COMPLETED" =>
    r.identity # "partial" /\ r.interpretation # "partial"

-----------------------------------------------------------------------------
(* Methodology and limitations.                                            *)

\* _methodology: the model that predicted, the analyzers with a version, and the
\* decisions with one.
Methodology(inputs) ==
  [model |-> IF inputs["detect"] # None /\ inputs["detect"].status = "AVAILABLE"
             THEN inputs["detect"].model ELSE None,
   analyzers |-> IF inputs["forensics"] = None THEN {} ELSE DOMAIN inputs["forensics"],
   decisions |-> {n \in {"confidence", "risk", "verdict"} : inputs[n] # None}]

\* _limitations: pairs of what one is about and what it says.
Limitations(inputs) ==
  (IF inputs["evidence"] = None THEN {}
   ELSE UNION {{s} \X inputs["evidence"].notes[s] : s \in Sources})
  \cup (IF inputs["confidence"] = None THEN {}
        ELSE inputs["confidence"].missing \X {"absent"})
  \cup (IF inputs["detect"] # None /\ inputs["detect"].status = "UNAVAILABLE"
        THEN {<<"DETECTION", "unavailable">>} ELSE {})
  \cup (IF inputs["xai"] # None /\ inputs["xai"].status = "UNAVAILABLE"
        THEN {<<"XAI", "unavailable">>} ELSE {})
  \cup (IF \/ inputs["confidence"] = None
           \/ inputs["confidence"].confidence # "SUFFICIENT_EVIDENCE"
        THEN {<<"confidence", "undecided">>} ELSE {})
  \cup (IF inputs["risk"] # None /\ inputs["risk"].level = "UNDETERMINED"
        THEN {<<"risk", "undecided">>} ELSE {})
  \cup (IF /\ inputs["verdict"] # None
           /\ inputs["verdict"].verdict = "INSUFFICIENT_EVIDENCE"
        THEN {<<"verdict", "undecided">>} ELSE {})
  \cup (IF inputs["forensics"] = None THEN {}
        ELSE {<<"measurements", "observational">>})

ComposeReport(inputs, statuses, pipelineStatus) ==
  [pipelineStatus |-> pipelineStatus,
   stages |-> [n \in ReportedStages |-> statuses[n]],
   summary |-> Summary(inputs),
   fingerprint |-> inputs["fingerprint"] # None,
   metadata |-> MetadataSection(inputs["metadata"]),
   detection |-> DetectionSection(inputs["detect"]),
   forensics |-> ForensicsSection(inputs["forensics"]),
   xai |-> XaiSection(inputs["xai"]),
   evidence |-> EvidenceSection(inputs["evidence"]),
   decisions |-> DecisionSections(inputs),
   methodology |-> Methodology(inputs),
   limitations |-> Limitations(inputs)]

=============================================================================
