--------------------------- MODULE MCScanAnalysis ---------------------------
(***************************************************************************)
(* Instances of ScanAnalysis: nine registrations of stages, detectors,     *)
(* explainers and analyzers, and files that differ from a bare or a rich   *)
(* one in one respect.                                                     *)
(***************************************************************************)
EXTENDS ScanAnalysis

MCBare ==
  [exifReadable |-> TRUE, xmpReadable |-> TRUE, orientation |-> {}, captured |-> {},
   modified |-> {}, iso |-> {}, exposure |-> {}, gps |-> FALSE, otherTags |-> FALSE,
   exifSoftware |-> {}, xmp |-> FALSE, creatorTool |-> {}, xmpSoftware |-> {},
   icc |-> FALSE, otherFormat |-> FALSE]

MCRich ==
  [MCBare EXCEPT !.orientation = {8}, !.captured = {1}, !.modified = {2},
                 !.iso = {100}, !.exposure = {1}, !.otherTags = TRUE,
                 !.exifSoftware = {"other"}, !.xmp = TRUE, !.creatorTool = {"other"},
                 !.xmpSoftware = {"other"}, !.icc = TRUE, !.gps = TRUE]

\* Each finding of the analyzer and its boundary; an editor named in each of the
\* three places, in sections that can be read and in ones that cannot.
MCTags ==
  {MCBare, MCRich,
   [MCBare EXCEPT !.orientation = {0}], [MCRich EXCEPT !.orientation = {9}],
   [MCBare EXCEPT !.iso = {0}], [MCRich EXCEPT !.exposure = {0}],
   [MCBare EXCEPT !.captured = {1}], [MCRich EXCEPT !.captured = {2}],
   [MCRich EXCEPT !.captured = {3}], [MCBare EXCEPT !.gps = TRUE],
   [MCRich EXCEPT !.exifReadable = FALSE], [MCRich EXCEPT !.xmpReadable = FALSE],
   [MCRich EXCEPT !.exifSoftware = {"editor"}],
   [MCRich EXCEPT !.exifSoftware = {"editor"}, !.exifReadable = FALSE],
   [MCRich EXCEPT !.creatorTool = {"editor"}],
   [MCRich EXCEPT !.creatorTool = {"editor"}, !.xmpReadable = FALSE],
   [MCRich EXCEPT !.xmpSoftware = {"editor", "other"}]}

MCFile(state, image, oversized, tags) ==
  [state |-> state, image |-> image, oversized |-> oversized, tags |-> tags]

MCFiles ==
  {MCFile("intact", "whole", FALSE, t) : t \in MCTags}
  \cup {MCFile("intact", "truncated", FALSE, MCRich),
        MCFile("intact", "whole", TRUE, MCBare),
        MCFile("altered", "whole", FALSE, [MCRich EXCEPT !.otherFormat = TRUE]),
        MCFile("altered", "no", FALSE, MCBare),
        MCFile("missing", "no", FALSE, MCBare)}

\* Predictions as inference/base.py describes them, and others that DetectionResult
\* allows: one that is not classified, one without a label, one of an inference that
\* was unavailable, and one of another type.
MCPrediction(label, type, inference) ==
  [label |-> label, type |-> type, status |-> inference]

MCPredictions == {MCPrediction(l, "INFERENCE", "AVAILABLE") : l \in Labels}

MCOddPredictions ==
  {MCPrediction("FAKE", None, "AVAILABLE"), MCPrediction(None, "INFERENCE", "AVAILABLE"),
   MCPrediction("FAKE", "INFERENCE", "UNAVAILABLE"),
   MCPrediction("REAL", "VERIFIED", "AVAILABLE")}

MCDetectors(predictions) == <<[name |-> "d", model |-> "m", predictions |-> predictions]>>

MCExplanations(identities, interpretations) ==
  [identity: identities, interpretation: interpretations]

MCExplainer(model, explanations) == [model |-> model, explanations |-> explanations]

\* The build of the repository: a placeholder detector and explainer.
MCDefault ==
  [stages |-> Stages, detectors |-> <<>>, otherDetectors |-> FALSE,
   xaiDetectors |-> {"unavailable"}, explainers |-> <<MCExplainer(None, {})>>,
   analyzers |-> <<"ela", "noise", "frequency">>, others |-> FALSE]

MCBuilds ==
  {MCDefault,
   \* A model with an explainer, behind a fallback and another model's.
   [MCDefault EXCEPT !.detectors = MCDetectors(MCPredictions), !.xaiDetectors = {"d"},
                     !.explainers = <<MCExplainer(None, {}),
                                      MCExplainer("n", MCExplanations({"full"}, {"full"})),
                                      MCExplainer("m", MCExplanations({"full"}, {"none", "full"}))>>],
   \* An explainer that leaves fields of its result out.
   [MCDefault EXCEPT !.detectors = MCDetectors(MCPredictions), !.xaiDetectors = {"d"},
                     !.explainers = <<MCExplainer("m", MCExplanations({"none", "partial"}, {"full", "partial"}))>>,
                     !.analyzers = <<"ela">>],
   \* A detector that leaves fields of its result out, and a fallback that explains.
   [MCDefault EXCEPT !.detectors = MCDetectors(MCOddPredictions), !.xaiDetectors = {"d"},
                     !.explainers = <<MCExplainer("n", {}),
                                      MCExplainer(None, MCExplanations({"full"}, {"none"}))>>,
                     !.analyzers = <<"ela">>],
   \* A detector that the xai stage does not know, and nothing that checks the file.
   [MCDefault EXCEPT !.stages = Stages \ {"validate", "fingerprint"},
                     !.detectors = MCDetectors(MCPredictions),
                     !.explainers = <<MCExplainer("m", MCExplanations({"full"}, {"full"}))>>,
                     !.analyzers = <<"noise", "ela">>],
   \* Parts of the pipeline, and no analyzer of images, or none at all.
   [MCDefault EXCEPT !.stages = Stages \ {"evidence", "metadata"},
                     !.analyzers = <<>>, !.others = TRUE],
   [MCDefault EXCEPT !.stages = Stages \ {"fingerprint", "confidence"},
                     !.analyzers = <<>>, !.others = TRUE],
   [MCDefault EXCEPT !.analyzers = <<>>],
   \* No detector of images.
   [MCDefault EXCEPT !.otherDetectors = TRUE]}
=============================================================================
