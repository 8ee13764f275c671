-------------------------- MODULE MCReportArtifact --------------------------
(***************************************************************************)
(* A small instance of ReportArtifact: one scan that two callers submit, a *)
(* first stage and the report.                                             *)
(***************************************************************************)
EXTENDS ReportArtifact

CONSTANTS s1, s2, t1, t2, w1, w2

MCRacingTriggers == [t \in Triggers |-> {s1}]
MCAllRows == [s \in Scans |-> 1 .. StageCount]
MCCreatedAt == [s \in Scans |-> 1]

=============================================================================
