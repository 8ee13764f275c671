-------------------------- MODULE MCScanExecution ---------------------------
(***************************************************************************)
(* Small instances of ScanExecution: three stages of which the last has no *)
(* implementation, and an older scan that has no row for the second one.   *)
(***************************************************************************)
EXTENDS ScanExecution

CONSTANTS s1, s2, t1, t2, w1, w2

MCStageCount == 3
MCRegistered == {1, 2}
MCRowsOf == [s \in Scans |-> IF s = s2 THEN {1, 3} ELSE {1, 2, 3}]
MCCreatedAt == [s \in Scans |-> IF s = s1 THEN 1 ELSE 2]

\* One caller for each scan, or two callers that both submit the same scan.
MCOwnTrigger == [t \in Triggers |-> IF t = t1 THEN {s1} ELSE {s2}]
MCRacingTriggers == [t \in Triggers |-> {s1}]

=============================================================================
