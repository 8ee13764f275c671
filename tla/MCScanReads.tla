---------------------------- MODULE MCScanReads -----------------------------
(***************************************************************************)
(* A small instance of ScanReads: three scans with one stage, created at   *)
(* distinct times or two of them at the same time.                         *)
(***************************************************************************)
EXTENDS ScanReads

CONSTANTS s1, s2, s3

MCRowsOf == [s \in Scans |-> {1}]
MCCreationTimes == {[s \in Scans |-> CASE s = s1 -> 1 [] s = s2 -> 2 [] s = s3 -> 3],
                    [s \in Scans |-> IF s = s1 THEN 1 ELSE 2]}
MCTieOrders == {[s \in Scans |-> CASE s = s1 -> 1 [] s = s2 -> 2 [] s = s3 -> 3],
                [s \in Scans |-> CASE s = s1 -> 1 [] s = s2 -> 3 [] s = s3 -> 2]}

=============================================================================
