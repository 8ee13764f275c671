--------------------------- MODULE ScanLifecycle ----------------------------
(***************************************************************************)
(* What the scan subsystem promises its readers, over committed rows only. *)
(*                                                                         *)
(* A scan is created, is moved towards the queue or rejected by whoever    *)
(* submits it, is claimed once, and is finished once: its status, its      *)
(* error and every one of its stage rows change together, in one step, to  *)
(* a legal outcome of the pipeline, and never change again.                *)
(***************************************************************************)
EXTENDS Naturals, ScanStates

CONSTANTS
  Scans,        \* the scans of the model
  StageCount,   \* number of names in STAGE_ORDER
  Registered,   \* positions of STAGE_ORDER with a registered implementation
  RowsOf        \* RowsOf[s]: the positions for which scan s has a stage row

VARIABLES status, stages, error

vars == <<status, stages, error>>

StageIndex == 1 .. StageCount

\* The stage rows of a scan that no pipeline has touched.
FreshStages(s) ==
  [i \in StageIndex |-> IF i \in RowsOf[s] THEN Pending ELSE NoRow]

\* The row a stage is left with when the pipeline has gone past it.
PassedRow(i) == IF i \in Registered THEN Completed ELSE Skipped

\* The rows after the pipeline went past stages 1 .. k-1 and no further.
PassedUpTo(s, k) ==
  [i \in StageIndex |-> IF i < k THEN PassedRow(i) ELSE FreshStages(s)[i]]

\* Every stage was completed or skipped.
Success(s, rows, message) ==
  /\ RowsOf[s] = StageIndex
  /\ rows = PassedUpTo(s, StageCount + 1)
  /\ message = NoError

\* The pipeline stopped at its first failing stage k, which carries the same
\* message as the scan; nothing after it was touched.
FailedAt(s, k, rows, message) ==
  /\ k \in Registered \cap RowsOf[s]
  /\ 1 .. (k - 1) \subseteq RowsOf[s]
  /\ message \in {StageErrorMessage, UnexpectedStage}
  /\ rows = [PassedUpTo(s, k) EXCEPT ![k] = StageFailed(message)]

\* The pipeline met a stage name for which the scan has no row.
RowMissing(s, k, rows, message) ==
  /\ k \notin RowsOf[s]
  /\ 1 .. (k - 1) \subseteq RowsOf[s]
  /\ message = UnexpectedPipeline
  /\ rows = PassedUpTo(s, k)

Failure(s, rows, message) ==
  \E k \in StageIndex :
    FailedAt(s, k, rows, message) \/ RowMissing(s, k, rows, message)

Init ==
  /\ status = [s \in Scans |-> "ABSENT"]
  /\ stages = [s \in Scans |-> FreshStages(s)]
  /\ error = [s \in Scans |-> NoError]

Create(s) ==
  /\ status[s] = "ABSENT"
  /\ status' = [status EXCEPT ![s] = "CREATED"]
  /\ UNCHANGED <<stages, error>>

\* One session may apply several transitions before it commits.
Submit(s) ==
  /\ status[s] \in {"CREATED", "VALIDATING"}
  /\ \E to \in {"VALIDATING", "QUEUED"} :
       /\ to # status[s]
       /\ status' = [status EXCEPT ![s] = to]
  /\ UNCHANGED <<stages, error>>

Reject(s) ==
  /\ status[s] \in {"CREATED", "VALIDATING"}
  /\ status' = [status EXCEPT ![s] = "FAILED"]
  /\ \E m \in {NoError, RejectedError} : error' = [error EXCEPT ![s] = m]
  /\ UNCHANGED stages

Claim(s) ==
  /\ status[s] = "QUEUED"
  /\ status' = [status EXCEPT ![s] = "PROCESSING"]
  /\ UNCHANGED <<stages, error>>

Finish(s) ==
  /\ status[s] = "PROCESSING"
  /\ \/ /\ status' = [status EXCEPT ![s] = "COMPLETED"]
        /\ Success(s, stages'[s], error'[s])
     \/ /\ status' = [status EXCEPT ![s] = "FAILED"]
        /\ Failure(s, stages'[s], error'[s])
  /\ stages' = [stages EXCEPT ![s] = stages'[s]]
  /\ error' = [error EXCEPT ![s] = error'[s]]

Next ==
  \E s \in Scans : Create(s) \/ Submit(s) \/ Reject(s) \/ Claim(s) \/ Finish(s)

Spec == Init /\ [][Next]_vars

=============================================================================
