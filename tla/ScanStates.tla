----------------------------- MODULE ScanStates -----------------------------
(***************************************************************************)
(* The vocabulary of a forensic scan: the states of a scan and of its      *)
(* pipeline stages, and the table of legal scan transitions of             *)
(* app/domain/scan.py, which every session consults through                *)
(* ScanService.transition.                                                 *)
(***************************************************************************)

\* app/domain/taxonomy.py, class ScanStatus.  "ABSENT" stands for a row that
\* has not been inserted yet.
ScanStatus ==
  {"CREATED", "VALIDATING", "QUEUED", "PROCESSING", "COMPLETED", "FAILED"}

\* SCAN_TRANSITIONS: the successors of each state.
Transitions ==
  [ CREATED    |-> {"VALIDATING"},
    VALIDATING |-> {"QUEUED", "FAILED"},
    QUEUED     |-> {"PROCESSING"},
    PROCESSING |-> {"COMPLETED", "FAILED"},
    COMPLETED  |-> {},
    FAILED     |-> {} ]

\* assert_transition lets a transition through iff the target differs from the
\* current state and is one of its successors.
CanTransition(current, target) ==
  /\ current # target
  /\ target \in Transitions[current]

TerminalStatus == {"COMPLETED", "FAILED"}

\* The messages an error_message column can hold, as far as they differ: none;
\* the client-safe text of a StageError; the two generic texts the runner and
\* the execution service substitute for an unexpected exception; the text a
\* caller outside the pipeline passes to ScanService.transition.
NoError == "none"
StageErrorMessage == "stage error"
UnexpectedStage == "unexpected stage failure"
UnexpectedPipeline == "unexpected pipeline failure"
RejectedError == "rejected before queueing"

Messages ==
  {NoError, StageErrorMessage, UnexpectedStage, UnexpectedPipeline, RejectedError}

\* A scan_stages row is its status and its error message.  NoRow marks a stage
\* name for which the scan has no row: stages are rows, not schema, so a scan
\* created before a name was added to STAGE_ORDER lacks it.
StageRow ==
  [status: {"ABSENT", "PENDING", "RUNNING", "COMPLETED", "FAILED", "SKIPPED"},
   error: Messages]

NoRow     == [status |-> "ABSENT",    error |-> NoError]
Pending   == [status |-> "PENDING",   error |-> NoError]
Running   == [status |-> "RUNNING",   error |-> NoError]
Completed == [status |-> "COMPLETED", error |-> NoError]
\* The fixed "not implemented in this build" text of a skipped stage says no
\* more than its status does, so it is left out.
Skipped   == [status |-> "SKIPPED",   error |-> NoError]
StageFailed(message) == [status |-> "FAILED", error |-> message]

=============================================================================
