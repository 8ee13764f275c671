--------------------------- MODULE ScanExecution ----------------------------
(***************************************************************************)
(* Scans from creation to their terminal state: the sessions of callers    *)
(* that drive a scan to QUEUED through ScanService.transition, and the     *)
(* analysis workers that claim queued scans (workers/queue.py), run the    *)
(* pipeline over them (workers/runner.py) and finalize them                *)
(* (services/execution.py), all against one PostgreSQL database in READ    *)
(* COMMITTED.                                                              *)
(*                                                                         *)
(* status, stages and error are the committed rows: all another session    *)
(* can read.  What a worker has flushed but not committed is in mstatus,   *)
(* mstages and merror, what a caller has in request, and the row locks     *)
(* their UPDATEs hold are in scanLock and stageLock.  An action is what    *)
(* happens between two awaits at which another session can run: a flush, a *)
(* commit, a stage's computation.                                          *)
(***************************************************************************)
EXTENDS Naturals, FiniteSets, ScanStates

CONSTANTS
  Scans,         \* scans that may be created
  Workers,       \* analysis workers, of one process or of several
  Triggers,      \* caller sessions that queue scans
  MayTrigger,    \* MayTrigger[t]: the scans that caller t submits
  StageCount,    \* number of names in STAGE_ORDER
  Registered,    \* positions of STAGE_ORDER with a registered implementation
  RowsOf,        \* RowsOf[s]: positions for which scan s has a stage row
  CreatedAt,     \* CreatedAt[s]: its created_at (start of its transaction)
  Free, NoScan,  \* no lock holder; no scan
  FaultKinds,    \* the faults of the model, among "database", "ack", "stop", "hang"
  MaxFaults      \* bound on the number of faults

ASSUME ConstantsAssumption ==
  /\ StageCount \in Nat \ {0}
  /\ Registered \subseteq 1 .. StageCount
  /\ RowsOf \in [Scans -> SUBSET (1 .. StageCount)]
  /\ CreatedAt \in [Scans -> Nat]
  /\ MayTrigger \in [Triggers -> SUBSET Scans]
  /\ Workers \cap Triggers = {}
  /\ Free \notin Workers \cup Triggers
  /\ NoScan \notin Scans
  /\ FaultKinds \subseteq {"database", "ack", "stop", "hang"}
  /\ MaxFaults \in Nat

VARIABLES
  status, stages, error,  \* committed scans and scan_stages rows
  scanLock, stageLock,    \* row locks, by scan
  pc, scan, next,         \* each worker: where it is, its scan, its stage
  mstatus, mstages, merror, \* each worker: the scan row and stages in its session
  tpc, request,           \* each caller: where it is, its in-memory scan
  faults                  \* faults so far

rows == <<status, stages, error>>
locks == <<scanLock, stageLock>>
callers == <<tpc, request>>
memory == <<scan, next, mstatus, mstages, merror>>
vars == <<status, stages, error, scanLock, stageLock, pc, scan, next, mstatus,
          mstages, merror, tpc, request, faults>>

StageIndex == 1 .. StageCount
Sessions == Workers \cup Triggers

\* The stage rows that create_scan inserts, one per name of STAGE_ORDER as it
\* was when the scan was created.
FreshStages(s) ==
  [i \in StageIndex |-> IF i \in RowsOf[s] THEN Pending ELSE NoRow]

NoStages == [i \in StageIndex |-> NoRow]

NoRequest == [scan |-> NoScan, status |-> "ABSENT", error |-> NoError]

Init ==
  /\ status = [s \in Scans |-> "ABSENT"]
  /\ stages = [s \in Scans |-> FreshStages(s)]
  /\ error = [s \in Scans |-> NoError]
  /\ scanLock = [s \in Scans |-> Free]
  /\ stageLock = [s \in Scans |-> Free]
  /\ pc = [w \in Workers |-> "idle"]
  /\ scan = [w \in Workers |-> NoScan]
  /\ next = [w \in Workers |-> 1]
  /\ mstatus = [w \in Workers |-> "ABSENT"]
  /\ mstages = [w \in Workers |-> NoStages]
  /\ merror = [w \in Workers |-> NoError]
  /\ tpc = [t \in Triggers |-> "idle"]
  /\ request = [t \in Triggers |-> NoRequest]
  /\ faults = 0

-----------------------------------------------------------------------------
(* Sessions: locks, commit, rollback.                                      *)

Lockable(lock, s, x) == lock[s] \in {Free, x}

\* Commit and rollback end the transaction: every row lock of x is released.
Released(lock, x) == [s \in Scans |-> IF lock[s] = x THEN Free ELSE lock[s]]

Unlock(x) ==
  /\ scanLock' = Released(scanLock, x)
  /\ stageLock' = Released(stageLock, x)

\* Mutant of CloseSession: the connection is kept, with its row locks.
CloseSessionKeepingLocks(w) ==
  /\ scan' = [scan EXCEPT ![w] = NoScan]
  /\ next' = [next EXCEPT ![w] = 1]
  /\ mstatus' = [mstatus EXCEPT ![w] = "ABSENT"]
  /\ mstages' = [mstages EXCEPT ![w] = NoStages]
  /\ merror' = [merror EXCEPT ![w] = NoError]
  /\ UNCHANGED locks

\* A worker's session is closed: its objects are gone, its locks are released.
CloseSession(w) ==
  /\ Unlock(w)
  /\ scan' = [scan EXCEPT ![w] = NoScan]
  /\ next' = [next EXCEPT ![w] = 1]
  /\ mstatus' = [mstatus EXCEPT ![w] = "ABSENT"]
  /\ mstages' = [mstages EXCEPT ![w] = NoStages]
  /\ merror' = [merror EXCEPT ![w] = NoError]

Goto(w, from, to) ==
  /\ pc[w] = from
  /\ pc' = [pc EXCEPT ![w] = to]

-----------------------------------------------------------------------------
(* Callers: POST /scans, and the trigger that queues a scan.               *)

\* The scan and its PENDING stages are inserted and committed at once; no other
\* session can name the scan before.
CreateScan(s) ==
  /\ status[s] = "ABSENT"
  /\ status' = [status EXCEPT ![s] = "CREATED"]
  /\ UNCHANGED <<stages, error, locks, pc, memory, callers, faults>>

\* get_scan: an unlocked read into the caller's session.
LoadForTrigger(t, s) ==
  /\ tpc[t] = "idle"
  /\ s \in MayTrigger[t]
  /\ status[s] # "ABSENT"
  /\ tpc' = [tpc EXCEPT ![t] = "loaded"]
  /\ request' =
       [request EXCEPT ![t] = [scan |-> s, status |-> status[s], error |-> error[s]]]
  /\ UNCHANGED <<rows, locks, pc, memory, faults>>

\* ScanService.transition: the check is against the status in memory; the flush
\* then waits for the row's lock and overwrites whatever status is there.
TriggerTransition(t, to, message) ==
  LET s == request[t].scan IN
  /\ tpc[t] \in {"loaded", "dirty"}
  /\ CanTransition(request[t].status, to)
  /\ Lockable(scanLock, s, t)
  /\ scanLock' = [scanLock EXCEPT ![s] = t]
  /\ tpc' = [tpc EXCEPT ![t] = "dirty"]
  /\ request' =
       [request EXCEPT ![t] =
          [scan |-> s, status |-> to,
           error |-> IF to = "FAILED" THEN message ELSE @.error]]
  /\ UNCHANGED <<rows, stageLock, pc, memory, faults>>

\* Callers take a new scan to VALIDATING and on to QUEUED, or reject it; the
\* transitions of a queued scan belong to the workers.
TriggerStep(t) ==
  /\ request[t].status \in {"CREATED", "VALIDATING"}
  /\ \/ \E to \in {"VALIDATING", "QUEUED"} : TriggerTransition(t, to, NoError)
     \/ \E m \in {NoError, RejectedError} : TriggerTransition(t, "FAILED", m)

TriggerCommit(t) ==
  LET s == request[t].scan IN
  /\ tpc[t] = "dirty"
  /\ status' = [status EXCEPT ![s] = request[t].status]
  /\ error' =
       [error EXCEPT ![s] = IF request[t].status = "FAILED" THEN request[t].error ELSE @]
  /\ Unlock(t)
  /\ tpc' = [tpc EXCEPT ![t] = "idle"]
  /\ request' = [request EXCEPT ![t] = NoRequest]
  /\ UNCHANGED <<stages, pc, memory, faults>>

\* The caller gives up: a ConflictError, a failed flush, or nothing to do.
TriggerAbort(t) ==
  /\ tpc[t] \in {"loaded", "dirty"}
  /\ Unlock(t)
  /\ tpc' = [tpc EXCEPT ![t] = "idle"]
  /\ request' = [request EXCEPT ![t] = NoRequest]
  /\ UNCHANGED <<rows, pc, memory, faults>>

-----------------------------------------------------------------------------
(* AnalysisWorker._claim_next                                              *)

\* Mutant of Claimable: the query without FOR UPDATE SKIP LOCKED.
ClaimableUnlocked == {s \in Scans : status[s] = "QUEUED"}

\* Rows the claiming query may return: QUEUED, and not locked (SKIP LOCKED).
Claimable == {s \in Scans : status[s] = "QUEUED" /\ scanLock[s] = Free}

OldestOf(set) == {s \in set : \A r \in set : CreatedAt[s] <= CreatedAt[r]}

\* The oldest claimable row is locked, moved to PROCESSING in memory, flushed.
Claim(w, s) ==
  /\ s \in OldestOf(Claimable)
  /\ Goto(w, "idle", "claiming")
  /\ scanLock' = [scanLock EXCEPT ![s] = w]
  /\ scan' = [scan EXCEPT ![w] = s]
  /\ mstatus' = [mstatus EXCEPT ![w] = "PROCESSING"]
  /\ UNCHANGED <<rows, stageLock, next, mstages, merror, callers, faults>>

CommitClaim(w) ==
  /\ Goto(w, "claiming", "claimed")
  /\ status' = [status EXCEPT ![scan[w]] = mstatus[w]]
  /\ Unlock(w)
  /\ UNCHANGED <<stages, error, memory, callers, faults>>

-----------------------------------------------------------------------------
(* ScanExecutionService and PipelineRunner: one transaction per scan.      *)

\* A new session reads the committed scan again and runs the pipeline over it.
LoadForExecution(w) ==
  /\ Goto(w, "claimed", "running")
  /\ status[scan[w]] = "PROCESSING"
  /\ mstatus' = [mstatus EXCEPT ![w] = status[scan[w]]]
  /\ mstages' = [mstages EXCEPT ![w] = stages[scan[w]]]
  /\ UNCHANGED <<rows, locks, scan, next, merror, callers, faults>>

\* A scan that is not PROCESSING is a ConflictError, which run_forever logs.
RefuseExecution(w) ==
  /\ Goto(w, "claimed", "idle")
  /\ status[scan[w]] # "PROCESSING"
  /\ CloseSession(w)
  /\ UNCHANGED <<rows, callers, faults>>

BeginExecution(w) ==
  /\ pc[w] = "claimed"
  /\ IF status[scan[w]] = "PROCESSING" THEN LoadForExecution(w) ELSE RefuseExecution(w)

\* Mutant of MarkStage: the flush is committed at once and holds no lock.
MarkStageUnlocked(w, row, advance) ==
  /\ mstages' = [mstages EXCEPT ![w][next[w]] = row]
  /\ next' = [next EXCEPT ![w] = @ + advance]
  /\ UNCHANGED stageLock

\* mark_stage: the row of the current stage is changed in memory and flushed;
\* the loop of PipelineRunner.run moves `advance` stages on.
MarkStage(w, row, advance) ==
  /\ Lockable(stageLock, scan[w], w)
  /\ stageLock' = [stageLock EXCEPT ![scan[w]] = w]
  /\ mstages' = [mstages EXCEPT ![w][next[w]] = row]
  /\ next' = [next EXCEPT ![w] = @ + advance]

HasRow(w) == mstages[w][next[w]] # NoRow

\* Mutant of SkipStage: the loop index moves twice.
SkipStageTwice(w) ==
  /\ Goto(w, "running", "running")
  /\ next[w] \in StageIndex \ Registered
  /\ HasRow(w)
  /\ MarkStage(w, Skipped, 2)
  /\ UNCHANGED <<rows, scanLock, scan, mstatus, merror, callers, faults>>

\* A stage without an implementation is marked SKIPPED.
SkipStage(w) ==
  /\ Goto(w, "running", "running")
  /\ next[w] \in StageIndex \ Registered
  /\ HasRow(w)
  /\ MarkStage(w, Skipped, 1)
  /\ UNCHANGED <<rows, scanLock, scan, mstatus, merror, callers, faults>>

StartStage(w) ==
  /\ Goto(w, "running", "inStage")
  /\ next[w] \in StageIndex \cap Registered
  /\ HasRow(w)
  /\ MarkStage(w, Running, 0)
  /\ UNCHANGED <<rows, scanLock, scan, mstatus, merror, callers, faults>>

\* mark_stage finds no row of that name: NotFoundError, for which the execution
\* service substitutes its generic message.
StageRowMissing(w) ==
  /\ Goto(w, "running", "failing")
  /\ next[w] \in StageIndex
  /\ ~HasRow(w)
  /\ merror' = [merror EXCEPT ![w] = UnexpectedPipeline]
  /\ UNCHANGED <<rows, locks, scan, next, mstatus, mstages, callers, faults>>

\* Mutant of FinishStage: progress is committed as it is made.
FinishStageCommitting(w) ==
  /\ Goto(w, "inStage", "running")
  /\ MarkStage(w, Completed, 1)
  /\ stages' = [stages EXCEPT ![scan[w]][next[w]] = Completed]
  /\ UNCHANGED <<status, error, scanLock, scan, mstatus, merror, callers, faults>>

\* The stage returns: COMPLETED, with its result.
FinishStage(w) ==
  /\ Goto(w, "inStage", "running")
  /\ MarkStage(w, Completed, 1)
  /\ UNCHANGED <<rows, scanLock, scan, mstatus, merror, callers, faults>>

\* Mutant of FailStage: the exception is reported without marking the stage.
FailStageUnmarked(w, message) ==
  /\ Goto(w, "inStage", "failing")
  /\ merror' = [merror EXCEPT ![w] = message]
  /\ UNCHANGED <<rows, locks, scan, next, mstatus, mstages, callers, faults>>

\* The stage raises StageError or any other exception: its row is marked FAILED
\* and PipelineFailure carries the same message to the execution service.
FailStage(w, message) ==
  /\ Goto(w, "inStage", "failing")
  /\ MarkStage(w, StageFailed(message), 0)
  /\ merror' = [merror EXCEPT ![w] = message]
  /\ UNCHANGED <<rows, scanLock, scan, mstatus, callers, faults>>

\* transition(COMPLETED) or transition(FAILED), flushed.
Finalize(w, from, to) ==
  /\ Goto(w, from, "finalizing")
  /\ CanTransition(mstatus[w], to)
  /\ Lockable(scanLock, scan[w], w)
  /\ scanLock' = [scanLock EXCEPT ![scan[w]] = w]
  /\ mstatus' = [mstatus EXCEPT ![w] = to]
  /\ UNCHANGED <<rows, stageLock, scan, next, mstages, merror, callers, faults>>

\* Mutant of CompleteScan: one stage too early.
CompleteScanEarly(w) ==
  /\ next[w] = StageCount
  /\ Finalize(w, "running", "COMPLETED")

CompleteScan(w) ==
  /\ next[w] = StageCount + 1
  /\ Finalize(w, "running", "COMPLETED")

\* Mutant of FailScan: _execute_in does not catch PipelineFailure.
FailScanUncaught(w) ==
  /\ Goto(w, "failing", "idle")
  /\ CloseSession(w)
  /\ UNCHANGED <<rows, callers, faults>>

FailScan(w) == Finalize(w, "failing", "FAILED")

\* What the transaction wrote, over the rows as they are: the stages that were
\* marked, the status, and the error of a failed scan.
WriteResult(w) ==
  LET s == scan[w] IN
  /\ status' = [status EXCEPT ![s] = mstatus[w]]
  /\ stages' =
       [stages EXCEPT ![s] =
          [i \in StageIndex |-> IF i <= next[w] THEN mstages[w][i] ELSE @[i]]]
  /\ error' =
       [error EXCEPT ![s] = IF mstatus[w] = "FAILED" THEN merror[w] ELSE @]

CommitResult(w) ==
  /\ Goto(w, "finalizing", "idle")
  /\ WriteResult(w)
  /\ CloseSession(w)
  /\ UNCHANGED <<callers, faults>>

-----------------------------------------------------------------------------
(* Faults.                                                                 *)

Fault(kind) ==
  /\ kind \in FaultKinds
  /\ faults < MaxFaults
  /\ faults' = faults + 1

\* A statement, a flush or a commit fails in the database.  The failed flush
\* deactivates the session's transaction, so the handlers of run and
\* _execute_in, which flush on the same session, raise as well: the exception
\* reaches run_forever, which logs it and polls again.
DatabaseError(w) ==
  /\ Fault("database")
  /\ pc[w] \notin {"idle", "stopped", "hung"}
  /\ pc' = [pc EXCEPT ![w] = "idle"]
  /\ CloseSession(w)
  /\ UNCHANGED <<rows, callers>>

\* A commit is applied, but its acknowledgement is lost: the worker sees an
\* exception and polls again.
ClaimAckLost(w) ==
  /\ Fault("ack")
  /\ Goto(w, "claiming", "idle")
  /\ status' = [status EXCEPT ![scan[w]] = mstatus[w]]
  /\ CloseSession(w)
  /\ UNCHANGED <<stages, error, callers>>

ResultAckLost(w) ==
  /\ Fault("ack")
  /\ Goto(w, "finalizing", "idle")
  /\ WriteResult(w)
  /\ CloseSession(w)
  /\ UNCHANGED callers

\* The process dies, or the lifespan cancels the worker's task on shutdown:
\* CancelledError passes every `except Exception` on its way.
Stop(w) ==
  /\ Fault("stop")
  /\ pc[w] # "stopped"
  /\ pc' = [pc EXCEPT ![w] = "stopped"]
  /\ CloseSession(w)
  /\ UNCHANGED <<rows, callers>>

\* A stage does not return.  Nothing bounds its time: the worker keeps its
\* transaction and its locks until its process ends.
Hang(w) ==
  /\ Fault("hang")
  /\ Goto(w, "inStage", "hung")
  /\ UNCHANGED <<rows, locks, memory, callers>>

\* The application is started again.
Restart(w) ==
  /\ Goto(w, "stopped", "idle")
  /\ UNCHANGED <<rows, locks, memory, callers, faults>>

-----------------------------------------------------------------------------
CallerStep(t) ==
  \/ \E s \in Scans : LoadForTrigger(t, s)
  \/ TriggerStep(t)
  \/ TriggerCommit(t)
  \/ TriggerAbort(t)

WorkerStep(w) ==
  \/ \E s \in Scans : Claim(w, s)
  \/ CommitClaim(w)
  \/ BeginExecution(w)
  \/ SkipStage(w)
  \/ StartStage(w)
  \/ StageRowMissing(w)
  \/ FinishStage(w)
  \/ \E m \in {StageErrorMessage, UnexpectedStage} : FailStage(w, m)
  \/ CompleteScan(w)
  \/ FailScan(w)
  \/ CommitResult(w)

FaultStep(w) ==
  \/ DatabaseError(w)
  \/ ClaimAckLost(w)
  \/ ResultAckLost(w)
  \/ Stop(w)
  \/ Hang(w)

Next ==
  \/ \E s \in Scans : CreateScan(s)
  \/ \E t \in Triggers : CallerStep(t)
  \/ \E w \in Workers : WorkerStep(w) \/ FaultStep(w) \/ Restart(w)

Spec == Init /\ [][Next]_vars

\* The event loop runs every worker that can run, and a stopped application is
\* started again; callers owe nothing.
Fairness == \A w \in Workers : WF_vars(WorkerStep(w)) /\ WF_vars(Restart(w))

FairSpec == Spec /\ Fairness

-----------------------------------------------------------------------------
(* Properties.                                                             *)

WorkerPC ==
  {"idle", "claiming", "claimed", "running", "inStage", "failing", "finalizing",
   "stopped", "hung"}

RequestType ==
  [scan: Scans \cup {NoScan}, status: ScanStatus \cup {"ABSENT"}, error: Messages]

\* Types of the variables.
TypeOK ==
  /\ status \in [Scans -> ScanStatus \cup {"ABSENT"}]
  /\ stages \in [Scans -> [StageIndex -> StageRow]]
  /\ error \in [Scans -> Messages]
  /\ scanLock \in [Scans -> Sessions \cup {Free}]
  /\ stageLock \in [Scans -> Sessions \cup {Free}]
  /\ pc \in [Workers -> WorkerPC]
  /\ scan \in [Workers -> Scans \cup {NoScan}]
  /\ next \in [Workers -> 1 .. (StageCount + 1)]
  /\ mstatus \in [Workers -> ScanStatus \cup {"ABSENT"}]
  /\ mstages \in [Workers -> [StageIndex -> StageRow]]
  /\ merror \in [Workers -> Messages]
  /\ tpc \in [Triggers -> {"idle", "loaded", "dirty"}]
  /\ request \in [Triggers -> RequestType]
  /\ faults \in Nat

\* No two callers submit the same scan: each scan is queued by one session at a
\* time.  Nothing in ScanService enforces it.
SingleTrigger ==
  \A t, u \in Triggers : t # u => MayTrigger[t] \cap MayTrigger[u] = {}

\* Two workers never have the same scan in hand (workers/queue.py: "even multiple
\* worker processes would never process the same scan twice"), from the claim's
\* lock, over its commit, to the commit of the result in another transaction.
AtMostOneExecutor ==
  \A v, w \in Workers :
    v # w /\ scan[v] # NoScan => scan[v] # scan[w]

\* The worker's transaction has written a stage row.
Marked(w) == next[w] > 1 \/ pc[w] \in {"inStage", "hung"}

\* Even when two callers race and a scan is claimed a second time, the row locks
\* keep the two pipelines apart: while one transaction has marked a stage of the
\* scan, no other has.
PipelinesExclude ==
  \A v, w \in Workers :
    /\ v # w
    /\ scan[v] # NoScan
    /\ scan[v] = scan[w]
    => ~(Marked(v) /\ Marked(w))

Lifecycle == INSTANCE ScanLifecycle

\* What the committed rows of a scan may say together.
Outcome(s) ==
  /\ status[s] = "COMPLETED" => Lifecycle!Success(s, stages[s], error[s])
  /\ status[s] = "FAILED" =>
       \/ Lifecycle!Failure(s, stages[s], error[s])
       \/ stages[s] = FreshStages(s) /\ error[s] \in {NoError, RejectedError}
  /\ status[s] \notin TerminalStatus => stages[s] = FreshStages(s) /\ error[s] = NoError

\* The committed rows of a scan tell one story: until the scan is finished no
\* stage row has changed; a COMPLETED scan has every stage completed or skipped;
\* a FAILED one stopped at its first failing stage, whose message it carries, at
\* a stage it has no row for, or was rejected before any stage ran.
OutcomeIsConsistent == \A s \in Scans : Outcome(s)

\* The detailed system implements the abstract lifecycle: whatever two sessions
\* do in between, committed scans move only along the legal transitions, and a
\* result appears in one step.
ImplementsLifecycle == Lifecycle!Spec

InHand(s) == \E w \in Workers : scan[w] = s

\* Scans left PROCESSING by a worker that no longer works on them: no claim
\* query will ever return them again.
Stranded == {s \in Scans : status[s] = "PROCESSING" /\ ~InHand(s)}

\* A worker that raises, dies or is cancelled strands at most the one scan it
\* has in hand, and without a fault no scan is ever stranded.
FaultsStrandAtMostOneEach == Cardinality(Stranded) <= faults

HeldForEver(s) == \E w \in Workers : scan[w] = s /\ pc[w] = "hung"

\* Every queued scan is finished ("Claims queued scans and drives them to a
\* terminal state", workers/queue.py), whatever befalls other scans: rollbacks
\* put a claimed scan back and the next poll finds it.  The exceptions are a scan
\* that a fault stranded, one whose own stage hangs, and a system in which every
\* worker hangs in some stage.
QueuedScansFinish ==
  \A s \in Scans :
    status[s] = "QUEUED" ~> \/ status[s] \in TerminalStatus
                            \/ s \in Stranded
                            \/ HeldForEver(s)
                            \/ \A w \in Workers : pc[w] = "hung"

\* What docs/BACKEND_IMPLEMENTATION.md says of failures: a scan is left
\* un-finalized only if the process crashes.
StrandedOnlyByCrash ==
  Stranded # {} => \E w \in Workers : pc[w] = "stopped"

=============================================================================
