---------------------------- MODULE MediaUpload -----------------------------
(***************************************************************************)
(* Uploads: MediaService.create_from_upload (services/media.py) over the   *)
(* local file system (media/storage.py), which has no transactions, and    *)
(* PostgreSQL.  Every upload owns a temporary file, a stored file and a    *)
(* Media row under generated names, so uploads share nothing but the       *)
(* process they die with.                                                  *)
(*                                                                         *)
(* An action is what the request's task does between two awaits, or what a *)
(* job it handed to a thread (asyncio.to_thread) does: a cancelled task    *)
(* leaves its job to run.                                                  *)
(***************************************************************************)
EXTENDS Naturals, FiniteSets

CONSTANTS
  Uploads,     \* the requests
  Inputs,      \* what clients may send
  ChunkSize,   \* _CHUNK_SIZE
  Limit,       \* settings.max_upload_size_bytes
  FaultKinds,  \* among "io", "database", "ack", "cancel", "crash"
  MaxFaults    \* bound on the number of faults

\* What the content turns out to be: an image of a supported format; one that the
\* parser rejects with an exception detect_image catches, or with another one;
\* GIF; no known magic.
Contents == {"image", "unparsable", "unlisted", "gif", "unknown"}

InputType == [safeName: BOOLEAN, length: Nat, content: Contents, extension: BOOLEAN]

ASSUME UploadAssumption ==
  /\ Inputs \subseteq InputType
  /\ ChunkSize \in Nat \ {0}
  /\ Limit \in Nat
  /\ FaultKinds \subseteq {"io", "database", "ack", "cancel", "crash"}
  /\ MaxFaults \in Nat

VARIABLES
  input,          \* what each client sends
  pc, job,        \* each request's task, and the job it handed to a thread
  received,       \* bytes streamed
  tmp, stored,    \* is there a temporary file, a file in storage?
  media,          \* is there a committed Media row?
  answer,         \* what the request ends with
  hit, faults     \* kinds of fault that struck each upload; faults so far

files == <<tmp, stored>>
vars == <<input, pc, job, received, tmp, stored, media, answer, hit, faults>>

Codes ==
  {"INVALID_FILENAME", "FILE_TOO_LARGE", "EMPTY_FILE", "UNSUPPORTED_TYPE",
   "INVALID_CONTENT", "INTERNAL_ERROR", "CREATED"}

Init ==
  /\ input \in [Uploads -> Inputs]
  /\ pc = [u \in Uploads |-> "idle"]
  /\ job = [u \in Uploads |-> "none"]
  /\ received = [u \in Uploads |-> 0]
  /\ tmp = [u \in Uploads |-> FALSE]
  /\ stored = [u \in Uploads |-> FALSE]
  /\ media = [u \in Uploads |-> FALSE]
  /\ answer = [u \in Uploads |-> "none"]
  /\ hit = [u \in Uploads |-> {}]
  /\ faults = 0

NoFault == UNCHANGED <<hit, faults>>

Fault(u, kind) ==
  /\ kind \in FaultKinds
  /\ faults < MaxFaults
  /\ faults' = faults + 1
  /\ hit' = [hit EXCEPT ![u] = @ \cup {kind}]

Goto(u, from, to) ==
  /\ pc[u] = from
  /\ pc' = [pc EXCEPT ![u] = to]

\* The task is about to leave create_from_upload with `code`, through `finally`.
End(u, from, code) ==
  /\ Goto(u, from, "ending")
  /\ answer' = [answer EXCEPT ![u] = code]

-----------------------------------------------------------------------------
(* The request's task.                                                     *)

\* _validated_filename comes before the temporary file is made.
RejectName(u) ==
  /\ ~input[u].safeName
  /\ Goto(u, "idle", "done")
  /\ answer' = [answer EXCEPT ![u] = "INVALID_FILENAME"]
  /\ NoFault
  /\ UNCHANGED <<input, job, received, files, media>>

Open(u) ==
  /\ input[u].safeName
  /\ Goto(u, "idle", "streaming")
  /\ tmp' = [tmp EXCEPT ![u] = TRUE]
  /\ NoFault
  /\ UNCHANGED <<input, job, received, stored, media, answer>>

\* The directory cannot be made, or the file not be created or closed: nothing is
\* undone, for the `try` has not been entered.
OpenFails(u) ==
  /\ Fault(u, "io")
  /\ input[u].safeName
  /\ Goto(u, "idle", "done")
  /\ \E made \in BOOLEAN : tmp' = [tmp EXCEPT ![u] = made]
  /\ answer' = [answer EXCEPT ![u] = "INTERNAL_ERROR"]
  /\ UNCHANGED <<input, job, received, stored, media>>

\* Mutant of Chunk: read is taken to fill its buffer.
FullChunk(u) == ChunkSize

\* What the next file.read(_CHUNK_SIZE) returns: zero bytes at the end.
Chunk(u) ==
  LET rest == input[u].length - received[u] IN
  IF rest < ChunkSize THEN rest ELSE ChunkSize

\* Mutant of TooLarge: a file of exactly the limit is refused.
TooLargeAtLimit(u) == received[u] + Chunk(u) >= Limit

TooLarge(u) == received[u] + Chunk(u) > Limit

\* A chunk is hashed and written.
ReadChunk(u) ==
  /\ pc[u] = "streaming"
  /\ Chunk(u) > 0
  /\ ~TooLarge(u)
  /\ received' = [received EXCEPT ![u] = @ + Chunk(u)]
  /\ NoFault
  /\ UNCHANGED <<input, pc, job, files, media, answer>>

\* The chunk that crosses the limit is not written.
RejectSize(u) ==
  /\ Chunk(u) > 0
  /\ TooLarge(u)
  /\ End(u, "streaming", "FILE_TOO_LARGE")
  /\ NoFault
  /\ UNCHANGED <<input, job, received, files, media>>

StreamFails(u) ==
  /\ Fault(u, "io")
  /\ End(u, "streaming", "INTERNAL_ERROR")
  /\ UNCHANGED <<input, job, received, files, media>>

\* Mutant of EndOfStream: a short read is taken for the end.
EndOfStreamShort(u) ==
  /\ received[u] > 0 \/ Chunk(u) = 0
  /\ Goto(u, "streaming", "detecting")
  /\ NoFault
  /\ UNCHANGED <<input, job, received, files, media, answer>>

\* An empty read ends the stream; detection goes to a thread, where it only reads.
EndOfStream(u) ==
  /\ Chunk(u) = 0
  /\ Goto(u, "streaming", "detecting")
  /\ NoFault
  /\ UNCHANGED <<input, job, received, files, media, answer>>

\* detect_image and then _validate_extension: the error they raise, if any, of a file
\* that can be read.
ContentError(u) ==
  IF received[u] = 0 THEN "EMPTY_FILE"
  ELSE IF input[u].content = "gif" THEN "UNSUPPORTED_TYPE"
  ELSE IF input[u].content = "unlisted" THEN "INTERNAL_ERROR"
  ELSE IF input[u].content = "image" /\ input[u].extension THEN "none"
  ELSE "INVALID_CONTENT"

RejectContent(u) ==
  /\ ContentError(u) # "none"
  /\ End(u, "detecting", ContentError(u))
  /\ NoFault
  /\ UNCHANGED <<input, job, received, files, media>>

\* The magic bytes are those of a format that is supported, so that the parser is run.
Parsed(u) == received[u] > 0 /\ input[u].content \notin {"gif", "unknown"}

\* The temporary file cannot be read: while it is parsed, the error is taken for one
\* of the content; before that (size, magic bytes) nothing catches it.
DetectionFails(u) ==
  /\ Fault(u, "io")
  /\ \/ End(u, "detecting", "INTERNAL_ERROR")
     \/ Parsed(u) /\ End(u, "detecting", "INVALID_CONTENT")
  /\ UNCHANGED <<input, job, received, files, media>>

\* storage.persist is handed to a thread.
StartPersist(u) ==
  /\ ContentError(u) = "none"
  /\ Goto(u, "detecting", "persisting")
  /\ job' = [job EXCEPT ![u] = "persist"]
  /\ NoFault
  /\ UNCHANGED <<input, received, files, media, answer>>

\* Mutant of Persisted: the job is not awaited.
PersistedUnawaited(u) ==
  /\ Goto(u, "persisting", "committing")
  /\ NoFault
  /\ UNCHANGED <<input, job, received, files, media, answer>>

\* The job is done: a session is opened, the row added, and COMMIT is sent.
Persisted(u) ==
  /\ job[u] = "moved"
  /\ Goto(u, "persisting", "committing")
  /\ job' = [job EXCEPT ![u] = "none"]
  /\ NoFault
  /\ UNCHANGED <<input, received, files, media, answer>>

PersistRaised(u) ==
  /\ job[u] = "failed"
  /\ End(u, "persisting", "INTERNAL_ERROR")
  /\ job' = [job EXCEPT ![u] = "none"]
  /\ NoFault
  /\ UNCHANGED <<input, received, files, media>>

CommitSucceeds(u) ==
  /\ End(u, "committing", "CREATED")
  /\ media' = [media EXCEPT ![u] = TRUE]
  /\ NoFault
  /\ UNCHANGED <<input, job, received, files>>

\* Mutant of StartDelete: the handler does not raise again.
StartDeleteSwallowing(u, code) ==
  /\ Goto(u, "committing", "deleting")
  /\ job' = [job EXCEPT ![u] = "delete"]
  /\ answer' = [answer EXCEPT ![u] = "CREATED"]
  /\ UNCHANGED <<input, received, files>>

\* `except BaseException` around the commit: storage.delete is handed to a thread,
\* and the exception is raised again when it is done.
StartDelete(u, code) ==
  /\ Goto(u, "committing", "deleting")
  /\ job' = [job EXCEPT ![u] = "delete"]
  /\ answer' = [answer EXCEPT ![u] = code]
  /\ UNCHANGED <<input, received, files>>

CommitFails(u) ==
  /\ Fault(u, "database")
  /\ StartDelete(u, "INTERNAL_ERROR")
  /\ UNCHANGED media

\* The row is committed, but the connection is lost before the answer.
CommitAckLost(u) ==
  /\ Fault(u, "ack")
  /\ StartDelete(u, "INTERNAL_ERROR")
  /\ media' = [media EXCEPT ![u] = TRUE]

\* Mutant of Deleted: a failed deletion is waited for for ever.
DeletedOnly(u) ==
  /\ job[u] = "removed"
  /\ End(u, "deleting", answer[u])
  /\ job' = [job EXCEPT ![u] = "none"]
  /\ NoFault
  /\ UNCHANGED <<input, received, files, media>>

Deleted(u) ==
  /\ job[u] \in {"removed", "failed"}
  /\ End(u, "deleting", answer[u])
  /\ job' = [job EXCEPT ![u] = "none"]
  /\ NoFault
  /\ UNCHANGED <<input, received, files, media>>

\* Mutant of Unlink: there is no `finally`.
UnlinkNothing(u) ==
  /\ Goto(u, "ending", "done")
  /\ NoFault
  /\ UNCHANGED <<input, job, received, files, media, answer>>

\* `finally` unlinks the temporary file, which is no error when it has been moved.
Unlink(u) ==
  /\ Goto(u, "ending", "done")
  /\ tmp' = [tmp EXCEPT ![u] = FALSE]
  /\ NoFault
  /\ UNCHANGED <<input, job, received, stored, media, answer>>

\* An error of the unlink replaces whatever the request was going to end with.
UnlinkFails(u) ==
  /\ Fault(u, "io")
  /\ Goto(u, "ending", "done")
  /\ answer' = [answer EXCEPT ![u] = "INTERNAL_ERROR"]
  /\ UNCHANGED <<input, job, received, files, media>>

-----------------------------------------------------------------------------
(* Threads.                                                                *)

\* os.replace moves the temporary file, if it is still there.
PersistRuns(u) ==
  /\ job[u] = "persist"
  /\ IF tmp[u]
       THEN /\ stored' = [stored EXCEPT ![u] = TRUE]
            /\ tmp' = [tmp EXCEPT ![u] = FALSE]
            /\ job' = [job EXCEPT ![u] = "moved"]
       ELSE /\ job' = [job EXCEPT ![u] = "failed"]
            /\ UNCHANGED files
  /\ NoFault
  /\ UNCHANGED <<input, pc, received, media, answer>>

DeleteRuns(u) ==
  /\ job[u] = "delete"
  /\ stored' = [stored EXCEPT ![u] = FALSE]
  /\ job' = [job EXCEPT ![u] = "removed"]
  /\ NoFault
  /\ UNCHANGED <<input, pc, received, tmp, media, answer>>

\* The file system refuses either of them.
JobFails(u) ==
  /\ Fault(u, "io")
  /\ job[u] \in {"persist", "delete"}
  /\ job' = [job EXCEPT ![u] = "failed"]
  /\ UNCHANGED <<input, pc, received, files, media, answer>>

-----------------------------------------------------------------------------
(* Cancellation (a shutdown that does not wait) and crashes.               *)

\* CancelledError at an await outside the handler: only `finally` runs.  A job
\* already in a thread runs on.
Cancel(u) ==
  /\ Fault(u, "cancel")
  /\ \E from \in {"streaming", "detecting", "persisting"} : End(u, from, "none")
  /\ UNCHANGED <<input, job, received, files, media>>

\* Cancelled while COMMIT is under way: the row may or may not be there.
CancelCommit(u) ==
  /\ Fault(u, "cancel")
  /\ StartDelete(u, "none")
  /\ \E committed \in BOOLEAN : media' = [media EXCEPT ![u] = committed]

\* Cancelled while the deletion waits for a thread, where it is withdrawn, or runs.
CancelDelete(u) ==
  /\ Fault(u, "cancel")
  /\ End(u, "deleting", "none")
  /\ \/ UNCHANGED job
     \/ job[u] = "delete" /\ job' = [job EXCEPT ![u] = "none"]
  /\ UNCHANGED <<input, received, files, media>>

InFlight(u) == pc[u] \notin {"idle", "done", "dead"} \/ job[u] \in {"persist", "delete"}

\* The process dies with every request and thread in it; nothing on disk is swept
\* when it starts again.
Crash ==
  /\ "crash" \in FaultKinds
  /\ faults < MaxFaults
  /\ faults' = faults + 1
  /\ \E u \in Uploads : InFlight(u)
  /\ hit' = [u \in Uploads |-> IF InFlight(u) THEN hit[u] \cup {"crash"} ELSE hit[u]]
  /\ pc' = [u \in Uploads |-> IF pc[u] \in {"idle", "done"} THEN pc[u] ELSE "dead"]
  /\ job' = [u \in Uploads |-> "none"]
  /\ UNCHANGED <<input, received, files, media, answer>>

-----------------------------------------------------------------------------
TaskStep(u) ==
  \/ ReadChunk(u)
  \/ RejectSize(u)
  \/ EndOfStream(u)
  \/ RejectContent(u)
  \/ StartPersist(u)
  \/ Persisted(u)
  \/ PersistRaised(u)
  \/ CommitSucceeds(u)
  \/ Deleted(u)
  \/ Unlink(u)

JobStep(u) ==
  \/ PersistRuns(u)
  \/ DeleteRuns(u)

FaultStep(u) ==
  \/ OpenFails(u)
  \/ StreamFails(u)
  \/ DetectionFails(u)
  \/ CommitFails(u)
  \/ CommitAckLost(u)
  \/ JobFails(u)
  \/ UnlinkFails(u)
  \/ Cancel(u)
  \/ CancelCommit(u)
  \/ CancelDelete(u)

Next ==
  \/ \E u \in Uploads :
       RejectName(u) \/ Open(u) \/ TaskStep(u) \/ JobStep(u) \/ FaultStep(u)
  \/ Crash

Spec == Init /\ [][Next]_vars

\* The event loop runs a task that can run, and the executor a job it was given;
\* clients need not send anything.
Fairness == \A u \in Uploads : WF_vars(TaskStep(u)) /\ WF_vars(JobStep(u))

FairSpec == Spec /\ Fairness

-----------------------------------------------------------------------------
(* Properties.                                                             *)

TaskPC ==
  {"idle", "streaming", "detecting", "persisting", "committing", "deleting",
   "ending", "done", "dead"}

\* Types of the variables; no more is streamed than was sent, or than the limit.
TypeOK ==
  /\ input \in [Uploads -> Inputs]
  /\ pc \in [Uploads -> TaskPC]
  /\ job \in [Uploads -> {"none", "persist", "moved", "delete", "removed", "failed"}]
  /\ received \in [Uploads -> 0 .. Limit]
  /\ \A u \in Uploads : received[u] <= input[u].length
  /\ tmp \in [Uploads -> BOOLEAN]
  /\ stored \in [Uploads -> BOOLEAN]
  /\ media \in [Uploads -> BOOLEAN]
  /\ answer \in [Uploads -> Codes \cup {"none"}]
  /\ hit \in [Uploads -> SUBSET FaultKinds]
  /\ faults \in 0 .. MaxFaults

\* The whole input judged at once, by the table of docs/API_CONTRACTS.md: whatever
\* the parser makes of corrupt bytes, they are invalid content.
Verdict(i) ==
  IF ~i.safeName THEN "INVALID_FILENAME"
  ELSE IF i.length > Limit THEN "FILE_TOO_LARGE"
  ELSE IF i.length = 0 THEN "EMPTY_FILE"
  ELSE IF i.content = "gif" THEN "UNSUPPORTED_TYPE"
  ELSE IF i.content = "image" /\ i.extension THEN "CREATED"
  ELSE "INVALID_CONTENT"

Over(u) == pc[u] \in {"done", "dead"}

\* What a request may be answered in place of the verdict: after a fault a general
\* error or nothing; after an I/O error that a good image is no image; and a general
\* error for corrupt bytes whose exception detect_image does not catch.
MayEndWith(u, code) ==
  \/ hit[u] # {} /\ code \in {"INTERNAL_ERROR", "none"}
  \/ "io" \in hit[u] /\ Verdict(input[u]) = "CREATED" /\ code = "INVALID_CONTENT"
  \/ /\ Verdict(input[u]) = "INVALID_CONTENT" /\ input[u].content = "unlisted"
     /\ code = "INTERNAL_ERROR"

\* Whatever the chunks and the order of the checks, a client is answered the verdict
\* on the whole of what it sent, but for the exceptions above: no fault makes an
\* upload a success, or blames the size or the name of the file.
AnswersAreVerdicts ==
  \A u \in Uploads :
    pc[u] = "done" => answer[u] = Verdict(input[u]) \/ MayEndWith(u, answer[u])

\* What was acknowledged is there and stays there: the row, and its file.
AcknowledgedIsDurable ==
  \A u \in Uploads :
    pc[u] = "done" /\ answer[u] = "CREATED" => media[u] /\ stored[u]

\* "No partially-uploaded file is ever treated as completed media": a row is about
\* an upload that was streamed to its end and found to be an image.
RowsAreVerified ==
  \A u \in Uploads :
    media[u] => received[u] = input[u].length /\ Verdict(input[u]) = "CREATED"

\* What an upload that is over leaves behind, by the faults that struck it: a
\* temporary file only after a crash, or when an I/O error kept it from being closed
\* or unlinked, which the client is told of; a file without a row only after a crash or a
\* cancellation, or when both the commit and the deletion failed; a row without a
\* file only when the outcome of the commit was not known.
ResidueIsAccountedFor ==
  \A u \in Uploads :
    Over(u) /\ job[u] \notin {"persist", "delete"} =>
      /\ tmp[u] => \/ "crash" \in hit[u]
                   \/ "io" \in hit[u] /\ answer[u] = "INTERNAL_ERROR"
      /\ stored[u] /\ ~media[u] =>
           hit[u] \cap {"crash", "cancel"} # {} \/ {"database", "io"} \subseteq hit[u]
      /\ media[u] /\ ~stored[u] => hit[u] \cap {"ack", "cancel"} # {}

\* A row only ever appears when its file is in storage.
PersistBeforeCommit ==
  [][\A u \in Uploads : media'[u] /\ ~media[u] => stored[u]]_vars

\* Every request that was begun comes to an end.
UploadsEnd == \A u \in Uploads : pc[u] # "idle" ~> Over(u)

\* What docs/BACKEND_IMPLEMENTATION.md says of orphans: one can remain if the
\* process dies between persist and commit, and "all handled failure paths clean
\* up".
OrphanOnlyByCrash ==
  \A u \in Uploads :
    pc[u] = "done" /\ job[u] \notin {"persist", "delete"} /\ stored[u] => media[u]

\* What docs/API_CONTRACTS.md and detect_image's docstring say of corrupt bytes:
\* without any fault, they are answered INVALID_CONTENT.
CorruptIsInvalid ==
  \A u \in Uploads :
    pc[u] = "done" /\ hit[u] = {} /\ Verdict(input[u]) = "INVALID_CONTENT" =>
      answer[u] = "INVALID_CONTENT"

=============================================================================
