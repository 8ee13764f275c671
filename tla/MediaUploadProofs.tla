-------------------------- MODULE MediaUploadProofs ---------------------------
(***************************************************************************)
(* Proofs about MediaUpload, for any inputs, limit and chunk size and for  *)
(* any number of uploads and faults.                                       *)
(*                                                                         *)
(* Uploads share nothing but a crash, so the argument is about one of them *)
(* at a time: Settled says, place by place, what is on disk and in the     *)
(* database, what its job has done and which faults must have struck it.   *)
(***************************************************************************)
EXTENDS MediaUpload, TLAPS

-----------------------------------------------------------------------------
(* The inductive invariant.                                                *)

\* Before the file is moved.
Receiving(u) ==
  /\ pc[u] = "idle" => /\ received[u] = 0 /\ job[u] = "none"
                       /\ ~tmp[u] /\ ~stored[u] /\ ~media[u]
  /\ pc[u] \in {"streaming", "detecting"} => /\ input[u].safeName /\ tmp[u]
                                            /\ job[u] = "none" /\ ~stored[u] /\ ~media[u]
  /\ pc[u] = "detecting" => received[u] = input[u].length

\* The stored file, while the task waits for its persist or has its COMMIT under way.
Publishing(u) ==
  /\ pc[u] = "persisting" =>
       /\ ~media[u]
       /\ job[u] \in {"persist", "moved", "failed"}
       /\ job[u] = "persist" => tmp[u]
       /\ job[u] = "moved" <=> stored[u]
       /\ job[u] = "moved" => ~tmp[u]
       /\ job[u] = "failed" => hit[u] # {}
  /\ pc[u] = "committing" => job[u] = "none" /\ stored[u] /\ ~media[u] /\ ~tmp[u]

\* The handler of a commit that failed, was lost, or was cancelled.
Undoing(u) ==
  pc[u] = "deleting" =>
    /\ job[u] \in {"delete", "removed", "failed"}
    /\ job[u] \in {"delete", "failed"} <=> stored[u]
    /\ job[u] = "failed" => "io" \in hit[u]
    /\ media[u] => hit[u] \cap {"ack", "cancel"} # {}
    /\ ~media[u] => hit[u] \cap {"database", "cancel"} # {}
    /\ answer[u] \in {"INTERNAL_ERROR", "none"}

\* What is left when the task is leaving or gone; a job may still run when it was
\* cancelled.
Leaving(u) ==
  /\ pc[u] \in {"ending", "done", "dead"} =>
       /\ job[u] \in {"persist", "delete"} => pc[u] # "dead" /\ "cancel" \in hit[u]
       /\ stored[u] /\ ~media[u] =>
            hit[u] \cap {"crash", "cancel"} # {} \/ {"database", "io"} \subseteq hit[u]
       /\ media[u] /\ ~stored[u] => hit[u] \cap {"ack", "cancel"} # {}
  /\ Over(u) /\ tmp[u] => \/ "crash" \in hit[u]
                          \/ "io" \in hit[u] /\ answer[u] = "INTERNAL_ERROR"
  /\ pc[u] = "dead" => "crash" \in hit[u]
  /\ pc[u] \in {"ending", "done"} =>
       /\ answer[u] = Verdict(input[u]) \/ MayEndWith(u, answer[u])
       /\ answer[u] = "CREATED" => media[u] /\ stored[u] /\ job[u] = "none"

\* From the move on, the upload is of an image that was received whole.
Verified(u) ==
  media[u] \/ pc[u] \in {"persisting", "committing", "deleting"} =>
    received[u] = input[u].length /\ Verdict(input[u]) = "CREATED"

Settled(u) ==
  Receiving(u) /\ Publishing(u) /\ Undoing(u) /\ Leaving(u) /\ Verified(u)

UploadInv ==
  /\ TypeOK
  /\ \A u \in Uploads : Settled(u)

-----------------------------------------------------------------------------
(* Judging chunk by chunk, and then the content, is judging the whole.     *)

\* What is asked for never exceeds what is left, nor the buffer.
LEMMA ChunkBounds ==
  ASSUME TypeOK, NEW u \in Uploads
  PROVE  /\ input[u] \in InputType
         /\ Chunk(u) \in Nat
         /\ received[u] + Chunk(u) <= input[u].length
         /\ Chunk(u) = 0 => received[u] = input[u].length
<1>1. input[u] \in InputType
  BY UploadAssumption DEF TypeOK
<1>2. input[u].length \in Nat
  BY <1>1 DEF InputType
<1>3. received[u] \in Nat /\ received[u] <= input[u].length /\ received[u] <= Limit
  BY UploadAssumption DEF TypeOK
<1> QED BY <1>1, <1>2, <1>3, UploadAssumption DEF Chunk

\* The size is refused only when the whole file is over the limit.
LEMMA SizeVerdict ==
  ASSUME TypeOK, NEW u \in Uploads, input[u].safeName, TooLarge(u)
  PROVE  Verdict(input[u]) = "FILE_TOO_LARGE"
<1>1. input[u].length \in Nat /\ received[u] \in Nat
  BY ChunkBounds, UploadAssumption DEF TypeOK, InputType
<1> QED BY <1>1, ChunkBounds, UploadAssumption DEF TooLarge, Verdict

\* Detection and the check of the extension answer what is left of the verdict, but
\* for corrupt bytes whose exception is not caught.
LEMMA ContentVerdict ==
  ASSUME TypeOK, NEW u \in Uploads, input[u].safeName, received[u] = input[u].length
  PROVE  /\ Verdict(input[u]) = "CREATED" <=> ContentError(u) = "none"
         /\ ContentError(u) # "none" =>
              \/ ContentError(u) = Verdict(input[u])
              \/ /\ input[u].content = "unlisted" /\ Verdict(input[u]) = "INVALID_CONTENT"
                 /\ ContentError(u) = "INTERNAL_ERROR"
         /\ Parsed(u) => Verdict(input[u]) \in {"CREATED", "INVALID_CONTENT"}
<1>1. input[u].length \in Nat /\ input[u].length <= Limit
  BY ChunkBounds, UploadAssumption DEF TypeOK, InputType
<1> QED BY <1>1, UploadAssumption DEF Verdict, ContentError, Parsed

-----------------------------------------------------------------------------
(* Types.                                                                  *)

LEMMA InitUpload == Init => UploadInv
<1> SUFFICES ASSUME Init PROVE UploadInv
  OBVIOUS
<1>1. \A u \in Uploads : input[u] \in InputType
  BY UploadAssumption DEF Init
<1>2. TypeOK
  BY <1>1, UploadAssumption DEF Init, TypeOK, TaskPC, InputType
<1>3. \A u \in Uploads : Settled(u)
  BY DEF Init, Settled, Receiving, Publishing, Undoing, Leaving, Verified, Over
<1> QED BY <1>2, <1>3 DEF UploadInv

\* Only a chunk within the limit is counted.
LEMMA ReadType ==
  ASSUME TypeOK, NEW u \in Uploads, ReadChunk(u)
  PROVE  TypeOK'
<1>1. /\ received[u] + Chunk(u) \in 0 .. Limit
      /\ received[u] + Chunk(u) <= input[u].length
  BY ChunkBounds, UploadAssumption DEF TypeOK, ReadChunk, TooLarge
<1>2. /\ received' \in [Uploads -> 0 .. Limit]
      /\ \A v \in Uploads : received'[v] <= input'[v].length
  BY <1>1 DEF TypeOK, ReadChunk
<1> QED BY <1>2 DEF TypeOK, ReadChunk, NoFault, files

LEMMA FaultTypes ==
  ASSUME TypeOK, NEW u \in Uploads, NEW kind, Fault(u, kind)
  PROVE  hit' \in [Uploads -> SUBSET FaultKinds] /\ faults' \in 0 .. MaxFaults
BY UploadAssumption DEF TypeOK, Fault

LEMMA EndTypes ==
  ASSUME TypeOK, NEW u \in Uploads, NEW from, NEW code \in Codes \cup {"none"},
         End(u, from, code)
  PROVE  /\ pc' \in [Uploads -> TaskPC]
         /\ answer' \in [Uploads -> Codes \cup {"none"}]
BY DEF TypeOK, End, Goto, TaskPC

LEMMA StepType ==
  ASSUME TypeOK, NEW u \in Uploads,
         RejectName(u) \/ Open(u) \/ TaskStep(u) \/ JobStep(u)
  PROVE  TypeOK'
<1>0. /\ \A code \in {"FILE_TOO_LARGE", "INTERNAL_ERROR", "CREATED", "INVALID_FILENAME"} :
           code \in Codes \cup {"none"}
      /\ ContentError(u) \in Codes \cup {"none"}
      /\ answer[u] \in Codes \cup {"none"}
  BY DEF TypeOK, Codes, ContentError
<1>1. CASE RejectName(u) \/ Open(u)
  BY <1>0, <1>1 DEF TypeOK, RejectName, Open, Goto, NoFault, files, TaskPC
<1>2. CASE ReadChunk(u)
  BY <1>2, ReadType
<1>3. CASE RejectSize(u)
  BY <1>0, <1>3, EndTypes DEF TypeOK, RejectSize, NoFault, files
<1>4. CASE RejectContent(u)
  BY <1>0, <1>4, EndTypes DEF TypeOK, RejectContent, NoFault, files
<1>5. CASE EndOfStream(u) \/ StartPersist(u) \/ Persisted(u)
  BY <1>5 DEF TypeOK, EndOfStream, StartPersist, Persisted, Goto, NoFault, files, TaskPC
<1>6. CASE PersistRaised(u)
  BY <1>0, <1>6, EndTypes DEF TypeOK, PersistRaised, NoFault, files
<1>7. CASE CommitSucceeds(u)
  BY <1>0, <1>7, EndTypes DEF TypeOK, CommitSucceeds, NoFault, files
<1>8. CASE Deleted(u)
  BY <1>0, <1>8, EndTypes DEF TypeOK, Deleted, NoFault, files
<1>9. CASE JobStep(u)
  BY <1>9 DEF TypeOK, JobStep, PersistRuns, DeleteRuns, NoFault, files
<1>10. CASE Unlink(u)
  BY <1>10 DEF TypeOK, Unlink, Goto, NoFault, TaskPC
<1> QED BY <1>1, <1>2, <1>3, <1>4, <1>5, <1>6, <1>7, <1>8, <1>9, <1>10 DEF TaskStep

LEMMA FaultType ==
  ASSUME TypeOK, NEW u \in Uploads, FaultStep(u)
  PROVE  TypeOK'
<1>0. {"INTERNAL_ERROR", "INVALID_CONTENT", "none"} \subseteq Codes \cup {"none"}
  BY DEF Codes
<1>1. CASE StreamFails(u) \/ DetectionFails(u)
  <2>1. hit' \in [Uploads -> SUBSET FaultKinds] /\ faults' \in 0 .. MaxFaults
    BY <1>1, FaultTypes DEF StreamFails, DetectionFails
  <2>2. pc' \in [Uploads -> TaskPC] /\ answer' \in [Uploads -> Codes \cup {"none"}]
    BY <1>0, <1>1, EndTypes DEF StreamFails, DetectionFails
  <2> QED BY <1>1, <2>1, <2>2 DEF TypeOK, StreamFails, DetectionFails, files
<1>2. CASE CommitFails(u) \/ CommitAckLost(u) \/ CancelCommit(u)
  <2>1. /\ pc' \in [Uploads -> TaskPC]
        /\ job' \in [Uploads -> {"none", "persist", "moved", "delete", "removed", "failed"}]
        /\ answer' \in [Uploads -> Codes \cup {"none"}]
        /\ UNCHANGED <<input, received, tmp, stored>>
    BY <1>0, <1>2 DEF TypeOK, CommitFails, CommitAckLost, CancelCommit, StartDelete, Goto,
                      TaskPC, files
  <2>2. media' \in [Uploads -> BOOLEAN]
    BY <1>2 DEF TypeOK, CommitFails, CommitAckLost, CancelCommit
  <2>3. hit' \in [Uploads -> SUBSET FaultKinds] /\ faults' \in 0 .. MaxFaults
    BY <1>2, FaultTypes DEF CommitFails, CommitAckLost, CancelCommit
  <2> QED BY <2>1, <2>2, <2>3 DEF TypeOK
<1>3. CASE JobFails(u)
  BY <1>3, FaultTypes DEF TypeOK, JobFails, files
<1>4. CASE Cancel(u)
  BY <1>0, <1>4, EndTypes, FaultTypes DEF TypeOK, Cancel, files
<1>5. CASE CancelDelete(u)
  BY <1>0, <1>5, EndTypes, FaultTypes DEF TypeOK, CancelDelete, files
<1>6. CASE OpenFails(u) \/ UnlinkFails(u)
  <2>1. hit' \in [Uploads -> SUBSET FaultKinds] /\ faults' \in 0 .. MaxFaults
    BY <1>6, FaultTypes DEF OpenFails, UnlinkFails
  <2>2. /\ pc' \in [Uploads -> TaskPC] /\ answer' \in [Uploads -> Codes \cup {"none"}]
        /\ tmp' \in [Uploads -> BOOLEAN]
    BY <1>0, <1>6 DEF TypeOK, OpenFails, UnlinkFails, Goto, TaskPC, files
  <2> QED BY <1>6, <2>1, <2>2 DEF TypeOK, OpenFails, UnlinkFails, files
<1> QED BY <1>1, <1>2, <1>3, <1>4, <1>5, <1>6 DEF FaultStep

LEMMA CrashType ==
  ASSUME TypeOK, Crash
  PROVE  TypeOK'
<1>1. hit' \in [Uploads -> SUBSET FaultKinds] /\ faults' \in 0 .. MaxFaults
  BY UploadAssumption DEF TypeOK, Crash
<1>2. /\ pc' \in [Uploads -> TaskPC]
      /\ job' \in [Uploads -> {"none", "persist", "moved", "delete", "removed", "failed"}]
  BY DEF TypeOK, Crash, TaskPC
<1> QED BY <1>1, <1>2 DEF TypeOK, Crash, files
-----------------------------------------------------------------------------
(* Steps keep the invariant.                                               *)

LEMMA Frame ==
  ASSUME NEW v \in Uploads, Settled(v),
         input'[v] = input[v], pc'[v] = pc[v], job'[v] = job[v],
         received'[v] = received[v], tmp'[v] = tmp[v], stored'[v] = stored[v],
         media'[v] = media[v], answer'[v] = answer[v], hit'[v] = hit[v]
  PROVE  Settled(v)'
BY DEF Settled, Receiving, Publishing, Undoing, Leaving, Verified, Over, MayEndWith

\* Every step but a crash touches one upload only.
LEMMA OthersKeep ==
  ASSUME TypeOK, NEW u \in Uploads,
         RejectName(u) \/ Open(u) \/ TaskStep(u) \/ JobStep(u) \/ FaultStep(u)
  PROVE  /\ input' = input
         /\ \A v \in Uploads \ {u} :
              /\ pc'[v] = pc[v] /\ job'[v] = job[v]
              /\ received'[v] = received[v] /\ tmp'[v] = tmp[v] /\ stored'[v] = stored[v]
              /\ media'[v] = media[v] /\ answer'[v] = answer[v] /\ hit'[v] = hit[v]
<1>1. CASE RejectName(u) \/ Open(u) \/ JobStep(u)
  BY <1>1 DEF TypeOK, RejectName, Open, JobStep, PersistRuns, DeleteRuns, Goto, NoFault, files
<1>2. CASE TaskStep(u)
  BY <1>2 DEF TypeOK, TaskStep, ReadChunk, RejectSize, EndOfStream, RejectContent,
              StartPersist, Persisted, PersistRaised, CommitSucceeds, Deleted, Unlink, Goto,
              End, NoFault, files
<1>3. CASE FaultStep(u)
  BY <1>3 DEF TypeOK, FaultStep, OpenFails, StreamFails, DetectionFails, CommitFails,
              CommitAckLost, JobFails, UnlinkFails, Cancel, CancelCommit, CancelDelete,
              StartDelete, Goto, End, Fault, files
<1> QED BY <1>1, <1>2, <1>3

\* Up to the hand-over to storage.
LEMMA ReceiveSettles ==
  ASSUME UploadInv, NEW u \in Uploads,
         \/ RejectName(u) \/ Open(u) \/ ReadChunk(u) \/ RejectSize(u) \/ EndOfStream(u)
         \/ RejectContent(u) \/ StartPersist(u)
  PROVE  Settled(u)'
<1> USE DEF UploadInv, Settled, Receiving, Publishing, Undoing, Leaving, Verified, Over
<1>0. TypeOK /\ Settled(u)
  BY DEF UploadInv
<1>1. CASE RejectName(u)
  BY <1>0, <1>1 DEF TypeOK, RejectName, Goto, NoFault, files, Verdict
<1>2. CASE Open(u)
  BY <1>0, <1>2 DEF TypeOK, Open, Goto, NoFault
<1>3. CASE ReadChunk(u)
  BY <1>0, <1>3 DEF TypeOK, ReadChunk, NoFault, files
<1>4. CASE RejectSize(u)
  <2>1. pc[u] = "streaming" /\ input[u].safeName
    BY <1>0, <1>4 DEF RejectSize, End, Goto
  <2>2. Verdict(input[u]) = "FILE_TOO_LARGE"
    BY <1>0, <1>4, <2>1, SizeVerdict DEF RejectSize
  <2> QED BY <1>0, <1>4, <2>1, <2>2 DEF TypeOK, RejectSize, End, Goto, NoFault, files
<1>5. CASE EndOfStream(u)
  BY <1>0, <1>5, ChunkBounds DEF TypeOK, EndOfStream, Goto, NoFault, files
<1>6. CASE RejectContent(u)
  <2>1. /\ ContentError(u) # "CREATED"
        /\ ContentError(u) = Verdict(input[u]) \/ MayEndWith(u, ContentError(u))
    BY <1>0, <1>6, ContentVerdict DEF RejectContent, End, Goto, ContentError, MayEndWith
  <2>2. /\ pc[u] = "detecting" /\ pc'[u] = "ending" /\ answer'[u] = ContentError(u)
        /\ UNCHANGED <<input, job, received, tmp, stored, media, hit>>
    BY <1>0, <1>6 DEF TypeOK, RejectContent, End, Goto, NoFault, files
  <2>3. MayEndWith(u, ContentError(u)) => MayEndWith(u, answer[u])'
    BY <2>2 DEF MayEndWith
  <2> QED BY <1>0, <2>1, <2>2, <2>3
<1>7. CASE StartPersist(u)
  <2>1. Verdict(input[u]) = "CREATED"
    BY <1>0, <1>7, ContentVerdict DEF StartPersist, Goto
  <2> QED BY <1>0, <1>7, <2>1 DEF TypeOK, StartPersist, Goto, NoFault, files
<1> QED BY <1>1, <1>2, <1>3, <1>4, <1>5, <1>6, <1>7

\* From the hand-over on.
LEMMA PublishSettles ==
  ASSUME UploadInv, NEW u \in Uploads,
         \/ Persisted(u) \/ PersistRaised(u) \/ CommitSucceeds(u) \/ Deleted(u)
         \/ Unlink(u) \/ PersistRuns(u) \/ DeleteRuns(u)
  PROVE  Settled(u)'
<1> USE DEF UploadInv, Settled, Receiving, Publishing, Undoing, Leaving, Verified, Over
<1>0. TypeOK /\ Settled(u)
  BY DEF UploadInv
<1>1. CASE Persisted(u)
  BY <1>0, <1>1 DEF TypeOK, Persisted, Goto, NoFault, files
<1>2. CASE PersistRaised(u)
  BY <1>0, <1>2 DEF TypeOK, PersistRaised, End, Goto, NoFault, files, MayEndWith
<1>3. CASE CommitSucceeds(u)
  BY <1>0, <1>3 DEF TypeOK, CommitSucceeds, End, Goto, NoFault, files
<1>4. CASE Deleted(u)
  <2>1. /\ pc[u] = "deleting" /\ pc'[u] = "ending" /\ job'[u] = "none"
        /\ answer'[u] = answer[u] /\ hit'[u] = hit[u]
        /\ UNCHANGED <<input, received, stored, media>>
    BY <1>0, <1>4 DEF TypeOK, Deleted, End, Goto, NoFault, files
  <2>2. job[u] \in {"removed", "failed"}
    BY <1>4 DEF Deleted
  <2>3. hit[u] # {}
    <3>1. hit[u] \cap {"ack", "cancel"} # {} \/ hit[u] \cap {"database", "cancel"} # {}
      BY <1>0, <2>1
    <3> QED BY <3>1
  <2>4. stored[u] /\ ~media[u] => "cancel" \in hit[u] \/ {"database", "io"} \subseteq hit[u]
    BY <1>0, <2>1, <2>2
  <2> QED BY <1>0, <2>1, <2>3, <2>4 DEF MayEndWith
<1>5. CASE PersistRuns(u)
  BY <1>0, <1>5 DEF TypeOK, PersistRuns, NoFault, files, MayEndWith
<1>6. CASE DeleteRuns(u)
  BY <1>0, <1>6 DEF TypeOK, DeleteRuns, NoFault, MayEndWith
<1>7. CASE Unlink(u)
  BY <1>0, <1>7 DEF TypeOK, Unlink, Goto, NoFault, MayEndWith
<1> QED BY <1>1, <1>2, <1>3, <1>4, <1>5, <1>6, <1>7

\* What a fault does to the upload it strikes: its kind is remembered, and the task
\* is about to end, or starts to undo, or does not notice.
LEMMA FaultEffects ==
  ASSUME TypeOK, NEW u \in Uploads
  PROVE  /\ \A kind : Fault(u, kind) => kind \in FaultKinds /\ hit'[u] = hit[u] \cup {kind}
         /\ \A from, code : End(u, from, code) =>
              pc[u] = from /\ pc'[u] = "ending" /\ answer'[u] = code
         /\ \A code : StartDelete(u, code) =>
              /\ pc[u] = "committing" /\ pc'[u] = "deleting" /\ job'[u] = "delete"
              /\ answer'[u] = code /\ UNCHANGED <<input, received, tmp, stored>>
BY DEF TypeOK, Fault, End, StartDelete, Goto, files

LEMMA FaultSettles ==
  ASSUME UploadInv, NEW u \in Uploads, FaultStep(u)
  PROVE  Settled(u)'
<1>0. TypeOK /\ Settled(u)
  BY DEF UploadInv
<1> USE DEF Settled, Receiving, Publishing, Undoing, Leaving, Verified, Over, MayEndWith
<1>1. CASE StreamFails(u) \/ DetectionFails(u)
  <2>1. /\ pc[u] \in {"streaming", "detecting"} /\ pc'[u] = "ending"
        /\ hit'[u] = hit[u] \cup {"io"}
        /\ UNCHANGED <<input, job, received, tmp, stored, media>>
    BY <1>0, <1>1, FaultEffects DEF StreamFails, DetectionFails, files
  <2>2. \/ answer'[u] = "INTERNAL_ERROR"
        \/ /\ answer'[u] = "INVALID_CONTENT"
           /\ Verdict(input[u]) \in {"CREATED", "INVALID_CONTENT"}
    <3>1. CASE StreamFails(u)
      BY <1>0, <3>1, FaultEffects DEF StreamFails
    <3>2. CASE DetectionFails(u)
      BY <1>0, <3>2, FaultEffects, ContentVerdict DEF DetectionFails
    <3> QED BY <1>1, <3>1, <3>2
  <2> QED BY <1>0, <2>1, <2>2
<1>2. CASE CommitFails(u) \/ CommitAckLost(u) \/ CancelCommit(u)
  <2>1. /\ pc[u] = "committing" /\ pc'[u] = "deleting" /\ job'[u] = "delete"
        /\ UNCHANGED <<input, received, tmp, stored>>
        /\ answer'[u] \in {"INTERNAL_ERROR", "none"}
    BY <1>0, <1>2, FaultEffects DEF CommitFails, CommitAckLost, CancelCommit
  <2>2. /\ hit[u] \subseteq hit'[u]
        /\ \/ "database" \in hit'[u] /\ media'[u] = media[u]
           \/ "ack" \in hit'[u] /\ media'[u]
           \/ "cancel" \in hit'[u] /\ media'[u] \in BOOLEAN
    BY <1>0, <1>2, FaultEffects DEF TypeOK, CommitFails, CommitAckLost, CancelCommit
  <2>3. /\ media'[u] => hit'[u] \cap {"ack", "cancel"} # {}
        /\ ~media'[u] => hit'[u] \cap {"database", "cancel"} # {}
    <3>1. ~media[u]
      BY <1>0, <2>1 DEF TypeOK
    <3> QED BY <2>2, <3>1
  <2> QED BY <1>0, <2>1, <2>3
<1>4. CASE JobFails(u)
  <2>1. /\ \/ job[u] = "persist" /\ job'[u] = "failed"
           \/ job[u] = "delete" /\ job'[u] = "failed"
        /\ hit'[u] = hit[u] \cup {"io"}
        /\ UNCHANGED <<input, pc, received, tmp, stored, media, answer>>
    BY <1>0, <1>4, FaultEffects DEF TypeOK, JobFails, files
  <2> QED BY <1>0, <2>1
<1>5. CASE Cancel(u)
  <2>1. /\ pc[u] \in {"streaming", "detecting", "persisting"} /\ pc'[u] = "ending"
        /\ answer'[u] = "none" /\ hit'[u] = hit[u] \cup {"cancel"}
        /\ UNCHANGED <<input, job, received, tmp, stored, media>>
    BY <1>0, <1>5, FaultEffects DEF Cancel, files
  <2> QED BY <1>0, <2>1
<1>7. CASE CancelDelete(u)
  <2>1. /\ pc[u] = "deleting" /\ pc'[u] = "ending"
        /\ answer'[u] = "none" /\ hit'[u] = hit[u] \cup {"cancel"}
        /\ UNCHANGED <<input, received, tmp, stored, media>>
    BY <1>0, <1>7, FaultEffects DEF CancelDelete, files
  <2>2. job'[u] = job[u] \/ job'[u] = "none"
    BY <1>0, <1>7 DEF TypeOK, CancelDelete
  <2> QED BY <1>0, <2>1, <2>2
<1>8. CASE OpenFails(u)
  <2>1. /\ pc[u] = "idle" /\ pc'[u] = "done" /\ answer'[u] = "INTERNAL_ERROR"
        /\ hit'[u] = hit[u] \cup {"io"}
        /\ UNCHANGED <<input, job, received, stored, media>>
    BY <1>0, <1>8, FaultEffects DEF TypeOK, OpenFails, Goto
  <2> QED BY <1>0, <2>1
<1>9. CASE UnlinkFails(u)
  <2>1. /\ pc[u] = "ending" /\ pc'[u] = "done" /\ answer'[u] = "INTERNAL_ERROR"
        /\ hit'[u] = hit[u] \cup {"io"}
        /\ UNCHANGED <<input, job, received, tmp, stored, media>>
    BY <1>0, <1>9, FaultEffects DEF TypeOK, UnlinkFails, Goto, files
  <2> QED BY <1>0, <2>1
<1> QED BY <1>1, <1>2, <1>4, <1>5, <1>7, <1>8, <1>9 DEF FaultStep

LEMMA CrashSettles ==
  ASSUME UploadInv, Crash, NEW u \in Uploads
  PROVE  Settled(u)'
<1> USE DEF UploadInv, Settled, Receiving, Publishing, Undoing, Leaving, Verified, Over,
            MayEndWith
<1>0. TypeOK /\ Settled(u)
  BY DEF UploadInv
<1>1. CASE pc[u] = "idle"
  BY <1>0, <1>1 DEF TypeOK, Crash, InFlight, files
<1>2. CASE pc[u] = "done"
  BY <1>0, <1>2 DEF TypeOK, Crash, InFlight, files
<1>3. CASE pc[u] = "dead"
  BY <1>0, <1>3 DEF TypeOK, Crash, InFlight, files
<1>4. CASE pc[u] \notin {"idle", "done", "dead"}
  <2>1. /\ pc'[u] = "dead" /\ job'[u] = "none" /\ "crash" \in hit'[u]
        /\ hit[u] \subseteq hit'[u]
        /\ UNCHANGED <<input, received, tmp, stored, media, answer>>
    BY <1>0, <1>4 DEF TypeOK, Crash, InFlight, files
  <2>2. media[u] /\ ~stored[u] => hit[u] \cap {"ack", "cancel"} # {}
    BY <1>0, <1>4 DEF TypeOK, TaskPC
  <2>3. Leaving(u)'
    <3>1. hit'[u] \cap {"crash", "cancel"} # {}
      BY <2>1
    <3>2. media'[u] /\ ~stored'[u] => hit'[u] \cap {"ack", "cancel"} # {}
      BY <2>1, <2>2
    <3> QED BY <2>1, <3>1, <3>2
  <2>4. Receiving(u)' /\ Publishing(u)' /\ Undoing(u)'
    BY <2>1
  <2>5. Verified(u)'
    BY <1>0, <2>1
  <2> QED BY <2>3, <2>4, <2>5
<1> QED BY <1>1, <1>2, <1>3, <1>4

LEMMA NextKeeps == UploadInv /\ [Next]_vars => UploadInv'
<1> SUFFICES ASSUME UploadInv, [Next]_vars PROVE UploadInv'
  OBVIOUS
<1>0. TypeOK /\ \A u \in Uploads : Settled(u)
  BY DEF UploadInv
<1>1. ASSUME NEW u \in Uploads,
             RejectName(u) \/ Open(u) \/ TaskStep(u) \/ JobStep(u) \/ FaultStep(u)
      PROVE  UploadInv'
  <2>1. TypeOK'
    BY <1>0, <1>1, StepType, FaultType
  <2>2. Settled(u)'
    BY <1>1, ReceiveSettles, PublishSettles, FaultSettles DEF TaskStep, JobStep
  <2>3. \A v \in Uploads \ {u} : Settled(v)'
    BY <1>0, <1>1, OthersKeep, Frame
  <2> QED BY <2>1, <2>2, <2>3 DEF UploadInv
<1>2. CASE Crash
  BY <1>0, <1>2, CrashType, CrashSettles DEF UploadInv
<1>3. CASE UNCHANGED vars
  <2>1. TypeOK'
    BY <1>0, <1>3 DEF vars, TypeOK
  <2>2. \A u \in Uploads : Settled(u)'
    BY <1>0, <1>3, Frame DEF vars
  <2> QED BY <2>1, <2>2 DEF UploadInv
<1> QED BY <1>1, <1>2, <1>3 DEF Next

LEMMA UploadSafe == Spec => []UploadInv
BY InitUpload, NextKeeps, PTL DEF Spec

-----------------------------------------------------------------------------
(* Theorems.                                                               *)

\* Every variable keeps its type, and no more is counted than was sent or than the
\* limit.
THEOREM UploadTypeCorrect == Spec => []TypeOK
<1>1. UploadInv => TypeOK
  BY DEF UploadInv
<1> QED BY <1>1, UploadSafe, PTL

\* However the stream is cut into chunks, a request that ends is answered the verdict of
\* the API's table on the whole of what was sent, but for what MayEndWith lists: no
\* fault makes it a success, or blames the name or the size.
THEOREM AnswersSound == Spec => []AnswersAreVerdicts
<1>1. UploadInv => AnswersAreVerdicts
  BY DEF UploadInv, Settled, Leaving, AnswersAreVerdicts
<1> QED BY <1>1, UploadSafe, PTL

\* No fault takes the row or the file of an acknowledged upload away.
THEOREM AcknowledgedStays == Spec => []AcknowledgedIsDurable
<1>1. UploadInv => AcknowledgedIsDurable
  BY DEF UploadInv, Settled, Leaving, AcknowledgedIsDurable
<1> QED BY <1>1, UploadSafe, PTL

\* A row is only about a file that was received whole and found to be an image.
THEOREM RowsSound == Spec => []RowsAreVerified
<1>1. UploadInv => RowsAreVerified
  BY DEF UploadInv, Settled, Verified, RowsAreVerified
<1> QED BY <1>1, UploadSafe, PTL

\* Whatever an upload that is over leaves behind is explained by the faults that
\* struck it.
THEOREM ResidueBounded == Spec => []ResidueIsAccountedFor
<1>1. UploadInv => ResidueIsAccountedFor
  BY DEF UploadInv, Settled, Leaving, Over, ResidueIsAccountedFor
<1> QED BY <1>1, UploadSafe, PTL

\* A step that makes a row visible finds its file in storage.
THEOREM FileBeforeRow == Spec => PersistBeforeCommit
<1>1. UploadInv /\ [Next]_vars => [\A u \in Uploads : media'[u] /\ ~media[u] => stored[u]]_vars
  <2> SUFFICES ASSUME UploadInv, Next, NEW u \in Uploads, media'[u], ~media[u]
               PROVE  stored[u]
    OBVIOUS
  <2>0. TypeOK /\ Settled(u)
    BY DEF UploadInv
  <2>1. ~Crash
    BY <2>0 DEF Crash
  <2>2. PICK v \in Uploads :
          RejectName(v) \/ Open(v) \/ TaskStep(v) \/ JobStep(v) \/ FaultStep(v)
    BY <2>1 DEF Next
  <2>3. v = u
    BY <2>0, <2>2, OthersKeep
  <2>4. pc[u] = "committing"
    BY <2>0, <2>2, <2>3
       DEF RejectName, Open, TaskStep, JobStep, FaultStep, ReadChunk, RejectSize, EndOfStream,
           RejectContent, StartPersist, Persisted, PersistRaised, CommitSucceeds, Deleted,
           Unlink, PersistRuns, DeleteRuns, OpenFails, StreamFails, DetectionFails,
           CommitFails, CommitAckLost, JobFails, UnlinkFails, Cancel, CancelCommit,
           CancelDelete, StartDelete, End, Goto
  <2> QED BY <2>0, <2>4 DEF Settled, Publishing
<1> QED BY <1>1, UploadSafe, PTL DEF Spec, PersistBeforeCommit

=============================================================================
