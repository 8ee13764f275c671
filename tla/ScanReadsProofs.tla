--------------------------- MODULE ScanReadsProofs ----------------------------
(***************************************************************************)
(* Proofs about ScanReads, for any scans, stages, creation times and page  *)
(* sizes: a walk through the pages is complete and ends, the announced     *)
(* number of pages is enough, and the detail of a scan is consistent.      *)
(***************************************************************************)
EXTENDS ScanReads, FiniteSetTheorems, TLAPS

-----------------------------------------------------------------------------
(* Positions in a list without ties.                                       *)

Newer(L, s) == {r \in L : createdAt[r] > createdAt[s]}

Position(L, s) == Cardinality(Newer(L, s))

Timed == createdAt \in [Scans -> Nat] /\ DistinctTimes

LEMMA PositionType ==
  ASSUME NEW L \in SUBSET Scans, NEW s
  PROVE  /\ IsFiniteSet(L) /\ Cardinality(L) \in Nat
         /\ IsFiniteSet(Newer(L, s)) /\ Position(L, s) \in Nat
<1>1. IsFiniteSet(L)
  BY FS_Subset, ReadsAssumption
<1>2. Newer(L, s) \in SUBSET L
  BY DEF Newer
<1>3. IsFiniteSet(Newer(L, s))
  BY <1>1, <1>2, FS_Subset
<1> QED BY <1>1, <1>3, FS_CardinalityType DEF Position

\* A newer scan comes first.
LEMMA NewerFirst ==
  ASSUME Timed, NEW L \in SUBSET Scans, NEW q \in L, NEW r \in L,
         createdAt[q] > createdAt[r]
  PROVE  Position(L, q) < Position(L, r)
<1>1. createdAt[q] \in Nat /\ createdAt[r] \in Nat /\ \A x \in L : createdAt[x] \in Nat
  BY DEF Timed
<1>2. Newer(L, q) \in SUBSET Newer(L, r) /\ q \in Newer(L, r) /\ q \notin Newer(L, q)
  BY <1>1 DEF Newer
<1>3. Position(L, q) <= Position(L, r) /\ Position(L, q) # Position(L, r)
  BY <1>2, PositionType, FS_Subset DEF Position
<1> QED BY <1>3, PositionType

LEMMA PositionBound ==
  ASSUME Timed, NEW L \in SUBSET Scans, NEW s \in L
  PROVE  Position(L, s) \in 0 .. (Cardinality(L) - 1)
<1>1. createdAt[s] \in Nat
  BY DEF Timed
<1>2. Newer(L, s) \in SUBSET L /\ s \notin Newer(L, s)
  BY <1>1 DEF Newer
<1>3. Position(L, s) <= Cardinality(L) /\ Position(L, s) # Cardinality(L)
  BY <1>2, PositionType, FS_Subset DEF Position
<1> QED BY <1>3, PositionType

\* No two scans are at one position.
LEMMA PositionsDiffer ==
  ASSUME Timed, NEW L \in SUBSET Scans, NEW q \in L, NEW r \in L,
         Position(L, q) = Position(L, r)
  PROVE  q = r
<1>1. createdAt[q] \in Nat /\ createdAt[r] \in Nat
  BY DEF Timed
<1>2. Position(L, q) \in Nat /\ ~(Position(L, q) < Position(L, r)) /\ ~(Position(L, r) < Position(L, q))
  BY PositionType
<1>3. ~(createdAt[q] > createdAt[r])
  BY <1>2, NewerFirst
<1>4. ~(createdAt[r] > createdAt[q])
  BY <1>2, NewerFirst
<1> QED BY <1>1, <1>3, <1>4 DEF Timed, DistinctTimes

\* No position is left out: as many scans as positions, and no two at the same one.
LEMMA PositionsFill ==
  ASSUME Timed, NEW L \in SUBSET Scans, NEW k \in 0 .. (Cardinality(L) - 1)
  PROVE  \E s \in L : Position(L, s) = k
<1> DEFINE N == Cardinality(L)
           f == [s \in L |-> Position(L, s)]
<1>1. IsFiniteSet(L) /\ N \in Nat
  BY PositionType
<1>2. f \in [L -> 0 .. (N - 1)]
  BY PositionBound
<1>3. ASSUME NEW q \in L, NEW r \in L, f[q] = f[r] PROVE q = r
  BY <1>3, PositionsDiffer
<1>4. f \in Injection(L, 0 .. (N - 1))
  BY <1>2, <1>3 DEF Injection, IsInjective
<1>5. IsFiniteSet(0 .. (N - 1)) /\ Cardinality(0 .. (N - 1)) = N
  BY <1>1, FS_Interval
<1>6. f \in Surjection(L, 0 .. (N - 1))
  BY <1>1, <1>4, <1>5, FS_Injection
<1> QED BY <1>6 DEF Surjection

\* A page that is not full is the end of the list.
LEMMA NotFullIsLast ==
  ASSUME Timed, NEW L \in SUBSET Scans, NEW first \in Nat, NEW n \in Nat \ {0},
         Cardinality({r \in L : Position(L, r) \in first .. (first + n - 1)}) < n
  PROVE  Cardinality(L) < first + n
<1> DEFINE Items == {r \in L : Position(L, r) \in first .. (first + n - 1)}
           f == [r \in Items |-> Position(L, r)]
<1> SUFFICES ASSUME Cardinality(L) >= first + n PROVE FALSE
  BY PositionType
<1>1. Items \in SUBSET L /\ IsFiniteSet(Items) /\ Cardinality(Items) \in Nat
  BY PositionType, FS_Subset, FS_CardinalityType
<1>2. \A k \in first .. (first + n - 1) : \E r \in Items : Position(L, r) = k
  <2> SUFFICES ASSUME NEW k \in first .. (first + n - 1)
               PROVE  \E r \in Items : Position(L, r) = k
    OBVIOUS
  <2>1. k \in 0 .. (Cardinality(L) - 1)
    BY PositionType
  <2> QED BY <2>1, PositionsFill
<1>3. f \in Surjection(Items, first .. (first + n - 1))
  BY <1>2 DEF Surjection
<1>4. Cardinality(first .. (first + n - 1)) = n
  BY FS_Interval
<1>5. Cardinality(Items) >= n
  BY <1>1, <1>3, <1>4, FS_Surjection
<1> QED BY <1>1, <1>5

\* A page with a scan behind it is full.
LEMMA FullBefore ==
  ASSUME Timed, NEW L \in SUBSET Scans, NEW first \in Nat, NEW n \in Nat \ {0},
         NEW s \in L, Position(L, s) >= first + n
  PROVE  Cardinality({r \in L : Position(L, r) \in first .. (first + n - 1)}) >= n
<1> DEFINE Items == {r \in L : Position(L, r) \in first .. (first + n - 1)}
<1>1. Items \in SUBSET L /\ Cardinality(Items) \in Nat
  BY PositionType, FS_Subset, FS_CardinalityType
<1>2. Cardinality(L) \in Nat /\ ~(Cardinality(L) < first + n)
  BY PositionBound, PositionType
<1>3. ~(Cardinality(Items) < n)
  BY <1>2, NotFullIsLast
<1> QED BY <1>1, <1>3

\* Behind the first k of a list there are no more than the rest.
LEMMA BehindFew ==
  ASSUME Timed, NEW L \in SUBSET Scans, NEW k \in Nat, NEW S \in SUBSET L,
         \A s \in S : Position(L, s) >= k
  PROVE  /\ IsFiniteSet(S) /\ Cardinality(S) \in Nat /\ Cardinality(L) \in Nat
         /\ Cardinality(L) <= k => Cardinality(S) = 0
         /\ Cardinality(L) >= k => Cardinality(S) + k <= Cardinality(L)
<1> DEFINE N == Cardinality(L)
           f == [s \in S |-> Position(L, s)]
<1>1. IsFiniteSet(L) /\ N \in Nat /\ IsFiniteSet(S) /\ Cardinality(S) \in Nat
  BY PositionType, FS_Subset, FS_CardinalityType
<1>2. f \in [S -> k .. (N - 1)]
  BY <1>1, PositionBound
<1>3. \A q, r \in S : f[q] = f[r] => q = r
  BY PositionsDiffer
<1>4. f \in Injection(S, k .. (N - 1))
  BY <1>2, <1>3 DEF Injection, IsInjective
<1> HIDE DEF N
<1>5. /\ IsFiniteSet(k .. (N - 1))
      /\ Cardinality(k .. (N - 1)) = IF k > N - 1 THEN 0 ELSE (N - 1) - k + 1
  BY <1>1, FS_Interval
<1>6. Cardinality(S) <= Cardinality(k .. (N - 1))
  BY <1>4, <1>5, FS_Injection
<1> QED BY <1>1, <1>5, <1>6 DEF N

\* PostgreSQL's order of ties does not matter when there are none.
LEMMA RankIsPosition ==
  ASSUME Timed, NEW f, NEW tie \in TieOrders, NEW s \in Scans
  PROVE  Rank(f, tie, s) = Position(Listed(f), s)
<1>1. tie[s] \in Nat /\ ~(tie[s] > tie[s])
  BY ReadsAssumption
<1>2. \A r \in Listed(f) : Before(tie, r, s) <=> createdAt[r] > createdAt[s]
  BY <1>1 DEF Listed, Before, Timed, DistinctTimes
<1> QED BY <1>2 DEF Rank, Position, Newer

-----------------------------------------------------------------------------
(* Committed rows.                                                         *)

\* What the rows of a scan say together.
RowsAgree(s) ==
  /\ status[s] \in {"ABSENT", "CREATED", "VALIDATING", "QUEUED", "PROCESSING"} =>
       stages[s] = Lifecycle!FreshStages(s) /\ error[s] = NoError
  /\ status[s] = "COMPLETED" => Lifecycle!Success(s, stages[s], error[s])
  /\ status[s] = "FAILED" =>
       \/ Lifecycle!Failure(s, stages[s], error[s])
       \/ stages[s] = Lifecycle!FreshStages(s) /\ error[s] \in {NoError, RejectedError}

RowsInv ==
  /\ status \in [Scans -> ScanStatus \cup {"ABSENT"}]
  /\ error \in [Scans -> Messages]
  /\ \E range : stages \in [Scans -> range]
  /\ \A s \in Scans : RowsAgree(s)

\* Only the way on, and none from a terminal status.
Advances(s) ==
  /\ status[s] # "ABSENT" => status'[s] # "ABSENT"
  /\ status[s] \in TerminalStatus => status'[s] = status[s] /\ error'[s] = error[s]

LEMMA RowsStep ==
  ASSUME RowsInv, CommitRows
  PROVE  RowsInv' /\ \A s \in Scans : Advances(s)
<1>0. PICK range : stages \in [Scans -> range]
  BY DEF RowsInv
<1>1. PICK s \in Scans :
        \/ Lifecycle!Create(s) \/ Lifecycle!Submit(s) \/ Lifecycle!Reject(s)
        \/ Lifecycle!Claim(s) \/ Lifecycle!Finish(s)
  BY DEF CommitRows, FinishScan
<1>2. ASSUME NEW to \in ScanStatus, status' = [status EXCEPT ![s] = to],
             status[s] \notin TerminalStatus,
             NEW message \in Messages, error' = [error EXCEPT ![s] = message],
             NEW row, stages' = [stages EXCEPT ![s] = row], RowsAgree(s)'
      PROVE  RowsInv' /\ \A r \in Scans : Advances(r)
  <2>1. stages' \in [Scans -> range \cup {row}]
    BY <1>0, <1>2
  <2>2. /\ status' \in [Scans -> ScanStatus \cup {"ABSENT"}]
        /\ error' \in [Scans -> Messages]
    BY <1>2 DEF RowsInv
  <2>3. \A r \in Scans \ {s} :
          status'[r] = status[r] /\ error'[r] = error[r] /\ stages'[r] = stages[r]
    BY <1>0, <1>2 DEF RowsInv
  <2>4. \A r \in Scans : RowsAgree(r)'
    BY <1>2, <2>3 DEF RowsInv, RowsAgree
  <2>5. \A r \in Scans : Advances(r)
    BY <1>2, <2>3 DEF RowsInv, Advances, ScanStatus
  <2> QED BY <2>1, <2>2, <2>4, <2>5 DEF RowsInv
<1>3. RowsAgree(s) /\ status[s] \in ScanStatus \cup {"ABSENT"} /\ error[s] \in Messages
  BY DEF RowsInv
<1>4. /\ stages[s] = stages[s] /\ stages = [stages EXCEPT ![s] = stages[s]]
      /\ error = [error EXCEPT ![s] = error[s]]
  BY <1>0 DEF RowsInv
<1>5. CASE Lifecycle!Create(s) \/ Lifecycle!Submit(s) \/ Lifecycle!Claim(s)
  <2>1. PICK to \in {"CREATED", "VALIDATING", "QUEUED", "PROCESSING"} :
          status' = [status EXCEPT ![s] = to]
    BY <1>5 DEF Lifecycle!Create, Lifecycle!Submit, Lifecycle!Claim
  <2>2. /\ UNCHANGED <<stages, error>>
        /\ status[s] \in {"ABSENT", "CREATED", "VALIDATING", "QUEUED"}
    BY <1>5 DEF Lifecycle!Create, Lifecycle!Submit, Lifecycle!Claim
  <2>3. RowsAgree(s)'
    BY <1>3, <2>1, <2>2 DEF RowsAgree, RowsInv
  <2> QED BY <1>2, <1>3, <1>4, <2>1, <2>2, <2>3 DEF ScanStatus, TerminalStatus
<1>6. CASE Lifecycle!Reject(s)
  <2>1. PICK m \in {NoError, RejectedError} : error' = [error EXCEPT ![s] = m]
    BY <1>6 DEF Lifecycle!Reject, Lifecycle!NoError, Lifecycle!RejectedError, NoError,
                RejectedError
  <2>2. /\ status[s] \in {"CREATED", "VALIDATING"} /\ status' = [status EXCEPT ![s] = "FAILED"]
        /\ stages' = stages
    BY <1>6 DEF Lifecycle!Reject
  <2>3. RowsAgree(s)'
    BY <1>3, <2>1, <2>2 DEF RowsAgree, RowsInv
  <2> QED BY <1>2, <1>4, <2>1, <2>2, <2>3 DEF ScanStatus, TerminalStatus, Messages
<1>7. CASE Lifecycle!Finish(s)
  <2>1. PICK to \in TerminalStatus :
          /\ status' = [status EXCEPT ![s] = to]
          /\ to = "COMPLETED" => Lifecycle!Success(s, stages'[s], error'[s])
          /\ to = "FAILED" => Lifecycle!Failure(s, stages'[s], error'[s])
    BY <1>7 DEF Lifecycle!Finish, TerminalStatus
  <2>2. /\ status[s] = "PROCESSING"
        /\ stages' = [stages EXCEPT ![s] = stages'[s]]
        /\ error' = [error EXCEPT ![s] = error'[s]]
    BY <1>7 DEF Lifecycle!Finish
  <2>3. error'[s] \in Messages
    BY <2>1 DEF Lifecycle!Success, Lifecycle!Failure, Lifecycle!FailedAt, TerminalStatus,
                Lifecycle!RowMissing, Lifecycle!NoError, Lifecycle!StageErrorMessage,
                Lifecycle!UnexpectedStage, Lifecycle!UnexpectedPipeline, Messages, NoError,
                StageErrorMessage, UnexpectedStage, UnexpectedPipeline
  <2>4. RowsAgree(s)'
    BY <2>1 DEF RowsAgree, RowsInv, TerminalStatus
  <2> QED BY <1>2, <2>1, <2>2, <2>3, <2>4 DEF ScanStatus, TerminalStatus
<1> QED BY <1>1, <1>5, <1>6, <1>7

-----------------------------------------------------------------------------
(* The client.                                                             *)

DetailTyped ==
  \E range :
    detail \in [scan: Scans \cup {NoScan}, status: ScanStatus \cup {"ABSENT"},
               error: Messages, stages: range]

\* A scan that is read: what its first SELECT returned is still true of a scan that
\* had ended.
DetailInv ==
  /\ DetailTyped
  /\ at = "detail" =>
       /\ detail.scan \in Scans
       /\ detail.status \in TerminalStatus =>
            status[detail.scan] = detail.status /\ error[detail.scan] = detail.error
       /\ status[detail.scan] # "ABSENT"
  /\ at \in {"ready", "counted"} => detail.scan = NoScan
  /\ DetailIsConsistent

\* A walk: what is owed is still ahead of the client.
WalkInv ==
  /\ createdAt \in [Scans -> Nat]
  /\ size \in Nat \ {0} /\ page \in Nat \ {0}
  /\ at \in {"idle", "detail", "ready", "counted", "done"}
  /\ DistinctTimes /\ StableFilter =>
       IF at \in {"ready", "counted"}
         THEN \A s \in owed :
                /\ s \in Listed(filter)
                /\ Position(Listed(filter), s) >= Offset(page, size)
         ELSE owed = {}

ReadsInv == RowsInv /\ DetailInv /\ WalkInv

LEMMA OffsetType ==
  ASSUME NEW p \in Nat \ {0}, NEW n \in Nat \ {0}
  PROVE  Offset(p, n) \in Nat /\ Offset(p + 1, n) = Offset(p, n) + n
BY DEF Offset

LEMMA InitReads == Init => ReadsInv
<1> SUFFICES ASSUME Init PROVE ReadsInv
  OBVIOUS
<1>1. RowsInv
  <2>1. /\ status = [s \in Scans |-> "ABSENT"] /\ error = [s \in Scans |-> NoError]
        /\ stages = [s \in Scans |-> Lifecycle!FreshStages(s)]
    BY DEF Init, Lifecycle!Init, NoError, Lifecycle!NoError
  <2>2. stages \in [Scans -> {Lifecycle!FreshStages(s) : s \in Scans}]
    BY <2>1
  <2>3. error \in [Scans -> Messages] /\ status \in [Scans -> ScanStatus \cup {"ABSENT"}]
    BY <2>1 DEF Messages
  <2>4. \A s \in Scans : RowsAgree(s)
    BY <2>1 DEF RowsAgree
  <2> QED BY <2>2, <2>3, <2>4 DEF RowsInv
<1>2. DetailInv
  <2>1. detail \in [scan: Scans \cup {NoScan}, status: ScanStatus \cup {"ABSENT"},
                   error: Messages, stages: {<<>>}]
    BY DEF Init, NoDetail, Messages
  <2> QED BY <2>1 DEF Init, DetailInv, DetailTyped, DetailIsConsistent
<1>3. WalkInv
  BY ReadsAssumption DEF Init, WalkInv
<1> QED BY <1>1, <1>2, <1>3 DEF ReadsInv

\* A list only grows, so a scan only moves back in it.
LEMMA ListGrows ==
  ASSUME WalkInv, StableFilter, UNCHANGED <<createdAt, filter>>,
         \A s \in Scans : Advances(s), NEW s \in Listed(filter)
  PROVE  /\ s \in Listed(filter)'
         /\ Position(Listed(filter), s) <= Position(Listed(filter), s)'
<1>1. Listed(filter) \in SUBSET Scans /\ Listed(filter)' \in SUBSET Scans
  BY DEF Listed
<1>2. Listed(filter) \subseteq Listed(filter)'
  BY DEF Listed, Advances, StableFilter, TerminalStatus
<1>3. Newer(Listed(filter), s) \in SUBSET Newer(Listed(filter)', s)
  BY <1>2 DEF Newer
<1>4. Position(Listed(filter), s) <= Position(Listed(filter)', s)
  BY <1>1, <1>3, PositionType, FS_Subset DEF Position
<1>5. Position(Listed(filter), s)' = Position(Listed(filter)', s)
  BY DEF Position, Newer
<1> QED BY <1>2, <1>4, <1>5

LEMMA CommitKeeps ==
  ASSUME ReadsInv, CommitRows
  PROVE  ReadsInv'
<1>1. RowsInv' /\ \A s \in Scans : Advances(s)
  BY RowsStep DEF ReadsInv
<1>2. UNCHANGED <<createdAt, at, detail, filter, size, page, total, owed>>
  BY DEF CommitRows, walk
<1>3. DetailInv'
  <2>1. DetailIsConsistent' /\ DetailTyped'
    BY <1>2 DEF ReadsInv, DetailInv, DetailIsConsistent, DetailTyped
  <2>2. ASSUME at = "detail"
        PROVE  /\ detail.status \in TerminalStatus =>
                    status'[detail.scan] = detail.status /\ error'[detail.scan] = detail.error
               /\ detail.scan \in Scans /\ status'[detail.scan] # "ABSENT"
    BY <1>1, <2>2 DEF ReadsInv, DetailInv, Advances
  <2>3. at \in {"ready", "counted"} => detail.scan = NoScan
    BY DEF ReadsInv, DetailInv
  <2> QED BY <1>2, <2>1, <2>2, <2>3 DEF DetailInv
<1>4. WalkInv'
  <2>1. ASSUME DistinctTimes, StableFilter, at \in {"ready", "counted"}, NEW s \in owed
        PROVE  /\ s \in Listed(filter)'
               /\ Position(Listed(filter), s)' >= Offset(page, size)'
    <3>1. s \in Listed(filter) /\ Position(Listed(filter), s) >= Offset(page, size)
      BY <2>1 DEF ReadsInv, WalkInv
    <3>2. /\ s \in Listed(filter)'
          /\ Position(Listed(filter), s) <= Position(Listed(filter), s)'
      BY <1>1, <1>2, <2>1, <3>1, ListGrows DEF ReadsInv
    <3>3. /\ Position(Listed(filter), s) \in Nat /\ Position(Listed(filter), s)' \in Nat
          /\ Offset(page, size) \in Int /\ Offset(page, size)' = Offset(page, size)
      <4>1. Listed(filter) \in SUBSET Scans /\ Listed(filter)' \in SUBSET Scans
        BY DEF Listed
      <4>2. Position(Listed(filter), s)' = Position(Listed(filter)', s)
        BY <1>2 DEF Position, Newer
      <4>3. Offset(page, size) \in Int
        BY OffsetType DEF ReadsInv, WalkInv
      <4> QED BY <1>2, <4>1, <4>2, <4>3, PositionType DEF Offset
    <3> QED BY <3>1, <3>2, <3>3
  <2>2. DistinctTimes' = DistinctTimes /\ StableFilter' = StableFilter
    BY <1>2 DEF DistinctTimes, StableFilter
  <2> QED BY <1>2, <2>1, <2>2 DEF ReadsInv, WalkInv
<1> QED BY <1>1, <1>3, <1>4 DEF ReadsInv

\* What the second SELECT returns fits what the first one did.
LEMMA StagesFit ==
  ASSUME ReadsInv, ReadStages
  PROVE  DetailInv'
<1> DEFINE s == detail.scan
<1>1. PICK range :
        detail \in [scan: Scans \cup {NoScan}, status: ScanStatus \cup {"ABSENT"},
                    error: Messages, stages: range]
  BY DEF ReadsInv, DetailInv, DetailTyped
<1>2. /\ s \in Scans /\ status[s] # "ABSENT" /\ RowsAgree(s)
      /\ status[s] \in ScanStatus /\ error[s] \in Messages
      /\ detail.status \in TerminalStatus => status[s] = detail.status /\ error[s] = detail.error
  BY DEF ReadsInv, DetailInv, RowsInv, ReadStages
<1>3. /\ detail' = [detail EXCEPT !.stages = stages[s]] /\ at' = "done"
      /\ detail'.scan = s /\ detail'.status = detail.status /\ detail'.error = detail.error
      /\ detail'.stages = stages[s]
  BY <1>1 DEF ReadStages
<1>4. detail' \in [scan: Scans \cup {NoScan}, status: ScanStatus \cup {"ABSENT"},
                   error: Messages, stages: range \cup {stages[s]}]
  BY <1>1, <1>3
<1>5. detail.status = "COMPLETED" => Lifecycle!Success(s, stages[s], detail.error)
  BY <1>2 DEF RowsAgree, TerminalStatus
<1>6. detail.status = "FAILED" =>
        \/ Lifecycle!Failure(s, stages[s], detail.error)
        \/ stages[s] = Lifecycle!FreshStages(s) /\ detail.error \in {NoError, RejectedError}
  BY <1>2 DEF RowsAgree, TerminalStatus
<1>7. \/ stages[s] = Lifecycle!FreshStages(s)
      \/ \E message \in Messages : \/ Lifecycle!Success(s, stages[s], message)
                                   \/ Lifecycle!Failure(s, stages[s], message)
  BY <1>2 DEF RowsAgree, ScanStatus
<1>8. DetailIsConsistent'
  BY <1>3, <1>5, <1>6, <1>7 DEF DetailIsConsistent
<1> QED BY <1>3, <1>4, <1>8 DEF DetailInv, DetailTyped

\* The items of a page are the scans at its positions, so that those that are owed
\* and not on it are behind it; and then it is full.
LEMMA PageKeeps ==
  ASSUME ReadsInv, NEW tie \in TieOrders, ReadPage(tie)
  PROVE  WalkInv'
<1> DEFINE L == Listed(filter)
           first == Offset(page, size)
           items == Page(filter, tie, page, size)
<1>1. /\ UNCHANGED <<status, createdAt, filter, size>> /\ page' = page + 1
      /\ owed' = owed \ items /\ at = "counted" /\ at' \in {"ready", "done"}
      /\ at' = "done" => Cardinality(items) < size
  BY DEF ReadPage, rows
<1>2. L \in SUBSET Scans /\ page \in Nat \ {0} /\ size \in Nat \ {0}
  BY DEF ReadsInv, WalkInv, Listed
<1>3. first \in Nat /\ Offset(page', size') = first + size
  BY <1>1, <1>2, OffsetType
<1>4. page' \in Nat \ {0}
  BY <1>1, <1>2
<1> HIDE DEF L, first, items
<1>5. ASSUME DistinctTimes, StableFilter, NEW s \in owed'
      PROVE  s \in L /\ Position(L, s) >= first + size /\ at' # "done"
  <2>1. Timed
    BY <1>5 DEF Timed, ReadsInv, WalkInv
  <2>2. s \in L /\ Position(L, s) >= first /\ s \notin items
    BY <1>1, <1>5 DEF ReadsInv, WalkInv, L, first
  <2>3. items = {r \in L : Position(L, r) \in first .. (first + size - 1)}
    BY <1>2, <2>1, RankIsPosition DEF items, Page, L, first
  <2>4. Position(L, s) >= first + size
    BY <1>2, <1>3, <2>2, <2>3, PositionType
  <2>5. Cardinality(items) >= size
    BY <1>2, <1>3, <2>1, <2>2, <2>3, <2>4, FullBefore
  <2>6. Cardinality(items) \in Nat
    BY <1>2, <2>3, PositionType, FS_Subset, FS_CardinalityType
  <2> QED BY <1>1, <1>2, <2>2, <2>4, <2>5, <2>6
<1>6. /\ DistinctTimes' = DistinctTimes /\ StableFilter' = StableFilter
      /\ Listed(filter)' = L
  BY <1>1 DEF DistinctTimes, StableFilter, Listed, L
<1>7. ASSUME NEW s PROVE Position(Listed(filter), s)' = Position(L, s)
  BY <1>1, <1>6 DEF Position, Newer
<1>8. Offset(page, size)' = first + size
  BY <1>3 DEF Offset
<1> QED BY <1>1, <1>2, <1>4, <1>5, <1>6, <1>7, <1>8 DEF ReadsInv, WalkInv

LEMMA RowsFrame ==
  ASSUME RowsInv, UNCHANGED rows
  PROVE  RowsInv'
BY DEF RowsInv, RowsAgree, rows

LEMMA ReadScanKeeps ==
  ASSUME ReadsInv, NEW s \in Scans, ReadScan(s)
  PROVE  ReadsInv'
<1>1. /\ at' = "detail" /\ owed' = {} /\ size' = 1 /\ page' = 1 /\ createdAt' = createdAt
      /\ detail' = [scan |-> s, status |-> status[s], error |-> error[s], stages |-> <<>>]
      /\ UNCHANGED rows /\ status[s] # "ABSENT"
  BY DEF ReadScan
<1>2. status[s] \in ScanStatus \cup {"ABSENT"} /\ error[s] \in Messages
  BY DEF ReadsInv, RowsInv
<1>3. detail' \in [scan: Scans \cup {NoScan}, status: ScanStatus \cup {"ABSENT"},
                   error: Messages, stages: {<<>>}]
  BY <1>1, <1>2
<1>4. DetailInv'
  BY <1>1, <1>3 DEF DetailInv, DetailTyped, DetailIsConsistent, rows
<1>5. WalkInv'
  BY <1>1 DEF ReadsInv, WalkInv
<1> QED BY <1>1, <1>4, <1>5, RowsFrame DEF ReadsInv

LEMMA ReadStagesKeeps ==
  ASSUME ReadsInv, ReadStages
  PROVE  ReadsInv'
<1>1. /\ at = "detail" /\ at' = "done" /\ UNCHANGED <<filter, size, page, owed, createdAt>>
      /\ UNCHANGED rows
  BY DEF ReadStages, walk
<1>2. WalkInv'
  BY <1>1 DEF ReadsInv, WalkInv, DistinctTimes, StableFilter
<1> QED BY <1>1, <1>2, StagesFit, RowsFrame DEF ReadsInv

LEMMA StartKeeps ==
  ASSUME ReadsInv, NEW f \in Filters, NEW n \in PageSizes, StartWalk(f, n)
  PROVE  ReadsInv'
<1>1. /\ at' = "ready" /\ filter' = f /\ size' = n /\ page' = 1 /\ owed' = Listed(f)
      /\ detail' = NoDetail /\ UNCHANGED rows /\ UNCHANGED createdAt
  BY DEF StartWalk
<1>2. detail' \in [scan: Scans \cup {NoScan}, status: ScanStatus \cup {"ABSENT"},
                   error: Messages, stages: {<<>>}]
  BY <1>1 DEF NoDetail, Messages
<1>3. DetailInv'
  BY <1>1, <1>2 DEF DetailInv, DetailTyped, DetailIsConsistent, NoDetail
<1>4. Listed(filter)' = Listed(f) /\ Listed(f) \in SUBSET Scans
  BY <1>1 DEF Listed, rows
<1>5. ASSUME NEW s PROVE Position(Listed(filter), s)' \in Nat
  <2>1. Position(Listed(filter), s)' = Position(Listed(f), s)
    BY <1>1, <1>4 DEF Position, Newer
  <2> QED BY <1>4, <2>1, PositionType
<1>6. n \in Nat \ {0} /\ Offset(page, size)' = 0
  BY <1>1, ReadsAssumption DEF Offset
<1>7. WalkInv'
  BY <1>1, <1>4, <1>5, <1>6 DEF ReadsInv, WalkInv
<1> QED BY <1>1, <1>3, <1>7, RowsFrame DEF ReadsInv

LEMMA CountKeeps ==
  ASSUME ReadsInv, CountScans
  PROVE  ReadsInv'
<1>1. /\ at = "ready" /\ at' = "counted"
      /\ UNCHANGED <<status, stages, error, createdAt, detail, filter, size, page, owed>>
  BY DEF CountScans, rows
<1>2. DetailInv'
  BY <1>1 DEF ReadsInv, DetailInv, DetailTyped, DetailIsConsistent
<1>3. WalkInv'
  BY <1>1 DEF ReadsInv, WalkInv, DistinctTimes, StableFilter, Listed, Position, Newer, Offset
<1> QED BY <1>1, <1>2, <1>3, RowsFrame DEF ReadsInv, rows

LEMMA ReadPageKeeps ==
  ASSUME ReadsInv, NEW tie \in TieOrders, ReadPage(tie)
  PROVE  ReadsInv'
<1>1. at = "counted" /\ at' \in {"ready", "done"} /\ UNCHANGED <<rows, detail>>
  BY DEF ReadPage
<1>2. DetailInv'
  BY <1>1 DEF ReadsInv, DetailInv, DetailTyped, DetailIsConsistent
<1> QED BY <1>1, <1>2, RowsFrame, PageKeeps DEF ReadsInv

LEMMA NextReads == ReadsInv /\ [Next]_vars => ReadsInv'
<1> SUFFICES ASSUME ReadsInv, [Next]_vars PROVE ReadsInv'
  OBVIOUS
<1>1. CASE UNCHANGED vars
  <2>1. UNCHANGED <<status, stages, error, createdAt, at, detail, filter, size, page, owed>>
    BY <1>1 DEF vars, rows, walk
  <2>2. DetailInv'
    BY <2>1 DEF ReadsInv, DetailInv, DetailTyped, DetailIsConsistent
  <2>3. WalkInv'
    BY <2>1 DEF ReadsInv, WalkInv, DistinctTimes, StableFilter, Listed, Position, Newer,
                Offset
  <2> QED BY <2>1, <2>2, <2>3, RowsFrame DEF ReadsInv, rows
<1> QED BY <1>1, CommitKeeps, ReadScanKeeps, ReadStagesKeeps, StartKeeps, CountKeeps,
           ReadPageKeeps DEF Next

LEMMA ReadsSafe == Spec => []ReadsInv
BY InitReads, NextReads, PTL DEF Spec

-----------------------------------------------------------------------------
(* Counting pages.                                                         *)

LEMMA Quotient ==
  ASSUME NEW a \in Nat, NEW n \in Nat \ {0}
  PROVE  /\ a \div n \in Nat
         /\ n * (a \div n) <= a /\ a < n * (a \div n) + n
<1>1. a \div n \in Int /\ a % n \in 0 .. (n - 1)
  OBVIOUS
<1>2. a = n * (a \div n) + (a % n)
  OBVIOUS
<1> QED BY <1>1, <1>2

LEMMA Times ==
  ASSUME NEW n \in Nat \ {0}, NEW p \in Nat, NEW q \in Nat
  PROVE  /\ q <= p => n * q <= n * p
         /\ q > p => n * q >= n * p + n
OBVIOUS

\* _pagination_meta: so many pages are enough for so many rows, and no fewer.
LEMMA PagesEnough ==
  ASSUME NEW t \in Nat, NEW n \in Nat \ {0}, NEW p \in Nat
  PROVE  Pages(t, n) <= p <=> t <= p * n
<1> DEFINE q == (t + n - 1) \div n
<1>1. q \in Nat /\ n * q <= t + n - 1 /\ t + n - 1 < n * q + n
  BY Quotient
<1>2. /\ q <= p => n * q <= n * p
      /\ q > p => n * q >= n * p + n
  BY <1>1, Times
<1>3. n * p = p * n /\ n * p \in Nat /\ n * q \in Nat
  BY <1>1
<1> QED BY <1>1, <1>2, <1>3 DEF Pages

\* The last count is of rows that are still listed, and a walk that has ended has asked
\* for as many pages as they take.
CountInv ==
  /\ total \in Nat
  /\ at = "detail" => page = 1
  /\ StableFilter => total <= Cardinality(Listed(filter))
  /\ DistinctTimes /\ StableFilter /\ at = "done" /\ page > 1 => total < Offset(page, size)

PagesInv == ReadsInv /\ CountInv

LEMMA ListedCount ==
  /\ Listed(filter) \in SUBSET Scans
  /\ IsFiniteSet(Listed(filter))
  /\ Cardinality(Listed(filter)) \in Nat
<1>1. Listed(filter) \in SUBSET Scans
  BY DEF Listed
<1> QED BY <1>1, PositionType

LEMMA PageCounts ==
  ASSUME PagesInv, NEW tie \in TieOrders, ReadPage(tie)
  PROVE  CountInv'
<1> DEFINE L == Listed(filter)
           first == Offset(page, size)
           items == Page(filter, tie, page, size)
<1>1. /\ UNCHANGED <<status, createdAt, filter, size, total>> /\ page' = page + 1
      /\ at' \in {"ready", "done"} /\ (at' = "done" => Cardinality(items) < size)
  BY DEF ReadPage, rows
<1>2. L \in SUBSET Scans /\ page \in Nat \ {0} /\ size \in Nat \ {0}
  BY DEF PagesInv, ReadsInv, WalkInv, Listed
<1>3. first \in Nat /\ Offset(page', size') = first + size
  BY <1>1, <1>2, OffsetType
<1>4. Listed(filter)' = L /\ DistinctTimes' = DistinctTimes /\ StableFilter' = StableFilter
  BY <1>1 DEF Listed, DistinctTimes, StableFilter
<1>5. total \in Nat /\ (StableFilter => total <= Cardinality(L)) /\ Cardinality(L) \in Nat
  BY ListedCount DEF PagesInv, CountInv
<1> HIDE DEF L, first, items
<1>6. ASSUME DistinctTimes, StableFilter, at' = "done" PROVE total < first + size
  <2>1. Timed
    BY <1>6 DEF Timed, PagesInv, ReadsInv, WalkInv
  <2>2. items = {r \in L : Position(L, r) \in first .. (first + size - 1)}
    BY <1>2, <2>1, RankIsPosition DEF items, Page, L, first
  <2>3. Cardinality(L) < first + size
    BY <1>1, <1>2, <1>3, <1>6, <2>1, <2>2, NotFullIsLast
  <2> QED BY <1>2, <1>3, <1>5, <1>6, <2>3
<1>7. Offset(page, size)' = first + size
  BY <1>3 DEF Offset
<1> QED BY <1>1, <1>4, <1>5, <1>6, <1>7 DEF CountInv

LEMMA CountStep == PagesInv /\ [Next]_vars => PagesInv'
<1> SUFFICES ASSUME PagesInv, [Next]_vars PROVE PagesInv'
  OBVIOUS
<1>1. ReadsInv'
  BY NextReads DEF PagesInv
<1>2. CASE UNCHANGED vars
  <2>1. UNCHANGED <<status, createdAt, at, filter, size, page, total>>
    BY <1>2 DEF vars, rows, walk
  <2> QED BY <1>1, <2>1 DEF PagesInv, CountInv, Listed, DistinctTimes, StableFilter, Offset
<1>3. CASE CommitRows
  <2>1. UNCHANGED <<createdAt, at, filter, size, page, total>>
    BY <1>3 DEF CommitRows, walk
  <2>2. \A s \in Scans : Advances(s)
    BY <1>3, RowsStep DEF PagesInv, ReadsInv
  <2>3. ASSUME StableFilter PROVE Cardinality(Listed(filter)) <= Cardinality(Listed(filter)')
    <3>1. Listed(filter) \in SUBSET Listed(filter)'
      BY <2>1, <2>2, <2>3 DEF Listed, Advances, StableFilter, TerminalStatus
    <3>2. Listed(filter)' \in SUBSET Scans
      BY DEF Listed
    <3>3. IsFiniteSet(Listed(filter)')
      BY <3>2, FS_Subset, ReadsAssumption
    <3> QED BY <3>1, <3>3, FS_Subset
  <2>4. Cardinality(Listed(filter)') \in Nat
    <3>1. Listed(filter)' \in SUBSET Scans
      BY DEF Listed
    <3> QED BY <3>1, FS_Subset, FS_CardinalityType, ReadsAssumption
  <2>5. DistinctTimes' = DistinctTimes /\ StableFilter' = StableFilter
        /\ Offset(page, size)' = Offset(page, size)
    BY <2>1 DEF DistinctTimes, StableFilter, Offset
  <2>6. Cardinality(Listed(filter))' = Cardinality(Listed(filter)')
    OBVIOUS
  <2> QED BY <1>1, <2>1, <2>3, <2>4, <2>5, <2>6, ListedCount DEF PagesInv, CountInv
<1>4. ASSUME NEW s \in Scans, ReadScan(s) PROVE PagesInv'
  <2>1. total' = 0 /\ page' = 1
    BY <1>4 DEF ReadScan
  <2>2. Cardinality(Listed(filter))' \in Nat
    <3>1. Listed(filter)' \in SUBSET Scans
      BY DEF Listed
    <3> QED BY <3>1, FS_Subset, FS_CardinalityType, ReadsAssumption
  <2> QED BY <1>1, <2>1, <2>2 DEF PagesInv, CountInv
<1>5. CASE ReadStages
  <2>1. UNCHANGED <<status, createdAt, filter, size, page, total>> /\ page = 1 /\ at' = "done"
    BY <1>5 DEF ReadStages, rows, walk, PagesInv, CountInv
  <2> QED BY <1>1, <2>1 DEF PagesInv, CountInv, Listed, DistinctTimes, StableFilter, Offset
<1>6. ASSUME NEW f \in Filters, NEW n \in PageSizes, StartWalk(f, n) PROVE PagesInv'
  <2>1. total' = 0 /\ page' = 1
    BY <1>6 DEF StartWalk
  <2>2. Cardinality(Listed(filter))' \in Nat
    <3>1. Listed(filter)' \in SUBSET Scans
      BY DEF Listed
    <3> QED BY <3>1, FS_Subset, FS_CardinalityType, ReadsAssumption
  <2> QED BY <1>1, <2>1, <2>2 DEF PagesInv, CountInv
<1>7. CASE CountScans
  <2>1. /\ UNCHANGED <<status, filter>> /\ at' = "counted"
        /\ total' = Cardinality(Listed(filter))
    BY <1>7 DEF CountScans, rows
  <2>2. Listed(filter)' = Listed(filter)
    BY <2>1 DEF Listed
  <2> QED BY <1>1, <2>1, <2>2, ListedCount DEF PagesInv, CountInv
<1>8. ASSUME NEW tie \in TieOrders, ReadPage(tie) PROVE PagesInv'
  BY <1>1, <1>8, PageCounts DEF PagesInv
<1> QED BY <1>2, <1>3, <1>4, <1>5, <1>6, <1>7, <1>8 DEF Next

-----------------------------------------------------------------------------
(* Theorems.                                                               *)

\* However many scans are created and finished between the pages, and whatever the
\* page size, a client that walks until a page is not full has missed none.
THEOREM WalksComplete == Spec => []WalkIsComplete
<1>1. ReadsInv => WalkIsComplete
  BY DEF ReadsInv, WalkInv, WalkIsComplete
<1> QED BY <1>1, ReadsSafe, PTL

\* The two SELECTs of a detail never put a finished status and unfinished stages
\* together.
THEOREM DetailsConsistent == Spec => []DetailIsConsistent
<1>1. ReadsInv => DetailIsConsistent
  BY DEF ReadsInv, DetailInv
<1> QED BY <1>1, ReadsSafe, PTL

\* The number of pages that a listing announces is enough, though rows are inserted
\* between its count and its pages.
THEOREM AnnouncedPagesSuffice == Spec => []AnnouncedPagesReach
<1>1. Init => PagesInv
  <2> SUFFICES ASSUME Init PROVE PagesInv
    OBVIOUS
  <2>1. total = 0 /\ page = 1
    BY DEF Init
  <2> QED BY <2>1, InitReads, ListedCount DEF PagesInv, CountInv
<1>2. PagesInv => AnnouncedPagesReach
  <2> SUFFICES ASSUME PagesInv, DistinctTimes, StableFilter, at \in {"ready", "done"}, page > 1
               PROVE  /\ at = "done" => page - 1 >= Pages(total, size)
                      /\ page - 1 >= Pages(total, size) =>
                           Cardinality(owed) + total <= Cardinality(Listed(filter))
    BY DEF AnnouncedPagesReach
  <2>1. /\ size \in Nat \ {0} /\ page \in Nat \ {0} /\ page - 1 \in Nat /\ total \in Nat
        /\ total <= Cardinality(Listed(filter)) /\ Timed
    BY DEF PagesInv, ReadsInv, WalkInv, CountInv, Timed
  <2>2. Pages(total, size) \in Nat
    BY <2>1, Quotient DEF Pages
  <2>3. /\ Pages(total, size) <= page - 1 <=> total <= Offset(page, size)
        /\ Offset(page, size) \in Nat
    BY <2>1, PagesEnough, OffsetType DEF Offset
  <2>4. at = "done" => total < Offset(page, size)
    BY DEF PagesInv, CountInv
  <2>5. /\ owed \in SUBSET Listed(filter)
        /\ \A s \in owed : Position(Listed(filter), s) >= Offset(page, size)
    BY DEF PagesInv, ReadsInv, WalkInv
  <2>6. /\ Cardinality(owed) \in Nat /\ Cardinality(Listed(filter)) \in Nat
        /\ Cardinality(Listed(filter)) <= Offset(page, size) => Cardinality(owed) = 0
        /\ Cardinality(Listed(filter)) >= Offset(page, size) =>
             Cardinality(owed) + Offset(page, size) <= Cardinality(Listed(filter))
    BY <2>1, <2>3, <2>5, ListedCount, BehindFew
  <2>7. total <= Offset(page, size) =>
          Cardinality(owed) + total <= Cardinality(Listed(filter))
    BY <2>1, <2>3, <2>6
  <2> QED BY <2>1, <2>2, <2>3, <2>4, <2>7
<1> QED BY <1>1, <1>2, CountStep, PTL DEF Spec

-----------------------------------------------------------------------------
(* Pages, whatever the ties: created_at need not be distinct here.         *)

\* Every order in which PostgreSQL may return the rows is a strict order of them.
LEMMA BeforeIsStrict ==
  ASSUME createdAt \in [Scans -> Nat], NEW tie \in TieOrders
  PROVE  /\ \A q \in Scans : ~Before(tie, q, q)
         /\ \A q, r \in Scans : q # r => Before(tie, q, r) \/ Before(tie, r, q)
         /\ \A p, q, r \in Scans : Before(tie, p, q) /\ Before(tie, q, r) => Before(tie, p, r)
<1>1. \A q \in Scans : tie[q] \in Nat /\ createdAt[q] \in Nat
  BY ReadsAssumption
<1>2. \A q, r \in Scans : tie[q] = tie[r] => q = r
  BY ReadsAssumption
<1> QED BY <1>1, <1>2 DEF Before

Ahead(L, tie, s) == {r \in L : Before(tie, r, s)}

\* A scan's place in the list: different for any two, and less than the length.
LEMMA AheadGrows ==
  ASSUME createdAt \in [Scans -> Nat], NEW tie \in TieOrders, NEW L \in SUBSET Scans,
         NEW q \in L
  PROVE  /\ IsFiniteSet(L) /\ Cardinality(L) \in Nat
         /\ IsFiniteSet(Ahead(L, tie, q)) /\ Cardinality(Ahead(L, tie, q)) \in Nat
         /\ Cardinality(Ahead(L, tie, q)) < Cardinality(L)
         /\ \A r \in L : Before(tie, q, r) =>
              Cardinality(Ahead(L, tie, q)) < Cardinality(Ahead(L, tie, r))
<1>1. IsFiniteSet(L) /\ Cardinality(L) \in Nat
  BY PositionType
<1>2. ASSUME NEW r \in L PROVE /\ Ahead(L, tie, r) \in SUBSET L
                               /\ IsFiniteSet(Ahead(L, tie, r))
                               /\ Cardinality(Ahead(L, tie, r)) \in Nat
  <2>1. Ahead(L, tie, r) \in SUBSET L
    BY DEF Ahead
  <2>2. IsFiniteSet(Ahead(L, tie, r))
    BY <1>1, <2>1, FS_Subset
  <2> QED BY <2>1, <2>2, FS_CardinalityType
<1>3. q \notin Ahead(L, tie, q)
  BY BeforeIsStrict DEF Ahead
<1>4. Cardinality(Ahead(L, tie, q)) < Cardinality(L)
  <2>1. /\ Cardinality(Ahead(L, tie, q)) <= Cardinality(L)
        /\ Cardinality(Ahead(L, tie, q)) # Cardinality(L)
    BY <1>1, <1>2, <1>3, FS_Subset
  <2> QED BY <1>1, <1>2, <2>1
<1>5. ASSUME NEW r \in L, Before(tie, q, r)
      PROVE  Cardinality(Ahead(L, tie, q)) < Cardinality(Ahead(L, tie, r))
  <2>1. Ahead(L, tie, q) \in SUBSET Ahead(L, tie, r) /\ q \in Ahead(L, tie, r)
    BY <1>5, BeforeIsStrict DEF Ahead
  <2>2. /\ Cardinality(Ahead(L, tie, q)) <= Cardinality(Ahead(L, tie, r))
        /\ Cardinality(Ahead(L, tie, q)) # Cardinality(Ahead(L, tie, r))
    BY <1>2, <1>3, <2>1, FS_Subset
  <2> QED BY <1>2, <2>2
<1> QED BY <1>1, <1>2, <1>4, <1>5

\* A page that is full lies within the list.
LEMMA FullPageFits ==
  ASSUME createdAt \in [Scans -> Nat], NEW tie \in TieOrders, NEW f,
         NEW p \in Nat \ {0}, NEW n \in Nat \ {0},
         ~(Cardinality(Page(f, tie, p, n)) < n)
  PROVE  Offset(p, n) + n <= Cardinality(Listed(f))
<1> DEFINE L == Listed(f)
           items == Page(f, tie, p, n)
           first == Offset(p, n)
           last == Cardinality(L) - 1
           places == first .. last
           rank == [s \in items |-> Rank(f, tie, s)]
<1>1. L \in SUBSET Scans /\ items \in SUBSET L
  BY DEF Listed, Page
<1>2. IsFiniteSet(L) /\ Cardinality(L) \in Nat
  BY <1>1, PositionType
<1>3. first \in Nat
  BY OffsetType
<1>4. ASSUME NEW s \in L
      PROVE  /\ Rank(f, tie, s) \in Nat /\ Rank(f, tie, s) < Cardinality(L)
             /\ \A r \in L : Before(tie, s, r) => Rank(f, tie, s) < Rank(f, tie, r)
  BY <1>1, AheadGrows DEF Rank, Ahead
<1>5. \A s \in items : Rank(f, tie, s) \in first .. (first + n - 1)
  BY DEF Page
<1>6. \A q, r \in items : Rank(f, tie, q) = Rank(f, tie, r) => q = r
  <2> SUFFICES ASSUME NEW q \in items, NEW r \in items, q # r
               PROVE  Rank(f, tie, q) # Rank(f, tie, r)
    OBVIOUS
  <2>1. Before(tie, q, r) \/ Before(tie, r, q)
    BY <1>1, BeforeIsStrict
  <2> HIDE DEF L, items
  <2>2. Rank(f, tie, q) < Rank(f, tie, r) \/ Rank(f, tie, r) < Rank(f, tie, q)
    BY <1>1, <1>4, <2>1
  <2>3. Rank(f, tie, q) \in Nat /\ Rank(f, tie, r) \in Nat
    BY <1>1, <1>4
  <2> QED BY <2>2, <2>3
<1> HIDE DEF L, items, first
<1>7. rank \in Injection(items, places)
  <2>1. \A s \in items : Rank(f, tie, s) \in places
    BY <1>1, <1>2, <1>3, <1>4, <1>5
  <2> QED BY <1>6, <2>1 DEF Injection, IsInjective
<1>8. first \in Int /\ last \in Int
  BY <1>2, <1>3
<1> HIDE DEF last, rank
<1>9. /\ IsFiniteSet(places)
      /\ Cardinality(places) = IF first > last THEN 0 ELSE last - first + 1
  BY <1>8, FS_Interval
<1> HIDE DEF places
<1>10. IsFiniteSet(items) /\ Cardinality(items) <= Cardinality(places)
  BY <1>7, <1>9, FS_Injection
<1>11. Cardinality(items) \in Nat
  BY <1>10, FS_CardinalityType
<1>12. ~(Cardinality(items) < n)
  BY DEF items
<1>13. first + n <= Cardinality(L)
  BY <1>2, <1>3, <1>9, <1>10, <1>11, <1>12 DEF last
<1> QED BY <1>13 DEF L, first

\* So many pages of at least one row each are no more than there are rows.
LEMMA NoMorePagesThanRows ==
  ASSUME NEW p \in Nat \ {0}, NEW n \in Nat \ {0}, NEW count \in Nat,
         Offset(p, n) + n <= count
  PROVE  p <= count
<1>1. Offset(p, n) + n = p * n
  BY DEF Offset
<1>2. p * n >= p
  BY Times, p * n = n * p
<1> QED BY <1>1, <1>2

\* TypeOK is not inductive: a client asks for one page more than is allowed unless
\* those it was given were full.
ClientInv ==
  /\ ReadsInv
  /\ createdAt \in CreationTimes
  /\ filter \in Filters \cup {NoFilter}
  /\ size \in PageSizes \cup {1}
  /\ page \in 1 .. (Cardinality(Scans) + 2)
  /\ at \in {"ready", "counted"} => page <= Cardinality(Scans) + 1
  /\ total \in 0 .. Cardinality(Scans)
  /\ owed \subseteq Scans

LEMMA ScansCount ==
  /\ Cardinality(Scans) \in Nat
  /\ \A f : Cardinality(Listed(f)) \in 0 .. Cardinality(Scans)
<1>1. Cardinality(Scans) \in Nat
  BY ReadsAssumption, FS_CardinalityType
<1>2. ASSUME NEW f PROVE Cardinality(Listed(f)) \in 0 .. Cardinality(Scans)
  <2>1. Listed(f) \in SUBSET Scans
    BY DEF Listed
  <2>2. Cardinality(Listed(f)) <= Cardinality(Scans) /\ Cardinality(Listed(f)) \in Nat
    BY <2>1, ReadsAssumption, FS_Subset, PositionType
  <2> QED BY <1>1, <2>2
<1> QED BY <1>1, <1>2

LEMMA ClientStep == ClientInv /\ [Next]_vars => ClientInv'
<1> SUFFICES ASSUME ClientInv, [Next]_vars PROVE ClientInv'
  OBVIOUS
<1>0. /\ ReadsInv /\ createdAt \in CreationTimes /\ createdAt' = createdAt
      /\ Cardinality(Scans) \in Nat
      /\ ReadsInv'
  BY NextReads, ScansCount
     DEF ClientInv, Next, vars, CommitRows, ReadScan, ReadStages, StartWalk, CountScans,
         ReadPage
<1>1. CASE UNCHANGED vars \/ CommitRows
  <2>1. UNCHANGED <<at, filter, size, page, total, owed>>
    BY <1>1 DEF vars, CommitRows, walk
  <2> QED BY <1>0, <2>1 DEF ClientInv
<1>2. ASSUME NEW s \in Scans, ReadScan(s) PROVE ClientInv'
  <2>1. at' = "detail" /\ filter' = NoFilter /\ size' = 1 /\ page' = 1 /\ total' = 0 /\ owed' = {}
    BY <1>2 DEF ReadScan
  <2> QED BY <1>0, <2>1 DEF ClientInv
<1>3. CASE ReadStages
  <2>1. at' = "done" /\ UNCHANGED <<filter, size, page, total, owed>>
    BY <1>3 DEF ReadStages, walk
  <2> QED BY <1>0, <2>1 DEF ClientInv
<1>4. ASSUME NEW f \in Filters, NEW n \in PageSizes, StartWalk(f, n) PROVE ClientInv'
  <2>1. /\ filter' = f /\ size' = n /\ page' = 1 /\ total' = 0 /\ owed' = Listed(f)
    BY <1>4 DEF StartWalk
  <2>2. Listed(f) \subseteq Scans
    BY DEF Listed
  <2> QED BY <1>0, <2>1, <2>2 DEF ClientInv
<1>5. CASE CountScans
  <2>1. /\ at = "ready" /\ at' = "counted" /\ UNCHANGED <<filter, size, page, owed>>
        /\ total' = Cardinality(Listed(filter))
    BY <1>5 DEF CountScans
  <2> QED BY <1>0, <2>1, ScansCount DEF ClientInv
<1>6. ASSUME NEW tie \in TieOrders, ReadPage(tie) PROVE ClientInv'
  <2>1. /\ at = "counted" /\ UNCHANGED <<filter, size, total>> /\ page' = page + 1
        /\ owed' \subseteq owed
        /\ at' = IF Cardinality(Page(filter, tie, page, size)) < size THEN "done" ELSE "ready"
    BY <1>6 DEF ReadPage
  <2>2. /\ page \in Nat \ {0} /\ size \in Nat \ {0} /\ page <= Cardinality(Scans) + 1
        /\ createdAt \in [Scans -> Nat]
    BY <2>1 DEF ClientInv, ReadsInv, WalkInv
  <2>3. ASSUME at' = "ready" PROVE page <= Cardinality(Scans)
    <3>1. Offset(page, size) + size <= Cardinality(Listed(filter))
      BY <2>1, <2>2, <2>3, FullPageFits
    <3>2. Cardinality(Listed(filter)) \in 0 .. Cardinality(Scans)
      BY ScansCount
    <3>3. page <= Cardinality(Listed(filter))
      BY <2>2, <3>1, <3>2, NoMorePagesThanRows
    <3> QED BY <1>0, <2>2, <3>2, <3>3
  <2>4. /\ page' \in 1 .. (Cardinality(Scans) + 2)
        /\ at' \in {"ready", "counted"} => page' <= Cardinality(Scans) + 1
    BY <1>0, <2>1, <2>2, <2>3
  <2> QED BY <1>0, <2>1, <2>4 DEF ClientInv
<1> QED BY <1>1, <1>2, <1>3, <1>4, <1>5, <1>6 DEF Next

\* However the rows of one created_at are ordered from page to page, a client that
\* walks until a page is not full asks for at most one page more than there are scans.
THEOREM ReadsTypeCorrect == Spec => []TypeOK
<1>1. Init => ClientInv
  BY InitReads, ScansCount DEF Init, ClientInv
<1>2. ClientInv => TypeOK
  <2> SUFFICES ASSUME ClientInv PROVE TypeOK
    OBVIOUS
  <2>1. /\ detail.scan \in Scans \cup {NoScan}
        /\ detail.status \in ScanStatus \cup {"ABSENT"}
    BY DEF ClientInv, ReadsInv, DetailInv, DetailTyped
  <2> QED BY <2>1 DEF ClientInv, ReadsInv, WalkInv, TypeOK
<1> QED BY <1>1, <1>2, ClientStep, PTL DEF Spec

=============================================================================
