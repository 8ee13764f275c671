----------------------------- MODULE ScanReads ------------------------------
(***************************************************************************)
(* A client that reads scans over the API while they are being created and *)
(* analysed: GET /scans/{id}, and GET /scans page by page.                 *)
(*                                                                         *)
(* The committed rows move as ScanLifecycle says.  Each request runs two   *)
(* SELECTs in READ COMMITTED, the scan and then its stages, or the count   *)
(* and then the page, and each SELECT sees what is committed when it runs. *)
(* A scan's created_at is the start of the transaction that inserts it, so *)
(* scans may become visible in another order than that of created_at.      *)
(***************************************************************************)
EXTENDS Naturals, FiniteSets, ScanStates

CONSTANTS
  Scans,         \* scans that may be created
  StageCount, Registered, RowsOf,   \* of ScanLifecycle
  CreationTimes, \* the functions from Scans to their created_at that may occur
  TieOrders,     \* the orders in which PostgreSQL may return rows of one created_at
  PageSizes,     \* the values of page_size
  Filters,       \* the values of the status filter, NoFilter among them
  NoScan, NoFilter

ASSUME ReadsAssumption ==
  /\ IsFiniteSet(Scans)
  /\ CreationTimes \subseteq [Scans -> Nat]
  /\ TieOrders \subseteq [Scans -> Nat]
  /\ \A tie \in TieOrders : \A r, s \in Scans : tie[r] = tie[s] => r = s
  /\ PageSizes \subseteq Nat \ {0}
  /\ NoScan \notin Scans
  /\ Filters \subseteq ScanStatus \cup {NoFilter}
  /\ NoFilter \notin ScanStatus

VARIABLES
  status, stages, error,  \* committed rows
  createdAt,              \* created_at of each scan
  at,       \* the client: "idle", "detail", "ready" for a page, "counted", "done"
  detail,   \* the scan it reads, and what the first SELECT returned
  filter, size, page,     \* the walk: its query, and the page it asks for next
  total,    \* what the count returned
  owed      \* the scans the query selected when the walk began, not seen yet

rows == <<status, stages, error>>
walk == <<filter, size, page, total, owed>>
vars == <<rows, createdAt, at, detail, walk>>

Lifecycle == INSTANCE ScanLifecycle

NoDetail == [scan |-> NoScan, status |-> "ABSENT", error |-> NoError, stages |-> <<>>]

Init ==
  /\ Lifecycle!Init
  /\ createdAt \in CreationTimes
  /\ at = "idle"
  /\ detail = NoDetail
  /\ filter = NoFilter /\ size = 1 /\ page = 1
  /\ total = 0 /\ owed = {}

\* Mutant of FinishScan: the scan is finished in a commit before that of its stages.
FinishScanFirst(s) ==
  /\ status[s] = "PROCESSING"
  /\ \E to \in TerminalStatus : status' = [status EXCEPT ![s] = to]
  /\ UNCHANGED <<stages, error>>

\* The commit of a pipeline's transaction: a finished scan and all of its stages.
FinishScan(s) ==
  /\ status[s] = "PROCESSING"
  /\ \E k \in Lifecycle!StageIndex, to \in TerminalStatus, message \in Messages,
       row \in {NoRow, Completed, Skipped} \cup {StageFailed(m) : m \in Messages} :
         /\ status' = [status EXCEPT ![s] = to]
         /\ stages' = [stages EXCEPT ![s] = [Lifecycle!PassedUpTo(s, k) EXCEPT ![k] = row]]
         /\ error' = [error EXCEPT ![s] = message]
         /\ Lifecycle!Finish(s)

\* Whoever creates, submits, claims and finishes scans.
CommitRows ==
  /\ \E s \in Scans :
       \/ Lifecycle!Create(s)
       \/ Lifecycle!Submit(s)
       \/ Lifecycle!Reject(s)
       \/ Lifecycle!Claim(s)
       \/ FinishScan(s)
  /\ UNCHANGED <<createdAt, at, detail, walk>>

-----------------------------------------------------------------------------
(* GET /scans/{id}: ScanRepository.get.                                    *)

\* The row of the scan.
ReadScan(s) ==
  /\ at \in {"idle", "done"} /\ status[s] # "ABSENT"
  /\ at' = "detail"
  /\ detail' = [scan |-> s, status |-> status[s], error |-> error[s], stages |-> <<>>]
  /\ filter' = NoFilter /\ size' = 1 /\ page' = 1
  /\ total' = 0 /\ owed' = {}
  /\ UNCHANGED <<rows, createdAt>>

\* selectinload: its stages, by a second SELECT.
ReadStages ==
  /\ at = "detail"
  /\ at' = "done"
  /\ detail' = [detail EXCEPT !.stages = stages[detail.scan]]
  /\ UNCHANGED <<rows, createdAt, walk>>

-----------------------------------------------------------------------------
(* GET /scans: ScanRepository.list, one page after the other.              *)

Listed(f) == {s \in Scans : status[s] # "ABSENT" /\ (f = NoFilter \/ status[s] = f)}

\* r comes before s under ORDER BY created_at DESC.
Before(tie, r, s) ==
  createdAt[r] > createdAt[s] \/ (createdAt[r] = createdAt[s] /\ tie[r] > tie[s])

Rank(f, tie, s) == Cardinality({r \in Listed(f) : Before(tie, r, s)})

\* Mutant of Offset: pages are counted from zero.
OffsetFromZero(p, n) == p * n

Offset(p, n) == (p - 1) * n

\* The rows that OFFSET and LIMIT leave.
Page(f, tie, p, n) ==
  {s \in Listed(f) : Rank(f, tie, s) \in Offset(p, n) .. (Offset(p, n) + n - 1)}

\* Mutant of Pages: rounded down.
PagesDown(count, n) == count \div n

\* _pagination_meta: rounded up.
Pages(count, n) == (count + n - 1) \div n

\* The client asks for the first page of a query.
StartWalk(f, n) ==
  /\ at \in {"idle", "done"}
  /\ at' = "ready"
  /\ filter' = f /\ size' = n /\ page' = 1
  /\ total' = 0 /\ owed' = Listed(f)
  /\ detail' = NoDetail
  /\ UNCHANGED <<rows, createdAt>>

CountScans ==
  /\ at = "ready"
  /\ at' = "counted"
  /\ total' = Cardinality(Listed(filter))
  /\ UNCHANGED <<rows, createdAt, detail, filter, size, page, owed>>

\* Mutant of ReadPage: an empty page does not end the listing.
ReadPageOn(tie) ==
  LET items == Page(filter, tie, page, size) IN
  /\ at = "counted"
  /\ at' = IF Cardinality(items) \in 1 .. (size - 1) THEN "done" ELSE "ready"
  /\ page' = page + 1
  /\ owed' = owed \ items
  /\ UNCHANGED <<rows, createdAt, detail, filter, size, total>>

\* The items of the page; the client goes on until a page is not full.
ReadPage(tie) ==
  LET items == Page(filter, tie, page, size) IN
  /\ at = "counted"
  /\ at' = IF Cardinality(items) < size THEN "done" ELSE "ready"
  /\ page' = page + 1
  /\ owed' = owed \ items
  /\ UNCHANGED <<rows, createdAt, detail, filter, size, total>>

Next ==
  \/ CommitRows
  \/ \E s \in Scans : ReadScan(s)
  \/ ReadStages
  \/ \E f \in Filters, n \in PageSizes : StartWalk(f, n)
  \/ CountScans
  \/ \E tie \in TieOrders : ReadPage(tie)

Spec == Init /\ [][Next]_vars

-----------------------------------------------------------------------------
(* Properties.                                                             *)

\* Types of the variables of the client.
TypeOK ==
  /\ createdAt \in CreationTimes
  /\ at \in {"idle", "detail", "ready", "counted", "done"}
  /\ detail.scan \in Scans \cup {NoScan} /\ detail.status \in ScanStatus \cup {"ABSENT"}
  /\ filter \in Filters \cup {NoFilter}
  /\ size \in PageSizes \cup {1}
  /\ page \in 1 .. (Cardinality(Scans) + 2)
  /\ total \in 0 .. Cardinality(Scans)
  /\ owed \subseteq Scans

\* What GET /scans/{id} answers was never there as a whole, for its two SELECTs may
\* fall on either side of a commit; yet it never shows a finished scan without its
\* stages: a COMPLETED or FAILED status comes with the stage rows of that outcome,
\* and an earlier status with untouched rows or those of an outcome.
DetailIsConsistent ==
  LET s == detail.scan
      Ended(message) == \/ Lifecycle!Success(s, detail.stages, message)
                        \/ Lifecycle!Failure(s, detail.stages, message)
      Untouched == detail.stages = Lifecycle!FreshStages(s) IN
  at = "done" /\ s # NoScan =>
    /\ detail.status = "COMPLETED" => Lifecycle!Success(s, detail.stages, detail.error)
    /\ detail.status = "FAILED" =>
         \/ Lifecycle!Failure(s, detail.stages, detail.error)
         \/ Untouched /\ detail.error \in {NoError, RejectedError}
    /\ detail.status \notin TerminalStatus =>
         Untouched \/ \E message \in Messages : Ended(message)

DistinctTimes == \A r, s \in Scans : createdAt[r] = createdAt[s] => r = s

\* A scan that the query selects stays selected: scans are never deleted, and only
\* from a terminal status there is no way on.
StableFilter == filter \in TerminalStatus \cup {NoFilter}

\* A client that walks until a page is not full has seen every scan its query
\* selected when it began, although scans were created and finished between the
\* pages and took their places anywhere in the list: new rows only push old ones
\* back, on to a later page.
WalkIsComplete ==
  DistinctTimes /\ StableFilter /\ at = "done" => owed = {}

\* What meta.pagination.pages promises although the count is older than the page:
\* a page before the last is full, and a client that stops at the announced last
\* page has missed no more scans than became visible since the count.
AnnouncedPagesReach ==
  DistinctTimes /\ StableFilter /\ at \in {"ready", "done"} /\ page > 1 =>
    LET last == page - 1
        pages == Pages(total, size) IN
    /\ at = "done" => last >= pages
    /\ last >= pages => Cardinality(owed) + total <= Cardinality(Listed(filter))

=============================================================================
