------------------------------ MODULE Pagination ------------------------------
(* One client walks the pages of a list ordered by (updated_at DESC, id DESC), *)
(* while rows are inserted, touched and deleted: list_snapshots and, its rows  *)
(* never touched, list_organization_events.                                  *)
(*                                                                           *)
(* A page token is the key of the last row of the page.  It says where to go   *)
(* on, not in what: there is no snapshot of the table between two pages.      *)
EXTENDS Integers, FiniteSets

CONSTANTS
  Ids,         \* ids of rows, integers so that they have an order
  PageSizes,   \* values of page_size
  MaxSkip,     \* bound: values of skip
  MaxClock     \* bound: moments

MaxTokenAge == 1  \* MAX_PAGE_TOKEN_AGE_SECONDS, in moments

ASSUME PaginationAssumption ==
  Ids \subseteq Int /\ IsFiniteSet(Ids) /\ PageSizes \subseteq Nat \ {0} /\ MaxSkip \in Nat /\ MaxClock \in Nat

VARIABLES
  updatedAt,   \* of each id, the row's updated_at; Absent when there is no row
  clock,       \* the present moment
  walk,        \* "idle", "walking" (there is a token), "ended" or "refused"
  pageToken,   \* the key in the page token, and when the token was made
  page,        \* ids of the last page
  before,      \* history: ids of the pages before it
  skipped,     \* history: rows the client asked to skip
  steady       \* history: ids whose row has been there, untouched, since the first page

pageVars == <<updatedAt, clock, walk, pageToken, page, before, skipped, steady>>

Absent == -1
NoPageToken == [at |-> Absent, id |-> 0, made |-> Absent]
Present == {i \in Ids : updatedAt[i] # Absent}

PageInit ==
  /\ updatedAt \in [Ids -> {Absent, 0}]
  /\ clock = 0
  /\ walk = "idle" /\ pageToken = NoPageToken
  /\ page = {} /\ before = {} /\ skipped = 0 /\ steady = {}

\* The OR-of-prefix predicate of paginate: row i comes after the key (at, id).
ComesAfter(at, id, i) == updatedAt[i] < at \/ (updatedAt[i] = at /\ i < id)

\* The WHERE of a request with the present token.
RowsAfter ==
  IF pageToken = NoPageToken THEN Present ELSE {i \in Present : ComesAfter(pageToken.at, pageToken.id, i)}

\* The first n rows of S in the order of the list.
FirstRows(S, n) ==
  {i \in S : Cardinality({j \in S : updatedAt[j] > updatedAt[i] \/ (updatedAt[j] = updatedAt[i] /\ j > i)}) < n}

LastRow(S) ==
  CHOOSE i \in S : \A j \in S : updatedAt[j] > updatedAt[i] \/ (updatedAt[j] = updatedAt[i] /\ j >= i)

\* Mutant: a full page is taken for the last one.
AnswerWithoutLookahead(size, skip) ==
  LET rest == RowsAfter \ FirstRows(RowsAfter, skip)
      rows == FirstRows(rest, size)
  IN /\ page' = rows
     /\ walk' = IF Cardinality(rows) > size THEN "walking" ELSE "ended"
     /\ pageToken' = IF Cardinality(rows) > size THEN [at |-> updatedAt[LastRow(rows)], id |-> LastRow(rows), made |-> clock]
                 ELSE NoPageToken

\* LIMIT page_size + 1 OFFSET skip; build_next_page_token trims the page.
Answer(size, skip) ==
  LET rest == RowsAfter \ FirstRows(RowsAfter, skip)
      fetched == FirstRows(rest, size + 1)
      rows == FirstRows(fetched, size)
      last == LastRow(rows)
  IN /\ page' = rows
     /\ IF Cardinality(fetched) > size
        THEN walk' = "walking" /\ pageToken' = [at |-> updatedAt[last], id |-> last, made |-> clock]
        ELSE walk' = "ended" /\ pageToken' = NoPageToken

FirstPage(size, skip) ==
  /\ walk = "idle"
  /\ Answer(size, skip)
  /\ before' = {} /\ skipped' = skip /\ steady' = Present
  /\ UNCHANGED <<updatedAt, clock>>

TokenExpired == clock - pageToken.made > MaxTokenAge

NextPage(size, skip) ==
  /\ walk = "walking" /\ ~TokenExpired
  /\ Answer(size, skip)
  /\ before' = before \cup page /\ skipped' = skipped + skip
  /\ UNCHANGED <<updatedAt, clock, steady>>

\* InvalidPageTokenError.
RefuseToken ==
  /\ walk = "walking" /\ TokenExpired
  /\ walk' = "refused" /\ pageToken' = NoPageToken
  /\ page' = {} /\ before' = before \cup page
  /\ UNCHANGED <<updatedAt, clock, skipped, steady>>

-----------------------------------------------------------------------------
(* What other requests and tasks do to the rows.                            *)

\* updated_at is the start of the inserting transaction, which may be long ago.
Insert(i, at) ==
  /\ updatedAt[i] = Absent /\ at <= clock /\ i \notin before \cup page \cup steady
  /\ updatedAt' = [updatedAt EXCEPT ![i] = at]
  /\ UNCHANGED <<clock, walk, pageToken, page, before, skipped, steady>>

Touch(i) ==
  /\ updatedAt[i] # Absent /\ updatedAt[i] < clock
  /\ updatedAt' = [updatedAt EXCEPT ![i] = clock]
  /\ steady' = steady \ {i}
  /\ UNCHANGED <<clock, walk, pageToken, page, before, skipped>>

Delete(i) ==
  /\ updatedAt[i] # Absent
  /\ updatedAt' = [updatedAt EXCEPT ![i] = Absent]
  /\ steady' = steady \ {i}
  /\ UNCHANGED <<clock, walk, pageToken, page, before, skipped>>

Tick ==
  /\ clock < MaxClock
  /\ clock' = clock + 1
  /\ UNCHANGED <<updatedAt, walk, pageToken, page, before, skipped, steady>>

PageNext ==
  \/ \E size \in PageSizes, skip \in 0 .. MaxSkip : FirstPage(size, skip)
  \/ \E size \in PageSizes, skip \in 0 .. MaxSkip : NextPage(size, skip)
  \/ RefuseToken
  \/ \E i \in Ids : (\E at \in 0 .. MaxClock : Insert(i, at)) \/ Touch(i) \/ Delete(i)
  \/ Tick

PageSpec == PageInit /\ [][PageNext]_pageVars

-----------------------------------------------------------------------------
(* Properties.                                                              *)

PageTypeOK ==
  /\ updatedAt \in [Ids -> -1 .. MaxClock] /\ clock \in 0 .. MaxClock
  /\ walk \in {"idle", "walking", "ended", "refused"}
  /\ pageToken = NoPageToken \/ pageToken \in [at : 0 .. MaxClock, id : Ids, made : 0 .. MaxClock]
  /\ walk = "walking" <=> pageToken # NoPageToken
  /\ page \subseteq Ids /\ before \subseteq Ids /\ steady \subseteq Present
  /\ skipped \in Nat

\* No row is on two pages of a walk, whatever is inserted, touched or deleted
\* between them, the row of the token among it.
NoRowTwice == page \cap before = {}

\* What the walk has passed: every row that was there all along and comes no later
\* than the token was on a page, but for as many as the client asked to skip; at
\* the end, with no token, that is every one of them.
SteadyRowsReturned ==
  walk \in {"walking", "ended"} =>
    LET passed == IF walk = "ended" THEN steady ELSE steady \ RowsAfter
    IN Cardinality(passed \ (page \cup before)) <= skipped

\* The pages of a walk are a partition of the rows that stayed, so far.
PageInv == PageTypeOK /\ NoRowTwice /\ SteadyRowsReturned
=============================================================================
