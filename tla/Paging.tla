------------------------------- MODULE Paging -------------------------------
(***************************************************************************)
(* Offset pagination: findPaginated of BaseRepository, whose two reads     *)
(* Promise.all leaves unsynchronised, and a client that walks the pages as *)
(* long as it is told of a next one, while other requests insert and       *)
(* delete rows.  Rows are listed in the order of ListUsersQuery, newest    *)
(* first.                                                                  *)
(***************************************************************************)
EXTENDS Naturals, SequencesExt

CONSTANTS
    Row,            \* rows that can be
    Already,        \* those the table starts with, newest first, each once (id)
    Asked,          \* limits a client may ask for
    MaxLimit        \* MAX_LIMIT: 100

ASSUME PagingAssumption ==
    /\ Already \in Seq(Row) /\ IsInjective(Already)
    /\ Asked \subseteq Nat
    /\ MaxLimit \in Nat \ {0}

VARIABLES
    limit,
    table,          \* rows, newest first
    unused,         \* rows that have not been inserted yet
    page,           \* the page the client has asked for, 0 when it has stopped
    read,           \* the reads of that page that have been answered
    total,          \* what count() has answered
    seen,           \* how often the client was given each row
    changes         \* history: what happened to the table during the walk

pagingVars == <<limit, table, unused, page, read, total, seen, changes>>

PagingTypeOK ==
    /\ limit \in 1..MaxLimit
    /\ table \in Seq(Row)
    /\ unused \subseteq Row
    /\ page \in Nat
    /\ read \subseteq {"items", "count"}
    /\ total \in Nat
    /\ seen \in [Row -> Nat]
    /\ changes \subseteq {"insert", "delete", "torn"}

\* normalizeOffsetPagination()
Normalized(asked) ==
    IF asked < 1 THEN 1 ELSE IF asked > MaxLimit THEN MaxLimit ELSE asked

PagingInit ==
    /\ \E asked \in Asked : limit = Normalized(asked)
    /\ table = Already
    /\ unused = Row \ ToSet(Already)
    /\ page = 1
    /\ read = {}
    /\ total = 0
    /\ seen = [r \in Row |-> 0]
    /\ changes = {}

\* Mutant: the page is counted from zero.
PageOfZeroBased(rows) ==
    LET skip == page * limit
    IN {rows[i] : i \in {j \in DOMAIN rows : skip < j /\ j <= skip + limit}}

\* findMany with skip and take.
PageOf(rows) ==
    LET skip == (page - 1) * limit
    IN {rows[i] : i \in {j \in DOMAIN rows : skip < j /\ j <= skip + limit}}

ReadItems ==
    /\ page # 0
    /\ "items" \notin read
    /\ seen' = [r \in Row |-> IF r \in PageOf(table) THEN seen[r] + 1 ELSE seen[r]]
    /\ read' = read \cup {"items"}
    /\ UNCHANGED <<limit, table, unused, page, total, changes>>

ReadCount ==
    /\ page # 0
    /\ "count" \notin read
    /\ total' = Len(table)
    /\ read' = read \cup {"count"}
    /\ UNCHANGED <<limit, table, unused, page, seen, changes>>

\* totalPages and hasNext of buildOffsetMeta(); hasNextPage of PaginatedResult.
TotalPages(n) == (n + limit - 1) \div limit
HasNext(n) == page < TotalPages(n)
HasNextPage(n) == (page - 1) * limit + limit < n

\* The client has its answer, and asks for the next page or stops.
Turn ==
    /\ read = {"items", "count"}
    /\ page' = IF HasNext(total) THEN page + 1 ELSE 0
    /\ read' = {}
    /\ UNCHANGED <<limit, table, unused, total, seen, changes>>

\* Other requests.  A change between the two reads of a page tears them apart.
Changed(what) ==
    /\ page # 0
    /\ changes' = changes \cup {what} \cup (IF read = {} THEN {} ELSE {"torn"})
    /\ UNCHANGED <<limit, page, read, total, seen>>

InsertRow(r) ==
    /\ r \in unused
    /\ table' = <<r>> \o table
    /\ unused' = unused \ {r}
    /\ Changed("insert")

DeleteRow(i) ==
    /\ table' = RemoveAt(table, i)
    /\ UNCHANGED unused
    /\ Changed("delete")

PagingNext ==
    \/ ReadItems \/ ReadCount \/ Turn
    \/ \E r \in Row : InsertRow(r)
    \/ \E i \in DOMAIN table : DeleteRow(i)

PagingSpec == PagingInit /\ [][PagingNext]_pagingVars

-----------------------------------------------------------------------------
\* No row that was there all the while has been passed over without a cause.
NoneMissed ==
    \A r \in ToSet(Already) :
        r \in ToSet(table) /\ seen[r] = 0 =>
            \/ "delete" \in changes
            \/ {"insert", "torn"} \subseteq changes

\* A client that has walked to the end misses a row that was there all the
\* while only if a row was deleted during its walk, or one inserted between the
\* two reads of a page; it meets a row twice only if one was inserted
\* (findPaginated, buildOffsetMeta).  The two classes of page agree on what
\* comes next.
WalkSound ==
    /\ page = 0 => NoneMissed
    /\ \A r \in Row : seen[r] > 1 => "insert" \in changes
    /\ page # 0 => \A n \in 0..total : HasNext(n) <=> HasNextPage(n)

\* The rows up to here have been read, as the table is now.
ReadUpTo == (IF "items" \in read THEN page ELSE page - 1) * limit

\* The inductive invariant.  While nothing is inserted, rows that were seen only
\* move towards the front; while nothing is deleted, the rows the table began
\* with only move back, so that those in front of ReadUpTo have been seen.
PagingIInv ==
    /\ PagingTypeOK
    /\ IsInjective(table)
    /\ unused \cap ToSet(table) = {}
    /\ unused \cap ToSet(Already) = {}
    /\ page = 0 => read = {} /\ NoneMissed
    /\ \A r \in Row : seen[r] > 1 => "insert" \in changes
    /\ page # 0 =>
        /\ "insert" \notin changes =>
            \A i \in DOMAIN table : seen[table[i]] > 0 => i <= ReadUpTo
        /\ "delete" \notin changes =>
            \A i \in DOMAIN table :
                table[i] \in ToSet(Already) /\ i <= ReadUpTo => seen[table[i]] > 0
        /\ \/ "delete" \in changes
           \/ {"insert", "torn"} \subseteq changes
           \/ "count" \in read => total = Len(table)

=============================================================================
