------------------------------- MODULE Lists -------------------------------
(***************************************************************************)
(* Lists that are read in pages: the search of listings, bookings, reviews *)
(* and uploads, notifications, and the lists of the admin.  A page is skip *)
(* and take on a sorted query, and the number of pages is the result of a  *)
(* count that runs beside it.  A client asks for one page after the other  *)
(* until it has had the last, while rows enter and leave what the query    *)
(* selects, and change their places in it.                                 *)
(*                                                                         *)
(* Rows are numbers, in the order of their creation; a query's where       *)
(* clause is not told apart from the table: selected is what it finds.     *)
(***************************************************************************)
EXTENDS Integers, FiniteSetsExt

CONSTANTS
  Rows,       \* the rows there may ever be, by createdAt
  Ranks,      \* what a column to sort by may hold: a price, or a rating
  Limits      \* page sizes asked for, at least one: @Min(1) in the DTOs

ASSUME RowsAssumption == Rows \subseteq Nat /\ IsFiniteSet(Rows)
ASSUME RanksAssumption == Ranks \subseteq Int
ASSUME LimitsAssumption == Limits \subseteq Nat \ {0}

VARIABLES
  selected,   \* the rows that the query selects
  used,       \* rows that exist or have existed
  rank,       \* the column of each row selected
  list,       \* the list that the client reads
  page,       \* the page it has asked for
  limit,      \* and its size
  total,      \* what the count found, -1 before it ran
  fetched,    \* whether the rows of the page have come
  seen,       \* the rows the client has got
  \* History, read by nobody:
  first,      \* the rows when the client began
  shrunk,     \* whether a row has left since
  short,      \* whether more rows were fetched from than were counted
  placed,     \* the rows the last page was taken of, and their keys
  displaced   \* rows that another row has come level with or past meanwhile

listVars == <<selected, used, rank, list, page, limit, total, fetched, seen,
              first, shrunk, short, placed, displaced>>
client == <<list, page, limit, total, fetched, seen, first, short, placed,
            displaced>>

----------------------------------------------------------------------------
(* Pages *)

\* Mutant of Skip: pages are numbered from zero.
SkipWhole(n, size) == n * size

Skip(n, size) == (n - 1) * size

\* Mutant of TotalPages: the last page counts only if it is full.
FullPages(count, size) == count \div size

TotalPages(count, size) == (count + size - 1) \div size     \* Math.ceil

\* What may come back: the database sorts by decreasing key, and rows of the
\* same key any way it likes, then skips some and takes some.
Pages(S, Key(_), n, size) ==
  LET skipped == Min({Skip(n, size), Cardinality(S)})
      taken == Min({size, Cardinality(S) - skipped})
      Ahead(A, B) == \A a \in A, b \in B : Key(a) >= Key(b)
  IN  {D \in kSubset(taken, S) :
         \E A \in kSubset(skipped, S \ D) :
           Ahead(A, S \ A) /\ Ahead(D, S \ (A \cup D))}

\* orderBy: createdAt desc; a column that rows may share; and no orderBy.
Newest(r) == r
Ranked(r) == rank[r]
Unsorted(r) == 0

\* Without sortBy, the listings created last come first.
GetAllProperties(S, n, size)  == Pages(S, Newest, n, size)
GetSortedListings(S, n, size) == Pages(S, Ranked, n, size)
GetUserNotifications(S, n, size) == Pages(S, Newest, n, size)
FindByUser(S, n, size)       == Pages(S, Newest, n, size)
GetGuestBookings(S, n, size) == Pages(S, Newest, n, size)
GetHostBookings(S, n, size)  == Pages(S, Newest, n, size)
GetListingReviews(S, n, size) == Pages(S, Newest, n, size)
GetUserReviews(S, n, size)   == Pages(S, Newest, n, size)
GetLogs(S, n, size)          == Pages(S, Newest, n, size)
GetAuditLogs(S, n, size)     == Pages(S, Newest, n, size)
GetPromotions(S, n, size)    == Pages(S, Newest, n, size)
GetTickets(S, n, size)       == Pages(S, Newest, n, size)
GetVerifications(S, n, size) == Pages(S, Newest, n, size)
GetAnnouncements(S, n, size) == Pages(S, Newest, n, size)
GetUsers(S, n, size)         == Pages(S, Unsorted, n, size)
GetListings(S, n, size)      == Pages(S, Unsorted, n, size)
GetBookings(S, n, size)      == Pages(S, Unsorted, n, size)
GetPayments(S, n, size)      == Pages(S, Unsorted, n, size)
GetReviews(S, n, size)       == Pages(S, Unsorted, n, size)

NewestLists == {"properties", "notifications", "media", "guestBookings",
                "hostBookings", "listingReviews", "userReviews", "logs",
                "auditLogs", "promotions", "tickets", "verifications", "announcements"}
UnsortedLists == {"users", "listings", "bookings", "payments", "reviews"}

FindMany(name, S, n, size) ==
  CASE name = "properties"    -> GetAllProperties(S, n, size)
    [] name = "sorted"        -> GetSortedListings(S, n, size)
    [] name = "notifications" -> GetUserNotifications(S, n, size)
    [] name = "media"         -> FindByUser(S, n, size)
    [] name = "guestBookings" -> GetGuestBookings(S, n, size)
    [] name = "hostBookings"  -> GetHostBookings(S, n, size)
    [] name = "listingReviews" -> GetListingReviews(S, n, size)
    [] name = "userReviews"   -> GetUserReviews(S, n, size)
    [] name = "logs"          -> GetLogs(S, n, size)
    [] name = "auditLogs"     -> GetAuditLogs(S, n, size)
    [] name = "promotions"    -> GetPromotions(S, n, size)
    [] name = "tickets"       -> GetTickets(S, n, size)
    [] name = "verifications" -> GetVerifications(S, n, size)
    [] name = "announcements" -> GetAnnouncements(S, n, size)
    [] name = "users"         -> GetUsers(S, n, size)
    [] name = "listings"      -> GetListings(S, n, size)
    [] name = "bookings"      -> GetBookings(S, n, size)
    [] name = "payments"      -> GetPayments(S, n, size)
    [] name = "reviews"       -> GetReviews(S, n, size)

KeyOf(name, r) == CASE name \in NewestLists   -> Newest(r)
                    [] name = "sorted"        -> Ranked(r)
                    [] name \in UnsortedLists -> Unsorted(r)

----------------------------------------------------------------------------

ListsInit ==
  /\ selected \in SUBSET Rows
  /\ used = selected
  /\ rank \in [selected -> Ranks]
  /\ list \in NewestLists \cup UnsortedLists \cup {"sorted"}
  /\ page = 1
  /\ limit \in Limits
  /\ total = -1 /\ fetched = FALSE
  /\ seen = {} /\ first = selected /\ shrunk = FALSE /\ short = FALSE
  /\ placed = [r \in {} |-> 0] /\ displaced = {}

\* A row enters what the query selects: it is created, later than all others,
\* or (a status changes) is found again.
Enter(r) ==
  /\ r \notin selected
  /\ r \in used \/ \A q \in used : q < r
  /\ selected' = selected \cup {r}
  /\ used' = used \cup {r}
  /\ \E x \in Ranks :
       rank' = [q \in selected' |-> IF q = r THEN x ELSE rank[q]]
  /\ UNCHANGED <<client, shrunk>>

Leave(r) ==
  /\ r \in selected
  /\ selected' = selected \ {r}
  /\ shrunk' = TRUE
  /\ rank' = [q \in selected' |-> rank[q]]
  /\ UNCHANGED <<client, used>>

\* A row stays but moves in the order: its host changes the price, or a review
\* its rating.
Rerank(r) ==
  /\ list = "sorted"
  /\ r \in selected
  /\ \E x \in Ranks : rank' = [rank EXCEPT ![r] = x]
  /\ UNCHANGED <<client, selected, used, shrunk>>

\* The two statements of a request run side by side (Promise.all).
Count ==
  /\ total = -1
  /\ total' = Cardinality(selected)
  /\ short' = (fetched /\ short)
  /\ UNCHANGED <<selected, used, rank, list, page, limit, fetched, seen, first,
                 shrunk, placed, displaced>>

\* A row that came before x, or beside it, when the page before this one was
\* fetched now comes beside it or after it.
Displaced(x) ==
  \E q \in (DOMAIN placed \cap selected) \ {x} :
    placed[q] >= placed[x] /\ KeyOf(list, q) <= KeyOf(list, x)

Fetch ==
  /\ ~fetched
  /\ \E D \in FindMany(list, selected, page, limit) : seen' = seen \cup D
  /\ fetched' = TRUE
  /\ short' = (total # -1 /\ Cardinality(selected) > total)
  /\ placed' = [r \in selected |-> KeyOf(list, r)]
  /\ displaced' = IF page = 1 THEN {}
                  ELSE displaced \cup
                       {x \in DOMAIN placed \cap selected : Displaced(x)}
  /\ UNCHANGED <<selected, used, rank, list, page, limit, total, first, shrunk>>

Ended == fetched /\ total # -1 /\ page >= TotalPages(total, limit)

\* The client asks for the next page if there is one.
Turn ==
  /\ fetched
  /\ total # -1
  /\ ~Ended
  /\ page' = page + 1
  /\ total' = -1
  /\ fetched' = FALSE
  /\ UNCHANGED <<selected, used, rank, list, limit, seen, first, shrunk, short,
                 placed, displaced>>

ListsNext == \/ ~Ended /\ (\E r \in Rows : Enter(r) \/ Leave(r) \/ Rerank(r))
             \/ Count \/ Fetch \/ Turn

ListsSpec == ListsInit /\ [][ListsNext]_listVars

----------------------------------------------------------------------------

ListsTypeOK ==
  /\ selected \subseteq used /\ used \subseteq Rows
  /\ page \in Nat \ {0} /\ limit \in Limits
  /\ total \in {-1} \cup (0 .. Cardinality(Rows))
  /\ seen \subseteq used
  /\ rank \in [selected -> Ranks]
  /\ DOMAIN placed \subseteq used /\ placed \in [DOMAIN placed -> Int]
  /\ displaced \subseteq used

\* A client that has read all pages has got every row that was there when it
\* began, if no row has left the list and the last page was not fetched from more
\* rows than were counted, but for rows that another row has overtaken: it came
\* before, or beside them, when one page was fetched, and beside or after them
\* when the next one was.  In a list by date no row is ever overtaken.  In one by
\* price or rating it takes an equal or a changed value; in one without an order
\* any two rows are beside each other, and nothing is promised past one page.
WalkComplete ==
  Ended /\ ~shrunk /\ ~short => first \ seen \subseteq displaced
=============================================================================
