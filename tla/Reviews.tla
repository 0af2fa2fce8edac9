------------------------------ MODULE Reviews ------------------------------
(***************************************************************************)
(* Guest reviews and the ratings derived from them (src/reviews, the       *)
(* admin's moderation, and the trigger update_listing_stats).              *)
(*                                                                         *)
(* A listing and its host each carry an average rating and a number of     *)
(* reviews.  Both are written from two places: by the trigger, inside the  *)
(* transaction of every INSERT or UPDATE of a review, and once more by     *)
(* createReview, which aggregates in one statement and writes in another.  *)
(* Transactions are READ COMMITTED: a statement counts what was committed  *)
(* when the statement began, waits for the row it writes, and then writes  *)
(* what it had counted.                                                    *)
(*                                                                         *)
(* A rating is kept here as the set of reviews that were counted.          *)
(* Each member of Requests is one HTTP request; a review is named after    *)
(* the request that inserts it.                                            *)
(***************************************************************************)
CONSTANTS
  Requests,      \* the HTTP requests served
  Users,         \* rows of users
  Bookings,      \* rows of bookings, none of which changes here
  Listings,      \* rows of listings
  ListingOf,     \* bookings.listing_id
  GuestOf,       \* bookings.guest_id
  HostOf,        \* listings.host_id, and host_id of its bookings
  StatusOf,      \* bookings.status
  Ended          \* bookings whose check-out date has passed

ASSUME BookingsAssumption == /\ ListingOf \in [Bookings -> Listings]
                             /\ GuestOf \in [Bookings -> Users]
                             /\ Ended \subseteq Bookings
ASSUME ResponseAssumption == "none" \notin Requests
ASSUME HostsAssumption == HostOf \in [Listings -> Users]

VARIABLES
  reviews,       \* the review rows, a function on the ids inserted so far
  shown,         \* listing -> reviews in its average_rating, total_reviews
  hostShown,     \* host -> the same for its host_profiles row
  pc,            \* the statement a handler awaits next
  req,           \* the request a handler serves
  counted,       \* reviews a handler has counted for a listing
  hostCounted,   \* and for a host
  \* History, read by no handler:
  missed,        \* reviews that changed what the public sees of the listing
                 \* after a handler had counted, and before it writes
  hostMissed,    \* the same for its host
  stale,         \* missed of the handler whose count the listing shows
  hostStale,     \* hostMissed of the handler whose count the host shows
  preceded       \* responses stored since a handler read the review

counts == <<counted, hostCounted, missed, hostMissed>>
ratings == <<shown, hostShown, stale, hostStale>>
vars == <<reviews, shown, hostShown, pc, req, counted, hostCounted,
          missed, hostMissed, stale, hostStale, preceded>>

----------------------------------------------------------------------------
(* Rows and requests *)

\* response names the request whose text the row carries.
Review == [booking: Bookings, public: BOOLEAN,
           response: Requests \cup {"none"}]

CreateRequest   == [op: {"create"}, user: Users, booking: Bookings]
ResponseRequest == [op: {"respond"}, user: Users, review: Requests]
ModerateRequest == [op: {"moderate"}, review: Requests, public: BOOLEAN]
UpdateRequest   == ResponseRequest \cup ModerateRequest
NoRequest       == [op |-> "none"]

CreatePc == {"findBooking", "findExisting", "aggregate", "updateListing",
             "aggregateHost", "updateHost"}
UpdatePc == {"findReview"}
\* The one statement that writes a review: about to start, waiting for the
\* listing's row with its count made, and holding that row.
WritePc  == {"write", "counted", "locked"}

ListingOfReview(rs, r) == ListingOf[rs[r].booking]

\* The reviews of table rs that the aggregates of a listing, or a host, count.
Public(rs, l) == {r \in DOMAIN rs : rs[r].public /\ ListingOfReview(rs, r) = l}
PublicOfHost(rs, h) ==
  {r \in DOMAIN rs : rs[r].public /\ HostOf[ListingOfReview(rs, r)] = h}

Init ==
  /\ reviews = [r \in {} |-> NoRequest]
  /\ shown = [l \in Listings |-> {}]
  /\ hostShown = [h \in Users |-> {}]
  /\ pc = [p \in Requests |-> "idle"]
  /\ req = [p \in Requests |-> NoRequest]
  /\ counted = [p \in Requests |-> {}]
  /\ hostCounted = [p \in Requests |-> {}]
  /\ missed = [p \in Requests |-> {}]
  /\ hostMissed = [p \in Requests |-> {}]
  /\ stale = [l \in Listings |-> {}]
  /\ hostStale = [h \in Users |-> {}]
  /\ preceded = [p \in Requests |-> {}]

Receive(p, r, first) ==
  /\ pc[p] = "idle"
  /\ pc' = [pc EXCEPT ![p] = first]
  /\ req' = [req EXCEPT ![p] = r]
  /\ UNCHANGED <<reviews, counts, ratings, preceded>>

Goto(p, next) == pc' = [pc EXCEPT ![p] = next] /\ UNCHANGED req

\* The handler returns or throws; an open transaction is rolled back.
Finish(p) ==
  /\ pc' = [pc EXCEPT ![p] = "done"]
  /\ req' = [req EXCEPT ![p] = NoRequest]
  /\ counted' = [counted EXCEPT ![p] = {}]
  /\ hostCounted' = [hostCounted EXCEPT ![p] = {}]
  /\ missed' = [missed EXCEPT ![p] = {}]
  /\ hostMissed' = [hostMissed EXCEPT ![p] = {}]
  /\ preceded' = [preceded EXCEPT ![p] = {}]

Throw(p) == Finish(p) /\ UNCHANGED <<reviews, ratings>>

----------------------------------------------------------------------------
(* Writing a review: one INSERT or UPDATE together with its trigger *)

Target(p) == IF req[p].op = "create" THEN p ELSE req[p].review
BookingOf(p) == IF req[p].op = "create" THEN req[p].booking
                                        ELSE reviews[req[p].review].booking
ListingFor(p) == ListingOf[BookingOf(p)]
HostFor(p)    == HostOf[ListingFor(p)]

\* The row as the statement of p leaves it: an UPDATE sets its own columns only.
Row(p) ==
  CASE req[p].op = "create"   -> [booking |-> req[p].booking, public |-> TRUE,
                                  response |-> "none"]
    [] req[p].op = "respond"  -> [reviews[req[p].review] EXCEPT !.response = p]
    [] req[p].op = "moderate" -> [reviews[req[p].review] EXCEPT
                                    !.public = req[p].public]
After(p) == [r \in DOMAIN reviews \cup {Target(p)} |->
               IF r = Target(p) THEN Row(p) ELSE reviews[r]]

\* The target of p, if its write changes what the public sees.
Changed(p) ==
  {r \in {Target(p)} :
     ~(Row(p).public <=> r \in DOMAIN reviews /\ reviews[r].public)}

Reviewed(b) == \E r \in DOMAIN reviews : reviews[r].booking = b
InTransaction(p) == pc[p] \in {"counted", "locked"}

\* Mutant of RowFree: only updates of the same row wait, inserts do not.
RowFreeForUpdates(p) ==
  \A q \in Requests : InTransaction(q) => Target(q) # Target(p)

\* Another transaction holds the row, or is inserting one with the same
\* booking_id: PostgreSQL waits for it to end.
RowFree(p) ==
  \A q \in Requests : InTransaction(q) => BookingOf(q) # BookingOf(p)

ListingFree(p) ==
  \A q \in Requests : pc[q] = "locked" => ListingFor(q) # ListingFor(p)

\* review.create or review.update starts.  Its trigger counts the listing's
\* public reviews: those committed by now, and the row just written.
BeginWrite(p) ==
  /\ pc[p] = "write"
  /\ RowFree(p)
  /\ req[p].op = "create" => ~Reviewed(req[p].booking)
  /\ Goto(p, "counted")
  /\ counted' = [counted EXCEPT ![p] = Public(After(p), ListingFor(p))]
  /\ missed' = [missed EXCEPT ![p] = {}]
  /\ UNCHANGED <<reviews, ratings, hostCounted, hostMissed, preceded>>

\* The unique index on booking_id refuses the row.
RefuseDuplicate(p) ==
  /\ pc[p] = "write"
  /\ RowFree(p)
  /\ req[p].op = "create"
  /\ Reviewed(req[p].booking)
  /\ Throw(p)

\* The trigger gets the listing's row and updates it; its second statement
\* then sums over the rows of the host's listings, its own change included.
LockListing(p) ==
  LET others == {l \in Listings : HostOf[l] = HostFor(p)} \ {ListingFor(p)}
  IN  /\ pc[p] = "counted"
      /\ ListingFree(p)
      /\ Goto(p, "locked")
      /\ hostCounted' = [hostCounted EXCEPT ![p] =
                           counted[p] \cup UNION {shown[l] : l \in others}]
      /\ hostMissed' = [hostMissed EXCEPT ![p] =
                          missed[p] \cup UNION {stale[l] : l \in others}]
      /\ UNCHANGED <<reviews, ratings, counted, missed, preceded>>

\* A change of reviews commits: every other handler that has counted them and
\* not yet written its count has missed it.
Miss(p) ==
  /\ missed' = [q \in Requests |->
       IF q = p THEN {}
       ELSE IF pc[q] \in {"counted", "locked", "updateListing"}
               /\ ListingFor(q) = ListingFor(p)
            THEN missed[q] \cup Changed(p) ELSE missed[q]]
  /\ hostMissed' = [q \in Requests |->
       IF q = p THEN {}
       ELSE IF pc[q] \in {"locked", "updateHost"} /\ HostFor(q) = HostFor(p)
            THEN hostMissed[q] \cup Changed(p) ELSE hostMissed[q]]

\* The responders that have read the review p responds to.
Precede(p) ==
  preceded' = [q \in Requests |->
    IF q = p THEN {}
    ELSE IF /\ req[p].op = "respond" /\ req[q].op = "respond"
            /\ req[q].review = req[p].review
            /\ pc[q] \in WritePc
         THEN preceded[q] \cup {p} ELSE preceded[q]]

\* The trigger updates the host's row and the transaction commits.  A create
\* goes on to updateListingRating; the other two return.
CommitWrite(p) ==
  /\ pc[p] = "locked"
  /\ reviews' = After(p)
  /\ shown' = [shown EXCEPT ![ListingFor(p)] = counted[p]]
  /\ stale' = [stale EXCEPT ![ListingFor(p)] = missed[p]]
  /\ hostShown' = [hostShown EXCEPT ![HostFor(p)] = hostCounted[p]]
  /\ hostStale' = [hostStale EXCEPT ![HostFor(p)] = hostMissed[p]]
  /\ counted' = [counted EXCEPT ![p] = {}]
  /\ hostCounted' = [hostCounted EXCEPT ![p] = {}]
  /\ Miss(p)
  /\ Precede(p)
  /\ \/ req[p].op = "create" /\ Goto(p, "aggregate")
     \/ /\ req[p].op # "create"
        /\ pc' = [pc EXCEPT ![p] = "done"]
        /\ req' = [req EXCEPT ![p] = NoRequest]

----------------------------------------------------------------------------
(* createReview *)

ReceiveCreate(p, u, b) ==
  Receive(p, [op |-> "create", user |-> u, booking |-> b], "findBooking")

Cancelled == {"CANCELLED_BY_GUEST", "CANCELLED_BY_HOST", "CANCELLED_BY_ADMIN"}
Reviewable(u, b) == /\ GuestOf[b] = u
                    /\ StatusOf[b] \notin Cancelled
                    /\ b \in Ended

FindBooking(p) ==
  /\ pc[p] = "findBooking"
  /\ \/ /\ Reviewable(req[p].user, req[p].booking)
        /\ Goto(p, "findExisting")
        /\ UNCHANGED <<reviews, counts, ratings, preceded>>
     \/ ~Reviewable(req[p].user, req[p].booking) /\ Throw(p)

FindExisting(p) ==
  /\ pc[p] = "findExisting"
  /\ \/ /\ ~Reviewed(req[p].booking)
        /\ Goto(p, "write")
        /\ UNCHANGED <<reviews, counts, ratings, preceded>>
     \/ Reviewed(req[p].booking) /\ Throw(p)

\* Mutant of Aggregate: hidden reviews count.
AggregateAll(p) ==
  /\ pc[p] = "aggregate"
  /\ Goto(p, "updateListing")
  /\ counted' = [counted EXCEPT ![p] =
       {r \in DOMAIN reviews : ListingOfReview(reviews, r) = ListingFor(p)}]
  /\ missed' = [missed EXCEPT ![p] = {}]
  /\ UNCHANGED <<reviews, ratings, hostCounted, hostMissed, preceded>>

\* updateListingRating: count the listing's reviews, write the listing, count
\* the host's (whom it reads from the listing first), write the host.
Aggregate(p) ==
  /\ pc[p] = "aggregate"
  /\ Goto(p, "updateListing")
  /\ counted' = [counted EXCEPT ![p] = Public(reviews, ListingFor(p))]
  /\ missed' = [missed EXCEPT ![p] = {}]
  /\ UNCHANGED <<reviews, ratings, hostCounted, hostMissed, preceded>>

UpdateListing(p) ==
  /\ pc[p] = "updateListing"
  /\ ListingFree(p)
  /\ Goto(p, "aggregateHost")
  /\ shown' = [shown EXCEPT ![ListingFor(p)] = counted[p]]
  /\ stale' = [stale EXCEPT ![ListingFor(p)] = missed[p]]
  /\ counted' = [counted EXCEPT ![p] = {}]
  /\ missed' = [missed EXCEPT ![p] = {}]
  /\ UNCHANGED <<reviews, hostShown, hostStale, hostCounted, hostMissed,
                 preceded>>

\* Mutant of AggregateHost: the reviews of one listing, not of the host.
AggregateHostOfListing(p) ==
  /\ pc[p] = "aggregateHost"
  /\ Goto(p, "updateHost")
  /\ hostCounted' = [hostCounted EXCEPT ![p] = Public(reviews, ListingFor(p))]
  /\ hostMissed' = [hostMissed EXCEPT ![p] = {}]
  /\ UNCHANGED <<reviews, ratings, counted, missed, preceded>>

AggregateHost(p) ==
  /\ pc[p] = "aggregateHost"
  /\ Goto(p, "updateHost")
  /\ hostCounted' = [hostCounted EXCEPT ![p] = PublicOfHost(reviews, HostFor(p))]
  /\ hostMissed' = [hostMissed EXCEPT ![p] = {}]
  /\ UNCHANGED <<reviews, ratings, counted, missed, preceded>>

\* A failure of this write is swallowed; to every other handler that looks
\* like a Crash here.
UpdateHost(p) ==
  /\ pc[p] = "updateHost"
  /\ hostShown' = [hostShown EXCEPT ![HostFor(p)] = hostCounted[p]]
  /\ hostStale' = [hostStale EXCEPT ![HostFor(p)] = hostMissed[p]]
  /\ Finish(p)
  /\ UNCHANGED <<reviews, shown, stale>>

----------------------------------------------------------------------------
(* addHostResponse and moderateReview *)

ReceiveResponse(p, u, r) ==
  Receive(p, [op |-> "respond", user |-> u, review |-> r], "findReview")

ReceiveModeration(p, r, public) ==
  Receive(p, [op |-> "moderate", review |-> r, public |-> public], "findReview")

\* Mutants of UpdateAllowed: an admin's review is not looked for; a host may
\* respond again.
UpdateAllowedToAdmins(q) ==
  q.op = "moderate" \/ /\ q.review \in DOMAIN reviews
                       /\ HostOf[ListingOfReview(reviews, q.review)] = q.user
                       /\ reviews[q.review].response = "none"
UpdateAllowedAgain(q) ==
  /\ q.review \in DOMAIN reviews
  /\ q.op = "respond" => HostOf[ListingOfReview(reviews, q.review)] = q.user

\* The host of the review's listing may respond, once; an admin may moderate.
UpdateAllowed(q) ==
  /\ q.review \in DOMAIN reviews
  /\ q.op = "respond" =>
       /\ HostOf[ListingOfReview(reviews, q.review)] = q.user
       /\ reviews[q.review].response = "none"

FindReview(p) ==
  /\ pc[p] = "findReview"
  /\ \/ /\ UpdateAllowed(req[p])
        /\ Goto(p, "write")
        /\ UNCHANGED <<reviews, counts, ratings, preceded>>
     \/ ~UpdateAllowed(req[p]) /\ Throw(p)

\* The awaited statement fails or is rolled back, or the instance dies.  One
\* that commits unnoticed is the statement followed by Crash.
Crash(p) ==
  /\ pc[p] \in CreatePc \cup UpdatePc \cup WritePc
  /\ Throw(p)

----------------------------------------------------------------------------

Step(p) ==
  \/ \E u \in Users, b \in Bookings : ReceiveCreate(p, u, b)
  \/ \E u \in Users, r \in Requests : ReceiveResponse(p, u, r)
  \/ \E r \in Requests, public \in BOOLEAN : ReceiveModeration(p, r, public)
  \/ FindBooking(p) \/ FindExisting(p) \/ FindReview(p)
  \/ BeginWrite(p) \/ RefuseDuplicate(p) \/ LockListing(p) \/ CommitWrite(p)
  \/ Aggregate(p) \/ UpdateListing(p) \/ AggregateHost(p) \/ UpdateHost(p)
  \/ Crash(p)

Next == \E p \in Requests : Step(p)

Spec == Init /\ [][Next]_vars

----------------------------------------------------------------------------
(* Properties *)

\* Handlers, rows and ratings have their types, and a handler past its first
\* read serves a booking or a review that exists.
TypeOK ==
  /\ DOMAIN reviews \subseteq Requests
  /\ reviews \in [DOMAIN reviews -> Review]
  /\ shown \in [Listings -> SUBSET Requests]
  /\ stale \in [Listings -> SUBSET Requests]
  /\ hostShown \in [Users -> SUBSET Requests]
  /\ hostStale \in [Users -> SUBSET Requests]
  /\ counted \in [Requests -> SUBSET Requests]
  /\ hostCounted \in [Requests -> SUBSET Requests]
  /\ missed \in [Requests -> SUBSET Requests]
  /\ hostMissed \in [Requests -> SUBSET Requests]
  /\ preceded \in [Requests -> SUBSET Requests]
  /\ pc \in [Requests -> CreatePc \cup UpdatePc \cup WritePc \cup {"idle", "done"}]
  /\ DOMAIN req = Requests
  /\ \A p \in Requests :
       /\ pc[p] \in CreatePc => req[p] \in CreateRequest
       /\ pc[p] \in UpdatePc => req[p] \in UpdateRequest
       /\ pc[p] \in WritePc =>
            \/ req[p] \in CreateRequest
            \/ req[p] \in UpdateRequest /\ req[p].review \in DOMAIN reviews
       /\ pc[p] \in {"idle", "done"} => req[p] = NoRequest

\* However many requests review a booking at once, it has one review: the
\* check of createReview cannot see to that, the unique index does.
OneReviewPerBooking ==
  \A r1, r2 \in DOMAIN reviews :
    reviews[r1].booking = reviews[r2].booking => r1 = r2

Differ(A, B) == (A \ B) \cup (B \ A)

\* A listing shows the rating of exactly its public reviews, but for reviews
\* that appeared or were moderated between the count and the write of the
\* handler that wrote the rating last.
ListingRatingExplained ==
  \A l \in Listings : Differ(shown[l], Public(reviews, l)) \subseteq stale[l]

\* The same of a host, over all of its listings.
HostRatingExplained ==
  \A h \in Users : Differ(hostShown[h], PublicOfHost(reviews, h)) \subseteq hostStale[h]

\* A host's response is replaced only by one whose handler had read the review
\* before the first was stored.
ResponseKept ==
  [][\A r \in DOMAIN reviews :
       LET old == reviews[r].response
           new == reviews'[r].response
       IN  old \notin {"none", new} => new # "none" /\ old \in preceded[new]]_vars

\* README: "Rating aggregation per listing (average + total count)".  When
\* nobody is writing, a listing shows the rating of its public reviews.
RatingsSettle ==
  (\A p \in Requests : pc[p] \in {"idle", "done"}) =>
     \A l \in Listings : shown[l] = Public(reviews, l)

=============================================================================
