--------------------------- MODULE ReviewsProofs ---------------------------
(***************************************************************************)
(* Theorems about Reviews.                                                 *)
(***************************************************************************)
EXTENDS Reviews, TLAPS

HandlersOK ==
  /\ pc \in [Requests -> CreatePc \cup UpdatePc \cup WritePc \cup {"idle", "done"}]
  /\ DOMAIN req = Requests
  /\ \A p \in Requests :
       /\ pc[p] \in CreatePc => req[p] \in CreateRequest
       /\ pc[p] \in UpdatePc => req[p] \in UpdateRequest
       /\ pc[p] \in WritePc =>
            \/ req[p] \in CreateRequest
            \/ req[p] \in UpdateRequest /\ req[p].review \in DOMAIN reviews
       /\ pc[p] \in {"idle", "done"} => req[p] = NoRequest

TablesOK ==
  /\ DOMAIN reviews \subseteq Requests
  /\ reviews \in [DOMAIN reviews -> Review]

RatingsOK ==
  /\ shown \in [Listings -> SUBSET Requests]
  /\ stale \in [Listings -> SUBSET Requests]
  /\ hostShown \in [Users -> SUBSET Requests]
  /\ hostStale \in [Users -> SUBSET Requests]

CountsOK ==
  /\ counted \in [Requests -> SUBSET Requests]
  /\ hostCounted \in [Requests -> SUBSET Requests]
  /\ missed \in [Requests -> SUBSET Requests]
  /\ hostMissed \in [Requests -> SUBSET Requests]
  /\ preceded \in [Requests -> SUBSET Requests]

LEMMA TypeParts == TypeOK <=> HandlersOK /\ TablesOK /\ RatingsOK /\ CountsOK
  BY DEF TypeOK, HandlersOK, TablesOK, RatingsOK, CountsOK

\* What the statement of a handler about to write, or writing, refers to.
LEMMA WriteFacts ==
  ASSUME TypeOK, NEW p \in Requests, pc[p] \in CreatePc \cup WritePc
  PROVE  /\ BookingOf(p) \in Bookings
         /\ ListingFor(p) \in Listings
         /\ HostFor(p) \in Users
         /\ pc[p] \in WritePc =>
              /\ Target(p) \in Requests
              /\ Row(p) \in Review
              /\ Row(p).booking = BookingOf(p)
              /\ req[p].op # "create" => Target(p) \in DOMAIN reviews
  <1>1. CASE req[p] \in CreateRequest
    <2>1. req[p].op = "create" /\ req[p].booking \in Bookings
      BY <1>1 DEF CreateRequest
    <2>2. BookingOf(p) = req[p].booking /\ Target(p) = p
      BY <2>1 DEF BookingOf, Target
    <2>3. Row(p) = [booking |-> req[p].booking, public |-> TRUE,
                    response |-> "none"]
      BY <2>1 DEF Row
    <2>. QED  BY <2>1, <2>2, <2>3, BookingsAssumption, HostsAssumption
              DEF ListingFor, HostFor, Review
  <1>2. CASE req[p] \in UpdateRequest /\ req[p].review \in DOMAIN reviews
    <2>. DEFINE r == req[p].review
    <2>1. req[p].op \in {"respond", "moderate"} /\ r \in Requests
      BY <1>2 DEF UpdateRequest, ResponseRequest, ModerateRequest
    <2>2. reviews[r] \in Review
      BY <1>2 DEF TypeOK
    <2>3. BookingOf(p) = reviews[r].booking /\ Target(p) = r
      BY <2>1 DEF BookingOf, Target
    <2>4. CASE req[p].op = "respond"
      <3>1. Row(p) = [reviews[r] EXCEPT !.response = p]
        BY <2>4 DEF Row
      <3>. QED  BY <1>2, <2>1, <2>2, <2>3, <3>1, BookingsAssumption, HostsAssumption
                DEF ListingFor, HostFor, Review
    <2>5. CASE req[p].op = "moderate"
      <3>1. Row(p) = [reviews[r] EXCEPT !.public = req[p].public]
        BY <2>5 DEF Row
      <3>2. req[p].public \in BOOLEAN
        BY <1>2, <2>5 DEF UpdateRequest, ResponseRequest, ModerateRequest
      <3>. QED  BY <1>2, <2>1, <2>2, <2>3, <3>1, <3>2, BookingsAssumption,
                   HostsAssumption DEF ListingFor, HostFor, Review
    <2>. QED  BY <2>1, <2>4, <2>5
  <1>. QED  BY <1>1, <1>2 DEF TypeOK, CreatePc, WritePc

\* The table after the write of p.
LEMMA AfterFacts ==
  ASSUME TypeOK, NEW p \in Requests, pc[p] \in WritePc
  PROVE  /\ DOMAIN After(p) = DOMAIN reviews \cup {Target(p)}
         /\ DOMAIN After(p) \subseteq Requests
         /\ After(p) \in [DOMAIN After(p) -> Review]
         /\ After(p)[Target(p)] = Row(p)
         /\ \A r \in DOMAIN reviews : r # Target(p) => After(p)[r] = reviews[r]
  <1>1. DOMAIN reviews \subseteq Requests /\ \A r \in DOMAIN reviews : reviews[r] \in Review
    BY DEF TypeOK
  <1>2. Target(p) \in Requests /\ Row(p) \in Review
    BY WriteFacts
  <1>3. \A r \in DOMAIN After(p) : After(p)[r] \in Review
    BY <1>1, <1>2 DEF After
  <1>. QED  BY <1>1, <1>2, <1>3 DEF After

LEMMA PublicSubset ==
  ASSUME NEW rs, DOMAIN rs \subseteq Requests, NEW x
  PROVE  Public(rs, x) \subseteq Requests /\ PublicOfHost(rs, x) \subseteq Requests
  BY DEF Public, PublicOfHost

----------------------------------------------------------------------------
(* Types *)

\* A handler that ends.
LEMMA FinishTyped ==
  ASSUME TypeOK, NEW p \in Requests, Finish(p), UNCHANGED reviews
  PROVE  HandlersOK' /\ CountsOK'
  BY DEF TypeOK, HandlersOK, CountsOK, Finish, CreatePc, UpdatePc, WritePc

LEMMA ThrowTyped ==
  ASSUME TypeOK, NEW p \in Requests, Throw(p)
  PROVE  TypeOK'
  <1>1. HandlersOK' /\ CountsOK'
    BY FinishTyped DEF Throw
  <1>2. TablesOK' /\ RatingsOK'
    BY DEF Throw, TypeOK, TablesOK, RatingsOK, ratings
  <1>. QED  BY <1>1, <1>2, TypeParts, PTL

\* A handler that goes on to a statement of its own.
LEMMA GotoTyped ==
  ASSUME TypeOK, NEW p \in Requests, NEW next, Goto(p, next),
         DOMAIN reviews \subseteq DOMAIN reviews',
         \/ pc[p] \in CreatePc \cup WritePc /\ req[p] \in CreateRequest
              /\ next \in CreatePc \cup WritePc
         \/ pc[p] \in WritePc /\ next \in WritePc
         \/ req[p] \in UpdateRequest /\ req[p].review \in DOMAIN reviews
              /\ next \in WritePc
  PROVE  HandlersOK'
  BY DEF TypeOK, HandlersOK, Goto, CreatePc, UpdatePc, WritePc

\* A request that has arrived is one of its handler's own.
LEMMA ReceiveTyped ==
  ASSUME TypeOK, NEW p \in Requests, NEW r, NEW first, Receive(p, r, first),
         \/ first = "findBooking" /\ r \in CreateRequest
         \/ first = "findReview" /\ r \in UpdateRequest
  PROVE  TypeOK'
  <1>1. HandlersOK'
    BY DEF TypeOK, HandlersOK, Receive, CreatePc, UpdatePc, WritePc
  <1>2. TablesOK' /\ RatingsOK' /\ CountsOK'
    BY DEF Receive, TypeOK, TablesOK, RatingsOK, CountsOK, ratings, counts
  <1>. QED  BY <1>1, <1>2, TypeParts, PTL

\* A handler whose request is one of its creates, by its control state.
LEMMA CreatorsRequest ==
  ASSUME TypeOK, NEW p \in Requests, pc[p] \in CreatePc
  PROVE  req[p] \in CreateRequest
  BY DEF TypeOK

LEMMA TypeCommit ==
  ASSUME TypeOK, NEW p \in Requests, CommitWrite(p)
  PROVE  TypeOK'
  <1>1. pc[p] \in WritePc /\ pc[p] = "locked"
    BY DEF CommitWrite, WritePc
  <1>2. /\ reviews' = After(p)
        /\ DOMAIN reviews' = DOMAIN reviews \cup {Target(p)}
        /\ Target(p) \in Requests
        /\ ListingFor(p) \in Listings /\ HostFor(p) \in Users
    BY <1>1, WriteFacts, AfterFacts DEF CommitWrite
  <1>3. TablesOK'
    BY <1>1, <1>2, AfterFacts DEF TablesOK
  <1>4. RatingsOK'
    BY <1>2 DEF CommitWrite, TypeOK, RatingsOK
  <1>5. Changed(p) \subseteq Requests
    BY <1>2 DEF Changed
  <1>6. CountsOK'
    BY <1>5 DEF CommitWrite, Miss, Precede, TypeOK, CountsOK
  <1>7. HandlersOK'
    <2>1. CASE req[p].op = "create" /\ Goto(p, "aggregate")
      <3>1. req[p] \in CreateRequest
        BY <1>1, <2>1 DEF TypeOK, UpdateRequest, ResponseRequest,
                          ModerateRequest
      <3>. QED  BY <1>1, <1>2, <2>1, <3>1, GotoTyped DEF CreatePc
    <2>2. CASE /\ pc' = [pc EXCEPT ![p] = "done"]
               /\ req' = [req EXCEPT ![p] = NoRequest]
      BY <1>2, <2>2 DEF TypeOK, HandlersOK, CreatePc, UpdatePc, WritePc
    <2>. QED  BY <2>1, <2>2 DEF CommitWrite
  <1>. QED  BY <1>3, <1>4, <1>6, <1>7, TypeParts, PTL

LEMMA TypeStep ==
  ASSUME TypeOK, NEW p \in Requests, Step(p)
  PROVE  TypeOK'
  <1>. HandlersOK /\ TablesOK /\ RatingsOK /\ CountsOK
    BY TypeParts
  <1>a. HandlersOK' /\ TablesOK' /\ RatingsOK' /\ CountsOK' => TypeOK'
    BY TypeParts, PTL
  <1>1. CASE \E u \in Users, b \in Bookings : ReceiveCreate(p, u, b)
    <2>1. PICK u \in Users, b \in Bookings : ReceiveCreate(p, u, b)
      BY <1>1
    <2>2. [op |-> "create", user |-> u, booking |-> b] \in CreateRequest
      BY DEF CreateRequest
    <2>. QED  BY <2>1, <2>2, ReceiveTyped DEF ReceiveCreate
  <1>2. CASE \E u \in Users, r \in Requests : ReceiveResponse(p, u, r)
    <2>1. PICK u \in Users, r \in Requests : ReceiveResponse(p, u, r)
      BY <1>2
    <2>2. [op |-> "respond", user |-> u, review |-> r] \in UpdateRequest
      BY DEF UpdateRequest, ResponseRequest
    <2>. QED  BY <2>1, <2>2, ReceiveTyped DEF ReceiveResponse
  <1>3. CASE \E r \in Requests, public \in BOOLEAN :
               ReceiveModeration(p, r, public)
    <2>1. PICK r \in Requests, public \in BOOLEAN :
            ReceiveModeration(p, r, public)
      BY <1>3
    <2>2. [op |-> "moderate", review |-> r, public |-> public] \in UpdateRequest
      BY DEF UpdateRequest, ModerateRequest
    <2>. QED  BY <2>1, <2>2, ReceiveTyped DEF ReceiveModeration
  <1>4. CASE Throw(p)
    BY <1>4, ThrowTyped
  <1>5. CASE /\ UNCHANGED <<reviews, counts, ratings, preceded>>
             /\ \/ pc[p] = "findBooking" /\ Goto(p, "findExisting")
                \/ pc[p] = "findExisting" /\ Goto(p, "write")
    <2>1. HandlersOK'
      BY <1>5, GotoTyped, CreatorsRequest DEF CreatePc, WritePc
    <2>. QED  BY <1>5, <1>a, <2>1 DEF TablesOK, RatingsOK, CountsOK, counts, ratings
  <1>6. CASE /\ UNCHANGED <<reviews, counts, ratings, preceded>>
             /\ pc[p] = "findReview" /\ Goto(p, "write")
             /\ UpdateAllowed(req[p])
    <2>1. HandlersOK'
      BY <1>6, GotoTyped DEF UpdatePc, WritePc, HandlersOK, UpdateAllowed
    <2>. QED  BY <1>6, <1>a, <2>1 DEF TablesOK, RatingsOK, CountsOK, counts, ratings
  <1>7. CASE BeginWrite(p)
    <2>1. pc[p] \in WritePc
      BY <1>7 DEF BeginWrite, WritePc
    <2>2. HandlersOK'
      BY <1>7, <2>1, GotoTyped DEF BeginWrite, WritePc
    <2>3. Public(After(p), ListingFor(p)) \subseteq Requests
      BY <2>1, AfterFacts, PublicSubset
    <2>. QED  BY <1>7, <1>a, <2>2, <2>3 DEF BeginWrite, TablesOK, RatingsOK,
                                           CountsOK, ratings
  <1>8. CASE LockListing(p)
    <2>. DEFINE others == {l \in Listings : HostOf[l] = HostFor(p)}
                            \ {ListingFor(p)}
    <2>1. HandlersOK'
      BY <1>8, GotoTyped DEF LockListing, WritePc
    <2>2. /\ UNION {shown[l] : l \in others} \subseteq Requests
          /\ UNION {stale[l] : l \in others} \subseteq Requests
      BY DEF RatingsOK
    <2>3. CountsOK'
      BY <1>8, <2>2 DEF LockListing, CountsOK
    <2>. QED  BY <1>8, <1>a, <2>1, <2>3 DEF LockListing, TablesOK, RatingsOK,
                                           ratings
  <1>9. CASE CommitWrite(p)
    BY <1>9, TypeCommit
  <1>10. CASE Aggregate(p)
    <2>1. HandlersOK'
      BY <1>10, GotoTyped, CreatorsRequest DEF Aggregate, CreatePc
    <2>2. Public(reviews, ListingFor(p)) \subseteq Requests
      BY PublicSubset DEF TablesOK
    <2>. QED  BY <1>10, <1>a, <2>1, <2>2 DEF Aggregate, TablesOK, RatingsOK,
                                            CountsOK, ratings
  <1>11. CASE UpdateListing(p)
    <2>1. HandlersOK'
      BY <1>11, GotoTyped, CreatorsRequest DEF UpdateListing, CreatePc
    <2>. QED  BY <1>11, <1>a, <2>1 DEF UpdateListing, TablesOK, RatingsOK,
                                      CountsOK
  <1>12. CASE AggregateHost(p)
    <2>1. HandlersOK'
      BY <1>12, GotoTyped, CreatorsRequest DEF AggregateHost, CreatePc
    <2>2. PublicOfHost(reviews, HostFor(p)) \subseteq Requests
      BY PublicSubset DEF TablesOK
    <2>. QED  BY <1>12, <1>a, <2>1, <2>2 DEF AggregateHost, TablesOK, RatingsOK,
                                            CountsOK, ratings
  <1>13. CASE UpdateHost(p)
    <2>1. HandlersOK' /\ CountsOK'
      BY <1>13, FinishTyped DEF UpdateHost
    <2>. QED  BY <1>13, <1>a, <2>1 DEF UpdateHost, TablesOK, RatingsOK, CountsOK
  <1>. QED  BY <1>1, <1>2, <1>3, <1>4, <1>5, <1>6, <1>7, <1>8, <1>9, <1>10,
               <1>11, <1>12, <1>13
            DEF Step, FindBooking, FindExisting, FindReview, RefuseDuplicate, Crash

----------------------------------------------------------------------------
(* The invariant *)

Inserted == {"aggregate", "updateListing", "aggregateHost", "updateHost", "done"}

\* A create that has a review in the table is past its insert.
Fresh == \A p \in Requests : p \in DOMAIN reviews => pc[p] \in Inserted

\* Open transactions are about different bookings, and one that inserts is
\* about a booking that has no review.
Transactions ==
  \A p \in Requests : InTransaction(p) =>
    /\ req[p].op = "create" => ~Reviewed(req[p].booking)
    /\ \A q \in Requests \ {p} : InTransaction(q) => BookingOf(q) # BookingOf(p)

\* What a handler has counted of a listing is what it should count now, but
\* for what it has missed.
CountedOK ==
  \A p \in Requests :
    /\ InTransaction(p) =>
         Differ(counted[p], Public(After(p), ListingFor(p))) \subseteq missed[p]
    /\ pc[p] = "updateListing" =>
         Differ(counted[p], Public(reviews, ListingFor(p))) \subseteq missed[p]

\* The same of a host.
HostCountedOK ==
  \A p \in Requests :
    /\ pc[p] = "locked" =>
         Differ(hostCounted[p], PublicOfHost(After(p), HostFor(p)))
           \subseteq hostMissed[p]
    /\ pc[p] = "updateHost" =>
         Differ(hostCounted[p], PublicOfHost(reviews, HostFor(p)))
           \subseteq hostMissed[p]

\* A response already stored when a handler is about to store another is one
\* the handler could not have read.
ResponsesOK ==
  \A p \in Requests : pc[p] \in WritePc /\ req[p].op = "respond" =>
    reviews[req[p].review].response \in preceded[p] \cup {"none"}

RInv == /\ TypeOK
        /\ Fresh
        /\ Transactions
        /\ OneReviewPerBooking
        /\ CountedOK
        /\ HostCountedOK
        /\ ListingRatingExplained
        /\ HostRatingExplained
        /\ ResponsesOK

----------------------------------------------------------------------------
(* What a step leaves alone *)

\* The other handlers, but for what they miss.
Alone(p) == \A q \in Requests \ {p} :
  /\ pc'[q] = pc[q] /\ req'[q] = req[q]
  /\ counted'[q] = counted[q] /\ hostCounted'[q] = hostCounted[q]

\* A step that is not a commit changes no review and has nobody miss anything.
Quiet(p) == /\ UNCHANGED reviews
            /\ \A q \in Requests \ {p} : /\ missed'[q] = missed[q]
                                         /\ hostMissed'[q] = hostMissed[q]
                                         /\ preceded'[q] = preceded[q]

LEMMA StepAlone ==
  ASSUME TypeOK, NEW p \in Requests, Step(p)
  PROVE  Alone(p) /\ (CommitWrite(p) \/ Quiet(p))
  <1>. USE DEF Alone, Quiet, TypeOK
  <1>1. CASE \/ \E u \in Users, b \in Bookings : ReceiveCreate(p, u, b)
             \/ \E u \in Users, r \in Requests : ReceiveResponse(p, u, r)
             \/ \E r \in Requests, public \in BOOLEAN :
                  ReceiveModeration(p, r, public)
    BY <1>1 DEF ReceiveCreate, ReceiveResponse, ReceiveModeration, Receive,
                counts
  <1>2. CASE Throw(p) \/ UpdateHost(p)
    BY <1>2 DEF Throw, UpdateHost, Finish
  <1>3. CASE \E next : Goto(p, next) /\ UNCHANGED <<reviews, counts, ratings, preceded>>
    BY <1>3 DEF Goto, counts
  <1>4. CASE BeginWrite(p) \/ LockListing(p)
    BY <1>4 DEF BeginWrite, LockListing, Goto
  <1>5. CASE CommitWrite(p)
    BY <1>5 DEF CommitWrite, Goto
  <1>6. CASE Aggregate(p) \/ UpdateListing(p) \/ AggregateHost(p)
    BY <1>6 DEF Aggregate, UpdateListing, AggregateHost, Goto
  <1>. QED  BY <1>1, <1>2, <1>3, <1>4, <1>5, <1>6
            DEF Step, FindBooking, FindExisting, FindReview, RefuseDuplicate,
                Crash

\* What a handler's request refers to stays, while no review changes.
LEMMA Steady ==
  ASSUME NEW q, req'[q] = req[q], UNCHANGED reviews
  PROVE  /\ BookingOf(q)' = BookingOf(q) /\ ListingFor(q)' = ListingFor(q)
         /\ HostFor(q)' = HostFor(q) /\ Target(q)' = Target(q)
         /\ After(q)' = After(q)
  BY DEF BookingOf, ListingFor, HostFor, Target, After, Row

\* The control states a step of p may lead to.
LEMMA StepControl ==
  ASSUME TypeOK, NEW p \in Requests, Step(p)
  PROVE  /\ pc'[p] = "counted" => BeginWrite(p)
         /\ pc'[p] = "locked" => LockListing(p)
         /\ pc'[p] = "updateListing" => Aggregate(p)
         /\ pc'[p] = "updateHost" => AggregateHost(p)
         /\ pc'[p] \notin Inserted => pc[p] \notin Inserted
         /\ CommitWrite(p) => pc'[p] \in Inserted
         /\ req[p].op = "respond" /\ pc'[p] = "write" => FindReview(p)
         /\ pc'[p] = "write" => ~BeginWrite(p) /\ ~LockListing(p)
  <1>. USE DEF TypeOK, Inserted, Finish, Goto
  <1>1. CASE \/ \E u \in Users, b \in Bookings : ReceiveCreate(p, u, b)
             \/ \E u \in Users, r \in Requests : ReceiveResponse(p, u, r)
             \/ \E r \in Requests, public \in BOOLEAN :
                  ReceiveModeration(p, r, public)
    BY <1>1 DEF ReceiveCreate, ReceiveResponse, ReceiveModeration, Receive,
                BeginWrite, LockListing, CommitWrite
  <1>2. CASE Throw(p)
    BY <1>2 DEF Throw
  <1>3. CASE UpdateHost(p)
    BY <1>3 DEF UpdateHost
  <1>4. CASE FindBooking(p) \/ FindExisting(p) \/ FindReview(p)
    BY <1>4 DEF FindBooking, FindExisting, FindReview, Throw, CreatePc,
                CreateRequest, BeginWrite, LockListing, CommitWrite
  <1>5. CASE BeginWrite(p) \/ LockListing(p)
    BY <1>5 DEF BeginWrite, LockListing, CommitWrite
  <1>6. CASE CommitWrite(p)
    BY <1>6 DEF CommitWrite
  <1>7. CASE Aggregate(p) \/ UpdateListing(p) \/ AggregateHost(p)
    BY <1>7 DEF Aggregate, UpdateListing, AggregateHost, CommitWrite
  <1>. QED  BY <1>1, <1>2, <1>3, <1>4, <1>5, <1>6, <1>7
            DEF Step, RefuseDuplicate, Crash

----------------------------------------------------------------------------
(* What a commit changes *)

\* The row of an update belongs to the booking it is about; a create has no
\* row yet.
LEMMA TargetRow ==
  ASSUME TypeOK, Fresh, NEW p \in Requests, pc[p] \in WritePc
  PROVE  /\ req[p].op = "create" => Target(p) = p /\ p \notin DOMAIN reviews
         /\ Target(p) \in DOMAIN reviews =>
              reviews[Target(p)].booking = BookingOf(p)
         /\ req[p].op # "create" => Target(p) = req[p].review
  BY DEF Fresh, Inserted, WritePc, Target, BookingOf

\* The table as a commit leaves it.
LEMMA Committed ==
  ASSUME TypeOK, Fresh, NEW p \in Requests, CommitWrite(p)
  PROVE  /\ pc[p] \in WritePc /\ InTransaction(p) /\ reviews' = After(p)
         /\ DOMAIN reviews' = DOMAIN reviews \cup {Target(p)}
         /\ reviews'[Target(p)] = Row(p)
         /\ Row(p).booking = BookingOf(p)
         /\ \A r \in DOMAIN reviews : r # Target(p) => reviews'[r] = reviews[r]
         /\ Target(p) \in DOMAIN reviews =>
              reviews[Target(p)].booking = BookingOf(p)
         /\ \A r \in DOMAIN reviews : reviews'[r].booking = reviews[r].booking
  <1>1. pc[p] \in WritePc /\ InTransaction(p) /\ reviews' = After(p)
    BY DEF CommitWrite, WritePc, InTransaction
  <1>2. /\ DOMAIN After(p) = DOMAIN reviews \cup {Target(p)}
        /\ After(p)[Target(p)] = Row(p)
        /\ \A r \in DOMAIN reviews : r # Target(p) => After(p)[r] = reviews[r]
    BY <1>1, AfterFacts
  <1>3. Row(p).booking = BookingOf(p)
    BY <1>1, WriteFacts
  <1>4. Target(p) \in DOMAIN reviews => reviews[Target(p)].booking = BookingOf(p)
    BY <1>1, TargetRow
  <1>. QED  BY <1>1, <1>2, <1>3, <1>4

\* The public sees another set of reviews of a listing only if it is the
\* writer's listing, and only by the writer's target.
LEMMA CommitChanges ==
  ASSUME TypeOK, Fresh, NEW p \in Requests, CommitWrite(p), NEW r,
         NEW l \in Listings
  PROVE  ~(r \in Public(reviews, l) <=> r \in Public(reviews', l))
           => r \in Changed(p) /\ l = ListingFor(p)
  <1>1. CASE r = Target(p)
    BY <1>1, Committed
       DEF Public, ListingOfReview, Changed, ListingFor
  <1>2. CASE r # Target(p)
    BY <1>2, Committed DEF Public, ListingOfReview
  <1>. QED  BY <1>1, <1>2

LEMMA CommitChangesHost ==
  ASSUME TypeOK, Fresh, NEW p \in Requests, CommitWrite(p), NEW r,
         NEW h \in Users
  PROVE  ~(r \in PublicOfHost(reviews, h) <=> r \in PublicOfHost(reviews', h))
           => r \in Changed(p) /\ h = HostFor(p)
  <1>1. CASE r = Target(p)
    BY <1>1, Committed
       DEF PublicOfHost, ListingOfReview, Changed, ListingFor, HostFor
  <1>2. CASE r # Target(p)
    BY <1>2, Committed DEF PublicOfHost, ListingOfReview
  <1>. QED  BY <1>1, <1>2

\* Another handler's booking is still the one it was.
LEMMA OtherBooking ==
  ASSUME TypeOK, Fresh, NEW p \in Requests, CommitWrite(p),
         NEW q \in Requests \ {p}, pc[q] \in CreatePc \cup WritePc, Alone(p)
  PROVE  /\ BookingOf(q)' = BookingOf(q) /\ ListingFor(q)' = ListingFor(q)
         /\ HostFor(q)' = HostFor(q) /\ Target(q)' = Target(q)
  <1>1. pc[p] \in WritePc /\ reviews' = After(p)
    BY DEF CommitWrite, WritePc
  <1>2. req'[q] = req[q]
    BY DEF Alone
  <1>3. Target(q)' = Target(q)
    BY <1>2 DEF Target
  <1>4. BookingOf(q)' = BookingOf(q)
    <2>1. CASE req[q].op = "create"
      BY <1>2, <2>1 DEF BookingOf
    <2>2. CASE req[q].op # "create"
      <3>1. req[q].review \in DOMAIN reviews
        BY <2>2 DEF TypeOK, CreateRequest, UpdateRequest, CreatePc, WritePc
      <3>2. reviews'[req[q].review].booking = reviews[req[q].review].booking
        BY <3>1, Committed
      <3>. QED  BY <1>2, <2>2, <3>2 DEF BookingOf
    <2>. QED  BY <2>1, <2>2
  <1>. QED  BY <1>3, <1>4 DEF ListingFor, HostFor

\* Two open transactions write different rows, and neither changes what the
\* other is about to write.
LEMMA OtherRow ==
  ASSUME TypeOK, Fresh, Transactions, NEW p \in Requests, CommitWrite(p),
         NEW q \in Requests \ {p}, InTransaction(q), Alone(p)
  PROVE  Target(q) # Target(p) /\ Row(q)' = Row(q)
  <1>1. pc[p] \in WritePc /\ pc[q] \in WritePc /\ InTransaction(p)
        /\ reviews' = After(p)
    BY DEF CommitWrite, WritePc, InTransaction
  <1>2. BookingOf(q) # BookingOf(p)
    BY <1>1 DEF Transactions
  <1>3. Target(q) # Target(p)
    <2>1. SUFFICES ASSUME Target(q) = Target(p)
                   PROVE  FALSE
      OBVIOUS
    <2>2. CASE req[p].op # "create" \/ req[q].op # "create"
      BY <1>1, <1>2, <2>1, <2>2, TargetRow, WriteFacts
    <2>3. CASE req[p].op = "create" /\ req[q].op = "create"
      BY <1>1, <2>1, <2>3, TargetRow
    <2>. QED  BY <2>2, <2>3
  <1>4. req'[q] = req[q]
    BY DEF Alone
  <1>5. CASE req[q].op = "create"
    BY <1>4, <1>3, <1>5 DEF Row
  <1>6. CASE req[q].op # "create"
    <2>1. Target(q) \in DOMAIN reviews /\ Target(q) = req[q].review
      BY <1>1, <1>6, WriteFacts, TargetRow
    <2>2. reviews'[req[q].review] = reviews[req[q].review]
      BY <1>1, <1>3, <2>1, AfterFacts
    <2>. QED  BY <1>3, <1>4, <2>2 DEF Row
  <1>. QED  BY <1>5, <1>6

\* What the public will see when q commits changes only by p's target.
LEMMA OtherAfter ==
  ASSUME TypeOK, TypeOK', Fresh, Transactions, NEW p \in Requests,
         CommitWrite(p), NEW q \in Requests \ {p}, InTransaction(q), Alone(p),
         NEW r
  PROVE  /\ \A l \in Listings :
              ~(r \in Public(After(q), l) <=> r \in Public(After(q)', l))
                => r \in Changed(p) /\ l = ListingFor(p)
         /\ \A h \in Users :
              ~(r \in PublicOfHost(After(q), h) <=> r \in PublicOfHost(After(q)', h))
                => r \in Changed(p) /\ h = HostFor(p)
  <1>1. pc[q] \in WritePc /\ pc'[q] \in WritePc
    BY DEF InTransaction, WritePc, Alone
  <1>2. Target(q)' = Target(q) /\ Row(q)' = Row(q)
    BY <1>1, OtherBooking, OtherRow
  <1>3. /\ DOMAIN After(q) = DOMAIN reviews \cup {Target(q)}
        /\ After(q)[Target(q)] = Row(q)
        /\ \A s \in DOMAIN reviews : s # Target(q) => After(q)[s] = reviews[s]
    BY DEF After
  <1>4. /\ DOMAIN After(q)' = DOMAIN reviews' \cup {Target(q)}
        /\ After(q)'[Target(q)] = Row(q)
        /\ \A s \in DOMAIN reviews' : s # Target(q) => After(q)'[s] = reviews'[s]
    BY <1>2 DEF After
  <1>5. CASE r = Target(q)
    BY <1>3, <1>4, <1>5 DEF Public, PublicOfHost, ListingOfReview
  <1>6. CASE r # Target(q)
    <2>1. \A l \in Listings : /\ r \in Public(After(q), l) <=> r \in Public(reviews, l)
                              /\ r \in Public(After(q)', l) <=> r \in Public(reviews', l)
      BY <1>3, <1>4, <1>6 DEF Public, ListingOfReview
    <2>2. \A h \in Users :
            /\ r \in PublicOfHost(After(q), h) <=> r \in PublicOfHost(reviews, h)
            /\ r \in PublicOfHost(After(q)', h) <=> r \in PublicOfHost(reviews', h)
      BY <1>3, <1>4, <1>6 DEF PublicOfHost, ListingOfReview
    <2>. QED  BY <2>1, <2>2, CommitChanges, CommitChangesHost
  <1>. QED  BY <1>5, <1>6

----------------------------------------------------------------------------
(* Each part of the invariant is preserved *)

LEMMA FreshStep ==
  ASSUME TypeOK, Fresh, NEW p \in Requests, Step(p)
  PROVE  Fresh'
  <1>1. Alone(p) /\ (CommitWrite(p) \/ Quiet(p))
    BY StepAlone
  <1>2. /\ pc'[p] \notin Inserted => pc[p] \notin Inserted
        /\ CommitWrite(p) => pc'[p] \in Inserted
    BY StepControl
  <1>3. CASE Quiet(p)
    BY <1>1, <1>2, <1>3 DEF Fresh, Quiet, Alone
  <1>4. CASE CommitWrite(p)
    <2>1. \A q \in Requests \ {p} : q \in DOMAIN reviews' => q \in DOMAIN reviews
      <3>1. req[p].op = "create" => Target(p) = p
        BY DEF Target
      <3>2. req[p].op # "create" => Target(p) \in DOMAIN reviews
        BY <1>4, Committed, WriteFacts
      <3>. QED  BY <1>4, <3>1, <3>2, Committed
    <2>. QED  BY <1>1, <1>2, <1>4, <2>1 DEF Fresh, Alone
  <1>. QED  BY <1>1, <1>3, <1>4

\* The first half of Transactions, and the second.
LEMMA UnreviewedStep ==
  ASSUME TypeOK, Fresh, Transactions, NEW p \in Requests, Step(p),
         NEW q \in Requests, InTransaction(q)', req'[q].op = "create"
  PROVE  ~Reviewed(req[q].booking)'
  <1>1. Alone(p) /\ (CommitWrite(p) \/ Quiet(p))
    BY StepAlone
  <1>2. CASE q # p /\ CommitWrite(p)
    <2>1. InTransaction(q) /\ req'[q] = req[q]
      BY <1>1, <1>2 DEF Alone, InTransaction
    <2>2. ~Reviewed(req[q].booking) /\ BookingOf(p) # BookingOf(q)
      BY <1>2, <2>1, Committed DEF Transactions
    <2>3. BookingOf(q) = req[q].booking
      BY <2>1 DEF BookingOf
    <2>. QED  BY <1>2, <2>1, <2>2, <2>3, Committed DEF Reviewed
  <1>3. CASE q # p /\ Quiet(p)
    BY <1>1, <1>3 DEF Alone, InTransaction, Transactions, Quiet, Reviewed
  <1>4. CASE q = p
    <2>1. BeginWrite(p) \/ LockListing(p)
      BY <1>4, StepControl DEF InTransaction
    <2>2. req' = req /\ UNCHANGED reviews
      BY <2>1 DEF BeginWrite, LockListing, Goto
    <2>. QED  BY <1>4, <2>1, <2>2
              DEF BeginWrite, LockListing, Transactions, InTransaction, Reviewed
  <1>. QED  BY <1>1, <1>2, <1>3, <1>4

LEMMA TransactionsStep ==
  ASSUME TypeOK, Fresh, Transactions, NEW p \in Requests, Step(p)
  PROVE  Transactions'
  <1>1. Alone(p) /\ (CommitWrite(p) \/ Quiet(p))
    BY StepAlone
  <1>2. \A q \in Requests \ {p} :
          InTransaction(q)' => InTransaction(q) /\ BookingOf(q)' = BookingOf(q)
    <2>1. SUFFICES ASSUME NEW q \in Requests \ {p}, InTransaction(q)'
                   PROVE  InTransaction(q) /\ BookingOf(q)' = BookingOf(q)
      OBVIOUS
    <2>2. InTransaction(q) /\ pc[q] \in WritePc /\ req'[q] = req[q]
      BY <1>1, <2>1 DEF Alone, InTransaction, WritePc
    <2>3. CASE CommitWrite(p)
      BY <1>1, <2>2, <2>3, OtherBooking
    <2>4. CASE Quiet(p)
      BY <2>2, <2>4, Steady DEF Quiet
    <2>. QED  BY <1>1, <2>2, <2>3, <2>4
  <1>3. InTransaction(p)' =>
          \A q \in Requests \ {p} : InTransaction(q) => BookingOf(q) # BookingOf(p)'
    <2>1. SUFFICES ASSUME InTransaction(p)', NEW q \in Requests \ {p},
                          InTransaction(q)
                   PROVE  BookingOf(q) # BookingOf(p)'
      OBVIOUS
    <2>2. BeginWrite(p) \/ LockListing(p)
      BY <2>1, StepControl DEF InTransaction
    <2>3. req' = req /\ UNCHANGED reviews
      BY <2>2 DEF BeginWrite, LockListing, Goto
    <2>4. BookingOf(p)' = BookingOf(p)
      BY <2>3, Steady
    <2>5. CASE BeginWrite(p)
      BY <2>1, <2>4, <2>5 DEF BeginWrite, RowFree
    <2>6. CASE LockListing(p)
      BY <2>1, <2>4, <2>6 DEF LockListing, Transactions, InTransaction
    <2>. QED  BY <2>2, <2>5, <2>6
  <1>4. \A q, s \in Requests :
          InTransaction(q)' /\ InTransaction(s)' /\ q # s
            => BookingOf(q)' # BookingOf(s)'
    BY <1>2, <1>3 DEF Transactions
  <1>5. \A q \in Requests : InTransaction(q)' /\ req'[q].op = "create"
                              => ~Reviewed(req[q].booking)'
    BY UnreviewedStep
  <1>. QED  BY <1>4, <1>5 DEF Transactions

LEMMA OneReviewStep ==
  ASSUME TypeOK, Fresh, Transactions, OneReviewPerBooking,
         NEW p \in Requests, Step(p)
  PROVE  OneReviewPerBooking'
  <1>1. CommitWrite(p) \/ Quiet(p)
    BY StepAlone
  <1>2. CASE Quiet(p)
    BY <1>2 DEF Quiet, OneReviewPerBooking
  <1>3. CASE CommitWrite(p)
    <2>1. CASE req[p].op = "create"
      <3>1. \A r \in DOMAIN reviews : reviews[r].booking # BookingOf(p)
        BY <1>3, <2>1, Committed DEF Transactions, Reviewed, BookingOf
      <3>2. /\ DOMAIN reviews' = DOMAIN reviews \cup {Target(p)}
            /\ reviews'[Target(p)].booking = BookingOf(p)
            /\ \A r \in DOMAIN reviews : reviews'[r].booking = reviews[r].booking
        BY <1>3, Committed
      <3>. QED  BY <3>1, <3>2 DEF OneReviewPerBooking
    <2>2. CASE req[p].op # "create"
      <3>1. Target(p) \in DOMAIN reviews
        BY <1>3, <2>2, Committed, WriteFacts
      <3>2. /\ DOMAIN reviews' = DOMAIN reviews
            /\ \A r \in DOMAIN reviews : reviews'[r].booking = reviews[r].booking
        BY <1>3, <3>1, Committed
      <3>. QED  BY <3>2 DEF OneReviewPerBooking
    <2>. QED  BY <2>1, <2>2
  <1>. QED  BY <1>1, <1>2, <1>3

LEMMA ResponsesStep ==
  ASSUME TypeOK, TypeOK', Fresh, ResponsesOK, NEW p \in Requests, Step(p)
  PROVE  ResponsesOK'
  <1>1. Alone(p) /\ (CommitWrite(p) \/ Quiet(p))
    BY StepAlone
  <1>2. SUFFICES ASSUME NEW q \in Requests, pc'[q] \in WritePc,
                        req'[q].op = "respond"
                 PROVE  reviews'[req'[q].review].response
                          \in preceded'[q] \cup {"none"}
    BY DEF ResponsesOK
  <1>3. CASE q # p /\ Quiet(p)
    BY <1>1, <1>2, <1>3 DEF Quiet, Alone, ResponsesOK
  <1>4. CASE q # p /\ CommitWrite(p)
    <2>. DEFINE r == req[q].review
    <2>1. pc[q] \in WritePc /\ req'[q] = req[q]
      BY <1>1, <1>2, <1>4 DEF Alone
    <2>2. r \in DOMAIN reviews /\ reviews[r].response \in preceded[q] \cup {"none"}
      BY <1>2, <2>1 DEF ResponsesOK, TypeOK, CreateRequest
    <2>3. preceded[q] \subseteq preceded'[q]
      BY <1>4 DEF CommitWrite, Precede
    <2>4. CASE r # Target(p)
      BY <1>4, <2>1, <2>2, <2>3, <2>4, Committed
    <2>5. CASE r = Target(p) /\ req[p].op = "respond"
      <3>1. req[p].review = r /\ reviews'[r] = Row(p)
        BY <1>4, <2>5, Committed, TargetRow
      <3>2. Row(p).response = p
        BY <2>2, <2>5, <3>1 DEF Row, TypeOK, Review
      <3>3. p \in preceded'[q]
        BY <1>2, <1>4, <2>1, <2>5, <3>1 DEF CommitWrite, Precede
      <3>. QED  BY <2>1, <3>1, <3>2, <3>3
    <2>6. CASE r = Target(p) /\ req[p].op # "respond"
      <3>1. pc[p] \in WritePc
        BY <1>4, Committed
      <3>2. req[p].op = "moderate" /\ req[p].review = r
        BY <2>2, <2>6, <3>1, TargetRow
           DEF TypeOK, CreateRequest, UpdateRequest, ResponseRequest,
               ModerateRequest
      <3>3. reviews'[r] = [reviews[r] EXCEPT !.public = req[p].public]
        BY <1>4, <2>6, <3>2, Committed DEF Row
      <3>4. reviews'[r].response = reviews[r].response
        BY <2>2, <3>3 DEF TypeOK, Review
      <3>. QED  BY <2>1, <2>2, <2>3, <3>4
    <2>. QED  BY <2>4, <2>5, <2>6
  <1>5. CASE q = p
    <2>1. CASE pc'[p] = "write"
      <3>1. CASE req[p].op = "respond"
        <4>1. FindReview(p)
          BY <2>1, <3>1, StepControl
        <4>2. req' = req /\ UNCHANGED reviews /\ reviews[req[p].review].response = "none"
          BY <1>2, <1>5, <2>1, <3>1, <4>1
             DEF FindReview, UpdateAllowed, Goto, Throw, Finish, TypeOK
        <4>. QED  BY <1>5, <4>2
      <3>2. CASE req[p].op # "respond"
        BY <1>2, <1>5, <2>1, <3>2 DEF Step, ReceiveCreate, ReceiveResponse,
             ReceiveModeration, Receive, FindBooking, FindExisting, FindReview,
             Throw, Finish, Goto, BeginWrite, RefuseDuplicate, LockListing,
             CommitWrite, Aggregate, UpdateListing, AggregateHost, UpdateHost,
             Crash, TypeOK
      <3>. QED  BY <3>1, <3>2
    <2>2. CASE pc'[p] # "write"
      <3>1. BeginWrite(p) \/ LockListing(p)
        BY <1>2, <1>5, <2>2, StepControl DEF WritePc
      <3>2. req' = req /\ UNCHANGED <<reviews, preceded>> /\ pc[p] \in WritePc
        BY <3>1 DEF BeginWrite, LockListing, Goto, WritePc
      <3>. QED  BY <1>2, <1>5, <3>2 DEF ResponsesOK
    <2>. QED  BY <2>1, <2>2
  <1>. QED  BY <1>1, <1>3, <1>4, <1>5

\* p's own count, and then everyone else's.
LEMMA CountedStep ==
  ASSUME TypeOK, TypeOK', Fresh, Transactions, CountedOK,
         NEW p \in Requests, Step(p)
  PROVE  CountedOK'
  <1>1. Alone(p) /\ (CommitWrite(p) \/ Quiet(p))
    BY StepAlone
  <1>2. SUFFICES ASSUME NEW q \in Requests
                 PROVE  /\ InTransaction(q)' =>
                             Differ(counted'[q], Public(After(q)', ListingFor(q)'))
                               \subseteq missed'[q]
                        /\ pc'[q] = "updateListing" =>
                             Differ(counted'[q], Public(reviews', ListingFor(q)'))
                               \subseteq missed'[q]
    BY DEF CountedOK
  <1>3. CASE q = p
    <2>1. CASE BeginWrite(p)
      <3>1. /\ counted'[p] = Public(After(p), ListingFor(p))
            /\ After(p)' = After(p) /\ ListingFor(p)' = ListingFor(p)
            /\ pc'[p] = "counted"
        BY <2>1, Steady DEF BeginWrite, Goto, TypeOK
      <3>. QED  BY <1>3, <3>1 DEF Differ
    <2>2. CASE LockListing(p)
      <3>1. /\ counted'[p] = counted[p] /\ missed'[p] = missed[p]
            /\ After(p)' = After(p) /\ ListingFor(p)' = ListingFor(p)
            /\ pc'[p] = "locked" /\ InTransaction(p)
        BY <2>2, Steady DEF LockListing, Goto, TypeOK, InTransaction
      <3>. QED  BY <1>3, <3>1 DEF CountedOK
    <2>3. CASE Aggregate(p)
      <3>1. /\ counted'[p] = Public(reviews', ListingFor(p)')
            /\ pc'[p] = "updateListing"
        BY <2>3, Steady DEF Aggregate, Goto, TypeOK
      <3>. QED  BY <1>3, <3>1 DEF Differ, InTransaction
    <2>. QED  BY <1>3, <2>1, <2>2, <2>3, StepControl DEF InTransaction
  <1>4. CASE q # p /\ Quiet(p)
    <2>1. /\ pc'[q] = pc[q] /\ counted'[q] = counted[q] /\ missed'[q] = missed[q]
          /\ After(q)' = After(q) /\ ListingFor(q)' = ListingFor(q)
      BY <1>1, <1>4, Steady DEF Quiet, Alone
    <2>. QED  BY <1>4, <2>1 DEF CountedOK, InTransaction, Quiet
  <1>5. CASE q # p /\ CommitWrite(p)
    <2>1. SUFFICES ASSUME pc[q] \in {"counted", "locked", "updateListing"}
                   PROVE  /\ InTransaction(q) =>
                               Differ(counted[q], Public(After(q)', ListingFor(q)))
                                 \subseteq missed'[q]
                          /\ pc[q] = "updateListing" =>
                               Differ(counted[q], Public(reviews', ListingFor(q)))
                                 \subseteq missed'[q]
      <3>1. pc'[q] = pc[q] /\ counted'[q] = counted[q]
        BY <1>1, <1>5 DEF Alone
      <3>2. pc[q] \in {"counted", "locked", "updateListing"} =>
              ListingFor(q)' = ListingFor(q)
        BY <1>1, <1>5, OtherBooking DEF CreatePc, WritePc
      <3>. QED  BY <2>1, <3>1, <3>2 DEF InTransaction
    <2>2. ListingFor(q) \in Listings
      BY <2>1, WriteFacts DEF CreatePc, WritePc
    <2>3. /\ missed[q] \subseteq missed'[q]
          /\ ListingFor(q) = ListingFor(p) => Changed(p) \subseteq missed'[q]
      BY <1>5, <2>1 DEF CommitWrite, Miss
    <2>4. ASSUME InTransaction(q)
          PROVE  Differ(counted[q], Public(After(q)', ListingFor(q)))
                   \subseteq missed'[q]
      <3>1. \A r : ~(r \in Public(After(q), ListingFor(q))
                      <=> r \in Public(After(q)', ListingFor(q)))
                     => r \in missed'[q]
        BY <1>1, <1>5, <2>2, <2>3, <2>4, OtherAfter
      <3>2. Differ(counted[q], Public(After(q), ListingFor(q))) \subseteq missed[q]
        BY <2>4 DEF CountedOK
      <3>. QED  BY <2>3, <3>1, <3>2 DEF Differ
    <2>5. ASSUME pc[q] = "updateListing"
          PROVE  Differ(counted[q], Public(reviews', ListingFor(q)))
                   \subseteq missed'[q]
      <3>1. \A r : ~(r \in Public(reviews, ListingFor(q))
                      <=> r \in Public(reviews', ListingFor(q)))
                     => r \in missed'[q]
        BY <1>5, <2>2, <2>3, CommitChanges
      <3>2. Differ(counted[q], Public(reviews, ListingFor(q))) \subseteq missed[q]
        BY <2>5 DEF CountedOK
      <3>. QED  BY <2>3, <3>1, <3>2 DEF Differ
    <2>. QED  BY <2>4, <2>5
  <1>. QED  BY <1>1, <1>3, <1>4, <1>5

\* What a listing, or a host, shows changes in three statements only.
LEMMA RatingsKept ==
  ASSUME NEW p \in Requests, Step(p)
  PROVE  /\ CommitWrite(p) \/ UpdateListing(p) \/ UNCHANGED <<shown, stale>>
         /\ CommitWrite(p) \/ UpdateHost(p) \/ UNCHANGED <<hostShown, hostStale>>
  BY DEF Step, ReceiveCreate, ReceiveResponse, ReceiveModeration, Receive,
         FindBooking, FindExisting, FindReview, Throw, BeginWrite,
         RefuseDuplicate, LockListing, Aggregate, UpdateListing, AggregateHost,
         UpdateHost, Crash, ratings

LEMMA ListingStep ==
  ASSUME TypeOK, Fresh, CountedOK, ListingRatingExplained,
         NEW p \in Requests, Step(p)
  PROVE  ListingRatingExplained'
  <1>1. CASE CommitWrite(p)
    <2>1. /\ ListingFor(p) \in Listings
          /\ shown' = [shown EXCEPT ![ListingFor(p)] = counted[p]]
          /\ stale' = [stale EXCEPT ![ListingFor(p)] = missed[p]]
          /\ InTransaction(p) /\ reviews' = After(p)
      BY <1>1, Committed, WriteFacts DEF CommitWrite
    <2>2. Differ(counted[p], Public(reviews', ListingFor(p))) \subseteq missed[p]
      BY <2>1 DEF CountedOK
    <2>3. \A l \in Listings \ {ListingFor(p)} :
            \A r : r \in Public(reviews, l) <=> r \in Public(reviews', l)
      BY <1>1, CommitChanges
    <2>. QED  BY <2>1, <2>2, <2>3 DEF ListingRatingExplained, TypeOK, Differ
  <1>2. CASE UpdateListing(p)
    <2>1. /\ ListingFor(p) \in Listings
          /\ shown' = [shown EXCEPT ![ListingFor(p)] = counted[p]]
          /\ stale' = [stale EXCEPT ![ListingFor(p)] = missed[p]]
          /\ UNCHANGED reviews /\ pc[p] = "updateListing"
      BY <1>2, WriteFacts DEF UpdateListing, CreatePc
    <2>2. Differ(counted[p], Public(reviews, ListingFor(p))) \subseteq missed[p]
      BY <2>1 DEF CountedOK
    <2>. QED  BY <2>1, <2>2 DEF ListingRatingExplained, TypeOK
  <1>3. CASE UNCHANGED <<shown, stale, reviews>>
    BY <1>3 DEF ListingRatingExplained
  <1>. QED  BY <1>1, <1>2, <1>3, RatingsKept, StepAlone DEF Quiet

\* The count of a host that a transaction makes: its own listing as it will be,
\* the others as they are shown.
LEMMA HostCount ==
  ASSUME TypeOK, Fresh, CountedOK, ListingRatingExplained,
         NEW p \in Requests, LockListing(p)
  PROVE  Differ(hostCounted'[p], PublicOfHost(After(p), HostFor(p)))
           \subseteq hostMissed'[p]
  <1>. DEFINE l0 == ListingFor(p)
              others == {l \in Listings : HostOf[l] = HostFor(p)} \ {l0}
  <1>1. /\ hostCounted'[p] = counted[p] \cup UNION {shown[l] : l \in others}
        /\ hostMissed'[p] = missed[p] \cup UNION {stale[l] : l \in others}
        /\ pc[p] \in WritePc /\ InTransaction(p)
    BY DEF LockListing, TypeOK, WritePc, InTransaction
  <1>2. Differ(counted[p], Public(After(p), l0)) \subseteq missed[p]
    BY <1>1 DEF CountedOK
  <1>3. l0 \in Listings /\ HostFor(p) = HostOf[l0]
    BY <1>1, WriteFacts DEF HostFor
  <1>4. /\ DOMAIN After(p) = DOMAIN reviews \cup {Target(p)}
        /\ After(p)[Target(p)].booking = BookingOf(p)
        /\ \A r \in DOMAIN reviews : r # Target(p) => After(p)[r] = reviews[r]
        /\ Target(p) \in DOMAIN reviews => reviews[Target(p)].booking = BookingOf(p)
        /\ \A r \in DOMAIN After(p) : ListingOfReview(After(p), r) \in Listings
    <2>1. \A r \in DOMAIN After(p) : After(p)[r].booking \in Bookings
      BY <1>1, AfterFacts DEF Review
    <2>. QED  BY <1>1, <2>1, AfterFacts, WriteFacts, TargetRow, BookingsAssumption
              DEF ListingOfReview
  <1>5. \A l \in others : \A r : r \in Public(After(p), l) <=> r \in Public(reviews, l)
    BY <1>4 DEF Public, ListingOfReview, ListingFor
  <1>6. \A r : r \in PublicOfHost(After(p), HostFor(p)) <=>
                 \/ r \in Public(After(p), l0)
                 \/ \E l \in others : r \in Public(After(p), l)
    BY <1>3, <1>4 DEF Public, PublicOfHost
  <1>7. \A l \in others : Differ(shown[l], Public(reviews, l)) \subseteq stale[l]
    BY DEF ListingRatingExplained
  <1>. SUFFICES ASSUME NEW r, r \in Differ(hostCounted'[p], PublicOfHost(After(p), HostFor(p)))
                PROVE  r \in hostMissed'[p]
    OBVIOUS
  <1>8. CASE r \in Differ(counted[p], Public(After(p), l0))
    BY <1>1, <1>2, <1>8
  <1>9. CASE \E l \in others : r \in Differ(shown[l], Public(reviews, l))
    BY <1>1, <1>7, <1>9
  <1>10. \/ r \in Differ(counted[p], Public(After(p), l0))
         \/ \E l \in others : r \in Differ(shown[l], Public(reviews, l))
    BY <1>1, <1>5, <1>6 DEF Differ
  <1>. QED  BY <1>8, <1>9, <1>10

LEMMA HostCountedStep ==
  ASSUME TypeOK, TypeOK', Fresh, Transactions, CountedOK, HostCountedOK,
         ListingRatingExplained, NEW p \in Requests, Step(p)
  PROVE  HostCountedOK'
  <1>1. Alone(p) /\ (CommitWrite(p) \/ Quiet(p))
    BY StepAlone
  <1>2. SUFFICES ASSUME NEW q \in Requests
                 PROVE  /\ pc'[q] = "locked" =>
                             Differ(hostCounted'[q], PublicOfHost(After(q)', HostFor(q)'))
                               \subseteq hostMissed'[q]
                        /\ pc'[q] = "updateHost" =>
                             Differ(hostCounted'[q], PublicOfHost(reviews', HostFor(q)'))
                               \subseteq hostMissed'[q]
    BY DEF HostCountedOK
  <1>3. CASE q = p
    <2>1. CASE LockListing(p)
      <3>1. /\ After(p)' = After(p) /\ HostFor(p)' = HostFor(p)
            /\ pc'[p] = "locked"
        BY <2>1, Steady DEF LockListing, Goto, TypeOK
      <3>. QED  BY <1>3, <2>1, <3>1, HostCount
    <2>2. CASE AggregateHost(p)
      <3>1. /\ hostCounted'[p] = PublicOfHost(reviews', HostFor(p)')
            /\ pc'[p] = "updateHost"
        BY <2>2, Steady DEF AggregateHost, Goto, TypeOK
      <3>. QED  BY <1>3, <3>1 DEF Differ
    <2>. QED  BY <1>3, <2>1, <2>2, StepControl
  <1>4. CASE q # p /\ Quiet(p)
    <2>1. /\ pc'[q] = pc[q] /\ hostCounted'[q] = hostCounted[q]
          /\ hostMissed'[q] = hostMissed[q]
          /\ After(q)' = After(q) /\ HostFor(q)' = HostFor(q)
      BY <1>1, <1>4, Steady DEF Quiet, Alone
    <2>. QED  BY <1>4, <2>1 DEF HostCountedOK, Quiet
  <1>5. CASE q # p /\ CommitWrite(p)
    <2>1. SUFFICES ASSUME pc[q] \in {"locked", "updateHost"}
                   PROVE  /\ pc[q] = "locked" =>
                               Differ(hostCounted[q], PublicOfHost(After(q)', HostFor(q)))
                                 \subseteq hostMissed'[q]
                          /\ pc[q] = "updateHost" =>
                               Differ(hostCounted[q], PublicOfHost(reviews', HostFor(q)))
                                 \subseteq hostMissed'[q]
      <3>1. pc'[q] = pc[q] /\ hostCounted'[q] = hostCounted[q]
        BY <1>1, <1>5 DEF Alone
      <3>2. pc[q] \in {"locked", "updateHost"} => HostFor(q)' = HostFor(q)
        BY <1>1, <1>5, OtherBooking DEF CreatePc, WritePc
      <3>. QED  BY <2>1, <3>1, <3>2
    <2>2. HostFor(q) \in Users
      BY <2>1, WriteFacts DEF CreatePc, WritePc
    <2>3. /\ hostMissed[q] \subseteq hostMissed'[q]
          /\ HostFor(q) = HostFor(p) => Changed(p) \subseteq hostMissed'[q]
      BY <1>5, <2>1 DEF CommitWrite, Miss
    <2>4. ASSUME pc[q] = "locked"
          PROVE  Differ(hostCounted[q], PublicOfHost(After(q)', HostFor(q)))
                   \subseteq hostMissed'[q]
      <3>1. \A r : ~(r \in PublicOfHost(After(q), HostFor(q))
                      <=> r \in PublicOfHost(After(q)', HostFor(q)))
                     => r \in hostMissed'[q]
        BY <1>1, <1>5, <2>2, <2>3, <2>4, OtherAfter DEF InTransaction
      <3>2. Differ(hostCounted[q], PublicOfHost(After(q), HostFor(q)))
              \subseteq hostMissed[q]
        BY <2>4 DEF HostCountedOK
      <3>. QED  BY <2>3, <3>1, <3>2 DEF Differ
    <2>5. ASSUME pc[q] = "updateHost"
          PROVE  Differ(hostCounted[q], PublicOfHost(reviews', HostFor(q)))
                   \subseteq hostMissed'[q]
      <3>1. \A r : ~(r \in PublicOfHost(reviews, HostFor(q))
                      <=> r \in PublicOfHost(reviews', HostFor(q)))
                     => r \in hostMissed'[q]
        BY <1>5, <2>2, <2>3, CommitChangesHost
      <3>2. Differ(hostCounted[q], PublicOfHost(reviews, HostFor(q)))
              \subseteq hostMissed[q]
        BY <2>5 DEF HostCountedOK
      <3>. QED  BY <2>3, <3>1, <3>2 DEF Differ
    <2>. QED  BY <2>4, <2>5
  <1>. QED  BY <1>1, <1>3, <1>4, <1>5

LEMMA HostStep ==
  ASSUME TypeOK, Fresh, HostCountedOK, HostRatingExplained,
         NEW p \in Requests, Step(p)
  PROVE  HostRatingExplained'
  <1>1. CASE CommitWrite(p)
    <2>1. /\ HostFor(p) \in Users
          /\ hostShown' = [hostShown EXCEPT ![HostFor(p)] = hostCounted[p]]
          /\ hostStale' = [hostStale EXCEPT ![HostFor(p)] = hostMissed[p]]
          /\ pc[p] = "locked" /\ reviews' = After(p)
      BY <1>1, Committed, WriteFacts DEF CommitWrite
    <2>2. Differ(hostCounted[p], PublicOfHost(reviews', HostFor(p)))
            \subseteq hostMissed[p]
      BY <2>1 DEF HostCountedOK
    <2>3. \A h \in Users \ {HostFor(p)} :
            \A r : r \in PublicOfHost(reviews, h) <=> r \in PublicOfHost(reviews', h)
      BY <1>1, CommitChangesHost
    <2>. QED  BY <2>1, <2>2, <2>3 DEF HostRatingExplained, TypeOK, Differ
  <1>2. CASE UpdateHost(p)
    <2>1. /\ HostFor(p) \in Users
          /\ hostShown' = [hostShown EXCEPT ![HostFor(p)] = hostCounted[p]]
          /\ hostStale' = [hostStale EXCEPT ![HostFor(p)] = hostMissed[p]]
          /\ UNCHANGED reviews /\ pc[p] = "updateHost"
      BY <1>2, WriteFacts DEF UpdateHost, CreatePc
    <2>2. Differ(hostCounted[p], PublicOfHost(reviews, HostFor(p)))
            \subseteq hostMissed[p]
      BY <2>1 DEF HostCountedOK
    <2>. QED  BY <2>1, <2>2 DEF HostRatingExplained, TypeOK
  <1>3. CASE UNCHANGED <<hostShown, hostStale, reviews>>
    BY <1>3 DEF HostRatingExplained
  <1>. QED  BY <1>1, <1>2, <1>3, RatingsKept, StepAlone DEF Quiet

----------------------------------------------------------------------------
(* Theorems *)

LEMMA RInvInit == Init => RInv
  BY DEF Init, RInv, TypeOK, Fresh, Transactions, OneReviewPerBooking, CountedOK,
         HostCountedOK, ListingRatingExplained, HostRatingExplained,
         ResponsesOK, InTransaction, Differ, Public, PublicOfHost, CreatePc,
         UpdatePc, WritePc

LEMMA RInvNext == RInv /\ [Next]_vars => RInv'
  <1>. SUFFICES ASSUME RInv, [Next]_vars
                PROVE  RInv'
    OBVIOUS
  <1>1. ASSUME NEW p \in Requests, Step(p)
        PROVE  RInv'
    <2>. TypeOK' /\ Step(p)
      BY <1>1, TypeStep DEF RInv
    <2>. QED  BY FreshStep, TransactionsStep, OneReviewStep, CountedStep,
                 HostCountedStep, ListingStep, HostStep, ResponsesStep DEF RInv
  <1>2. ASSUME UNCHANGED vars
        PROVE  RInv'
    <2>1. TypeOK' /\ Fresh' /\ OneReviewPerBooking'
      BY <1>2 DEF vars, RInv, TypeOK, Fresh, OneReviewPerBooking
    <2>2. ListingRatingExplained' /\ HostRatingExplained' /\ ResponsesOK'
      BY <1>2 DEF vars, RInv, ListingRatingExplained, HostRatingExplained,
                  ResponsesOK
    <2>3. \A q \in Requests : /\ InTransaction(q)' <=> InTransaction(q)
                              /\ BookingOf(q)' = BookingOf(q)
                              /\ ListingFor(q)' = ListingFor(q)
                              /\ HostFor(q)' = HostFor(q)
                              /\ After(q)' = After(q)
      BY <1>2, Steady DEF vars, InTransaction
    <2>4. Transactions'
      BY <1>2, <2>3 DEF vars, RInv, Transactions, Reviewed
    <2>5. CountedOK' /\ HostCountedOK'
      BY <1>2, <2>3 DEF vars, RInv, CountedOK, HostCountedOK
    <2>. QED  BY <2>1, <2>2, <2>4, <2>5 DEF RInv
  <1>. QED  BY <1>1, <1>2 DEF Next

LEMMA RInvariance == Spec => []RInv
  BY RInvInit, RInvNext, PTL DEF Spec

\* The reviews component is well typed, and a handler past its first read
\* serves a booking or a review that exists.
THEOREM ReviewsTypeCorrect == Spec => []TypeOK
  <1>1. RInv => TypeOK
    BY DEF RInv
  <1>. QED  BY <1>1, RInvariance, PTL

\* The unique index on booking_id, and the waiting of PostgreSQL for a
\* transaction that inserts the same booking, leave one review a booking,
\* whatever createReview has checked before.
THEOREM ReviewsAreUnique == Spec => []OneReviewPerBooking
  <1>1. RInv => OneReviewPerBooking
    BY DEF RInv
  <1>. QED  BY <1>1, RInvariance, PTL

\* The rating of a listing, written by the trigger and by createReview, is that
\* of its public reviews but for those its last writer had no chance to count.
THEOREM ListingRatingsAreExplained == Spec => []ListingRatingExplained
  <1>1. RInv => ListingRatingExplained
    BY DEF RInv
  <1>. QED  BY <1>1, RInvariance, PTL

\* The same of a host, whose rating the trigger derives from those of the
\* listings and createReview from the reviews.
THEOREM HostRatingsAreExplained == Spec => []HostRatingExplained
  <1>1. RInv => HostRatingExplained
    BY DEF RInv
  <1>. QED  BY <1>1, RInvariance, PTL

\* A step replaces a stored response only by that of a handler that had read
\* the review before.
LEMMA ResponseStep ==
  ASSUME RInv, NEW p \in Requests, Step(p), NEW r \in DOMAIN reviews,
         reviews[r].response \notin {"none", reviews'[r].response}
  PROVE  /\ reviews'[r].response # "none"
         /\ reviews[r].response \in preceded[reviews'[r].response]
  <1>. USE DEF RInv
  <1>1. CommitWrite(p)
    BY StepAlone DEF Quiet
  <1>2. r = Target(p) /\ reviews'[r] = Row(p) /\ pc[p] \in WritePc
    BY <1>1, Committed
  <1>3. req[p].op # "create" /\ req[p].review = r /\ req[p] \in UpdateRequest
    BY <1>2, TargetRow DEF TypeOK, CreateRequest
  <1>4. reviews[r] \in Review
    BY DEF TypeOK
  <1>5. req[p].op = "respond"
    <2>1. ASSUME req[p].op = "moderate"
          PROVE  FALSE
      <3>1. reviews'[r] = [reviews[r] EXCEPT !.public = req[p].public]
        BY <1>2, <1>3, <2>1 DEF Row
      <3>. QED  BY <1>4, <3>1 DEF Review
    <2>. QED  BY <1>3, <2>1 DEF UpdateRequest, ResponseRequest, ModerateRequest
  <1>6. reviews'[r].response = p
    BY <1>2, <1>3, <1>4, <1>5 DEF Row, Review
  <1>7. reviews[r].response \in preceded[p]
    BY <1>2, <1>3, <1>5 DEF ResponsesOK
  <1>. QED  BY <1>6, <1>7, ResponseAssumption

\* Two responses to one review may both be stored, but only when the handler
\* of the second had read the review before the first was there.
THEOREM ResponsesAreKept == Spec => ResponseKept
  <1>1. RInv /\ [Next]_vars =>
          [\A r \in DOMAIN reviews :
             LET old == reviews[r].response
                 new == reviews'[r].response
             IN  old \notin {"none", new}
                   => new # "none" /\ old \in preceded[new]]_vars
    BY ResponseStep DEF Next
  <1>. QED  BY <1>1, RInvariance, PTL DEF Spec, ResponseKept
=============================================================================
