--------------------------- MODULE ListingsProofs ---------------------------
(* Proofs about Listings: what is published, photos and calendars.          *)
EXTENDS Listings, TLAPS

\* An id is used once: by the request that has not begun, if it is one.
Idle(l) == l \in Requests /\ pc[l] = "idle"

WritePc == HostPc \cup {"insertPhotos"}

Fresh ==
  /\ \A l \in DOMAIN listings : ~Idle(l)
  /\ \A p \in Requests : pc[p] \in WritePc => ~Idle(req[p].listing)

\* publishProperty has seen a complete listing, and still would.
Vetting(p) ==
  pc[p] = "publish" /\ p \notin overtaken /\ req[p].listing \in DOMAIN listings =>
    listings[req[p].listing].complete

Published ==
  /\ vetted \subseteq DOMAIN listings
  /\ \A p \in Requests : Vetting(p)
  /\ PublishedExplained

\* The order derived for new photos is still above all others.
Above(l, n) ==
  /\ \A ph \in photos[l] : ph.order < n
  /\ photos[l] = {} => n = 0

Ordering(p) ==
  /\ pc[p] = "insertPhotos" /\ p \notin overtaken /\ req[p].listing \in DOMAIN listings =>
       Above(req[p].listing, next[p])
  /\ pc[p] = "onboardPhotos" /\ p \notin overtaken => photos[p] = {}

Ordered(l) ==
  /\ \A a, b \in photos[l] : a.order = b.order => a = b
  /\ photos[l] # {} => \E a \in Primaries(l) : \A b \in photos[l] : a.order <= b.order

Pictured ==
  /\ \A p \in Requests : Ordering(p)
  /\ \A l \in Ids :
       /\ \A a, b \in Primaries(l) : a = b
       /\ l \notin loose => Ordered(l)

\* The nights blocked and booked that a reader shows fit what it knows of them.
Fits(known, nights, occupied) ==
  /\ known.taken \ (nights \cup occupied) \subseteq known.moved
  /\ known.free \cap (nights \cup occupied) = {}

\* A reader of the calendar, before and after its second read.
Reading(p) ==
  /\ pc[p] = "readBooked" =>
       Fits(constant[p], answer[p].blocked, Booked(req[p].listing))
  /\ pc[p] = "respond" => Fits(constant[p], answer[p].blocked, answer[p].booked)

Read ==
  /\ constant = [p \in Requests |-> constant[p]]
  /\ answer = [p \in Requests |->
                 [blocked |-> answer[p].blocked, booked |-> answer[p].booked]]
  /\ \A p \in Requests : Reading(p)

Inv == TypeOK /\ Fresh /\ Published /\ Pictured /\ Read

\* Photos of one request: numbered, the one with number 0 primary.
LEMMA NumberedFacts ==
  ASSUME NEW p, NEW S
  PROVE  /\ \A a \in Numbered(p, S) : a.order \in S /\ a.primary = (a.order = 0)
         /\ \A a, b \in Numbered(p, S) : a.order = b.order => a = b
         /\ \A i \in S : \E a \in Numbered(p, S) : a.order = i
         /\ p \in Ids /\ S \subseteq Nat => Numbered(p, S) \subseteq Photo
  <1>. DEFINE ph(i) == [by |-> p, order |-> i, primary |-> i = 0]
  <1>1. Numbered(p, S) = {ph(i) : i \in S}
    BY DEF Numbered
  <1>2. \A i : ph(i).order = i /\ ph(i).primary = (i = 0)
    OBVIOUS
  <1>3. ASSUME p \in Ids, NEW i \in Nat
        PROVE  ph(i) \in Photo
    BY <1>3 DEF Photo
  <1>. HIDE DEF ph
  <1>. QED  BY <1>1, <1>2, <1>3

LEMMA NumberedOrdered ==
  ASSUME NEW p, NEW n \in Nat, NEW l \in Ids, photos[l] = Numbered(p, 0 .. n - 1)
  PROVE  (\A a, b \in Primaries(l) : a = b) /\ Ordered(l)
  <1>0. /\ \A a \in photos[l] : a.order \in 0 .. n - 1 /\ a.primary = (a.order = 0)
        /\ \A a, b \in photos[l] : a.order = b.order => a = b
        /\ \A i \in 0 .. n - 1 : \E a \in photos[l] : a.order = i
    <2>1. PICK S : S = 0 .. n - 1
      OBVIOUS
    <2>2. photos[l] = Numbered(p, S)
      BY <2>1
    <2>3. /\ \A a \in Numbered(p, S) : a.order \in S /\ a.primary = (a.order = 0)
          /\ \A a, b \in Numbered(p, S) : a.order = b.order => a = b
          /\ \A i \in S : \E a \in Numbered(p, S) : a.order = i
      BY NumberedFacts
    <2>. QED  BY <2>1, <2>2, <2>3
  <1>1. \A a, b \in Primaries(l) : a = b
    BY <1>0 DEF Primaries
  <1>2. ASSUME photos[l] # {}
        PROVE  \E a \in Primaries(l) : \A b \in photos[l] : a.order <= b.order
    <2>1. PICK c \in photos[l] : TRUE
      BY <1>2
    <2>2. 0 \in 0 .. n - 1
      BY <2>1, <1>0
    <2>3. PICK a \in photos[l] : a.order = 0
      BY <2>2, <1>0
    <2>4. a.primary = TRUE
      BY <2>3, <1>0
    <2>5. \A b \in photos[l] : 0 <= b.order
      BY <1>0
    <2>. QED  BY <2>3, <2>4, <2>5 DEF Primaries
  <1>. QED  BY <1>1, <1>2, <1>0 DEF Ordered

LEMMA InvInit == Init => Inv
  <1>. SUFFICES ASSUME Init  PROVE Inv
    OBVIOUS
  <1>1. PICK first \in [Existing -> [host: Hosts, status: {"draft"}, dated: {FALSE},
                                     complete: BOOLEAN]] : listings = first
    BY DEF Init
  <1>2. PICK n \in 0 .. MaxPhotos :
          photos = [l \in Ids |-> IF l \in Existing THEN Numbered(l, 0 .. n - 1) ELSE {}]
    BY DEF Init
  <1>3. \A l \in Ids : \A S \in SUBSET Nat : Numbered(l, S) \subseteq Photo
    BY NumberedFacts
  <1>4. n \in Nat /\ 0 .. n - 1 \subseteq Nat
    BY PhotosAssumption
  <1>5. TypeOK
    <2>1. listings \in [Existing -> Listing]
      BY <1>1 DEF Listing, Statuses
    <2>2. photos \in [Ids -> SUBSET Photo]
      BY <1>2, <1>3, <1>4
    <2>. QED
      BY <1>1, <1>2, <2>1, <2>2 DEF Init, TypeOK, Ids, AwaitPc, HostPc, NoRequest
  <1>6. Fresh
    BY <1>1, IdsAssumption DEF Init, Fresh, Idle, Ids, WritePc, HostPc
  <1>7. Published
    BY <1>1 DEF Init, Published, Vetting, PublishedExplained
  <1>8. \A p \in Requests : Ordering(p)
    BY DEF Init, Ordering
  <1>9. ASSUME NEW l \in Ids
        PROVE  (\A a, b \in Primaries(l) : a = b) /\ Ordered(l)
    <2>1. CASE l \in Existing
      BY <1>2, <1>4, <2>1, NumberedOrdered
    <2>2. CASE l \notin Existing
      BY <1>2, <2>2 DEF Primaries, Ordered
    <2>. QED  BY <2>1, <2>2
  <1>10. Read
    BY DEF Init, Read, Reading, Never, NoAnswer
  <1>. QED  BY <1>5, <1>6, <1>7, <1>8, <1>9, <1>10 DEF Inv, Pictured

----------------------------------------------------------------------------
(* Types *)

LEMMA Requested ==
  ASSUME TypeOK, NEW p \in Requests
  PROVE  /\ pc[p] \in HostPc => req[p] \in HostRequest
         /\ pc[p] = "update" => req[p] \in UpdateDto
         /\ pc[p] \in {"readOrder", "insertPhotos"} => req[p] \in UploadRequest
         /\ pc[p] \in {"block", "unblock"} => req[p] \in ManageDto
         /\ pc[p] = "onboardPhotos" => req[p] \in OnboardDto
         /\ pc[p] \in {"readBooked", "respond"} => req[p] \in CalendarRequest
         /\ pc[p] \in WritePc => req[p].listing \in Ids
  <1>1. req[p] \in UpdateDto \cup PlainRequest \cup UploadRequest \cup ManageDto
                      \cup OnboardDto \cup CalendarRequest \cup {NoRequest}
    BY DEF TypeOK, HostRequest
  <1>2. \A q \in UpdateDto : q.op = "update" /\ q.listing \in Ids
    BY DEF UpdateDto
  <1>3. \A q \in PlainRequest : q.op \in {"publish", "unpublish", "delete"} /\ q.listing \in Ids
    BY DEF PlainRequest
  <1>4. \A q \in UploadRequest : q.op = "readOrder" /\ q.listing \in Ids
    BY DEF UploadRequest
  <1>5. \A q \in ManageDto : q.op \in {"block", "unblock"} /\ q.listing \in Ids
    BY DEF ManageDto
  <1>6. \A q \in OnboardDto : q.op = "onboard"
    BY DEF OnboardDto
  <1>7. \A q \in CalendarRequest : q.op = "calendar"
    BY DEF CalendarRequest
  <1>8. NoRequest.op = "none"
    BY DEF NoRequest
  <1>9. req[p] \notin {NoRequest} /\ pc[p] \in HostPc => req[p].op = pc[p]
    BY DEF TypeOK, AwaitPc
  <1>10. CASE pc[p] \in HostPc
    BY <1>1, <1>2, <1>3, <1>4, <1>5, <1>6, <1>7, <1>8, <1>10 DEF TypeOK, HostPc, HostRequest
  <1>11. CASE pc[p] \notin HostPc
    BY <1>1, <1>2, <1>3, <1>4, <1>5, <1>6, <1>7, <1>8, <1>11 DEF TypeOK, HostPc, WritePc
  <1>. QED  BY <1>10, <1>11

\* What a handler's step leaves of the others.
LEMMA Frame ==
  ASSUME TypeOK, NEW p \in Requests, Step(p)
  PROVE  /\ \A q \in Requests \ {p} : pc'[q] = pc[q] /\ req'[q] = req[q] /\ next'[q] = next[q]
         /\ pc'[p] # "idle" /\ pc[p] \in AwaitPc \cup {"idle"}
         /\ overtaken \subseteq overtaken'
  <1>. USE DEF TypeOK, Goto, Finish, Throw, End, WriteRow, Insert, AddPhotos, AwaitPc, HostPc,
               rows, history
  <1>1. CASE \E u \in Hosts, complete \in BOOLEAN, n \in 0 .. MaxPhotos :
               \/ \E published \in BOOLEAN : InsertListing(p, u, published, complete, n)
               \/ InsertPublished(p, u, complete, n)
    BY <1>1 DEF InsertListing, InsertPublished
  <1>2. CASE \E q \in HostRequest : FindListing(p, q)
    <2>1. PICK q \in HostRequest : FindListing(p, q)
      BY <1>2
    <2>2. q.op \in HostPc
      BY DEF HostRequest, UpdateDto, PlainRequest, UploadRequest, ManageDto
    <2>. QED  BY <2>1, <2>2 DEF FindListing
  <1>3. CASE OnboardPhotos(p)
    BY <1>3 DEF OnboardPhotos
  <1>4. CASE Publish(p) \/ Unpublish(p) \/ Update(p) \/ Delete(p) \/ RowGone(p)
    BY <1>4 DEF Publish, Unpublish, Update, Delete, RowGone
  <1>5. CASE ReadOrder(p) \/ InsertPhotos(p) \/ Block(p) \/ Unblock(p)
    BY <1>5 DEF ReadOrder, InsertPhotos, Block, Unblock
  <1>6. CASE \/ \E l \in Ids : ReadBlocked(p, l)
             \/ ReadBooked(p) \/ Respond(p) \/ Crash(p)
    BY <1>6 DEF ReadBlocked, ReadBooked, Respond, Crash
  <1>. QED  BY <1>1, <1>2, <1>3, <1>4, <1>5, <1>6 DEF Step

\* The types of what a handler keeps.
HandlerOK(p) ==
  /\ pc'[p] \in AwaitPc \cup {"idle", "done", "failed"}
  /\ req'[p] \in HostRequest \cup OnboardDto \cup CalendarRequest \cup {NoRequest}
  /\ next'[p] \in Nat
  /\ pc'[p] \in AwaitPc => req'[p] # NoRequest
  /\ pc'[p] \in HostPc => req'[p].op = pc'[p]
  /\ pc'[p] \in {"readBooked", "respond"} => req'[p].op = "calendar"
  /\ pc'[p] = "insertPhotos" => req'[p].op = "readOrder"
  /\ pc'[p] = "onboardPhotos" => req'[p].op = "onboard"

Shapes == /\ pc' = [q \in Requests |-> pc'[q]] /\ req' = [q \in Requests |-> req'[q]]
          /\ next' = [q \in Requests |-> next'[q]]

LEMMA EndStep ==
  ASSUME TypeOK, NEW p \in Requests, Finish(p) \/ Throw(p), UNCHANGED next
  PROVE  HandlerOK(p) /\ Shapes /\ pc'[p] \in {"done", "failed"}
  BY DEF Finish, Throw, End, TypeOK, HandlerOK, Shapes, AwaitPc, HostPc

LEMMA HandlerStep ==
  ASSUME TypeOK, NEW p \in Requests, Step(p)
  PROVE  HandlerOK(p) /\ Shapes
  <1>1. CASE \E u \in Hosts, complete \in BOOLEAN, n \in 0 .. MaxPhotos :
               \E published \in BOOLEAN : InsertListing(p, u, published, complete, n)
    BY <1>1, EndStep DEF InsertListing
  <1>2. ASSUME NEW u \in Hosts, NEW complete \in BOOLEAN, NEW n \in 0 .. MaxPhotos,
               InsertPublished(p, u, complete, n)
        PROVE  HandlerOK(p) /\ Shapes
    <2>1. [op |-> "onboard", photos |-> n] \in OnboardDto
          /\ [op |-> "onboard", photos |-> n] # NoRequest
      BY DEF OnboardDto, NoRequest
    <2>. QED  BY <1>2, <2>1 DEF InsertPublished, HandlerOK, Shapes, TypeOK, AwaitPc, HostPc
  <1>3. ASSUME NEW q \in HostRequest, FindListing(p, q)
        PROVE  HandlerOK(p) /\ Shapes
    <2>1. q.op \in HostPc /\ q # NoRequest
      BY DEF HostRequest, UpdateDto, PlainRequest, UploadRequest, ManageDto, NoRequest, HostPc
    <2>2. UNCHANGED next
      BY <1>3 DEF FindListing
    <2>3. CASE pc' = [pc EXCEPT ![p] = q.op] /\ req' = [req EXCEPT ![p] = q]
      BY <2>1, <2>2, <2>3 DEF HandlerOK, Shapes, TypeOK, AwaitPc, HostPc
    <2>4. CASE pc' = [pc EXCEPT ![p] = "failed"] /\ UNCHANGED req
      BY <2>2, <2>4 DEF HandlerOK, Shapes, TypeOK, AwaitPc, HostPc
    <2>. QED  BY <1>3, <2>3, <2>4 DEF FindListing
  <1>4. CASE OnboardPhotos(p)
    BY <1>4, EndStep DEF OnboardPhotos, AddPhotos, Throw
  <1>5. CASE Publish(p) \/ Unpublish(p) \/ Update(p) \/ Delete(p) \/ RowGone(p)
    BY <1>5, EndStep DEF Publish, Unpublish, Update, WriteRow, Delete, RowGone, Throw
  <1>6. CASE ReadOrder(p)
    <2>1. pc[p] = "readOrder" /\ req[p].listing \in Ids /\ req[p].op = "readOrder"
      BY <1>6, Requested DEF ReadOrder, TypeOK, WritePc, HostPc
    <2>2. NextOrder(req[p].listing) \subseteq Nat
      BY <2>1 DEF NextOrder, LastPhotos, TypeOK, Photo
    <2>3. PICK n \in Nat : next' = [next EXCEPT ![p] = n]
      BY <1>6, <2>2 DEF ReadOrder
    <2>4. req[p] # NoRequest
      BY <2>1 DEF TypeOK, AwaitPc, HostPc
    <2>. QED  BY <1>6, <2>1, <2>3, <2>4 DEF ReadOrder, Goto, HandlerOK, Shapes, TypeOK, AwaitPc, HostPc
  <1>7. CASE InsertPhotos(p) \/ Block(p) \/ Unblock(p)
    BY <1>7, EndStep DEF InsertPhotos, AddPhotos, Block, Unblock, Throw
  <1>8. ASSUME NEW l \in Ids, ReadBlocked(p, l)
        PROVE  HandlerOK(p) /\ Shapes
    <2>1. [op |-> "calendar", listing |-> l] \in CalendarRequest
          /\ [op |-> "calendar", listing |-> l] # NoRequest
      BY DEF CalendarRequest, NoRequest
    <2>. QED  BY <1>8, <2>1 DEF ReadBlocked, HandlerOK, Shapes, TypeOK, AwaitPc, HostPc
  <1>9. CASE ReadBooked(p)
    BY <1>9 DEF ReadBooked, HandlerOK, Shapes, TypeOK, AwaitPc, HostPc
  <1>10. CASE Respond(p) \/ Crash(p)
    BY <1>10, EndStep DEF Respond, Crash, Throw
  <1>. QED
    BY <1>1, <1>2, <1>3, <1>4, <1>5, <1>6, <1>7, <1>8, <1>9, <1>10 DEF Step

RowsOK ==
  /\ DOMAIN listings \subseteq Ids
  /\ listings \in [DOMAIN listings -> Listing]
  /\ photos \in [Ids -> SUBSET Photo]
  /\ blocked \in [Ids -> SUBSET Nights]
  /\ stays \in [Stays -> {"none", "active", "ended"}]
  /\ \A l \in Ids \ DOMAIN listings : photos[l] = {} /\ blocked[l] = {}

\* The rows that come and change.
LEMMA InsertRows ==
  ASSUME TypeOK, NEW p \in Requests, NEW row \in Listing, Insert(p, row),
         UNCHANGED <<blocked, stays>>,
         UNCHANGED photos \/ \E new \in SUBSET Photo : photos' = [photos EXCEPT ![p] = new]
  PROVE  RowsOK'
  <1>1. /\ DOMAIN listings' = DOMAIN listings \cup {p} /\ p \in Ids
        /\ \A l \in DOMAIN listings' : listings'[l] \in Listing
        /\ listings' \in [DOMAIN listings' -> Listing]
    BY DEF Insert, TypeOK, Ids
  <1>2. photos' \in [Ids -> SUBSET Photo] /\ \A l \in Ids \ {p} : photos'[l] = photos[l]
    BY <1>1 DEF TypeOK
  <1>. QED  BY <1>1, <1>2 DEF RowsOK, TypeOK

LEMMA WriteRows ==
  ASSUME TypeOK, NEW l \in DOMAIN listings, NEW row \in Listing,
         listings' = [listings EXCEPT ![l] = row], UNCHANGED <<blocked, stays>>,
         UNCHANGED photos \/ \E new \in SUBSET Photo : photos' = [photos EXCEPT ![l] = new]
  PROVE  RowsOK'
  <1>1. DOMAIN listings' = DOMAIN listings /\ listings' \in [DOMAIN listings -> Listing]
    BY DEF TypeOK
  <1>2. l \in Ids
    BY DEF TypeOK
  <1>3. photos' \in [Ids -> SUBSET Photo] /\ \A k \in Ids \ {l} : photos'[k] = photos[k]
    BY <1>2 DEF TypeOK
  <1>. QED  BY <1>1, <1>3 DEF RowsOK, TypeOK

LEMMA AddRows ==
  ASSUME TypeOK, NEW p \in Requests, NEW l \in Ids, NEW S \in SUBSET Nat,
         AddPhotos(p, l, Numbered(p, S))
  PROVE  RowsOK'
  <1>1. Numbered(p, S) \subseteq Photo
    BY NumberedFacts DEF Ids
  <1>2. photos' = [photos EXCEPT ![l] = @ \cup Numbered(p, S)] /\ l \in DOMAIN listings
        /\ UNCHANGED <<listings, blocked, stays>>
    BY DEF AddPhotos, Insertable
  <1>3. photos' \in [Ids -> SUBSET Photo] /\ \A k \in Ids \ {l} : photos'[k] = photos[k]
    BY <1>1, <1>2 DEF TypeOK
  <1>. QED  BY <1>2, <1>3 DEF RowsOK, TypeOK

LEMMA RowsStep ==
  ASSUME TypeOK, NEW p \in Requests, Step(p)
  PROVE  RowsOK'
  <1>0. \A n \in Nat : 0 .. n - 1 \in SUBSET Nat
    OBVIOUS
  <1>1. ASSUME NEW u \in Hosts, NEW complete \in BOOLEAN, NEW n \in 0 .. MaxPhotos,
               NEW published \in BOOLEAN, InsertListing(p, u, published, complete, n)
        PROVE  RowsOK'
    <2>1. [host |-> u, complete |-> complete, dated |-> published,
           status |-> IF published THEN "published" ELSE "draft"] \in Listing
      BY DEF Listing, Statuses
    <2>2. Numbered(p, 0 .. n - 1) \in SUBSET Photo
      <3>1. PICK S \in SUBSET Nat : S = 0 .. n - 1
        BY <1>0, PhotosAssumption
      <3>. QED  BY <3>1, NumberedFacts DEF Ids
    <2>. QED  BY <1>1, <2>1, <2>2, InsertRows DEF InsertListing
  <1>2. ASSUME NEW u \in Hosts, NEW complete \in BOOLEAN, NEW n \in 0 .. MaxPhotos,
               InsertPublished(p, u, complete, n)
        PROVE  RowsOK'
    <2>1. [host |-> u, complete |-> complete, dated |-> FALSE, status |-> "published"] \in Listing
      BY DEF Listing, Statuses
    <2>. QED  BY <1>2, <2>1, InsertRows DEF InsertPublished
  <1>3. CASE \E l \in Ids, S \in SUBSET Nat : AddPhotos(p, l, Numbered(p, S))
    BY <1>3, AddRows
  <1>4. CASE Publish(p)
    <2>. DEFINE l == req[p].listing
    <2>1. l \in DOMAIN listings /\ listings[l] \in Listing
      BY <1>4 DEF Publish, TypeOK
    <2>2. [listings[l] EXCEPT !.status = "published", !.dated = TRUE] \in Listing
      BY <2>1 DEF Listing, Statuses
    <2>. QED  BY <1>4, <2>1, <2>2, WriteRows DEF Publish, WriteRow
  <1>5. CASE Unpublish(p)
    <2>. DEFINE l == req[p].listing
    <2>1. l \in DOMAIN listings /\ listings[l] \in Listing
      BY <1>5 DEF Unpublish, TypeOK
    <2>2. [listings[l] EXCEPT !.status = "draft", !.dated = FALSE] \in Listing
      BY <2>1 DEF Listing, Statuses
    <2>. QED  BY <1>5, <2>1, <2>2, WriteRows DEF Unpublish, WriteRow
  <1>6. CASE Update(p)
    <2>. DEFINE q == req[p]
                l == q.listing
                row(complete, status) ==
                  [listings[l] EXCEPT !.complete = complete, !.status = status,
                     !.dated = IF q.status = {} THEN @ ELSE status = "published"]
    <2>1. l \in DOMAIN listings /\ listings[l] \in Listing /\ q \in UpdateDto
      BY <1>6, Requested DEF Update, TypeOK
    <2>2. PICK complete \in Given(q.complete, listings[l].complete),
               status \in Given(q.status, listings[l].status) : WriteRow(p, row(complete, status))
      BY <1>6 DEF Update
    <2>3. complete \in BOOLEAN /\ status \in Statuses
      BY <2>1 DEF UpdateDto, Opt, Given, Listing, Statuses
    <2>4. row(complete, status) \in Listing
      BY <2>1, <2>3 DEF Listing
    <2>5. UNCHANGED photos \/ \E new \in SUBSET Photo : photos' = [photos EXCEPT ![l] = new]
      <3>1. ASSUME NEW n \in q.photos, NEW kept \in 0 .. n
            PROVE  Numbered(p, 0 .. kept - 1) \in SUBSET Photo
        <4>1. kept \in Nat
          BY <2>1, PhotosAssumption DEF UpdateDto, Opt
        <4>2. PICK S \in SUBSET Nat : S = 0 .. kept - 1
          BY <1>0, <4>1
        <4>. QED  BY <4>2, NumberedFacts DEF Ids
      <3>. QED  BY <1>6, <3>1 DEF Update
    <2>. HIDE DEF row
    <2>6. listings' = [listings EXCEPT ![l] = row(complete, status)] /\ UNCHANGED <<blocked, stays>>
      BY <2>2 DEF WriteRow
    <2>. QED  BY <2>1, <2>4, <2>5, <2>6, WriteRows
  <1>7. CASE /\ Delete(p)
             /\ listings' = [k \in DOMAIN listings \ {req[p].listing} |-> listings[k]]
             /\ photos' = [photos EXCEPT ![req[p].listing] = {}]
             /\ blocked' = [blocked EXCEPT ![req[p].listing] = {}]
             /\ UNCHANGED stays
    <2>1. req[p].listing \in Ids
      BY <1>7 DEF Delete, TypeOK
    <2>. QED  BY <1>7, <2>1 DEF RowsOK, TypeOK
  <1>8. CASE Block(p) \/ Unblock(p)
    <2>1. req[p] \in ManageDto
      BY <1>8, Requested DEF Block, Unblock
    <2>2. req[p].listing \in Ids /\ req[p].nights \subseteq Nights
      BY <2>1 DEF ManageDto
    <2>3. CASE Block(p)
      BY <2>2, <2>3 DEF Block, RowsOK, TypeOK
    <2>4. CASE Unblock(p)
      BY <2>2, <2>4 DEF Unblock, RowsOK, TypeOK
    <2>. QED  BY <1>8, <2>3, <2>4
  <1>9. CASE UNCHANGED <<rows, stays>>
    BY <1>9 DEF RowsOK, TypeOK, rows
  <1>10. CASE OnboardPhotos(p)
    <2>1. ASSUME NEW S \in SUBSET (0 .. req[p].photos - 1)
          PROVE  S \in SUBSET Nat
      OBVIOUS
    <2>. QED  BY <1>3, <1>9, <1>10, <2>1 DEF OnboardPhotos, Throw, Ids
  <1>11. CASE InsertPhotos(p)
    <2>1. pc[p] = "insertPhotos" /\ next[p] \in Nat
      BY <1>11 DEF InsertPhotos, TypeOK
    <2>2. req[p].listing \in Ids /\ req[p].photos \in Nat
      BY <2>1, Requested, PhotosAssumption DEF UploadRequest
    <2>3. next[p] .. next[p] + req[p].photos - 1 \in SUBSET Nat
      BY <2>1, <2>2
    <2>. QED  BY <1>3, <1>9, <1>11, <2>2, <2>3 DEF InsertPhotos, Throw
  <1>12. CASE Delete(p)
    BY <1>7, <1>9, <1>12 DEF Delete, Throw
  <1>. QED
    BY <1>1, <1>2, <1>4, <1>5, <1>6, <1>8, <1>9, <1>10, <1>11, <1>12
    DEF Step, FindListing, RowGone, ReadOrder, ReadBlocked, ReadBooked, Respond, Crash, Throw

LEMMA EnvironmentRows ==
  ASSUME TypeOK, Environment
  PROVE  RowsOK' /\ UNCHANGED <<pc, req, next, answer>>
  <1>1. ASSUME NEW l \in Ids, NEW status \in Statuses, UpdateListingStatus(l, status)
        PROVE  RowsOK' /\ UNCHANGED <<pc, req, next, answer>>
    <2>. DEFINE row == [listings[l] EXCEPT !.status = status]
    <2>1. l \in DOMAIN listings /\ listings[l] \in Listing
      BY <1>1 DEF UpdateListingStatus, TypeOK
    <2>2. row \in Listing
      BY <2>1 DEF Listing
    <2>3. listings' = [listings EXCEPT ![l] = row]
      BY <1>1 DEF UpdateListingStatus
    <2>. HIDE DEF row
    <2>. QED  BY <1>1, <2>1, <2>2, <2>3, WriteRows DEF UpdateListingStatus
  <1>2. ASSUME NEW l \in Ids, NEW ph \in photos[l], DeleteListingPhoto(l, ph)
        PROVE  RowsOK' /\ UNCHANGED <<pc, req, next, answer>>
    <2>1. photos' = [photos EXCEPT ![l] = @ \ {ph}]
          /\ UNCHANGED <<listings, blocked, stays, pc, req, next, answer>>
      BY <1>2 DEF DeleteListingPhoto
    <2>. QED  BY <2>1 DEF RowsOK, TypeOK
  <1>3. ASSUME NEW s \in Stays, Book(s)
        PROVE  RowsOK' /\ UNCHANGED <<pc, req, next, answer>>
    BY <1>3 DEF Book, RowsOK, TypeOK, rows
  <1>. QED  BY <1>1, <1>2, <1>3 DEF Environment

LEMMA TypesStep == ASSUME TypeOK, Next  PROVE TypeOK'
  <1>1. ASSUME NEW p \in Requests, Step(p)  PROVE TypeOK'
    <2>1. HandlerOK(p) /\ Shapes /\ RowsOK'
      BY <1>1, HandlerStep, RowsStep
    <2>2. ASSUME NEW q \in Requests  PROVE HandlerOK(q)
      <3>1. CASE q # p
        BY <1>1, <3>1, Frame DEF TypeOK, HandlerOK
      <3>. QED  BY <2>1, <3>1
    <2>3. /\ pc' \in [Requests -> AwaitPc \cup {"idle", "done", "failed"}]
          /\ req' \in [Requests ->
               HostRequest \cup OnboardDto \cup CalendarRequest \cup {NoRequest}]
          /\ next' \in [Requests -> Nat]
      BY <2>1, <2>2 DEF Shapes, HandlerOK
    <2>4. \A q \in Requests :
            /\ pc'[q] \in AwaitPc => req'[q] # NoRequest
            /\ pc'[q] \in HostPc => req'[q].op = pc'[q]
            /\ pc'[q] \in {"readBooked", "respond"} => req'[q].op = "calendar"
            /\ pc'[q] = "insertPhotos" => req'[q].op = "readOrder"
            /\ pc'[q] = "onboardPhotos" => req'[q].op = "onboard"
      BY <2>2 DEF HandlerOK
    <2>. QED  BY <2>1, <2>3, <2>4 DEF TypeOK, RowsOK
  <1>2. CASE Environment
    BY <1>2, EnvironmentRows DEF TypeOK, RowsOK
  <1>. QED  BY <1>1, <1>2 DEF Next

----------------------------------------------------------------------------
(* Ids are used once *)

\* A handler that is about to write has just found its row, or the order of
\* its photos.
LEMMA Arrived ==
  ASSUME TypeOK, NEW p \in Requests, Step(p)
  PROVE  /\ pc'[p] \in WritePc =>
              \/ /\ \E q \in HostRequest : /\ FindListing(p, q) /\ Accepted(q)
                                         /\ req'[p] = q /\ pc'[p] = q.op
                 /\ UNCHANGED <<rows, stays, history>>
              \/ /\ ReadOrder(p) /\ pc[p] = "readOrder" /\ pc'[p] = "insertPhotos"
                 /\ req'[p] = req[p] /\ UNCHANGED <<rows, stays, history>>
         /\ DOMAIN listings' \subseteq DOMAIN listings \cup {p}
         /\ pc[p] # "idle" => DOMAIN listings' \subseteq DOMAIN listings
  <1>. USE DEF WritePc, HostPc
  <1>1. CASE \E u \in Hosts, complete \in BOOLEAN, n \in 0 .. MaxPhotos :
               \/ \E published \in BOOLEAN : InsertListing(p, u, published, complete, n)
               \/ InsertPublished(p, u, complete, n)
    BY <1>1 DEF InsertListing, InsertPublished, Insert, Finish, End, TypeOK
  <1>2. CASE \E q \in HostRequest : FindListing(p, q)
    BY <1>2 DEF FindListing, TypeOK, rows
  <1>3. CASE ReadOrder(p)
    BY <1>3 DEF ReadOrder, Goto, TypeOK, rows
  <1>4. CASE Finish(p) \/ Throw(p)
    <2>1. pc'[p] \notin WritePc
      BY <1>4 DEF Finish, Throw, End, TypeOK
    <2>2. DOMAIN listings' \subseteq DOMAIN listings \cup {p}
          /\ (pc[p] # "idle" => DOMAIN listings' \subseteq DOMAIN listings)
      BY DEF Step, InsertListing, InsertPublished, Insert, FindListing, OnboardPhotos, AddPhotos,
             Publish, Unpublish, Update, WriteRow, Delete, RowGone, ReadOrder, InsertPhotos,
             Block, Unblock, ReadBlocked, ReadBooked, Respond, Crash, Throw, rows
    <2>. QED  BY <2>1, <2>2
  <1>5. CASE (\E l \in Ids : ReadBlocked(p, l)) \/ ReadBooked(p)
    BY <1>5 DEF ReadBlocked, ReadBooked, TypeOK, rows
  <1>6. \/ Finish(p) \/ Throw(p) \/ ReadOrder(p) \/ ReadBooked(p)
        \/ \E l \in Ids : ReadBlocked(p, l)
        \/ \E q \in HostRequest : FindListing(p, q)
        \/ \E u \in Hosts, complete \in BOOLEAN, n \in 0 .. MaxPhotos :
               InsertPublished(p, u, complete, n)
    BY DEF Step, InsertListing, OnboardPhotos, AddPhotos, Publish, Unpublish, Update, WriteRow,
           Delete, RowGone, InsertPhotos, Block, Unblock, Respond, Crash
  <1>. QED  BY <1>1, <1>2, <1>3, <1>4, <1>5, <1>6

LEMMA FreshStep == ASSUME TypeOK, Fresh, Next  PROVE Fresh'
  <1>1. ASSUME NEW p \in Requests, Step(p)  PROVE Fresh'
    <2>1. \A l : Idle(l)' => Idle(l) /\ l # p
      BY <1>1, Frame DEF Idle
    <2>2. \A l \in DOMAIN listings' : ~Idle(l)'
      BY <1>1, <2>1, Arrived DEF Fresh
    <2>3. ASSUME NEW q \in Requests, pc'[q] \in WritePc, NEW l, l = req'[q].listing
          PROVE  ~Idle(l)'
      <3>1. CASE q # p
        BY <1>1, <2>1, <2>3, <3>1, Frame DEF Fresh
      <3>2. CASE q = p
        BY <1>1, <2>1, <2>3, <3>2, Arrived DEF Fresh, Accepted, WritePc, HostPc
      <3>. QED  BY <3>1, <3>2
    <2>. QED  BY <2>2, <2>3 DEF Fresh, Idle
  <1>2. CASE Environment
    <2>1. DOMAIN listings' = DOMAIN listings
      BY <1>2 DEF Environment, UpdateListingStatus, DeleteListingPhoto, Book, rows
    <2>. QED  BY <1>2, <2>1, EnvironmentRows DEF Fresh, Idle
  <1>. QED  BY <1>1, <1>2 DEF Next

----------------------------------------------------------------------------
(* What is published *)

\* Statements that leave listings, and what is remembered of them, alone.
Untouched == UNCHANGED <<listings, vetted, unstamped>>

\* PublishedExplained, of one listing.
Stamped(l) ==
  /\ l \in vetted => listings[l].complete /\ listings[l].status = "published"
  /\ l \notin unstamped => (listings[l].dated <=> listings[l].status = "published")

\* A handler's write of its own row.
LEMMA WritePublished ==
  ASSUME TypeOK, Published, NEW p \in Requests, Step(p),
         NEW l \in DOMAIN listings, NEW row, listings' = [listings EXCEPT ![l] = row],
         pc'[p] \notin WritePc,
         vetted' \subseteq vetted \cup {l},
         \A k \in DOMAIN listings \ {l} : k \in unstamped' <=> k \in unstamped,
         l \in vetted' => row.complete /\ row.status = "published",
         l \notin unstamped' => (row.dated <=> row.status = "published"),
         row.complete = listings[l].complete \/ Readers(l, {"publish"}) \subseteq overtaken'
  PROVE  Published'
  <1>1. /\ DOMAIN listings' = DOMAIN listings /\ listings'[l] = row
        /\ \A k \in DOMAIN listings \ {l} : listings'[k] = listings[k]
    BY DEF TypeOK
  <1>2. ASSUME NEW q \in Requests  PROVE Vetting(q)'
    <2>1. CASE q = p
      BY <2>1 DEF Vetting, WritePc, HostPc
    <2>2. CASE q # p
      <3>1. pc'[q] = pc[q] /\ req'[q] = req[q] /\ overtaken \subseteq overtaken'
        BY <2>2, Frame
      <3>2. Vetting(q)
        BY DEF Published
      <3>3. ASSUME pc[q] = "publish", req[q].listing = l
            PROVE  q \in Readers(l, {"publish"})
        <4>1. req[q].op = "publish"
          BY <3>3 DEF TypeOK, HostPc
        <4>. QED  BY <3>3, <4>1 DEF Readers
      <3>. QED  BY <1>1, <3>1, <3>2, <3>3 DEF Vetting
    <2>. QED  BY <2>1, <2>2
  <1>3. \A k \in DOMAIN listings' : Stamped(k)'
    BY <1>1 DEF Stamped, Published, PublishedExplained
  <1>. QED  BY <1>1, <1>2, <1>3 DEF Published, PublishedExplained, Stamped

LEMMA InsertIsPublished ==
  ASSUME TypeOK, Fresh, Published, NEW p \in Requests, Step(p), NEW row, Insert(p, row),
         pc'[p] \notin WritePc, UNCHANGED vetted, unstamped' \in {unstamped, unstamped \cup {p}},
         p \notin unstamped' => (row.dated <=> row.status = "published")
  PROVE  Published'
  <1>1. /\ p \notin DOMAIN listings /\ DOMAIN listings' = DOMAIN listings \cup {p}
        /\ listings'[p] = row /\ \A k \in DOMAIN listings : listings'[k] = listings[k]
    BY DEF Insert, Fresh, Idle
  <1>2. ASSUME NEW q \in Requests  PROVE Vetting(q)'
    <2>1. CASE q = p
      BY <2>1 DEF Vetting, WritePc, HostPc
    <2>2. CASE q # p
      <3>1. pc'[q] = pc[q] /\ req'[q] = req[q] /\ overtaken \subseteq overtaken'
        BY <2>2, Frame
      <3>2. pc[q] = "publish" => req[q].listing # p
        BY DEF Fresh, Idle, WritePc, HostPc, Insert
      <3>. QED  BY <1>1, <3>1, <3>2 DEF Vetting, Published
    <2>. QED  BY <2>1, <2>2
  <1>3. p \notin vetted
    BY <1>1 DEF Published
  <1>4. \A k \in DOMAIN listings' : Stamped(k)'
    BY <1>1, <1>3 DEF Stamped, Published, PublishedExplained
  <1>. QED  BY <1>1, <1>2, <1>4 DEF Published, PublishedExplained, Stamped

LEMMA PublishedStep == ASSUME TypeOK, Fresh, Published, Next  PROVE Published'
  <1>1. ASSUME NEW p \in Requests, Step(p), Finish(p)  PROVE pc'[p] \notin WritePc
    BY <1>1 DEF Finish, End, TypeOK, WritePc, HostPc
  <1>2. ASSUME NEW p \in Requests, Step(p), NEW u \in Hosts, NEW complete \in BOOLEAN,
               NEW n \in 0 .. MaxPhotos
        PROVE  /\ \A published \in BOOLEAN :
                    InsertListing(p, u, published, complete, n) => Published'
               /\ InsertPublished(p, u, complete, n) => Published'
    <2>1. ASSUME NEW published \in BOOLEAN, InsertListing(p, u, published, complete, n)
          PROVE  Published'
      <3>. DEFINE row == [host |-> u, complete |-> complete, dated |-> published,
                          status |-> IF published THEN "published" ELSE "draft"]
      <3>1. row.dated <=> row.status = "published"
        OBVIOUS
      <3>2. Insert(p, row) /\ UNCHANGED <<vetted, unstamped>> /\ pc'[p] \notin WritePc
        BY <1>1, <1>2, <2>1 DEF InsertListing, history
      <3>. HIDE DEF row
      <3>. QED  BY <1>2, <3>1, <3>2, InsertIsPublished
    <2>2. ASSUME InsertPublished(p, u, complete, n)
          PROVE  Published'
      <3>. DEFINE row == [host |-> u, complete |-> complete, dated |-> FALSE,
                          status |-> "published"]
      <3>1. /\ Insert(p, row) /\ UNCHANGED vetted /\ unstamped' = unstamped \cup {p}
            /\ pc'[p] \notin WritePc
        BY <2>2 DEF InsertPublished, TypeOK, WritePc, HostPc
      <3>. HIDE DEF row
      <3>. QED  BY <1>2, <3>1, InsertIsPublished
    <2>. QED  BY <2>1, <2>2
  <1>3. ASSUME NEW p \in Requests, Step(p), Publish(p)  PROVE Published'
    <2>1. PICK l : l = req[p].listing
      OBVIOUS
    <2>. DEFINE row == [listings[l] EXCEPT !.status = "published", !.dated = TRUE]
    <2>2. /\ l \in DOMAIN listings /\ listings[l] \in Listing /\ pc[p] = "publish"
          /\ listings' = [listings EXCEPT ![l] = row] /\ unstamped' = unstamped \ {l}
          /\ vetted' = IF p \in overtaken THEN vetted \ {l} ELSE vetted \cup {l}
      BY <1>3, <2>1 DEF Publish, WriteRow, TypeOK
    <2>3. row.complete = listings[l].complete /\ row.status = "published" /\ row.dated
      BY <2>2 DEF Listing
    <2>4. p \notin overtaken => listings[l].complete
      BY <2>1, <2>2 DEF Published, Vetting
    <2>5. pc'[p] \notin WritePc
      BY <1>1, <1>3 DEF Publish, WriteRow
    <2>. HIDE DEF row
    <2>. QED  BY <1>3, <2>2, <2>3, <2>4, <2>5, WritePublished
  <1>4. ASSUME NEW p \in Requests, Step(p), Unpublish(p)  PROVE Published'
    <2>1. PICK l : l = req[p].listing
      OBVIOUS
    <2>. DEFINE row == [listings[l] EXCEPT !.status = "draft", !.dated = FALSE]
    <2>2. /\ l \in DOMAIN listings /\ listings[l] \in Listing
          /\ listings' = [listings EXCEPT ![l] = row]
          /\ vetted' = vetted \ {l} /\ unstamped' = unstamped \ {l}
      BY <1>4, <2>1 DEF Unpublish, WriteRow, TypeOK
    <2>3. row.complete = listings[l].complete /\ row.status = "draft" /\ ~row.dated
      BY <2>2 DEF Listing
    <2>5. pc'[p] \notin WritePc
      BY <1>1, <1>4 DEF Unpublish, WriteRow
    <2>. HIDE DEF row
    <2>. QED  BY <1>4, <2>2, <2>3, <2>5, WritePublished
  <1>5. ASSUME NEW p \in Requests, Step(p), Update(p)  PROVE Published'
    <2>1. PICK l, q : q = req[p] /\ l = q.listing
      OBVIOUS
    <2>. DEFINE row(complete, status) ==
                  [listings[l] EXCEPT !.complete = complete, !.status = status,
                     !.dated = IF q.status = {} THEN @ ELSE status = "published"]
    <2>2. /\ l \in DOMAIN listings /\ listings[l] \in Listing
          /\ vetted' = IF q.complete = {} /\ q.status = {} THEN vetted ELSE vetted \ {l}
          /\ unstamped' = IF q.status = {} THEN unstamped ELSE unstamped \ {l}
          /\ q.complete # {} => Readers(l, {"publish"}) \subseteq overtaken'
      BY <1>5, <2>1 DEF Update, TypeOK
    <2>3. PICK complete \in Given(q.complete, listings[l].complete),
               status \in Given(q.status, listings[l].status) : WriteRow(p, row(complete, status))
      BY <1>5, <2>1 DEF Update
    <2>4. /\ row(complete, status).complete = complete /\ row(complete, status).status = status
          /\ row(complete, status).dated = IF q.status = {} THEN listings[l].dated
                                           ELSE status = "published"
      BY <2>2 DEF Listing
    <2>5. /\ q.complete = {} => complete = listings[l].complete
          /\ q.status = {} => status = listings[l].status
      BY DEF Given
    <2>6. Stamped(l)
      BY <2>2 DEF Published, PublishedExplained, Stamped
    <2>. HIDE DEF row
    <2>7. listings' = [listings EXCEPT ![l] = row(complete, status)] /\ pc'[p] \notin WritePc
      BY <1>1, <1>5, <2>1, <2>3 DEF WriteRow
    <2>8. PICK r : r = row(complete, status)
      OBVIOUS
    <2>9. /\ vetted' \subseteq vetted \cup {l}
          /\ \A k \in DOMAIN listings \ {l} : k \in unstamped' <=> k \in unstamped
          /\ l \in vetted' => r.complete /\ r.status = "published"
          /\ l \notin unstamped' => (r.dated <=> r.status = "published")
          /\ r.complete = listings[l].complete \/ Readers(l, {"publish"}) \subseteq overtaken'
      BY <2>2, <2>4, <2>5, <2>6, <2>8 DEF Stamped
    <2>. QED  BY <1>5, <2>2, <2>7, <2>8, <2>9, WritePublished
  <1>6. ASSUME NEW p \in Requests, Step(p), Delete(p), ~UNCHANGED listings  PROVE Published'
    <2>1. PICK l : l = req[p].listing
      OBVIOUS
    <2>2. /\ listings' = [k \in DOMAIN listings \ {l} |-> listings[k]]
          /\ vetted' = vetted \ {l} /\ UNCHANGED <<overtaken, unstamped>> /\ Finish(p)
      BY <1>6, <2>1 DEF Delete, Throw, rows
    <2>3. ASSUME NEW q \in Requests  PROVE Vetting(q)'
      <3>1. CASE q = p
        BY <1>1, <1>6, <2>2, <3>1 DEF Vetting, WritePc, HostPc
      <3>2. CASE q # p
        BY <1>6, <2>2, <3>2, Frame DEF Vetting, Published
      <3>. QED  BY <3>1, <3>2
    <2>. QED  BY <2>2, <2>3 DEF Published, PublishedExplained
  <1>7. ASSUME NEW p \in Requests, Step(p), Untouched  PROVE Published'
    <2>1. ASSUME NEW q \in Requests  PROVE Vetting(q)'
      <3>1. CASE q = p
        BY <1>7, <3>1, Arrived DEF Untouched, Vetting, Accepted, WritePc, HostPc
      <3>2. CASE q # p
        BY <1>7, <3>2, Frame DEF Untouched, Vetting, Published
      <3>. QED  BY <3>1, <3>2
    <2>. QED  BY <1>7, <2>1 DEF Untouched, Published, PublishedExplained
  <1>8. ASSUME NEW p \in Requests, Step(p)  PROVE Published'
    <2>1. \/ Publish(p) \/ Unpublish(p) \/ Update(p) \/ (Delete(p) /\ ~UNCHANGED listings)
          \/ \E u \in Hosts, complete \in BOOLEAN, n \in 0 .. MaxPhotos :
               \/ \E published \in BOOLEAN : InsertListing(p, u, published, complete, n)
               \/ InsertPublished(p, u, complete, n)
          \/ Untouched
      BY <1>8 DEF Step, Untouched, Delete, FindListing, OnboardPhotos, AddPhotos, RowGone,
           ReadOrder, InsertPhotos, Block, Unblock, ReadBlocked, ReadBooked, Respond, Crash,
           Throw, rows, history
    <2>. QED  BY <1>2, <1>3, <1>4, <1>5, <1>6, <1>7, <1>8, <2>1
  <1>9. ASSUME NEW l \in Ids, NEW status \in Statuses, UpdateListingStatus(l, status)
        PROVE  Published'
    <2>. DEFINE row == [listings[l] EXCEPT !.status = status]
    <2>1. /\ l \in DOMAIN listings /\ listings[l] \in Listing
          /\ listings' = [listings EXCEPT ![l] = row]
          /\ vetted' = vetted \ {l} /\ unstamped' = unstamped \cup {l}
          /\ UNCHANGED <<pc, req, overtaken>>
      BY <1>9 DEF UpdateListingStatus, TypeOK
    <2>2. row.complete = listings[l].complete
      BY <2>1 DEF Listing
    <2>. HIDE DEF row
    <2>3. /\ DOMAIN listings' = DOMAIN listings /\ listings'[l] = row
          /\ \A k \in DOMAIN listings \ {l} : listings'[k] = listings[k]
      BY <2>1 DEF TypeOK
    <2>4. \A q \in Requests : Vetting(q)'
      BY <2>1, <2>2, <2>3 DEF Vetting, Published
    <2>5. \A k \in DOMAIN listings' : Stamped(k)'
      BY <2>1, <2>3 DEF Stamped, Published, PublishedExplained
    <2>. QED  BY <2>1, <2>3, <2>4, <2>5 DEF Published, PublishedExplained, Stamped
  <1>10. CASE Environment
    <2>1. \/ \E l \in Ids, status \in Statuses : UpdateListingStatus(l, status)
          \/ Untouched /\ UNCHANGED <<pc, req>> /\ overtaken \subseteq overtaken'
      BY <1>10 DEF Environment, DeleteListingPhoto, Book, Untouched, rows
    <2>2. CASE Untouched /\ UNCHANGED <<pc, req>> /\ overtaken \subseteq overtaken'
      BY <2>2 DEF Untouched, Published, PublishedExplained, Vetting
    <2>. QED  BY <1>9, <2>1, <2>2
  <1>. QED  BY <1>8, <1>10 DEF Next

----------------------------------------------------------------------------
(* Photos *)

\* PhotosExplained, of a set of photos.
OnePrimary(T) == \A a, b \in T : a.primary /\ b.primary => a = b

InOrder(T) ==
  /\ \A a, b \in T : a.order = b.order => a = b
  /\ T # {} => \E a \in T : a.primary /\ \A b \in T : a.order <= b.order

LEMMA OrderedIsInOrder ==
  ASSUME NEW l
  PROVE  /\ Ordered(l) <=> InOrder(photos[l])
         /\ (\A a, b \in Primaries(l) : a = b) <=> OnePrimary(photos[l])
         /\ Ordered(l)' <=> InOrder(photos'[l])
         /\ (\A a, b \in Primaries(l) : a = b)' <=> OnePrimary(photos'[l])
  BY DEF Ordered, Primaries, InOrder, OnePrimary

LEMMA NumberedInOrder ==
  ASSUME NEW p, NEW S \in SUBSET Nat
  PROVE  OnePrimary(Numbered(p, S)) /\ (0 \in S \/ S = {} => InOrder(Numbered(p, S)))
  <1>1. /\ \A a \in Numbered(p, S) : a.order \in S /\ a.primary = (a.order = 0)
        /\ \A a, b \in Numbered(p, S) : a.order = b.order => a = b
        /\ \A i \in S : \E a \in Numbered(p, S) : a.order = i
    BY NumberedFacts
  <1>2. OnePrimary(Numbered(p, S))
    BY <1>1 DEF OnePrimary
  <1>3. CASE S = {}
    BY <1>1, <1>2, <1>3 DEF InOrder
  <1>4. ASSUME 0 \in S  PROVE InOrder(Numbered(p, S))
    <2>1. PICK a \in Numbered(p, S) : a.order = 0
      BY <1>1, <1>4
    <2>2. \A b \in Numbered(p, S) : b.order \in Nat
      BY <1>1
    <2>3. a.primary = TRUE
      BY <1>1, <2>1
    <2>4. \A b \in Numbered(p, S) : a.order <= b.order
      BY <2>1, <2>2
    <2>. QED  BY <1>1, <2>3, <2>4 DEF InOrder
  <1>. QED  BY <1>2, <1>3, <1>4

\* New photos above those there are.
LEMMA AppendInOrder ==
  ASSUME NEW p, NEW T, \A a \in T : a.order \in Nat, InOrder(T),
         NEW n \in Nat, NEW k \in Nat \ {0},
         \A a \in T : a.order < n, T = {} => n = 0
  PROVE  InOrder(T \cup Numbered(p, n .. n + k - 1))
  <1>1. PICK S : S = n .. n + k - 1
    OBVIOUS
  <1>. DEFINE N == Numbered(p, S)
  <1>2. S \in SUBSET Nat /\ n \in S /\ \A i \in S : i >= n
    BY <1>1
  <1>3. \A a \in N : a.order \in S
    BY NumberedFacts
  <1>4. \A a, b \in N : a.order = b.order => a = b
    BY NumberedFacts
  <1>5. InOrder(T \cup N)
    <2>. HIDE DEF N
    <2>1. \A a \in T, b \in N : a.order < b.order
      <3>1. ASSUME NEW a \in T, NEW b \in N  PROVE a.order < b.order
        <4>1. a.order < n /\ a.order \in Nat /\ b.order >= n /\ b.order \in Nat
          BY <1>2, <1>3
        <4>. QED  BY <4>1
      <3>. QED  BY <3>1
    <2>2. \A a, b \in T \cup N : a.order = b.order => a = b
      <3>1. \A a \in T, b \in N : a.order # b.order
        <4>1. ASSUME NEW a \in T, NEW b \in N  PROVE a.order # b.order
          <5>1. a.order \in Nat /\ b.order \in Nat /\ a.order < b.order
            BY <1>2, <1>3, <2>1
          <5>. QED  BY <5>1
        <4>. QED  BY <4>1
      <3>. QED  BY <1>4, <3>1 DEF InOrder
    <2>3. CASE T = {}
      <3>1. InOrder(N)
        BY <1>2, <2>3, NumberedInOrder DEF N
      <3>. QED  BY <2>3, <3>1
    <2>4. CASE T # {}
      <3>1. PICK a \in T : a.primary /\ \A b \in T : a.order <= b.order
        BY <2>4 DEF InOrder
      <3>2. \A b \in N : a.order <= b.order
        <4>1. ASSUME NEW b \in N  PROVE a.order <= b.order
          <5>1. a.order \in Nat /\ b.order \in Nat /\ a.order < b.order
            BY <1>2, <1>3, <2>1
          <5>. QED  BY <5>1
        <4>. QED  BY <4>1
      <3>. QED  BY <2>2, <3>1, <3>2 DEF InOrder
    <2>. QED  BY <2>3, <2>4
  <1>. QED  BY <1>1, <1>5

\* A photo fewer.
LEMMA RemoveInOrder ==
  ASSUME NEW T, NEW ph \in T, InOrder(T), ~ph.primary
  PROVE  InOrder(T \ {ph})
  BY DEF InOrder

\* One listing's photos change: the others have theirs, and handlers that have
\* read these are overtaken.
LEMMA PhotosWrite ==
  ASSUME TypeOK, Pictured, NEW l \in Ids, NEW new, photos' = [photos EXCEPT ![l] = new],
         OnePrimary(new), l \notin loose' => InOrder(new),
         \A k \in Ids \ {l} : k \in loose' <=> k \in loose,
         \A q \in Requests : Ordering(q)'
  PROVE  Pictured'
  <1>1. photos'[l] = new /\ \A k \in Ids \ {l} : photos'[k] = photos[k]
    BY DEF TypeOK
  <1>2. ASSUME NEW k \in Ids
        PROVE  OnePrimary(photos'[k]) /\ (k \notin loose' => InOrder(photos'[k]))
    <2>1. CASE k = l
      BY <1>1, <2>1
    <2>2. CASE k # l
      <3>1. /\ \A a, b \in Primaries(k) : a = b
            /\ k \notin loose => Ordered(k)
        BY DEF Pictured
      <3>2. /\ Ordered(k) <=> InOrder(photos[k])
            /\ (\A a, b \in Primaries(k) : a = b) <=> OnePrimary(photos[k])
        BY OrderedIsInOrder
      <3>3. OnePrimary(photos[k]) /\ (k \notin loose => InOrder(photos[k]))
        BY <3>1, <3>2
      <3>. QED  BY <1>1, <2>2, <3>3
    <2>. QED  BY <2>1, <2>2
  <1>3. \A k \in Ids :
          /\ (\A a, b \in Primaries(k) : a = b)'
          /\ k \notin loose' => Ordered(k)'
    BY <1>2, OrderedIsInOrder
  <1>. QED  BY <1>3 DEF Pictured

\* A handler that does not step keeps its order, or is overtaken.
LEMMA OrderingKept ==
  ASSUME TypeOK, Pictured, NEW q \in Requests,
         pc'[q] = pc[q], req'[q] = req[q], next'[q] = next[q], overtaken \subseteq overtaken',
         pc[q] = "insertPhotos" /\ req[q].listing \in DOMAIN listings' =>
           \/ q \in overtaken'
           \/ req[q].listing \in DOMAIN listings /\ photos'[req[q].listing] = photos[req[q].listing],
         pc[q] = "onboardPhotos" => q \in overtaken' \/ photos'[q] \in {photos[q], {}}
  PROVE  Ordering(q)'
  BY DEF Pictured, Ordering, Above

LEMMA ReadersOf ==
  ASSUME TypeOK, NEW q \in Requests, NEW l, NEW R,
         R = Readers(l, {"insertPhotos", "onboardPhotos"}), q \notin R
  PROVE  /\ pc[q] = "insertPhotos" => req[q].listing # l
         /\ pc[q] = "onboardPhotos" => q # l
  BY DEF Readers, TypeOK

\* The handlers that do not step, when photos of l change under them.
LEMMA OthersOrdering ==
  ASSUME TypeOK, Fresh, Pictured, NEW p \in Requests, Step(p), NEW q \in Requests, q # p,
         \/ UNCHANGED photos
         \/ \E l \in Ids :
              /\ \A k \in Ids \ {l} : photos'[k] = photos[k]
              /\ \/ Readers(l, {"insertPhotos", "onboardPhotos"}) \subseteq overtaken'
                 \/ l \notin DOMAIN listings' /\ photos'[l] = {}
                 \/ l = p /\ pc[p] = "idle"
  PROVE  Ordering(q)'
  <1>1. /\ pc'[q] = pc[q] /\ req'[q] = req[q] /\ next'[q] = next[q] /\ overtaken \subseteq overtaken'
    BY Frame
  <1>2. pc[q] = "insertPhotos" => req[q].listing \in Ids /\ ~Idle(req[q].listing)
    BY Requested DEF WritePc, Fresh
  <1>3. pc[q] = "insertPhotos" /\ req[q].listing \in DOMAIN listings' => req[q].listing \in DOMAIN listings
    <2>1. pc[p] = "idle" /\ pc[q] = "insertPhotos" => req[q].listing # p
      BY <1>2 DEF Idle
    <2>. QED  BY <2>1, Arrived
  <1>4. CASE UNCHANGED photos
    BY <1>1, <1>3, <1>4, OrderingKept
  <1>5. ASSUME NEW l \in Ids, \A k \in Ids \ {l} : photos'[k] = photos[k],
               Readers(l, {"insertPhotos", "onboardPhotos"}) \subseteq overtaken'
        PROVE  Ordering(q)'
    <2>1. CASE q \in overtaken'
      BY <1>1, <1>3, <2>1, OrderingKept
    <2>2. CASE q \notin overtaken'
      <3>1. q \notin Readers(l, {"insertPhotos", "onboardPhotos"})
        BY <1>5, <2>2
      <3>2. /\ pc[q] = "insertPhotos" => req[q].listing # l
            /\ pc[q] = "onboardPhotos" => q # l
        BY <3>1, ReadersOf
      <3>3. q \in Ids
        BY DEF Ids
      <3>. QED  BY <1>1, <1>2, <1>3, <1>5, <3>2, <3>3, OrderingKept
    <2>. QED  BY <2>1, <2>2
  <1>6. ASSUME NEW l \in Ids, \A k \in Ids \ {l} : photos'[k] = photos[k],
               l \notin DOMAIN listings' /\ photos'[l] = {}
        PROVE  Ordering(q)'
    <2>1. q \in Ids
      BY DEF Ids
    <2>. QED  BY <1>1, <1>2, <1>3, <1>6, <2>1, OrderingKept
  <1>7. ASSUME NEW l \in Ids, \A k \in Ids \ {l} : photos'[k] = photos[k],
               l = p /\ pc[p] = "idle"
        PROVE  Ordering(q)'
    <2>1. q \in Ids /\ (pc[q] = "insertPhotos" => req[q].listing # p)
      BY <1>2, <1>7 DEF Ids, Idle
    <2>. QED  BY <1>1, <1>2, <1>3, <1>7, <2>1, OrderingKept
  <1>. QED  BY <1>4, <1>5, <1>6, <1>7

\* A step that ends its handler leaves it with nothing to keep.
LEMMA EndedOrdering ==
  ASSUME TypeOK, NEW p \in Requests, Finish(p) \/ Throw(p)
  PROVE  Ordering(p)'
  BY DEF Finish, Throw, End, TypeOK, Ordering

\* Photos are added.
LEMMA AddPictured ==
  ASSUME TypeOK, Fresh, Pictured, NEW p \in Requests, Step(p), NEW l \in Ids,
         NEW S \in SUBSET Nat, AddPhotos(p, l, Numbered(p, S)),
         \A k \in Ids \ {l} : k \in loose' <=> k \in loose,
         l \notin loose' => InOrder(photos[l] \cup Numbered(p, S))
  PROVE  Pictured'
  <1>. DEFINE new == photos[l] \cup Numbered(p, S)
  <1>1. /\ photos' = [photos EXCEPT ![l] = new]
        /\ Readers(l, {"insertPhotos", "onboardPhotos"}) \subseteq overtaken'
        /\ Finish(p)
    BY DEF AddPhotos
  <1>2. OnePrimary(new)
    <2>1. OnePrimary(Numbered(p, S))
      BY NumberedInOrder
    <2>2. OnePrimary(photos[l])
      BY OrderedIsInOrder DEF Pictured
    <2>3. ~\E a \in photos[l], b \in Numbered(p, S) : a.primary /\ b.primary
      BY DEF AddPhotos, Insertable
    <2>. QED  BY <2>1, <2>2, <2>3 DEF OnePrimary
  <1>3. ASSUME NEW q \in Requests  PROVE Ordering(q)'
    <2>1. CASE q = p
      BY <1>1, <2>1, EndedOrdering
    <2>2. CASE q # p
      <3>1. \A k \in Ids \ {l} : photos'[k] = photos[k]
        BY <1>1 DEF TypeOK
      <3>. QED  BY <1>1, <2>2, <3>1, OthersOrdering
    <2>. QED  BY <2>1, <2>2
  <1>. QED  BY <1>1, <1>2, <1>3, PhotosWrite

\* Photos are replaced, by p's own or by none.
LEMMA ReplacePictured ==
  ASSUME TypeOK, Fresh, Pictured, NEW p \in Requests, Step(p), NEW l \in Ids, NEW new,
         photos' = [photos EXCEPT ![l] = new], OnePrimary(new), InOrder(new), Ordering(p)',
         \A k \in Ids \ {l} : k \in loose' <=> k \in loose,
         \/ Readers(l, {"insertPhotos", "onboardPhotos"}) \subseteq overtaken'
         \/ l \notin DOMAIN listings' /\ new = {}
         \/ l = p /\ pc[p] = "idle"
  PROVE  Pictured'
  <1>1. photos'[l] = new /\ \A k \in Ids \ {l} : photos'[k] = photos[k]
    BY DEF TypeOK
  <1>2. ASSUME NEW q \in Requests  PROVE Ordering(q)'
    BY <1>1, OthersOrdering
  <1>. QED  BY <1>2, PhotosWrite

\* Steps that write no photo.
LEMMA KeepPictured ==
  ASSUME TypeOK, Fresh, Pictured, NEW p \in Requests, Step(p), UNCHANGED <<photos, loose>>,
         Ordering(p)'
  PROVE  Pictured'
  <1>1. ASSUME NEW q \in Requests  PROVE Ordering(q)'
    BY OthersOrdering
  <1>. QED  BY <1>1 DEF Pictured, Primaries, Ordered

LEMMA AboveAll ==
  ASSUME TypeOK, NEW l \in Ids, NEW n \in NextOrder(l)
  PROVE  Above(l, n)
  <1>1. \A ph \in photos[l] : ph.order \in Nat
    BY DEF TypeOK, Photo
  <1>2. CASE photos[l] = {}
    BY <1>2 DEF NextOrder, Above
  <1>3. CASE photos[l] # {}
    <2>1. PICK last \in LastPhotos(l) : n = last.order + 1
      BY <1>3 DEF NextOrder
    <2>2. last.order \in Nat /\ \A ph \in photos[l] : ph.order <= last.order
      BY <1>1, <2>1 DEF LastPhotos
    <2>3. ASSUME NEW ph \in photos[l]  PROVE ph.order < n
      BY <1>1, <2>1, <2>2
    <2>. QED  BY <1>3, <2>3 DEF Above
  <1>. QED  BY <1>2, <1>3

LEMMA PicturedStep ==
  ASSUME TypeOK, Fresh, Pictured, NEW p \in Requests, Step(p)
  PROVE  Pictured'
  <1>0. p \in Ids
    BY DEF Ids
  <1>1. ASSUME NEW u \in Hosts, NEW complete \in BOOLEAN, NEW n \in 0 .. MaxPhotos,
               NEW published \in BOOLEAN, InsertListing(p, u, published, complete, n)
        PROVE  Pictured'
    <2>1. PICK S : S = 0 .. n - 1
      OBVIOUS
    <2>2. S \in SUBSET Nat /\ (0 \in S \/ S = {})
      BY <2>1, PhotosAssumption
    <2>3. /\ photos' = [photos EXCEPT ![p] = Numbered(p, S)] /\ UNCHANGED loose
          /\ pc[p] = "idle" /\ Finish(p)
      BY <1>1, <2>1 DEF InsertListing, Insert, history
    <2>. QED  BY <1>0, <2>2, <2>3, NumberedInOrder, EndedOrdering, ReplacePictured
  <1>2. ASSUME NEW u \in Hosts, NEW complete \in BOOLEAN, NEW n \in 0 .. MaxPhotos,
               InsertPublished(p, u, complete, n)
        PROVE  Pictured'
    <2>1. UNCHANGED <<photos, loose>> /\ pc'[p] = "onboardPhotos" /\ pc[p] = "idle"
      BY <1>2 DEF InsertPublished, Insert, TypeOK
    <2>2. photos[p] = {}
      BY <1>0, <2>1 DEF Fresh, Idle, TypeOK
    <2>. QED  BY <2>1, <2>2, KeepPictured DEF Ordering
  <1>3. CASE UNCHANGED <<photos, loose>> /\ (Finish(p) \/ Throw(p))
    BY <1>3, EndedOrdering, KeepPictured
  <1>4. CASE /\ UNCHANGED <<photos, loose>>
             /\ pc'[p] \notin {"insertPhotos", "onboardPhotos"}
    BY <1>4, KeepPictured DEF Ordering
  <1>5. CASE OnboardPhotos(p)
    <2>1. ASSUME NEW S \in SUBSET (0 .. req[p].photos - 1), AddPhotos(p, p, Numbered(p, S)),
                 loose' = IF p \in overtaken \/ 0 \notin S THEN loose \cup {p} ELSE loose
          PROVE  Pictured'
      <3>1. S \in SUBSET Nat
        OBVIOUS
      <3>2. ASSUME p \notin loose'  PROVE InOrder(photos[p] \cup Numbered(p, S))
        <4>1. p \notin overtaken /\ 0 \in S
          BY <2>1, <3>2
        <4>2. photos[p] = {}
          BY <1>5, <4>1 DEF OnboardPhotos, Pictured, Ordering
        <4>3. InOrder(Numbered(p, S))
          BY <3>1, <4>1, NumberedInOrder
        <4>. QED  BY <4>2, <4>3
      <3>3. \A k \in Ids \ {p} : k \in loose' <=> k \in loose
        BY <2>1
      <3>. QED  BY <1>0, <2>1, <3>1, <3>2, <3>3, AddPictured
    <2>2. \/ \E S \in SUBSET (0 .. req[p].photos - 1) :
               /\ AddPhotos(p, p, Numbered(p, S))
               /\ loose' = IF p \in overtaken \/ 0 \notin S THEN loose \cup {p} ELSE loose
          \/ UNCHANGED <<photos, loose>> /\ (Finish(p) \/ Throw(p))
      BY <1>5 DEF OnboardPhotos, Throw, rows, history
    <2>. QED  BY <1>3, <2>1, <2>2
  <1>6. CASE Update(p) /\ ~UNCHANGED <<photos, loose>>
    <2>1. PICK l, q : q = req[p] /\ l = q.listing
      OBVIOUS
    <2>2. q \in UpdateDto /\ l \in Ids /\ Finish(p)
      BY <1>6, <2>1, Requested DEF Update, UpdateDto, WriteRow
    <2>30. PICK n \in q.photos : \E kept \in 0 .. n :
            photos' = [photos EXCEPT ![l] = Numbered(p, 0 .. kept - 1)] /\ loose' = loose \ {l}
      BY <1>6, <2>1 DEF Update
    <2>3. PICK kept \in 0 .. n :
            photos' = [photos EXCEPT ![l] = Numbered(p, 0 .. kept - 1)] /\ loose' = loose \ {l}
      BY <2>30
    <2>4. Readers(l, {"insertPhotos", "onboardPhotos"}) \subseteq overtaken'
      BY <1>6, <2>1, <2>3 DEF Update
    <2>5. PICK S : S = 0 .. kept - 1
      OBVIOUS
    <2>6. S \in SUBSET Nat /\ (0 \in S \/ S = {})
      BY <2>2, <2>3, <2>5, PhotosAssumption DEF UpdateDto, Opt
    <2>. QED  BY <2>2, <2>3, <2>4, <2>5, <2>6, NumberedInOrder, EndedOrdering, ReplacePictured
  <1>7. CASE Delete(p) /\ ~UNCHANGED photos
    <2>1. PICK l : l = req[p].listing
      OBVIOUS
    <2>2. /\ photos' = [photos EXCEPT ![l] = {}] /\ l \in DOMAIN listings
          /\ listings' = [k \in DOMAIN listings \ {l} |-> listings[k]]
          /\ UNCHANGED loose /\ Finish(p)
      BY <1>7, <2>1 DEF Delete, Throw, rows
    <2>3. l \in Ids /\ l \notin DOMAIN listings'
      BY <2>2 DEF TypeOK
    <2>4. OnePrimary({}) /\ InOrder({})
      BY DEF OnePrimary, InOrder
    <2>. QED  BY <2>2, <2>3, <2>4, EndedOrdering, ReplacePictured
  <1>8. CASE ReadOrder(p)
    <2>1. PICK l : l = req[p].listing
      OBVIOUS
    <2>2. l \in Ids
      BY <1>8, <2>1, Requested DEF ReadOrder, WritePc, HostPc
    <2>3. PICK n \in NextOrder(l) : next' = [next EXCEPT ![p] = n]
      BY <1>8, <2>1 DEF ReadOrder
    <2>4. UNCHANGED <<photos, loose>> /\ req' = req /\ pc'[p] = "insertPhotos" /\ next'[p] = n
      BY <1>8, <2>3 DEF ReadOrder, Goto, TypeOK, rows, history
    <2>5. Above(l, n)
      BY <2>2, AboveAll
    <2>6. Ordering(p)'
      BY <2>1, <2>4, <2>5 DEF Ordering, Above
    <2>. QED  BY <2>4, <2>6, KeepPictured
  <1>9. CASE InsertPhotos(p)
    <2>1. PICK l, q : q = req[p] /\ l = q.listing
      OBVIOUS
    <2>2. PICK S : S = next[p] .. next[p] + q.photos - 1
      OBVIOUS
    <2>3. CASE /\ AddPhotos(p, l, Numbered(p, S))
               /\ loose' = IF p \in overtaken THEN loose \cup {l} ELSE loose
      <3>1. pc[p] = "insertPhotos" /\ next[p] \in Nat
        BY <1>9 DEF InsertPhotos, TypeOK
      <3>2. l \in Ids /\ q.photos \in Nat \ {0}
        BY <2>1, <3>1, Requested, PhotosAssumption DEF UploadRequest
      <3>3. S \in SUBSET Nat
        BY <2>2, <3>1, <3>2
      <3>4. ASSUME l \notin loose'  PROVE InOrder(photos[l] \cup Numbered(p, S))
        <4>1. p \notin overtaken /\ l \notin loose
          BY <2>3, <3>4
        <4>2. l \in DOMAIN listings
          BY <2>3 DEF AddPhotos, Insertable
        <4>3. Above(l, next[p])
          BY <2>1, <3>1, <4>1, <4>2 DEF Pictured, Ordering
        <4>4. InOrder(photos[l])
          BY <3>2, <4>1, OrderedIsInOrder DEF Pictured
        <4>5. \A a \in photos[l] : a.order \in Nat
          BY <3>2 DEF TypeOK, Photo
        <4>. QED  BY <2>2, <3>1, <3>2, <4>3, <4>4, <4>5, AppendInOrder DEF Above
      <3>5. \A k \in Ids \ {l} : k \in loose' <=> k \in loose
        BY <2>3
      <3>. QED  BY <2>3, <3>2, <3>3, <3>4, <3>5, AddPictured
    <2>. QED  BY <1>3, <1>9, <2>1, <2>2, <2>3 DEF InsertPhotos, Throw, rows, history
  <1>10. \/ UNCHANGED <<photos, loose>> /\ (Finish(p) \/ Throw(p))
         \/ UNCHANGED <<photos, loose>> /\ pc'[p] \notin {"insertPhotos", "onboardPhotos"}
         \/ OnboardPhotos(p) \/ ReadOrder(p) \/ InsertPhotos(p)
         \/ (Update(p) /\ ~UNCHANGED <<photos, loose>>) \/ (Delete(p) /\ ~UNCHANGED photos)
         \/ \E u \in Hosts, complete \in BOOLEAN, n \in 0 .. MaxPhotos :
               \/ \E published \in BOOLEAN : InsertListing(p, u, published, complete, n)
               \/ InsertPublished(p, u, complete, n)
    <2>1. CASE \E q \in HostRequest : FindListing(p, q)
      <3>1. UNCHANGED <<photos, loose>>
        BY <2>1 DEF FindListing, rows, history
      <3>2. pc'[p] \in HostPc \cup {"failed"}
        <4>1. \A q \in HostRequest : q.op \in HostPc
          BY DEF HostRequest, UpdateDto, PlainRequest, UploadRequest, ManageDto, HostPc
        <4>. QED  BY <2>1, <4>1 DEF FindListing, TypeOK
      <3>. QED  BY <3>1, <3>2 DEF HostPc
    <2>2. CASE (\E l \in Ids : ReadBlocked(p, l)) \/ ReadBooked(p)
      BY <2>2 DEF ReadBlocked, ReadBooked, TypeOK, rows, history
    <2>3. CASE Publish(p) \/ Unpublish(p) \/ RowGone(p) \/ Block(p) \/ Unblock(p)
               \/ Respond(p) \/ Crash(p)
      BY <2>3 DEF Publish, Unpublish, RowGone, Block, Unblock, Respond, Crash, WriteRow, Throw,
           rows, history
    <2>4. CASE Update(p)
      BY <2>4 DEF Update, WriteRow
    <2>5. CASE Delete(p)
      BY <2>5 DEF Delete, Throw, rows, history
    <2>. QED  BY <2>1, <2>2, <2>3, <2>4, <2>5 DEF Step
  <1>. QED  BY <1>1, <1>2, <1>3, <1>4, <1>5, <1>6, <1>7, <1>8, <1>9, <1>10

LEMMA PicturedEnvironment == ASSUME TypeOK, Pictured, Environment  PROVE Pictured'
  <1>1. ASSUME NEW l \in Ids, NEW ph \in photos[l], DeleteListingPhoto(l, ph)
        PROVE  Pictured'
    <2>. DEFINE new == photos[l] \ {ph}
    <2>1. /\ photos' = [photos EXCEPT ![l] = new]
          /\ loose' = IF photos[l] = {ph} THEN loose \ {l}
                      ELSE IF ph.primary THEN loose \cup {l} ELSE loose
          /\ overtaken' = overtaken \cup Readers(l, {"insertPhotos", "onboardPhotos"})
          /\ UNCHANGED <<listings, pc, req, next>>
      BY <1>1 DEF DeleteListingPhoto
    <2>2. OnePrimary(new)
      BY OrderedIsInOrder DEF Pictured, OnePrimary
    <2>3. ASSUME l \notin loose'  PROVE InOrder(new)
      <3>1. CASE photos[l] = {ph}
        <4>1. new = {}
          BY <3>1
        <4>. HIDE DEF new
        <4>. QED  BY <4>1 DEF InOrder
      <3>2. CASE photos[l] # {ph}
        <4>1. l \notin loose /\ ~ph.primary
          BY <2>1, <2>3, <3>2
        <4>2. InOrder(photos[l])
          BY <4>1, OrderedIsInOrder DEF Pictured
        <4>. QED  BY <4>1, <4>2, RemoveInOrder
      <3>. QED  BY <3>1, <3>2
    <2>4. \A k \in Ids \ {l} : k \in loose' <=> k \in loose
      BY <2>1
    <2>5. ASSUME NEW q \in Requests  PROVE Ordering(q)'
      <3>1. \A k \in Ids \ {l} : photos'[k] = photos[k]
        BY <2>1 DEF TypeOK
      <3>2. /\ q \in Ids
            /\ pc[q] = "insertPhotos" => req[q].listing \in Ids
        BY Requested DEF Ids, WritePc
      <3>3. CASE q \in overtaken'
        BY <2>1, <3>3, OrderingKept
      <3>4. CASE q \notin overtaken'
        <4>1. /\ pc[q] = "insertPhotos" => req[q].listing # l
              /\ pc[q] = "onboardPhotos" => q # l
          BY <2>1, <3>4, ReadersOf
        <4>. QED  BY <2>1, <3>1, <3>2, <4>1, OrderingKept
      <3>. QED  BY <3>3, <3>4
    <2>. HIDE DEF new
    <2>. QED  BY <2>1, <2>2, <2>3, <2>4, <2>5, PhotosWrite
  <1>2. ASSUME UNCHANGED <<photos, loose, pc, req, next, overtaken>>,
               DOMAIN listings' = DOMAIN listings
        PROVE  Pictured'
    BY <1>2 DEF Pictured, Ordering, Above, Ordered, Primaries
  <1>3. \/ \E l \in Ids : \E ph \in photos[l] : DeleteListingPhoto(l, ph)
        \/ /\ UNCHANGED <<photos, loose, pc, req, next, overtaken>>
           /\ DOMAIN listings' = DOMAIN listings
    BY DEF Environment, UpdateListingStatus, Book, rows
  <1>. QED  BY <1>1, <1>2, <1>3

----------------------------------------------------------------------------
(* Calendars *)

AnswerShape(a) == a = [q \in Requests |-> [blocked |-> a[q].blocked, booked |-> a[q].booked]]

\* What a step leaves of the answers of others.
LEMMA AnswersStep ==
  ASSUME TypeOK, Read, NEW p \in Requests, Step(p)
  PROVE  /\ AnswerShape(answer')
         /\ \A q \in Requests \ {p} : answer'[q] = answer[q]
  <1>0. AnswerShape(answer)
    BY DEF Read, AnswerShape
  <1>1. CASE UNCHANGED answer
    BY <1>0, <1>1
  <1>2. CASE Finish(p) \/ Throw(p)
    <2>1. answer' = [answer EXCEPT ![p] = NoAnswer]
      BY <1>2 DEF Finish, Throw, End
    <2>2. \A q \in Requests : answer'[q] = IF q = p THEN NoAnswer ELSE answer[q]
      BY <1>0, <2>1 DEF AnswerShape
    <2>3. answer' = [q \in Requests |-> answer'[q]]
      BY <1>0, <2>1 DEF AnswerShape
    <2>. QED  BY <1>0, <2>2, <2>3 DEF AnswerShape, NoAnswer
  <1>3. ASSUME NEW x, \/ answer' = [answer EXCEPT ![p].blocked = x]
                      \/ answer' = [answer EXCEPT ![p].booked = x]
        PROVE  /\ AnswerShape(answer')
               /\ \A q \in Requests \ {p} : answer'[q] = answer[q]
    <2>1. \A q \in Requests \ {p} : answer'[q] = answer[q]
      BY <1>0, <1>3 DEF AnswerShape
    <2>2. answer[p] = [blocked |-> answer[p].blocked, booked |-> answer[p].booked]
      BY <1>0 DEF AnswerShape
    <2>3. answer'[p] = [blocked |-> answer'[p].blocked, booked |-> answer'[p].booked]
      <3>1. \/ answer'[p] = [answer[p] EXCEPT !.blocked = x]
            \/ answer'[p] = [answer[p] EXCEPT !.booked = x]
        BY <1>0, <1>3 DEF AnswerShape
      <3>. QED  BY <2>2, <3>1
    <2>4. answer' = [q \in Requests |-> answer'[q]]
      BY <1>0, <1>3 DEF AnswerShape
    <2>. QED  BY <1>0, <2>1, <2>3, <2>4 DEF AnswerShape
  <1>4. \/ UNCHANGED answer \/ Finish(p) \/ Throw(p)
        \/ \E x : \/ answer' = [answer EXCEPT ![p].blocked = x]
                  \/ answer' = [answer EXCEPT ![p].booked = x]
    BY DEF Step, InsertListing, InsertPublished, FindListing, OnboardPhotos, AddPhotos, Publish,
           Unpublish, Update, WriteRow, Delete, RowGone, ReadOrder, Goto, InsertPhotos, Block,
           Unblock, ReadBlocked, ReadBooked, Respond, Crash
  <1>. QED  BY <1>1, <1>2, <1>3, <1>4

LEMMA BookedKept == ASSUME UNCHANGED stays  PROVE \A k : Booked(k)' = Booked(k)
  BY DEF Booked, StaysOf

\* What a reader knows, when its listing has changed or not.
LEMMA ReadingPrimed ==
  ASSUME NEW q \in Requests, NEW k, k = req'[q].listing, NEW nights, nights = Booked(k)',
         pc'[q] = "readBooked" => Fits(constant'[q], answer'[q].blocked, nights),
         pc'[q] = "respond" => Fits(constant'[q], answer'[q].blocked, answer'[q].booked)
  PROVE  Reading(q)'
  <1>1. nights = Booked(req[q].listing)'
    BY DEF Booked, StaysOf
  <1>. QED  BY <1>1 DEF Reading

\* A reader whom a step leaves alone.
LEMMA OtherReading ==
  ASSUME Read, UNCHANGED stays, NEW q \in Requests, pc'[q] = pc[q], req'[q] = req[q],
         answer'[q] = answer[q], constant'[q] = constant[q]
  PROVE  Reading(q)'
  <1>1. PICK k, nights : k = req[q].listing /\ nights = Booked(k)
    OBVIOUS
  <1>2. nights = Booked(k)'
    BY <1>1, BookedKept
  <1>3. Reading(q)
    BY DEF Read
  <1>4. /\ pc'[q] = "readBooked" => Fits(constant'[q], answer'[q].blocked, nights)
        /\ pc'[q] = "respond" =>
             Fits(constant'[q], answer'[q].blocked, answer'[q].booked)
    BY <1>1, <1>3 DEF Reading
  <1>. QED  BY <1>1, <1>2, <1>4, ReadingPrimed

\* A reader whose listing is watched.
LEMMA WatchedReading ==
  ASSUME TypeOK, Read, NEW l, NEW nights, NEW occupied, Watch(l, nights, occupied),
         NEW q \in Requests, pc'[q] = pc[q], req'[q] = req[q], answer'[q] = answer[q],
         \A k : Booked(k)' = IF k = l THEN occupied ELSE Booked(k)
  PROVE  Reading(q)'
  <1>1. constant'[q] = IF pc[q] = "readBooked" /\ req[q].listing = l
                       THEN [taken |-> constant[q].taken \cap (nights \cup occupied),
                             free  |-> constant[q].free \ (nights \cup occupied),
                             moved |-> constant[q].moved
                               \cup (((Booked(l) \ occupied) \cap nights)
                                       \ answer[q].blocked)]
                       ELSE constant[q]
    BY DEF Watch
  <1>2. PICK k : k = req[q].listing
    OBVIOUS
  <1>3. Booked(k)' = IF k = l THEN occupied ELSE Booked(k)
    OBVIOUS
  <1>4. Reading(q)
    BY DEF Read
  <1>5. CASE pc[q] = "readBooked"
    <2>1. PICK now, then : now = Booked(k)' /\ then = Booked(k)
      OBVIOUS
    <2>2. now = IF k = l THEN occupied ELSE then
      BY <1>3, <2>1
    <2>3. Fits(constant[q], answer[q].blocked, then)
      BY <1>2, <1>4, <1>5, <2>1 DEF Reading
    <2>4. Fits(constant'[q], answer'[q].blocked, now)
      <3>1. CASE k = l
        <4>1. /\ constant'[q].taken = constant[q].taken \cap (nights \cup now)
              /\ constant'[q].free = constant[q].free \ (nights \cup now)
              /\ constant'[q].moved = constant[q].moved
                   \cup (((then \ now) \cap nights) \ answer[q].blocked)
          BY <1>1, <1>2, <1>5, <2>1, <2>2, <3>1
        <4>. QED  BY <2>3, <4>1 DEF Fits
      <3>2. CASE k # l
        BY <1>1, <1>2, <2>2, <2>3, <3>2 DEF Fits
      <3>. QED  BY <3>1, <3>2
    <2>. QED  BY <1>2, <1>5, <2>1, <2>4, ReadingPrimed
  <1>6. CASE pc[q] # "readBooked"
    BY <1>1, <1>4, <1>6 DEF Reading
  <1>. QED  BY <1>5, <1>6

LEMMA ReadStep == ASSUME TypeOK, Read, NEW p \in Requests, Step(p)  PROVE Read'
  <1>0. AnswerShape(answer') /\ \A q \in Requests \ {p} :
          answer'[q] = answer[q] /\ pc'[q] = pc[q] /\ req'[q] = req[q]
    BY AnswersStep, Frame
  <1>1. ASSUME NEW l, NEW nights, NEW occupied, Watch(l, nights, occupied), Finish(p),
               \A k : Booked(k)' = IF k = l THEN occupied ELSE Booked(k)
        PROVE  Read'
    <2>1. constant' = [q \in Requests |-> constant'[q]]
      BY <1>1 DEF Watch
    <2>2. ASSUME NEW q \in Requests  PROVE Reading(q)'
      <3>1. CASE q = p
        BY <1>1, <3>1 DEF Finish, End, TypeOK, Reading
      <3>2. CASE q # p
        BY <1>0, <1>1, <3>2, WatchedReading
      <3>. QED  BY <3>1, <3>2
    <2>. QED  BY <1>0, <2>1, <2>2 DEF Read, AnswerShape
  <1>2. ASSUME UNCHANGED <<constant, stays>>, pc'[p] \notin {"readBooked", "respond"}
        PROVE  Read'
    <2>1. ASSUME NEW q \in Requests  PROVE Reading(q)'
      <3>1. CASE q = p
        BY <1>2, <3>1 DEF Reading
      <3>2. CASE q # p
        BY <1>0, <1>2, <3>2, OtherReading
      <3>. QED  BY <3>1, <3>2
    <2>. QED  BY <1>0, <1>2, <2>1 DEF Read, AnswerShape
  <1>3. ASSUME UNCHANGED <<constant, stays>>, Finish(p) \/ Throw(p)
        PROVE  Read'
    BY <1>2, <1>3 DEF Finish, Throw, End, TypeOK
  <1>4. ASSUME UNCHANGED stays
        PROVE  \A l : \A k : Booked(k)' = IF k = l THEN Booked(l) ELSE Booked(k)
    BY <1>4, BookedKept
  <1>5. CASE Block(p) \/ Unblock(p)
    <2>1. PICK l : l = req[p].listing
      OBVIOUS
    <2>2. PICK nights : Watch(l, nights, Booked(l))
      BY <1>5, <2>1 DEF Block, Unblock
    <2>3. UNCHANGED stays /\ Finish(p)
      BY <1>5 DEF Block, Unblock
    <2>. QED  BY <1>1, <1>4, <2>2, <2>3
  <1>6. CASE Delete(p)
    <2>1. PICK l : l = req[p].listing
      OBVIOUS
    <2>2. CASE Throw(p)
      BY <1>3, <2>2 DEF Throw, history
    <2>3. CASE /\ \A s \in Stays : s[1] = l => stays[s] = "none"
               /\ Watch(l, {}, {}) /\ Finish(p) /\ UNCHANGED stays
      <3>1. Booked(l) = {}
        BY <2>3 DEF Booked, StaysOf
      <3>. QED  BY <1>1, <1>4, <2>3, <3>1
    <2>. QED  BY <1>6, <2>1, <2>2, <2>3 DEF Delete
  <1>7. ASSUME NEW l \in Ids, ReadBlocked(p, l)
        PROVE  Read'
    <2>1. /\ pc'[p] = "readBooked" /\ req'[p].listing = l
          /\ UNCHANGED stays
          /\ \A q \in Requests \ {p} : constant'[q] = constant[q]
          /\ constant' = [q \in Requests |-> constant'[q]]
          /\ constant'[p] = [taken |-> blocked[l] \cup Booked(l), moved |-> {},
                             free |-> Nights \ (blocked[l] \cup Booked(l))]
      BY <1>7 DEF ReadBlocked, TypeOK, Read
    <2>2. answer'[p].blocked = blocked[l]
      <3>1. answer[p] = [blocked |-> answer[p].blocked, booked |-> answer[p].booked]
            /\ DOMAIN answer = Requests
        BY DEF Read
      <3>2. answer'[p] = [answer[p] EXCEPT !.blocked = blocked[l]]
        BY <1>7, <3>1 DEF ReadBlocked
      <3>. QED  BY <3>1, <3>2
    <2>3. Booked(l)' = Booked(l)
      BY <2>1, BookedKept
    <2>4. Reading(p)'
      <3>1. PICK nights : nights = Booked(l)'
        OBVIOUS
      <3>2. Fits(constant'[p], answer'[p].blocked, nights)
        BY <2>1, <2>2, <2>3, <3>1 DEF Fits
      <3>. QED  BY <2>1, <3>1, <3>2, ReadingPrimed
    <2>5. ASSUME NEW q \in Requests, q # p  PROVE Reading(q)'
      BY <1>0, <2>1, <2>5, OtherReading
    <2>. QED  BY <1>0, <2>1, <2>4, <2>5 DEF Read, AnswerShape
  <1>8. CASE ReadBooked(p)
    <2>1. /\ pc[p] = "readBooked" /\ pc'[p] = "respond" /\ UNCHANGED <<constant, stays>>
      BY <1>8 DEF ReadBooked, TypeOK, history
    <2>2. answer'[p].booked = Booked(req[p].listing) /\ answer'[p].blocked = answer[p].blocked
      <3>1. answer[p] = [blocked |-> answer[p].blocked, booked |-> answer[p].booked]
            /\ DOMAIN answer = Requests
        BY DEF Read
      <3>2. answer'[p] = [answer[p] EXCEPT !.booked = Booked(req[p].listing)]
        BY <1>8, <3>1 DEF ReadBooked, BookedDates
      <3>. QED  BY <3>1, <3>2
    <2>3. Reading(p)'
      BY <2>1, <2>2 DEF Read, Reading
    <2>4. ASSUME NEW q \in Requests, q # p  PROVE Reading(q)'
      BY <1>0, <2>1, <2>4, OtherReading
    <2>. QED  BY <1>0, <2>1, <2>3, <2>4 DEF Read, AnswerShape
  <1>9. \/ Block(p) \/ Unblock(p) \/ Delete(p) \/ ReadBooked(p)
        \/ \E l \in Ids : ReadBlocked(p, l)
        \/ UNCHANGED <<constant, stays>> /\ (Finish(p) \/ Throw(p))
        \/ UNCHANGED <<constant, stays>> /\ pc'[p] \notin {"readBooked", "respond"}
    <2>1. CASE \E q \in HostRequest : FindListing(p, q)
      <3>1. UNCHANGED <<constant, stays>>
        BY <2>1 DEF FindListing, rows, history
      <3>2. pc'[p] \in HostPc \cup {"failed"}
        <4>1. \A q \in HostRequest : q.op \in HostPc
          BY DEF HostRequest, UpdateDto, PlainRequest, UploadRequest, ManageDto, HostPc
        <4>. QED  BY <2>1, <4>1 DEF FindListing, TypeOK
      <3>. QED  BY <3>1, <3>2 DEF HostPc
    <2>2. CASE \E u \in Hosts, complete \in BOOLEAN, n \in 0 .. MaxPhotos :
               InsertPublished(p, u, complete, n)
      BY <2>2 DEF InsertPublished, TypeOK
    <2>3. CASE ReadOrder(p)
      BY <2>3 DEF ReadOrder, Goto, TypeOK, rows, history
    <2>4. CASE Publish(p) \/ Unpublish(p) \/ Update(p) \/ RowGone(p) \/ Respond(p) \/ Crash(p)
      BY <2>4 DEF Publish, Unpublish, Update, RowGone, Respond, Crash, WriteRow, Throw, history
    <2>5. CASE OnboardPhotos(p) \/ InsertPhotos(p)
      BY <2>5 DEF OnboardPhotos, InsertPhotos, AddPhotos, Throw, history
    <2>6. CASE \E u \in Hosts, complete \in BOOLEAN, n \in 0 .. MaxPhotos :
               \E published \in BOOLEAN : InsertListing(p, u, published, complete, n)
      BY <2>6 DEF InsertListing, history
    <2>. QED  BY <2>1, <2>2, <2>3, <2>4, <2>5, <2>6 DEF Step
  <1>. QED  BY <1>2, <1>3, <1>5, <1>6, <1>7, <1>8, <1>9

LEMMA ReadEnvironment == ASSUME TypeOK, Read, Environment  PROVE Read'
  <1>1. UNCHANGED <<pc, req, answer>>
    BY EnvironmentRows
  <1>2. CASE UNCHANGED <<constant, stays>>
    <2>1. \A q \in Requests : Reading(q)'
      BY <1>1, <1>2, OtherReading
    <2>. QED  BY <1>1, <1>2, <2>1 DEF Read
  <1>3. ASSUME NEW s \in Stays, Book(s)  PROVE Read'
    <2>1. PICK l, occupied : l = s[1] /\ occupied = Booked(l)'
      OBVIOUS
    <2>2. \A r \in Stays \ {s} : stays'[r] = stays[r]
      BY <1>3 DEF Book, TypeOK
    <2>3. ASSUME NEW k, k # l  PROVE Booked(k)' = Booked(k)
      <3>1. \A r \in Stays : r[1] = k => r # s
        BY <2>1, <2>3
      <3>2. {r \in Stays : r[1] = k /\ stays'[r] = "active"} = {r \in Stays : r[1] = k /\ stays[r] = "active"}
        BY <2>2, <3>1
      <3>. QED  BY <3>2 DEF Booked, StaysOf
    <2>4. Watch(l, blocked[l], occupied)
      BY <1>3, <2>1 DEF Book
    <2>5. \A k : Booked(k)' = IF k = l THEN occupied ELSE Booked(k)
      BY <2>1, <2>3 DEF Booked, StaysOf
    <2>6. \A q \in Requests : Reading(q)'
      BY <1>1, <2>4, <2>5, WatchedReading
    <2>7. constant' = [q \in Requests |-> constant'[q]]
      BY <2>4 DEF Watch
    <2>. QED  BY <1>1, <2>6, <2>7 DEF Read
  <1>. QED
    BY <1>2, <1>3 DEF Environment, UpdateListingStatus, DeleteListingPhoto

----------------------------------------------------------------------------

\* The inductive invariant: ids are used once; a handler that publishes has
\* seen a complete listing, one that adds photos has numbers above those there
\* are, and a reader's first answer has not aged but as its history says.
THEOREM InvInductive ==
  /\ Init => Inv
  /\ Inv /\ [Next]_vars => Inv'
  <1>1. ASSUME Inv, Next  PROVE Inv'
    <2>1. TypeOK' /\ Fresh' /\ Published'
      BY <1>1, TypesStep, FreshStep, PublishedStep DEF Inv
    <2>2. Pictured' /\ Read'
      BY <1>1, PicturedStep, PicturedEnvironment, ReadStep, ReadEnvironment DEF Inv, Next
    <2>. QED  BY <2>1, <2>2 DEF Inv
  <1>2. ASSUME Inv, UNCHANGED vars  PROVE Inv'
    <2>. USE <1>2 DEF vars, Inv, rows, history
    <2>1. TypeOK' /\ Fresh'
      BY DEF TypeOK, Fresh, Idle
    <2>2. Published'
      BY DEF Published, Vetting, PublishedExplained
    <2>3. Pictured'
      BY DEF Pictured, Ordering, Above, Ordered, Primaries
    <2>4. Read'
      <3>1. \A q \in Requests : Reading(q)'
        BY OtherReading
      <3>. QED  BY <3>1 DEF Read
    <2>. QED  BY <2>1, <2>2, <2>3, <2>4
  <1>. QED  BY <1>1, <1>2, InvInit

THEOREM InvHolds == Spec => []Inv
  <1>. QED  BY InvInductive, PTL DEF Spec

\* TypeOK: rows and handlers have their types, and no photo or blocked night
\* outlives its listing (deleteProperty, the cascades of listing.prisma).
THEOREM TypesHold == Spec => []TypeOK
  <1>1. Inv => TypeOK
    BY DEF Inv
  <1>. QED  BY <1>1, InvHolds, PTL

\* PublishedExplained: what publishProperty checks still holds of what it has
\* published, unless the listing was edited behind its back.
THEOREM PublishedHold == Spec => []PublishedExplained
  <1>1. Inv => PublishedExplained
    BY DEF Inv, Published
  <1>. QED  BY <1>1, InvHolds, PTL

\* PhotosExplained: one primary photo, and the first (uploadPhotos and whatever
\* else writes photos).
THEOREM PhotosHold == Spec => []PhotosExplained
  <1>1. Inv => PhotosExplained
    BY DEF Inv, Pictured, Ordered, PhotosExplained, TypeOK
  <1>. QED  BY <1>1, InvHolds, PTL

\* CalendarHonest: what getPropertyAvailability reads in two statements.  A night
\* that was taken from before the first to after the second is missing only where
\* its owner moved it between the tables, and a night that was free is never there.
THEOREM CalendarsHold == Spec => []CalendarHonest
  <1>1. Inv => CalendarHonest
    BY DEF Inv, Read, Reading, Fits, CalendarHonest
  <1>. QED  BY <1>1, InvHolds, PTL
=============================================================================
