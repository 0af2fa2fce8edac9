------------------------------ MODULE Listings ------------------------------
(***************************************************************************)
(* Listings, their photos and their calendars (src/properties, the         *)
(* listing of host onboarding in src/auth, and the admin's writes).        *)
(*                                                                         *)
(* A host's request reads the listing first and then writes it, its photos *)
(* or its blocked nights, in statements of their own; the admin writes at  *)
(* any time, and bookings come and go (module Bookings).                   *)
(*                                                                         *)
(* Each member of Requests is one HTTP request, taken up with its first    *)
(* statement, before which it reads nothing; a listing is named after the  *)
(* request that inserts it.  Files that fail to reach Cloudinary are left  *)
(* out of a listing's photos, so a request may store fewer.                *)
(***************************************************************************)
EXTENDS Integers

CONSTANTS
  Requests,    \* the HTTP requests served
  Existing,    \* listings created before
  Hosts,       \* users who own listings
  MaxPhotos,   \* photos of one request, 10 in the controller
  Nights,      \* the nights a calendar tells of, from today on
  Stays        \* bookings that may be made: <<listing, check-in, check-out>>

ASSUME PhotosAssumption == MaxPhotos \in Nat
ASSUME IdsAssumption == Requests \cap Existing = {}

VARIABLES
  listings,    \* the rows, a function on the ids inserted so far
  photos,      \* rows of listing_photos, a set for each listing
  blocked,     \* nights of listing_availability that are not available
  stays,       \* the bookings: none yet, active or ended
  pc,          \* the statement a handler awaits next
  req,         \* the request a handler serves
  next,        \* the display order a handler has derived from its read
  answer,      \* what a reader of the calendar has read
  \* History, read by no handler:
  overtaken,   \* handlers whose read was followed by another's write of it
  vetted,      \* listings published last by publishProperty, and not edited
               \* since it checked them
  unstamped,   \* listings whose status was last set by admin or onboarding
  loose,       \* listings whose photos lost their order or primary one
  constant     \* of a reader: the nights taken and those free throughout, and
               \* those that a booking left to a block meanwhile

rows     == <<listings, photos, blocked>>
history  == <<overtaken, vetted, unstamped, loose, constant>>
vars == <<rows, stays, pc, req, next, answer, history>>

----------------------------------------------------------------------------
(* Rows and requests *)

Ids      == Requests \cup Existing
Statuses == {"draft", "published"}    \* draft stands for all the others

\* complete: the row has all that publishProperty asks for; dated: it has a
\* publishedAt.
Listing == [host: Hosts, status: Statuses, dated: BOOLEAN, complete: BOOLEAN]
Photo   == [by: Ids, order: Nat, primary: BOOLEAN]

\* An optional field of a DTO is the set of what it gives.
Opt(S) == {{}} \cup {{x} : x \in S}
Given(field, old) == IF field = {} THEN {old} ELSE field

OnboardDto == [op: {"onboard"}, photos: 0 .. MaxPhotos]
UpdateDto == [op: {"update"}, user: Hosts, listing: Ids,
              complete: Opt(BOOLEAN), status: Opt({"published", "draft"}),
              photos: Opt(0 .. MaxPhotos)]
PlainRequest == [op: {"publish", "unpublish", "delete"}, user: Hosts, listing: Ids]
UploadRequest == [op: {"readOrder"}, user: Hosts, listing: Ids,
                  photos: 1 .. MaxPhotos]
ManageDto == [op: {"block", "unblock"}, user: Hosts, listing: Ids,
              nights: SUBSET Nights \ {{}}]
CalendarRequest == [op: {"calendar"}, listing: Ids]
HostRequest == UpdateDto \cup PlainRequest \cup UploadRequest \cup ManageDto
NoRequest == [op |-> "none"]

HostPc  == {"publish", "unpublish", "update", "delete", "readOrder", "block",
            "unblock"}
AwaitPc == HostPc \cup {"onboardPhotos", "insertPhotos", "readBooked", "respond"}

NoAnswer == [blocked |-> {}, booked |-> {}]
Never    == [taken |-> {}, free |-> {}, moved |-> {}]

\* photos.map((url, index) => ...): the first is the primary one.
Numbered(p, S) == {[by |-> p, order |-> i, primary |-> i = 0] : i \in S}

StaysOf(l, how) == {s \in Stays : s[1] = l /\ stays[s] = how}
Booked(l) == UNION {s[2] .. s[3] - 1 : s \in StaysOf(l, "active")}

Init ==
  /\ \E first \in [Existing -> [host: Hosts, status: {"draft"}, dated: {FALSE},
                                complete: BOOLEAN]] : listings = first
  /\ \E n \in 0 .. MaxPhotos : photos = [l \in Ids |->
       IF l \in Existing THEN Numbered(l, 0 .. n - 1) ELSE {}]
  /\ blocked = [l \in Ids |-> {}]
  /\ stays = [s \in Stays |-> "none"]
  /\ pc = [p \in Requests |-> "idle"]
  /\ req = [p \in Requests |-> NoRequest]
  /\ next = [p \in Requests |-> 0]
  /\ answer = [p \in Requests |-> NoAnswer]
  /\ overtaken = {} /\ vetted = {} /\ unstamped = {} /\ loose = {}
  /\ constant = [p \in Requests |-> Never]

Goto(p, statement) == pc' = [pc EXCEPT ![p] = statement] /\ UNCHANGED <<req, answer>>

End(p, how) ==
  /\ pc' = [pc EXCEPT ![p] = how]
  /\ req' = [req EXCEPT ![p] = NoRequest]
  /\ answer' = [answer EXCEPT ![p] = NoAnswer]

Finish(p) == End(p, "done")
Throw(p)  == End(p, "failed") /\ UNCHANGED <<rows, stays, next, history>>

\* Handlers that have read, or inserted, of l what is being written now.
Readers(l, statements) ==
  {p \in Requests : /\ pc[p] \in statements
                    /\ l = IF req[p].op = "onboard" THEN p ELSE req[p].listing}

\* A reader between its two reads sees the nights of l change.
Watch(l, nights, occupied) ==
  constant' = [p \in Requests |->
    IF pc[p] = "readBooked" /\ req[p].listing = l
    THEN [taken |-> constant[p].taken \cap (nights \cup occupied),
          free  |-> constant[p].free \ (nights \cup occupied),
          moved |-> constant[p].moved
                      \cup (((Booked(l) \ occupied) \cap nights) \ answer[p].blocked)]
    ELSE constant[p]]

----------------------------------------------------------------------------
(* create, and the listing of onboardHost *)

Insert(p, row) ==
  /\ pc[p] = "idle"
  /\ listings' = [l \in DOMAIN listings \cup {p} |->
                    IF l = p THEN row ELSE listings[l]]

\* The row and its photos in one transaction; n of its files were stored.
InsertListing(p, u, published, complete, n) ==
  /\ Insert(p, [host |-> u, complete |-> complete, dated |-> published,
                status |-> IF published THEN "published" ELSE "draft"])
  /\ photos' = [photos EXCEPT ![p] = Numbered(p, 0 .. n - 1)]
  /\ Finish(p)
  /\ UNCHANGED <<blocked, stays, next, history>>

\* Onboarding publishes, and gives no date.
InsertPublished(p, u, complete, n) ==
  /\ Insert(p, [host |-> u, complete |-> complete, dated |-> FALSE,
                status |-> "published"])
  /\ unstamped' = unstamped \cup {p}
  /\ pc' = [pc EXCEPT ![p] = "onboardPhotos"]
  /\ req' = [req EXCEPT ![p] = [op |-> "onboard", photos |-> n]]
  /\ UNCHANGED <<photos, blocked, stays, next, answer, overtaken, vetted, loose, constant>>

\* Mutant of Insertable: photos of a listing that is gone are accepted.
InsertableAnywhere(l, new) ==
  ~\E a \in photos[l], b \in new : a.primary /\ b.primary

\* createMany: the listing must exist, and have one primary photo at most
\* (idx_photos_primary).
Insertable(l, new) ==
  /\ l \in DOMAIN listings
  /\ ~\E a \in photos[l], b \in new : a.primary /\ b.primary

AddPhotos(p, l, new) ==
  /\ Insertable(l, new)
  /\ photos' = [photos EXCEPT ![l] = @ \cup new]
  /\ overtaken' = overtaken \cup Readers(l, {"insertPhotos", "onboardPhotos"})
  /\ Finish(p)
  /\ UNCHANGED <<listings, blocked, stays, next, vetted, unstamped, constant>>

\* Failed uploads are skipped, and leave gaps in the order; if the first fails
\* no photo is primary.
OnboardPhotos(p) ==
  /\ pc[p] = "onboardPhotos"
  /\ \E S \in SUBSET (0 .. req[p].photos - 1) :
       \/ /\ S # {}
          /\ AddPhotos(p, p, Numbered(p, S))
          /\ loose' = IF p \in overtaken \/ 0 \notin S THEN loose \cup {p} ELSE loose
       \/ S # {} /\ ~Insertable(p, Numbered(p, S)) /\ Throw(p)
       \/ S = {} /\ Finish(p) /\ UNCHANGED <<rows, stays, next, history>>

----------------------------------------------------------------------------
(* The requests of a host, each of which reads the listing first *)

\* Mutant of Accepted: publishing asks for nothing.
AcceptedUnchecked(q) ==
  /\ q.listing \in DOMAIN listings
  /\ listings[q.listing].host = q.user
  /\ q.op = "unpublish" => listings[q.listing].status = "published"

\* What each handler asks of the row it has read.
Accepted(q) ==
  /\ q.listing \in DOMAIN listings
  /\ listings[q.listing].host = q.user
  /\ q.op = "publish" => listings[q.listing].complete
  /\ q.op = "unpublish" => listings[q.listing].status = "published"

FindListing(p, q) ==
  /\ pc[p] = "idle"
  /\ IF Accepted(q)
     THEN pc' = [pc EXCEPT ![p] = q.op] /\ req' = [req EXCEPT ![p] = q]
     ELSE pc' = [pc EXCEPT ![p] = "failed"] /\ UNCHANGED req
  /\ UNCHANGED <<rows, stays, next, answer, history>>

\* A write of the row in a handler of a host.
WriteRow(p, row) ==
  /\ listings' = [listings EXCEPT ![req[p].listing] = row]
  /\ Finish(p)
  /\ UNCHANGED <<blocked, stays, next, constant>>

Publish(p) ==
  LET l == req[p].listing
  IN  /\ pc[p] = "publish"
      /\ l \in DOMAIN listings
      /\ WriteRow(p, [listings[l] EXCEPT !.status = "published", !.dated = TRUE])
      /\ vetted' = IF p \in overtaken THEN vetted \ {l} ELSE vetted \cup {l}
      /\ unstamped' = unstamped \ {l}
      /\ UNCHANGED <<photos, overtaken, loose>>

Unpublish(p) ==
  LET l == req[p].listing
  IN  /\ pc[p] = "unpublish"
      /\ l \in DOMAIN listings
      /\ WriteRow(p, [listings[l] EXCEPT !.status = "draft", !.dated = FALSE])
      /\ vetted' = vetted \ {l}
      /\ unstamped' = unstamped \ {l}
      /\ UNCHANGED <<photos, overtaken, loose>>

\* updateProperty: the fields given, checked by nobody, a status with its date,
\* and photos in place of those there were, in one transaction.
Update(p) ==
  LET q == req[p]
      l == q.listing
      row == listings[l]
  IN  /\ pc[p] = "update"
      /\ l \in DOMAIN listings
      /\ \E complete \in Given(q.complete, row.complete), status \in Given(q.status, row.status) :
           WriteRow(p, [row EXCEPT !.complete = complete, !.status = status,
                          !.dated = IF q.status = {} THEN @ ELSE status = "published"])
      /\ \/ q.photos = {} /\ UNCHANGED <<photos, loose>>
         \/ \E n \in q.photos : \E kept \in 0 .. n :
              /\ photos' = [photos EXCEPT ![l] = Numbered(p, 0 .. kept - 1)]
              /\ loose' = loose \ {l}
      /\ vetted' = IF q.complete = {} /\ q.status = {} THEN vetted ELSE vetted \ {l}
      /\ unstamped' = IF q.status = {} THEN unstamped ELSE unstamped \ {l}
      /\ overtaken' = overtaken
           \cup (IF q.complete = {} THEN {} ELSE Readers(l, {"publish"}))
           \cup (IF q.photos = {} THEN {} ELSE Readers(l, {"insertPhotos", "onboardPhotos"}))

\* Bookings, ended or not, keep the row; photos and nights go with it.
Delete(p) ==
  LET l == req[p].listing
  IN  /\ pc[p] = "delete"
      /\ l \in DOMAIN listings
      /\ \/ /\ \A s \in Stays : s[1] = l => stays[s] = "none"
            /\ listings' = [k \in DOMAIN listings \ {l} |-> listings[k]]
            /\ photos' = [photos EXCEPT ![l] = {}]
            /\ blocked' = [blocked EXCEPT ![l] = {}]
            /\ vetted' = vetted \ {l}
            /\ Watch(l, {}, {})
            /\ Finish(p)
            /\ UNCHANGED <<stays, next, overtaken, unstamped, loose>>
         \/ (\E s \in Stays : s[1] = l /\ stays[s] # "none") /\ Throw(p)

\* The row that a statement writes is gone.
RowGone(p) ==
  /\ pc[p] \in {"publish", "unpublish", "update", "delete", "block"}
  /\ req[p].listing \notin DOMAIN listings
  /\ Throw(p)

----------------------------------------------------------------------------
(* uploadPhotos, and the admin's writes *)

\* The photo with the highest order, of which there may be several.
LastPhotos(l) == {last \in photos[l] : \A ph \in photos[l] : ph.order <= last.order}

\* Mutant of NextOrder: the order of the last photo again.
LastOrder(l) ==
  IF photos[l] = {} THEN {0} ELSE {last.order : last \in LastPhotos(l)}

NextOrder(l) ==
  IF photos[l] = {} THEN {0} ELSE {last.order + 1 : last \in LastPhotos(l)}

\* The files are stored by now.
ReadOrder(p) ==
  /\ pc[p] = "readOrder"
  /\ \E order \in NextOrder(req[p].listing) : next' = [next EXCEPT ![p] = order]
  /\ Goto(p, "insertPhotos")
  /\ UNCHANGED <<rows, stays, history>>

InsertPhotos(p) ==
  LET l == req[p].listing
      new == Numbered(p, next[p] .. next[p] + req[p].photos - 1)
  IN  /\ pc[p] = "insertPhotos"
      /\ \/ /\ AddPhotos(p, l, new)
            /\ loose' = IF p \in overtaken THEN loose \cup {l} ELSE loose
         \/ ~Insertable(l, new) /\ Throw(p)

\* updateListingStatus of the admin leaves the date alone.
UpdateListingStatus(l, status) ==
  /\ l \in DOMAIN listings
  /\ listings' = [listings EXCEPT ![l].status = status]
  /\ unstamped' = unstamped \cup {l}
  /\ vetted' = vetted \ {l}
  /\ UNCHANGED <<photos, blocked, stays, pc, req, next, answer, overtaken, loose, constant>>

\* deleteListingPhoto: its read and its delete name the same row.
DeleteListingPhoto(l, ph) ==
  /\ ph \in photos[l]
  /\ photos' = [photos EXCEPT ![l] = @ \ {ph}]
  /\ loose' = IF photos[l] = {ph} THEN loose \ {l}
              ELSE IF ph.primary THEN loose \cup {l} ELSE loose
  /\ overtaken' = overtaken \cup Readers(l, {"insertPhotos", "onboardPhotos"})
  /\ UNCHANGED <<listings, blocked, stays, pc, req, next, answer, vetted, unstamped, constant>>

----------------------------------------------------------------------------
(* The calendar *)

Block(p) ==
  LET l == req[p].listing
      nights == blocked[l] \cup req[p].nights
  IN  /\ pc[p] = "block"
      /\ l \in DOMAIN listings
      /\ blocked' = [blocked EXCEPT ![l] = nights]
      /\ Watch(l, nights, Booked(l))
      /\ Finish(p)
      /\ UNCHANGED <<listings, photos, stays, next, overtaken, vetted, unstamped, loose>>

Unblock(p) ==
  LET l == req[p].listing
      nights == blocked[l] \ req[p].nights
  IN  /\ pc[p] = "unblock"
      /\ blocked' = [blocked EXCEPT ![l] = nights]
      /\ Watch(l, nights, Booked(l))
      /\ Finish(p)
      /\ UNCHANGED <<listings, photos, stays, next, overtaken, vetted, unstamped, loose>>

\* createBooking, and whatever ends a booking or revives it, on the nights of the
\* calendar.
Book(s) ==
  /\ s[1] \in DOMAIN listings
  /\ \/ stays[s] = "none" /\ stays' = [stays EXCEPT ![s] = "active"]
     \/ stays[s] = "active" /\ stays' = [stays EXCEPT ![s] = "ended"]
     \/ stays[s] = "ended" /\ stays' = [stays EXCEPT ![s] = "active"]
  /\ Watch(s[1], blocked[s[1]], Booked(s[1])')
  /\ UNCHANGED <<rows, pc, req, next, answer, overtaken, vetted, unstamped, loose>>

ReadBlocked(p, l) ==
  /\ pc[p] = "idle"
  /\ pc' = [pc EXCEPT ![p] = "readBooked"]
  /\ req' = [req EXCEPT ![p] = [op |-> "calendar", listing |-> l]]
  /\ answer' = [answer EXCEPT ![p].blocked = blocked[l]]
  /\ constant' = [constant EXCEPT ![p] =
       [taken |-> blocked[l] \cup Booked(l), moved |-> {},
        free |-> Nights \ (blocked[l] \cup Booked(l))]]
  /\ UNCHANGED <<rows, stays, next, overtaken, vetted, unstamped, loose>>

\* Mutant of BookedDates: the day of departure counts.
DatesWithDeparture(l) ==
  UNION {s[2] .. s[3] : s \in StaysOf(l, "active")}

\* The loop over the bookings' days, up to but without the day of departure.
BookedDates(l) == Booked(l)

ReadBooked(p) ==
  /\ pc[p] = "readBooked"
  /\ answer' = [answer EXCEPT ![p].booked = BookedDates(req[p].listing)]
  /\ pc' = [pc EXCEPT ![p] = "respond"]
  /\ UNCHANGED <<rows, stays, req, next, history>>

Respond(p) == pc[p] = "respond" /\ Finish(p) /\ UNCHANGED <<rows, stays, next, history>>

\* The awaited statement fails, or the instance dies.
Crash(p) == pc[p] \in AwaitPc /\ Throw(p)

----------------------------------------------------------------------------

Step(p) ==
  \/ \E u \in Hosts, complete \in BOOLEAN, n \in 0 .. MaxPhotos :
       \/ \E published \in BOOLEAN : InsertListing(p, u, published, complete, n)
       \/ InsertPublished(p, u, complete, n)
  \/ \E q \in HostRequest : FindListing(p, q)
  \/ OnboardPhotos(p)
  \/ Publish(p) \/ Unpublish(p) \/ Update(p) \/ Delete(p) \/ RowGone(p)
  \/ ReadOrder(p) \/ InsertPhotos(p) \/ Block(p) \/ Unblock(p)
  \/ (\E l \in Ids : ReadBlocked(p, l))
  \/ ReadBooked(p) \/ Respond(p) \/ Crash(p)

Environment ==
  \/ \E l \in Ids : \/ \E status \in Statuses : UpdateListingStatus(l, status)
                    \/ \E ph \in photos[l] : DeleteListingPhoto(l, ph)
  \/ \E s \in Stays : Book(s)

Next == (\E p \in Requests : Step(p)) \/ Environment

Spec == Init /\ [][Next]_vars

----------------------------------------------------------------------------
(* Properties *)

\* Rows and handlers have their types, photos and blocked nights belong to a
\* listing that exists.
TypeOK ==
  /\ DOMAIN listings \subseteq Ids
  /\ listings \in [DOMAIN listings -> Listing]
  /\ photos \in [Ids -> SUBSET Photo]
  /\ blocked \in [Ids -> SUBSET Nights]
  /\ stays \in [Stays -> {"none", "active", "ended"}]
  /\ pc \in [Requests -> AwaitPc \cup {"idle", "done", "failed"}]
  /\ req \in [Requests ->
       HostRequest \cup OnboardDto \cup CalendarRequest \cup {NoRequest}]
  /\ next \in [Requests -> Nat]
  /\ \A l \in Ids \ DOMAIN listings : photos[l] = {} /\ blocked[l] = {}
  /\ \A p \in Requests :
       /\ pc[p] \in AwaitPc => req[p] # NoRequest
       /\ pc[p] \in HostPc => req[p].op = pc[p]
       /\ pc[p] \in {"readBooked", "respond"} => req[p].op = "calendar"
       /\ pc[p] = "insertPhotos" => req[p].op = "readOrder"
       /\ pc[p] = "onboardPhotos" => req[p].op = "onboard"

\* A listing that publishProperty published is complete as long as nobody edits
\* it after the check, and a date of publication tells a published listing,
\* unless its status was last written by the admin or by onboarding.
PublishedExplained ==
  \A l \in DOMAIN listings :
    /\ l \in vetted => listings[l].complete /\ listings[l].status = "published"
    /\ l \notin unstamped => (listings[l].dated <=> listings[l].status = "published")

Primaries(l) == {ph \in photos[l] : ph.primary}

\* No listing ever has two primary photos.  The photos of a listing have
\* different orders, and the first of them is the primary one, unless uploads
\* overlapped with other writes of the photos, the admin removed the primary
\* one, or the first file of an onboarding failed; what was loose remains so
\* until the photos are replaced or all removed.
PhotosExplained ==
  \A l \in DOMAIN listings :
    /\ \A a, b \in Primaries(l) : a = b
    /\ l \notin loose =>
         /\ \A a, b \in photos[l] : a.order = b.order => a = b
         /\ photos[l] # {} => \E a \in Primaries(l) : \A b \in photos[l] : a.order <= b.order

\* The calendar is read in two statements, the blocked nights first.  It shows
\* every night that was taken all the time between the two, but for one that was
\* booked at first and whose booking ended only once the night was blocked; and it
\* shows none that was free all the time.
CalendarHonest ==
  \A p \in Requests :
    pc[p] = "respond" =>
      LET shown == answer[p].blocked \cup answer[p].booked
      IN  /\ constant[p].taken \ shown \subseteq constant[p].moved
          /\ constant[p].free \cap shown = {}
=============================================================================
