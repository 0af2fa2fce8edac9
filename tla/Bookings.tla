------------------------------ MODULE Bookings ------------------------------
(***************************************************************************)
(* The reservation core of the AirTrip API: the bookings table and the     *)
(* HTTP handlers that write it (src/bookings, the admin cancellation) or   *)
(* that may pull a listing from under it (deleteProperty).                 *)
(*                                                                         *)
(* A handler is an async function of a serverless instance.  It runs from  *)
(* one await to the next without interruption and any other handler may    *)
(* run in between, so there is one action per awaited statement.  No       *)
(* handler opens a database transaction: every statement commits alone.    *)
(*                                                                         *)
(* Each member of Requests is one HTTP request.  A booking's primary key   *)
(* is a fresh UUID, so a booking is named after the request that inserts   *)
(* it, and a request that does not create names no booking.                *)
(***************************************************************************)
EXTENDS Integers

CONSTANTS
  Requests,      \* the HTTP requests served (bounded by the instance)
  Ops,           \* the kinds of request clients send
  Users,         \* rows of users
  Listings,      \* ids of listings; all exist at first
  HostOf,        \* listings.host_id, which no statement changes
  MinNights,     \* listings.min_nights, 0 for NULL
  MaxNights,     \* listings.max_nights, 0 for NULL
  TicksPerDay,   \* instants of a day that the dates of a DTO tell apart
  Stays,         \* the pairs <<checkInDate, checkOutDate>> clients submit
  DtoStatuses    \* the statuses clients ask for

Status == {"PENDING", "CONFIRMED", "CHECKED_IN", "CHECKED_OUT",
           "CANCELLED_BY_GUEST", "CANCELLED_BY_HOST", "CANCELLED_BY_ADMIN",
           "NO_SHOW"}

\* The statuses createBooking counts as occupying the listing.
ActiveStatus == {"PENDING", "CONFIRMED", "CHECKED_IN"}

ASSUME HostOfAssumption == HostOf \in [Listings -> Users]
ASSUME NightsAssumption == /\ MinNights \in [Listings -> Nat]
                           /\ MaxNights \in [Listings -> Nat]
ASSUME StaysAssumption == /\ TicksPerDay \in Nat \ {0}
                          /\ Stays \subseteq Nat \X Nat
ASSUME DtoStatusesAssumption == DtoStatuses \subseteq Status

VARIABLES
  listings,      \* the listing rows that exist
  bookings,      \* the booking rows, a function on the ids inserted so far
  pc,            \* the statement a handler awaits next
  req,           \* the request a handler is serving
  seen,          \* booking.status as updateBookingStatus read it
  answer,        \* what the client has been told
  mails,         \* confirmation mails sent for a booking
  \* History, read by no handler:
  raced,         \* bookings inserted between a request's availability check
                 \* and its own insert
  revivedOver,   \* bookings that became active again after that check
  confirms,      \* times a booking went from another status to CONFIRMED
  contended      \* bookings written inside another handler's read-write window

store   == <<listings, bookings>>
history == <<raced, revivedOver, confirms, contended>>
vars == <<listings, bookings, pc, req, seen, answer, mails,
          raced, revivedOver, confirms, contended>>

----------------------------------------------------------------------------
(* Rows, requests and handler states *)

\* check_in_date and check_out_date are DATE columns: the time of day that a
\* DTO may carry is cut off when the row is written and when it is compared.
Day(t) == t \div TicksPerDay

\* Math.ceil of the difference of the two instants, in days.
NumberOfNights(in, out) == (out - in + TicksPerDay - 1) \div TicksPerDay

Booking == [listing: Listings, guest: Users, host: Users,
            checkIn: Nat, checkOut: Nat, nights: Int, status: Status]

CreateRequest == [op: {"create"}, user: Users, listing: Listings,
                  checkIn: Nat, checkOut: Nat]
UpdateRequest == [op: {"update"}, user: Users, booking: Requests,
                  status: Status]
CancelRequest == [op: {"cancel"}, booking: Requests]
DeleteRequest == [op: {"delete"}, user: Users, listing: Listings]
NoRequest     == [op |-> "none"]

CreatePc == {"findListing", "findOverlap", "insertBooking"}
UpdatePc == {"findBooking", "writeStatus", "sendMail"}
CancelPc == {"findForCancel", "writeCancel"}
DeletePc == {"findForDelete", "deleteListing"}
Running  == CreatePc \cup UpdatePc \cup CancelPc \cup DeletePc \cup {"respond"}

\* "refused" is a 4xx the handler throws, "error" a 500 or a lost connection,
\* "timeout" the 408 of the TimeoutInterceptor.
Answer == {"none", "ok", "refused", "error", "timeout"}

IsActive(b) == bookings[b].status \in ActiveStatus

\* Booking b holds a night of listing l between the days from and to.
Occupies(b, l, from, to) == /\ bookings[b].listing = l
                            /\ bookings[b].checkIn < to
                            /\ bookings[b].checkOut > from

Init ==
  /\ listings = Listings
  /\ bookings = [b \in {} |-> NoRequest]
  /\ pc = [p \in Requests |-> "idle"]
  /\ req = [p \in Requests |-> NoRequest]
  /\ seen = [p \in Requests |-> "none"]
  /\ answer = [p \in Requests |-> "none"]
  /\ mails = [b \in Requests |-> 0]
  /\ raced = [p \in Requests |-> {}]
  /\ revivedOver = [p \in Requests |-> {}]
  /\ confirms = [b \in Requests |-> 0]
  /\ contended = {}

----------------------------------------------------------------------------
(* Control of a handler *)

\* A request reaches a handler, which is about to await its first statement.
Receive(p, r, first) ==
  /\ pc[p] = "idle"
  /\ pc' = [pc EXCEPT ![p] = first]
  /\ req' = [req EXCEPT ![p] = r]
  /\ UNCHANGED <<listings, bookings, seen, answer, mails, history>>

Goto(p, next) ==
  /\ pc' = [pc EXCEPT ![p] = next]
  /\ UNCHANGED <<req, answer>>

\* The handler returns or throws; what it held is gone.  A client that was
\* already told 408 hears nothing more.
Finish(p, a) ==
  /\ pc' = [pc EXCEPT ![p] = "done"]
  /\ req' = [req EXCEPT ![p] = NoRequest]
  /\ seen' = [seen EXCEPT ![p] = "none"]
  /\ answer' = [answer EXCEPT ![p] = IF @ = "none" THEN a ELSE @]

Refuse(p) == Finish(p, "refused") /\ UNCHANGED <<store, mails, history>>
Error(p)  == Finish(p, "error") /\ UNCHANGED <<store, mails, history>>

Respond(p) ==
  /\ pc[p] = "respond"
  /\ Finish(p, "ok")
  /\ UNCHANGED <<store, mails, history>>

\* Mutant of Timeout: a timer that covers the first statement only.
TimeoutReads(p) ==
  /\ pc[p] \in {"findListing", "findBooking", "findForCancel", "findForDelete"}
  /\ answer[p] = "none"
  /\ answer' = [answer EXCEPT ![p] = "timeout"]
  /\ UNCHANGED <<store, pc, req, seen, mails, history>>

\* The interceptor answers 408 but cancels nothing: the handler runs on.
Timeout(p) ==
  /\ pc[p] \in Running
  /\ answer[p] = "none"
  /\ answer' = [answer EXCEPT ![p] = "timeout"]
  /\ UNCHANGED <<store, pc, req, seen, mails, history>>

\* The awaited statement fails before it commits, or the instance is killed.
\* (A statement that commits although its caller never hears of it is the
\* statement's own action followed by this one.)
Crash(p) ==
  /\ pc[p] \in Running
  /\ Error(p)

----------------------------------------------------------------------------
(* createBooking *)

ReceiveCreate(p) ==
  /\ "create" \in Ops
  /\ \E u \in Users, l \in Listings, s \in Stays :
       Receive(p, [op |-> "create", user |-> u, listing |-> l,
                   checkIn |-> s[1], checkOut |-> s[2]], "findListing")

\* 404 for no listing, 400 for one's own or for dates in the wrong order.
CreateAllowed(r) == /\ r.listing \in listings
                    /\ HostOf[r.listing] # r.user
                    /\ r.checkIn < r.checkOut

FindListing(p) ==
  /\ pc[p] = "findListing"
  /\ \/ ~CreateAllowed(req[p]) /\ Refuse(p)
     \/ /\ CreateAllowed(req[p])
        /\ Goto(p, "findOverlap")
        /\ UNCHANGED <<store, seen, mails, history>>

\* Mutant of Available: a booking that is not yet confirmed holds no dates.
AvailableUnlessConfirmed(r) ==
  \A b \in DOMAIN bookings :
    ~(/\ bookings[b].status \in ActiveStatus \ {"PENDING"}
      /\ Occupies(b, r.listing, Day(r.checkIn), Day(r.checkOut)))

Available(r) ==
  \A b \in DOMAIN bookings :
    ~(IsActive(b) /\ Occupies(b, r.listing, Day(r.checkIn), Day(r.checkOut)))

\* A limit that is 0 or NULL is falsy in the source and not enforced.
NightsAllowed(r) ==
  LET n == NumberOfNights(r.checkIn, r.checkOut)
  IN  /\ MinNights[r.listing] # 0 => n >= MinNights[r.listing]
      /\ MaxNights[r.listing] # 0 => n <= MaxNights[r.listing]

FindOverlap(p) ==
  /\ pc[p] = "findOverlap"
  /\ \/ ~(Available(req[p]) /\ NightsAllowed(req[p])) /\ Refuse(p)
     \/ /\ Available(req[p]) /\ NightsAllowed(req[p])
        /\ Goto(p, "insertBooking")
        /\ UNCHANGED <<store, seen, mails, history>>

NewBooking(r) ==
  [listing |-> r.listing, guest |-> r.user, host |-> HostOf[r.listing],
   checkIn |-> Day(r.checkIn), checkOut |-> Day(r.checkOut),
   nights |-> NumberOfNights(r.checkIn, r.checkOut), status |-> "PENDING"]

\* Mutant of RowAccepted: a schema without the CHECK constraints.
RowReferenced(row) == row.listing \in listings

\* What PostgreSQL checks of a new booking row: the foreign key and the two
\* CHECK constraints on its dates.
RowAccepted(row) == /\ row.listing \in listings
                    /\ row.checkOut > row.checkIn
                    /\ row.nights = row.checkOut - row.checkIn

\* Mutant of InsertBooking: a failed insert is logged and answered 201.
InsertBookingQuietly(p) ==
  LET row == NewBooking(req[p])
  IN  /\ pc[p] = "insertBooking"
      /\ bookings' = IF RowAccepted(row)
                       THEN [b \in DOMAIN bookings \cup {p} |->
                               IF b = p THEN row ELSE bookings[b]]
                       ELSE bookings
      /\ Goto(p, "respond")
      /\ UNCHANGED <<listings, seen, mails, history>>

InsertBooking(p) ==
  LET row == NewBooking(req[p])
  IN  /\ pc[p] = "insertBooking"
      /\ \/ ~RowAccepted(row) /\ Error(p)
         \/ /\ RowAccepted(row)
            /\ bookings' = [b \in DOMAIN bookings \cup {p} |->
                              IF b = p THEN row ELSE bookings[b]]
            /\ raced' = [q \in Requests |->
                           IF q # p /\ pc[q] = "insertBooking"
                             THEN raced[q] \cup {p} ELSE raced[q]]
            /\ Goto(p, "respond")
            /\ UNCHANGED <<listings, seen, mails,
                           revivedOver, confirms, contended>>

----------------------------------------------------------------------------
(* Status writes: updateBookingStatus and the admin's cancelBooking *)

\* An id a client can name: a booking's, or one that is no booking's (p's own,
\* since p does not create).
KnownIds(p) == DOMAIN bookings \cup {p}

\* UPDATE bookings SET status = s WHERE id = b, whatever the status was.
WriteStatus(p, b, s) ==
  LET old == bookings[b].status
  IN  /\ bookings' = [bookings EXCEPT ![b].status = s]
      /\ revivedOver' =
           [q \in Requests |->
              IF /\ old \notin ActiveStatus /\ s \in ActiveStatus
                 /\ q # b
                 /\ q \in DOMAIN bookings \/ pc[q] = "insertBooking"
                THEN revivedOver[q] \cup {b} ELSE revivedOver[q]]
      /\ confirms' = IF s = "CONFIRMED" /\ old # "CONFIRMED"
                       THEN [confirms EXCEPT ![b] = @ + 1] ELSE confirms
      /\ contended' = IF \E q \in Requests : /\ q # p
                                             /\ pc[q] = "writeStatus"
                                             /\ req[q].booking = b
                        THEN contended \cup {b} ELSE contended

ReceiveUpdate(p) ==
  /\ "update" \in Ops
  /\ \E u \in Users, b \in KnownIds(p), s \in DtoStatuses :
       Receive(p, [op |-> "update", user |-> u, booking |-> b, status |-> s],
               "findBooking")

\* Mutant of UpdateAllowed: a guest may ask for any status.
UpdateAllowedToParties(r) ==
  /\ r.booking \in DOMAIN bookings
  /\ r.user \in {bookings[r.booking].host, bookings[r.booking].guest}

\* 404, 403 for a stranger, 403 for a guest who asks for more than to cancel.
UpdateAllowed(r) ==
  /\ r.booking \in DOMAIN bookings
  /\ r.user \in {bookings[r.booking].host, bookings[r.booking].guest}
  /\ r.user = bookings[r.booking].guest => r.status = "CANCELLED_BY_GUEST"

FindBooking(p) ==
  /\ pc[p] = "findBooking"
  /\ \/ ~UpdateAllowed(req[p]) /\ Refuse(p)
     \/ /\ UpdateAllowed(req[p])
        /\ seen' = [seen EXCEPT ![p] = bookings[req[p].booking].status]
        /\ Goto(p, "writeStatus")
        /\ UNCHANGED <<store, mails, history>>

\* Mutant of MailNeeded: the status before the write is not looked at.
MailAlways(p) == req[p].status = "CONFIRMED"

MailNeeded(p) == req[p].status = "CONFIRMED" /\ seen[p] # "CONFIRMED"

UpdateStatus(p) ==
  /\ pc[p] = "writeStatus"
  /\ WriteStatus(p, req[p].booking, req[p].status)
  /\ Goto(p, IF MailNeeded(p) THEN "sendMail" ELSE "respond")
  /\ UNCHANGED <<listings, seen, mails, raced>>

\* A mail that cannot be sent is logged and forgotten.
SendMail(p) ==
  /\ pc[p] = "sendMail"
  /\ \/ mails' = [mails EXCEPT ![req[p].booking] = @ + 1]
     \/ UNCHANGED mails
  /\ Goto(p, "respond")
  /\ UNCHANGED <<store, seen, history>>

ReceiveCancel(p) ==
  /\ "cancel" \in Ops
  /\ \E b \in KnownIds(p) :
       Receive(p, [op |-> "cancel", booking |-> b], "findForCancel")

FindForCancel(p) ==
  /\ pc[p] = "findForCancel"
  /\ \/ req[p].booking \notin DOMAIN bookings /\ Refuse(p)
     \/ /\ req[p].booking \in DOMAIN bookings
        /\ Goto(p, "writeCancel")
        /\ UNCHANGED <<store, seen, mails, history>>

\* Mutant of CancelBooking: a status the enum does not have.
CancelBookingPlainly(p) ==
  /\ pc[p] = "writeCancel"
  /\ WriteStatus(p, req[p].booking, "CANCELLED")
  /\ Goto(p, "respond")
  /\ UNCHANGED <<listings, seen, mails, raced>>

CancelBooking(p) ==
  /\ pc[p] = "writeCancel"
  /\ WriteStatus(p, req[p].booking, "CANCELLED_BY_ADMIN")
  /\ Goto(p, "respond")
  /\ UNCHANGED <<listings, seen, mails, raced>>

----------------------------------------------------------------------------
(* deleteProperty *)

ReceiveDelete(p) ==
  /\ "delete" \in Ops
  /\ \E u \in Users, l \in Listings :
       Receive(p, [op |-> "delete", user |-> u, listing |-> l], "findForDelete")

DeleteAllowed(r) == r.listing \in listings /\ HostOf[r.listing] = r.user

FindForDelete(p) ==
  /\ pc[p] = "findForDelete"
  /\ \/ ~DeleteAllowed(req[p]) /\ Refuse(p)
     \/ /\ DeleteAllowed(req[p])
        /\ Goto(p, "deleteListing")
        /\ UNCHANGED <<store, seen, mails, history>>

\* Mutant of Deletable: no foreign key holds the listing.
DeletableIfThere(l) == l \in listings

\* ON DELETE RESTRICT: a listing that any booking references, whatever its
\* status, cannot go; neither can one that is already gone.
Deletable(l) == /\ l \in listings
                /\ \A b \in DOMAIN bookings : bookings[b].listing # l

DeleteListing(p) ==
  /\ pc[p] = "deleteListing"
  /\ \/ ~Deletable(req[p].listing) /\ Error(p)
     \/ /\ Deletable(req[p].listing)
        /\ listings' = listings \ {req[p].listing}
        /\ Goto(p, "respond")
        /\ UNCHANGED <<bookings, seen, mails, history>>

----------------------------------------------------------------------------

Step(p) ==
  \/ ReceiveCreate(p) \/ FindListing(p) \/ FindOverlap(p) \/ InsertBooking(p)
  \/ ReceiveUpdate(p) \/ FindBooking(p) \/ UpdateStatus(p) \/ SendMail(p)
  \/ ReceiveCancel(p) \/ FindForCancel(p) \/ CancelBooking(p)
  \/ ReceiveDelete(p) \/ FindForDelete(p) \/ DeleteListing(p)
  \/ Respond(p) \/ Timeout(p) \/ Crash(p)

Next == \E p \in Requests : Step(p)

Spec == Init /\ [][Next]_vars

----------------------------------------------------------------------------
(* Properties *)

\* Every variable has its type, and a handler holds the request its statement
\* belongs to.
TypeOK ==
  /\ listings \subseteq Listings
  /\ DOMAIN bookings \subseteq Requests
  /\ bookings \in [DOMAIN bookings -> Booking]
  /\ pc \in [Requests -> Running \cup {"idle", "done"}]
  /\ req \in [Requests -> CreateRequest \cup UpdateRequest \cup CancelRequest
                            \cup DeleteRequest \cup {NoRequest}]
  /\ \A p \in Requests :
       /\ pc[p] \in CreatePc => req[p] \in CreateRequest
       /\ pc[p] \in UpdatePc => req[p] \in UpdateRequest
       /\ pc[p] \in CancelPc => req[p] \in CancelRequest
       /\ pc[p] \in DeletePc => req[p] \in DeleteRequest
  /\ seen \in [Requests -> Status \cup {"none"}]
  /\ answer \in [Requests -> Answer]
  /\ mails \in [Requests -> Nat]
  /\ raced \in [Requests -> SUBSET Requests]
  /\ revivedOver \in [Requests -> SUBSET Requests]
  /\ confirms \in [Requests -> Nat]
  /\ contended \subseteq Requests

\* Bookings a and b hold the same night of the same listing.
DoubleBooked(a, b) ==
  /\ a # b
  /\ IsActive(a) /\ IsActive(b)
  /\ Occupies(a, bookings[b].listing, bookings[b].checkIn, bookings[b].checkOut)

\* createBooking refuses dates that are taken, with no lock and no exclusion
\* constraint behind it.  A listing is double-booked in two ways only: the
\* second booking was inserted between the availability check and the insert
\* of the first, or a status write made one of them active again after the
\* other had been checked.
OverlapsExplained ==
  \A a, b \in DOMAIN bookings :
    DoubleBooked(a, b) => \/ a \in raced[b] \/ b \in raced[a]
                          \/ a \in revivedOver[b] \/ b \in revivedOver[a]

\* A host who deletes a listing while a guest is booking it never leaves a
\* booking of a listing that does not exist.
BookedListingsExist ==
  \A b \in DOMAIN bookings : bookings[b].listing \in listings

\* createBooking compares min_nights and max_nights with nights it counts in
\* instants, the row holds days: no stored stay breaks its listing's limits.
StayWithinLimits ==
  \A b \in DOMAIN bookings :
    LET row == bookings[b]
        n   == row.checkOut - row.checkIn
    IN  /\ n > 0
        /\ MinNights[row.listing] # 0 => n >= MinNights[row.listing]
        /\ MaxNights[row.listing] # 0 => n <= MaxNights[row.listing]

\* A create that was refused left no booking, and one about to be answered 201
\* has the booking it asked for in the table, on its own dates and still its
\* guest's; only a 408 or a 500 leaves the client in doubt.
AnswersHonest ==
  \A p \in Requests :
    /\ answer[p] = "refused" => p \notin DOMAIN bookings
    /\ pc[p] = "respond" /\ req[p].op = "create" =>
         /\ p \in DOMAIN bookings
         /\ [bookings[p] EXCEPT !.status = "PENDING"] = NewBooking(req[p])

\* updateBookingStatus mails when the status it READ was not CONFIRMED.  A
\* booking is mailed more often than it became CONFIRMED only when another
\* handler wrote it between such a read and its write.
MailsExplained ==
  \A b \in Requests : mails[b] <= confirms[b] \/ b \in contended

\* A handler that serves the host of booking b writes its status.
HostWrites(b) ==
  \E p \in Requests : /\ pc[p] = "writeStatus"
                      /\ pc'[p] # "writeStatus"
                      /\ req[p].booking = b
                      /\ req[p].user = bookings[b].host

\* The dates, parties and listing of a booking never change and its row never
\* goes away, and every change of its status but a cancellation is the step of
\* a handler that serves its host: authorisation is checked on the row as it
\* was read, one await before the write.
OnlyHostAdvances ==
  [][ \A b \in DOMAIN bookings :
        /\ b \in DOMAIN bookings'
        /\ [bookings'[b] EXCEPT !.status = "PENDING"]
             = [bookings[b] EXCEPT !.status = "PENDING"]
        /\ bookings'[b].status
             \notin {bookings[b].status,
                     "CANCELLED_BY_GUEST", "CANCELLED_BY_ADMIN"}
             => HostWrites(b) ]_vars

\* README, Bookings: "Conflict detection with overlapping booking prevention".
NoDoubleBooking == \A a, b \in DOMAIN bookings : ~DoubleBooked(a, b)

\* README, Bookings: "PENDING -> CONFIRMED -> COMPLETED / CANCELLED": a
\* cancelled booking is at the end of its life.
CancelledIsFinal ==
  [][ \A b \in DOMAIN bookings :
        bookings[b].status \in {"CANCELLED_BY_GUEST", "CANCELLED_BY_HOST",
                                "CANCELLED_BY_ADMIN"}
          => ~(bookings'[b].status \in ActiveStatus) ]_vars

=============================================================================
