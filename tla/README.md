# AirTrip API in TLA+

TLA+ specifications of the AirTrip back end (NestJS, Prisma over PostgreSQL,
Stripe, Redis, Cloudinary, Socket.io), checked with TLC and proved with TLAPS.
Paths below are relative to the application's source directory `src/src` unless
they start with `prisma/` (then `src/prisma`) or `README.md` (then `src/README.md`).

## The system

The API runs as serverless instances (`vercel.json`): any number of Node
processes, each with one event loop, over one PostgreSQL database. Instances
share nothing but the database, Redis and the outside services. A handler is an
async function. It is interrupted only where it awaits, and there any other
handler, of this instance or another, may run. **No handler keeps a database
transaction open over an await**: every Prisma call commits alone. So the interesting behaviour of
every component is the same in kind: a row is read, something is decided, a
few awaits later something is written. In between others write, the instance
dies, a client is told 408 and retries, or Stripe calls again.

| component | state | operations that change it | interacts with | what must be right |
|---|---|---|---|---|
| Bookings (`bookings/`) | `bookings` rows | createBooking, updateBookingStatus | reads listings; mails the guest | one active booking a night; dates within the listing's limits; only the host advances a booking; an honest answer |
| Admin cancellation (`admin/services/admin-bookings.service.ts`) | `bookings.status` | cancelBooking | races both of the above | a cancellation stays |
| Payments (`payments/`) | `payments` rows, `bookings.status`, sessions at Stripe | createCheckoutSession, handleWebhook | Stripe calls back at least once | what is paid is recorded and confirmed unless Stripe is turned away; nothing else is; no 200 before the row |
| Request pipeline (`common/interceptors`, `common/filter`, global guards in `app.module.ts`) | the pending answer | timeout, exception filters, JWT guard | wraps every handler | every client is answered; Stripe can get through |
| Listings (`properties/`, admin listings) | `listings`, `listing_photos`, `listing_availability` | create, publish, unpublish, update, delete, uploadPhotos, blockDates, unblockDates, moderation | photos to Cloudinary; calendar reads bookings | a booked listing is not deleted; one primary photo; the calendar agrees with bookings |
| Reviews (`reviews/`, admin reviews) | `reviews`, rating columns of listings and host profiles | createReview, addHostResponse, moderateReview, and the trigger `update_listing_stats` | reads bookings; writes listings | one review a booking; the rating shown is the rating given |
| Authentication (`auth/`, `redis/`) | `users`, profiles, codes in Redis with expiry | register, verifyEmail, forgot/resetPassword, login, refresh, becomeHost, onboardHost | mail, Redis | a code works once and while it lasts; an account can always be verified |
| Messaging (`messaging/`) | conversations, messages, the gateway's map user -> socket | createConversation, sendMessage, connect, disconnect, call log | Socket.io | one conversation a pair; a connected user is reachable |
| Media (`media/`, `cloudinary/`) | `media` rows and files in the store | upload, replace, soft and permanent delete, cleanup | Cloudinary | a live row names a file that exists; a file nobody names is accounted for |
| Wishlists (`wishlists/`) | `wishlists` and their items | create, read, update, delete, add, remove | listings, whose deletion empties them | a private list is not shown |
| Paged lists (all `get...` with `page` and `limit`) | the client's page | count and query of a page | every table | who reads all pages misses nothing |
| Notifications, settings, cron, audit log, other admin services, mail | one table each (cron and mail: none) | one statement each | - | see PROJECT.json |

Hard behaviours, listed one by one with their lines in PROJECT.json ("hazards"):
check-then-act without a transaction (almost everywhere), values used after an
await, two writes that belong together (webhook; storage and table),
redelivery by Stripe, answers sent while the handler still runs, derived
columns (ratings, previews) written from an old read, and expiry in Redis.

## The modules

### Bookings.tla

One member of `Requests` is one HTTP request and the handler that serves it.
`pc[p]` names the statement the handler awaits next, so there is one action for
each awaited statement together with the code that runs after it up to the next
await:

| action | code |
|---|---|
| ReceiveCreate, FindListing, FindOverlap, InsertBooking | createBooking: the three Prisma calls (26, 46, 83). FindOverlap includes the limits on nights, InsertBooking the constraints PostgreSQL applies |
| ReceiveUpdate, FindBooking, UpdateStatus, SendMail | updateBookingStatus (237, 262, 268) |
| ReceiveCancel, FindForCancel, CancelBooking | the admin's cancelBooking |
| ReceiveDelete, FindForDelete, DeleteListing | deleteProperty |
| Respond | the handler returns and the interceptors send the answer |
| Timeout | the TimeoutInterceptor answers 408 and the handler goes on |
| Crash | the awaited statement fails before it commits, or the instance dies |

A statement that commits although its caller never learns of it is the
statement's action followed by Crash. A booking is named after the request that
inserts it, since its key is a fresh UUID; the random `bookingReference` can
collide with another, which fails the insert like Crash.

Data kept: listing, guest, host, dates, number of nights and status. Dates of a
request are instants, `TicksPerDay` of which make a day; the columns are DATEs,
so a row keeps `Day(t)`, and Prisma sends a comparison with such a column as a
date too. That is what makes `NumberOfNights` (a ceiling over instants) worth a
property. Money, guests' names and wording are left out. `HostOf`, `MinNights`
and `MaxNights` are constants: no code changes a listing's host; a host may edit
the limits (updateProperty, which Listings models without them), so
`StayWithinLimits` is about the limits under which a stay was booked.

`raced`, `revivedOver`, `confirms` and `contended` are history variables. No
guard reads them. They let the properties say *why* something happened:

* `OverlapsExplained` does not deny double bookings, which the code allows. It
  says that they have two causes and no third: a race between check and insert,
  or a status write that made an inactive booking active again.
* `MailsExplained` says the same of confirmation mails beyond one for each
  confirmation.

### Payments.tla (extends Bookings)

Adds checkout handlers (`cpc`), Stripe's sessions, webhook handlers (`dpc`) and
the `payments` table. Pay, Expire and Deliver are Stripe and the guest, modelled
from how the code uses them: a session is open until it is paid or expires, a
paid session makes Stripe call the webhook any number of times, also
concurrently, until it is answered 200. ConfirmBooking and RecordPayment are the
two statements of handleWebhook. `payments[c]` counts the rows of a session, and
saturates at 2 ("more than one"), which bounds the otherwise endless repeats.

`WebhookPublic` tells whether the route is exempt from the global JWT guard. In
the code it is FALSE, and then a webhook call ends in 401; the run
`webhook_guarded` shows it. The other payment runs set it TRUE, which is what
the controller's comment says, so that the handler itself is checked and not
only the door in front of it.

Behind that door is another: handleWebhook answers 400 if the signature, the
secret or the raw body is missing, or if they do not agree. So Deliver is Admit
or TurnAway, whichever the environment picks at each call, and `turnedAway`
(history) holds the sessions whose last call was turned away. As the code stands
that is every one, even if the route were public: main.ts:12 asks Nest to keep
raw bodies, but main.ts:72 registers Express's `json()` before `listen`, Nest
finds a body parser in place and leaves its own out, and `rawBody` stays unset.
What is promised below of admitted calls holds once both doors are open.

### PaymentLedger.tla

The promise of the payments component for each session: unpaid, then paid, then
recorded; a call that is turned away makes a paid session `refused` until one is
admitted. A session does not stay paid for ever: it is recorded in the end, or it
is refused, and that again and again if calls are let in between. A payment that
was recorded is not lost when a later call is refused. `ImplementsLedger` is the
refinement, fairness included.

### Reviews.tla

Requests and handlers as in Bookings. A listing and its host each carry an
average and a count. Both are written twice for a new review: by the trigger
`update_listing_stats` in the transaction of the INSERT, and by
`updateListingRating` after it. An UPDATE of a review (a response, a moderation)
runs the trigger alone.

| action | code |
|---|---|
| ReceiveCreate, FindBooking, FindExisting | createReview up to its insert |
| ReceiveResponse, ReceiveModeration, FindReview | addHostResponse, moderateReview up to their update |
| BeginWrite, LockListing, CommitWrite | the statement that writes the review: its row, the trigger's count; the listing's row and the sum over the host's listings; the host's row and the commit |
| RefuseDuplicate | the unique index on booking_id |
| Aggregate, UpdateListing, AggregateHost, UpdateHost | updateListingRating, four statements that each commit alone |
| Crash | the statement fails and is rolled back, or the instance dies |

The statement with the trigger is split in three because PostgreSQL's READ
COMMITTED is: a statement counts what was committed when it began, waits for the
row it is to write, and then writes what it had counted. Transactions about one
booking wait for each other (the review's row, or the index entry an insert is
making), those of one listing wait for its row. Rows are always taken in the
order review, listing, host, so nobody waits in a circle.

A rating is kept as the *set of reviews counted*. That abstracts the arithmetic:
the mean over reviews of `updateListingRating` and the trigger's mean over
listings of means give a host different numbers for the same reviews, which the
model does not tell apart. A booking's row is constant here, as createReview
reads it once: a cancellation is before or after that read. The timeout of the
pipeline is left out, since a handler goes on after it and no property is about
answers.

`missed`, `hostMissed`, `stale`, `hostStale` and `preceded` are history
variables. `ListingRatingExplained` says that what a listing shows differs from
its public reviews only by reviews that changed between the count and the write
of whoever wrote last. It follows that a listing is right again after any write
that nobody overlaps.

### Listings.tla

Rows of listings with what `publishProperty` asks of them (`complete`), status
and publication date; photos with their order and primary flag; blocked nights;
and the bookings, which here only come and go (`Book`; Bookings says how).

| action | code |
|---|---|
| InsertListing | create: the row and its photos, one nested insert |
| InsertPublished, OnboardPhotos | the listing half of onboardHost: the row is published first, its photos follow |
| FindListing | the read with which every request of a host begins, and what it refuses |
| Publish, Unpublish, Update, Delete | the write that follows it; RowGone when the row has gone meanwhile |
| ReadOrder, InsertPhotos | uploadPhotos: the highest order there is, then createMany |
| Block, Unblock | blockDates, unblockDates |
| ReadBlocked, ReadBooked, Respond | getPropertyAvailability, two statements |
| UpdateListingStatus, DeleteListingPhoto | the admin's writes, one statement each as far as others can tell |
| Crash | the awaited statement fails, or the instance dies |

Photos of equal order may tie for the last one, and the database returns either:
`LastPhotos` is a set. Failed uploads to Cloudinary are left out of a listing's
photos and, in onboarding, leave gaps in the order.

History variables: `overtaken` (handlers whose read was followed by another's
write of what they read), `vetted`, `unstamped`, `loose` and `constant`. With
them `PublishedExplained` says that what was checked at publication is still
true unless the listing was edited behind the check; `PhotosExplained` that a
listing never has two primary photos, and has orders that differ, the first of
them the primary one, but for the causes its comment lists; `CalendarHonest`
that a calendar shows what was taken at every moment between its two reads and
nothing that was free at every moment. There is one exception, and the property
names it: a night that was booked at the first read may be missing if its booking
ended only when the night was also blocked (`moved`). A stay that has ended may
come back, since updateBookingStatus writes any status.

### Accounts.tla

Users, hosts' profiles, codes in Redis, tokens. `StoreCode`, `GetCode` and
`DeleteCode` may each fail without a word, since RedisService catches every
error; `Expire` may take a code at any time; mail may be lost.

| action | code |
|---|---|
| Register, CreateUser, StoreCode | register: look for the address, insert, store and mail the code |
| ForgotPassword, StoreCode | forgotPassword |
| GetCode, UpdateUser, DeleteCode | verifyEmail and resetPassword: compare, write the user, delete the code, three statements |
| FindUser, MakeHost | becomeHost: the nested write of flag and profile |
| FindUser, OnboardNew, CreateHost, Welcome | the account half of onboardHost, for a known or a new address |
| Login, RefreshToken, Sign | what a token claims when it is signed |
| VerifyHost | the admin |

A code or password is named after the request that makes it. That two codes of
six digits differ is an assumption. `StaysVerifiable` names every way in which an
account ends up unverifiable for good, `CodeReuseExplained` every way in which a
code works twice; `CredentialsExplained` ties each verified address and each
password to a code of that address and purpose; `TokensHonest` says that claims
are not outlived (flags of a user are never taken back) and that hosts have
profiles.

### Messaging.tla

Conversations, messages in order of insertion, the preview that the list of
conversations shows, and the gateway: links of sockets, the map `userSockets`,
and `emitted`, what the last step pushed. FindExisting and InsertConversation
are createConversation; FindConversation, InsertMessage, UpdatePreview and
EmitMessage are sendMessage, over HTTP or from the gateway; HandleConnection,
HandleDisconnect, HandleTyping, HandleCall and HandleEndCall the socket events;
Dies and Restart the process with its map. `raced`, `passed`, `behind` and
`dropped` are history. `ConversationsExplained`, `PreviewExplained` and
`GatewayExplained` say when two conversations of a pair, a preview that lags and
a connected user whom the gateway does not find can come about.

### Media.tla

Rows, and files in the store, each with the resource type it was stored under.
An upload stores its files and then inserts its rows (Store, InsertRow); a
replacement deletes the old file, stores the new one and writes the row
(DeleteOld, StoreNew, UpdateRow); a delete is soft (SoftDelete) or takes file
and row (DeleteFile, DeleteRow); a cleanup takes the files of the rows it found
and then the rows that match by then (FindOld, DeleteOldFiles, DeleteOldRows).
destroy is called without a resource type, so it finds images only, and its
errors are swallowed. The permanent delete and cleanupDeleted have no caller in
the repository; they are modelled as the service offers them. `kept` and
`overtaken` are history.

### Wishlists.tla

Each operation reads the wishlist and then acts; getWishlistById reads the items
after the row it has checked. `StrangersSeeShared`: what a stranger is shown was
in the wishlist while it was public, unless it was hidden between the two reads.

### Lists.tla

All paged lists of the API, told apart by their order: by creation, by a column
that rows share and that changes in place (`rank`: the price, or the rating), or
none at all. Count and Fetch are the two statements of a request (Promise.all),
Turn the client's next request; Enter, Leave and Rerank (a new price, a review)
are what changes the rows in between. `WalkComplete` says which rows a client
that reads to the end may have missed, and why: rows were counted before others
came, rows left, or another row overtook the one that is missing between two
pages. The history variables `placed` and `displaced` record the last: x is
displaced if a row that was before it, or level with it, when one page was taken
is level with it or after it when the next one is. Lists by creation have no such
rows. In lists without an order all rows are level, so the property promises
nothing of them past one page, as the code does not.

### Services.tla (extends Messaging and Lists, instantiates Media and Wishlists)

The four parts that share no table and no memory, side by side: a step is a step
of one of them. It names what the run checks of Media and Wishlists.

### MC modules and proofs

MCBookings, MCPayments, MCReviews, MCListings, MCAccounts and MCServices are
instances for TLC. In MCServices each behaviour exercises one of the four parts,
chosen in the initial state: the run explores the sum of their state spaces.

BookingsProofs, PaymentsProofs, ReviewsProofs, ListingsProofs, AccountsProofs,
MediaProofs, WishlistsProofs and ServicesProofs hold the theorems; the last holds
those of Messaging and Lists too.

## The runs

| run | instance | shows |
|---|---|---|
| bookings_requests | 3 requests of any kind, 2 listings of one host, 6 stays, 3 statuses | TypeOK, BookedListingsExist, StayWithinLimits, AnswersHonest, OnlyHostAdvances |
| payments_safety | 3 creates or updates of one stay, 1 checkout, 1 delivery that is repeated | PaymentsTypeOK, OverlapsExplained, MailsExplained, RecordedWasConfirmed, OnlyHostOrPaymentAdvances |
| payments_ledger | 1 booking, 1 checkout, 2 deliveries at once, with fairness | AckedIsRecorded, ImplementsLedger, EveryCallAnswered |
| double_booking | 2 creates | violates NoDoubleBooking |
| cancelled_revived | a create, a cancellation, a confirmation | violates CancelledIsFinal |
| webhook_guarded | 1 booking, the route as it is registered | violates WebhookNotGuarded |
| paid_after_cancel | a booking cancelled while its session is open | violates PaidWhilePending |
| reviews_ratings | 4 requests that review, respond or moderate, 4 stays at 2 listings of one host, 3 of which may be reviewed | TypeOK, OneReviewPerBooking, ListingRatingExplained, HostRatingExplained, ResponseKept |
| ratings_settle | a review and a moderation | violates RatingsSettle |
| listings | 2 requests of any kind, 1 listing that exists, 1 host, 2 photos a request, 2 nights, 1 stay | TypeOK, PublishedExplained, PhotosExplained, CalendarHonest |
| accounts | 4 requests, 2 addresses | TypeOK, StaysVerifiable, CodeReuseExplained, CredentialsExplained, TokensHonest |
| services | 3 requests of one of Messaging (3 users, 2 sockets of one user), Media (2 files a call, 4 kinds of file), Wishlists (1 that exists) and Lists (3 rows, pages of 2, 2 ranks) | TypesOK, ConversationsExplained, PreviewExplained, GatewayExplained, LiveRowsHaveFiles, OrphansExplained, StrangersSeeShared, WalkComplete |

Bounds. Every request is served once, so a run's requests are its length. Three
requests are enough for the shortest bad sequences: two creates and a status
write of one of them (a revival under an insert), a create and two status writes
that overlap (mails), a create, a delete and anything. The checkout and the
delivery add a third kind of writer. Two handlers of the webhook at once, each
repeated without bound, cover overlap, repetition and reordering of deliveries.
Listing `l1` takes stays of exactly two nights and `l2` any, and the stays
include one in the wrong order, one of no night, one too short, one too long and
two whose hours make the source count a night more than the calendar. Two
instants a day are enough to make the ceiling and the truncation differ.

Four requests of reviews_ratings give two reviews (of one listing, or of two
listings of the host) and two updates of them, or three reviews and an update, so
that a count can be overtaken by a create, a moderation and a response, and by a
handler that has been overtaken itself. Two stays at `l1` may be reviewed, so its
transactions meet on its row, with different reviews; they are alike, and count
as symmetric with each other. A stay at `l2` may be reviewed too, and one there
was cancelled and may not.

Two requests and the unbounded writes of the admin and of bookings give the
races of listings: a check and an edit, two uploads, an onboarding and an
upload, a reader and two writers; a request more multiplies the states by some
hundred. Two photos a request are enough for a first and a later one, two nights
for one that is taken and one that is free. accounts needs a registration, a
forgotten password and two uses of a code, which are its four requests, and two
addresses so that a code of one could be taken for the other. In services,
Messaging needs two senders and a conversation, two sockets of one user (the
second tab) and a third user to be no participant; Media two calls that meet on
the row of a third, files that are valid, too large, of a type not allowed, and
an allowed one that is no image; Lists a page that is full and one that is not,
and two ranks, with which rows tie and overtake one another.
The theorems lift all of these bounds.

`Ops` names the kinds of request an instance sends; only bookings_requests sends
all four. payments_safety runs under a VIEW that leaves out what booking
requests were answered: no guard but that of Timeout reads it, and none of the
run's properties but the type of `answer`, which bookings_requests checks.

All requests are served in the end and then nothing is left to do, hence
`CHECK_DEADLOCK FALSE`. Symmetry is used in safety runs only. The runs listings,
accounts and services check safety and assume no fairness.

Fairness (payments_ledger). The interceptor's timer fires (weak fairness of the
timeouts). Stripe repeats a call until it is answered 200, a webhook handler
ends somehow, and a statement attempted again and again commits once (strong
fairness of Deliver, ConfirmBooking and RecordPayment for each session). That a
call is admitted is not assumed: Deliver is fair, and a call that is turned away
is a Deliver. Where all are turned away, as in the code today, nothing of a
session is recorded, and PaymentLedger says no more than that it stays refused.
Nothing else is fair: a booking handler may wait for the database for ever, and
`EveryCallAnswered` holds all the same, because of the interceptor.

## What the runs found

Five statements of the repository that the code does not keep (PROJECT.json,
"findings", quotes them):

1. README.md:128 promises overlap prevention; two creates that both check before
   either inserts both succeed.
2. README.md:130 ends a booking's life at CANCELLED; a host can confirm a
   cancelled booking, and so, by a payment, can Stripe.
3. The webhook is meant to be open to Stripe (payments.controller.ts:21) and is
   behind the global guard (app.module.ts:62). The raw body it would need behind
   that guard is missing too (main.ts:72, see Payments.tla).
4. A booking that is not PENDING "cannot be paid for" (payments.service.ts:39),
   yet its session stays open after a cancellation.
5. README.md:151 promises rating aggregation; a review hidden while
   updateListingRating runs stays in the rating that its listing shows.

## What is proved

BookingsProofs proves for every number of requests, users and listings, all
limits and all stays, from the ASSUMEs of Bookings alone:

* `TypeCorrect`: Spec => []TypeOK
* `OverlapsAreExplained`: Spec => []OverlapsExplained
* `ListingsOfBookingsExist`: Spec => []BookedListingsExist
* `StaysAreWithinLimits`: Spec => []StayWithinLimits
* `OnlyHostsAdvance`: Spec => OnlyHostAdvances, an action property
* `AnswersAreHonest`: Spec => []AnswersHonest
* `MailsAreExplained`: Spec => []MailsExplained

None is inductive alone. The invariant `Inv` adds three facts:

* `Targets`: a handler about to write a status or delete a listing names one that
  is, or was, in its table; bookings are never deleted, so a status write has
  its row.
* `Creators`: a request that is creating has not inserted yet, and holds dates
  and limits that it has passed. This is what `StayWithinLimits` rests on: the
  CHECK equates nights counted in instants with the days of the row.
* `Windows`: for each handler between its check and its insert, every active
  booking that overlaps what it is about to insert is in its `raced` or
  `revivedOver`. When the insert happens this becomes `OverlapsExplained` for
  the new booking.

A step of the system either reads (changes no table), inserts a booking, or
writes a status; `Inv` is shown to be preserved once for each of the three, and
each action is then shown to be one of them.

Two theorems need one fact more. `Authorised` says that a handler about to
write a status other than CANCELLED serves the host of the booking's listing.
The right is checked on a row read an await earlier; it still holds at the write
because a row's listing and guest never change (`RowsKeep`) and a listing's host
does not either. `RefusedAreDone` says that a request that was refused has
stopped.

`MailsAreExplained` counts, and has an invariant of its own (`MailsInv`) for the
bookings that are not `contended`. `ReadsCurrent`: the status that a handler has
read of such a booking and is about to replace is still its status. `MailsCovered`:
the mails sent for it and the handlers that are about to send one (`Mailers`, a
finite set) are together no more than its confirmations. A write that turns it
CONFIRMED adds one to the confirmations and at most one to `Mailers`; a write that
confirms it again has read CONFIRMED, by `ReadsCurrent`, and adds none; a send
moves one from `Mailers` to the mails.

PaymentsProofs does the same for the composition, from the same assumptions and
those of Payments:

* `PaymentsTypeCorrect`: PaymentsSpec => []PaymentsTypeOK
* `OverlapsStayExplained`: PaymentsSpec => []OverlapsExplained
* `RecordedWereConfirmed`: PaymentsSpec => []RecordedWasConfirmed
* `AckedAreRecorded`: PaymentsSpec => []AckedIsRecorded
* `MailsStayExplained`: PaymentsSpec => []MailsExplained
* `OnlyHostsOrPaymentsAdvance`: PaymentsSpec => OnlyHostOrPaymentAdvances, an
  action property
* `BookedListingsStay`, `StaysStayWithinLimits`, `AnswersStayHonest`: the
  other properties of the core, now of PaymentsSpec
* `ImplementsLedgerSafely`: PaymentsSpec implements the safety part of
  PaymentLedger (initial states map to initial states, steps to steps or
  stutters), refusals included

The invariant is `Inv /\ PayInv`. A step is one of the reservation core, for
which `Inv` is already proved, or one of payments. Of those only ConfirmBooking
touches the bookings, with the same write of a status as updateBookingStatus, so
the lemmas about writes are used again (`WebhookWrites`). `PayInv` says of the
payments side that a session stands for a booking that exists, that it is paid
before it is delivered (`SessionsInv`), that a webhook handler past its first
statement has confirmed its booking (`DeliveriesInv`), that a CONFIRMED
booking has been confirmed at least once (`ConfirmedCounted`), and that only
paid sessions have been turned away (`TurnedAwayInv`).

`OnlyHostsOrPaymentsAdvance` needs one fact more beside `Authorised`:
`SessionParties`, the metadata of a session name the guest and the host of its
booking's row. They are copied when the session is created, perhaps a day before
the webhook reads them; they stay true because no step changes the parties of a
row (`RowsKeep`) and no step at Stripe changes the metadata. `DeliveryWrites`
says that a delivery writes the bookings in one statement only, as the handler
of a paid session of that booking.

ReviewsProofs proves all five properties of reviews_ratings:

* `ReviewsTypeCorrect`: Spec => []TypeOK
* `ReviewsAreUnique`: Spec => []OneReviewPerBooking
* `ListingRatingsAreExplained`: Spec => []ListingRatingExplained
* `HostRatingsAreExplained`: Spec => []HostRatingExplained
* `ResponsesAreKept`: Spec => ResponseKept

The invariant `RInv` adds to them:

* `Fresh` and `Transactions`: a create has no row before its insert, open
  transactions are about different bookings, and one that inserts is about a
  booking without a review. This is the work of the unique index.
* `CountedOK`, `HostCountedOK`: what a handler has counted and not yet written
  differs from what it should count now by what it has missed. A transaction's
  count is compared with the table as it will be after the transaction
  (`After`); `CommitChanges` and `OtherAfter` show that another's commit changes
  either only by the review it writes.
* `ResponsesOK`: a response that is already stored when a handler is about to
  store another is in the handler's `preceded`.

The trigger's sum over the listings of a host (`HostCount`) rests on
`ListingRatingExplained`: what is wrong with a listing is passed on to its host.

ListingsProofs proves the four properties of the run listings (`TypesHold`,
`PublishedHold`, `PhotosHold`, `CalendarsHold`), from `PhotosAssumption` and
`IdsAssumption`. Its invariant adds to them:

* `Fresh`: a request that has not begun has inserted nothing, so an id is used
  once.
* `Published`: a handler about to publish whose read nobody overtook still sees
  a complete listing.
* `Pictured`: the orders that uploadPhotos or onboarding will use lie above all
  there are, as long as nobody has written photos since the read; a listing with
  photos that is not loose has its primary photo first.
* `Read`: between its reads a reader's first answer and the bookings of the
  moment cover together what has been taken throughout, but for nights that
  moved, and neither has a night that has been free throughout. `ReadBooked`
  turns the bookings into an answer. `Fits` is what the two say of one reader.

AccountsProofs proves the five properties of accounts (`TypesHold`,
`VerifiableHolds`, `CodeReuseHolds`, `CredentialsHold`, `TokensHold`) from
`NoneAssumption`. A code is known by the key it was issued for, handlers that
hold an accepted code are related to the code still stored, and a handler that
is about to write a user has found it.

MediaProofs proves `TypesHold`, `FilesHold` and `OrphansHold` under the
hypothesis `Bounds` (a call has at least one file, files have known types). The invariant says that keys are unique in the
table, that a file not yet handed to the store is not in it, which files each
handler between two awaits answers for, and where a file without a row, or a row
without a file, can come from.

WishlistsProofs proves `TypesHold` and `StrangersHold` under the hypothesis that
ids of requests and of existing wishlists differ.

ServicesProofs proves three things.

*Messaging* (`TypesHold`, `ConversationsHold`, `PreviewsHold`, `GatewayHolds`),
from `SocketsAssumption`. The invariant relates each handler between insert and
preview to the position of its message in the log, and each handler that has
looked for a conversation to those inserted since.

*Lists* (`WalksAreComplete`), for tables and pages of any size. The invariant
(`Walked`) says of a row that has not been seen, and that none has overtaken,
that all pages read came before it when the last of them was taken: the rows that
came before it or beside it then (`Before`) are at least `PagesRead * limit`. Rows
leave no more, and the others of these, since the row is not displaced, are still
strictly above it at the next page. `PageReached` is the step: the row is not
among those skipped, or the rows above it would fit into the skipped pages less
one, and if it is not on the page either then the page is full of rows before it.
On the last page the row would be one more than were counted (`LastPage`, the
rounding up of Math.ceil). `RanksAssumption` makes columns comparable;
`RowsAssumption` makes the table finite and its keys comparable;
`LimitsAssumption` is the `@Min(1)` of the DTOs. The admin's controllers pass on
any number they are given, and a page size below one is not modelled.

*The composition* (`PartsRunApart`): each part behaves as it would alone. From it,
and from what MediaProofs and WishlistsProofs prove of their parts, follow the
properties of the run services: `PartsTypes`, `LiveRowsKeepFiles`,
`OrphansAreExplained` and `StrangersAreShownShared`, from
`FilesAssumption` and `ExistingAssumption`.

Each of these modules has `InvInductive` (initial states and steps) and
`InvHolds`, from which the others follow. Media and Wishlists take their
assumptions as hypotheses of the theorems, since they are instantiated and not
extended; Services assumes them of its constants.

Only model-checked: liveness (EveryCallAnswered, and the fairness part of
ImplementsLedger), which is outside TLAPS's reach. Every other property that a
passing run checks is a theorem.

## Plan

Done, most important first: Bookings, Payments and PaymentLedger; Reviews;
Listings; Accounts; Messaging, Media, Wishlists, Lists and their composition; and
the proofs of all of them.

Left: Payments and Listings composed with one another through the bookings they
share, beyond what Bookings says of deletion; a presence register as the abstract
specification of the gateway.

## Not modelled

* Reads in one statement, statistics, searches' filters and getTopDestinations;
  response shaping, logging, validation of DTOs beyond the fields a guard reads.
* Writes of one statement that nothing else in the code depends on: marking
  notifications read, settings, announcements, promotions, tickets, audit
  entries, updateUserStatus (only the admin's own list reads `isActive`).
  The paged lists of these services are in Lists.
* Cron and mail: one query and what is sent for it; nothing is stored. A lost
  mail matters where a code is in it, and there Accounts loses it.
* The notification stream: it pushes to whoever listens on the same instance and
  keeps nothing.
* Google and Facebook callbacks: the strategies hand a profile through and write
  nothing.
* joinConversation: the code sends no event to a room named after a conversation.
  It joins whatever room the client names, though, and the id of a socket is a room
  too; `emitted` is the set of sockets that are addressed, and who else may have
  joined a socket's room is not modelled.
* `common/context`, decorators and the helpers of PaginationDto: no handler of
  the modelled components uses them to change state.

PROJECT.json lists the components with reasons.
