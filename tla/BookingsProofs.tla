--------------------------- MODULE BookingsProofs ---------------------------
(* Proofs about Bookings, for every value of its constants. *)
EXTENDS Bookings, FiniteSetTheorems, TLAPS

USE DEF store, history

\* The instants of a DTO fall on days, and a difference of instants on a whole
\* number of nights.
LEMMA DaysAndNights ==
  ASSUME NEW in \in Nat, NEW out \in Nat
  PROVE  Day(in) \in Nat /\ NumberOfNights(in, out) \in Int
  BY StaysAssumption DEF Day, NumberOfNights

----------------------------------------------------------------------------
(* Type correctness *)

\* The types of what a handler holds, apart from the tables.
HandlersOK ==
  /\ pc \in [Requests -> Running \cup {"idle", "done"}]
  /\ req \in [Requests -> CreateRequest \cup UpdateRequest \cup CancelRequest
                            \cup DeleteRequest \cup {NoRequest}]
  /\ \A p \in Requests :
       /\ pc[p] \in CreatePc => req[p] \in CreateRequest
       /\ pc[p] \in UpdatePc => req[p] \in UpdateRequest
       /\ pc[p] \in CancelPc => req[p] \in CancelRequest
       /\ pc[p] \in DeletePc => req[p] \in DeleteRequest
  /\ seen \in [Requests -> Status \cup {"none"}]
  /\ answer \in [Requests -> Answer]

\* A request that has arrived is one of its handler's own.
LEMMA ReceiveTyped ==
  ASSUME HandlersOK, NEW p \in Requests, NEW r, NEW first,
         Receive(p, r, first),
         \/ first = "findListing" /\ r \in CreateRequest
         \/ first = "findBooking" /\ r \in UpdateRequest
         \/ first = "findForCancel" /\ r \in CancelRequest
         \/ first = "findForDelete" /\ r \in DeleteRequest
  PROVE  HandlersOK'
  BY DEF HandlersOK, Receive, Running, CreatePc, UpdatePc, CancelPc, DeletePc

\* A handler that goes on to a statement of its own, or to its answer.
LEMMA GotoTyped ==
  ASSUME HandlersOK, NEW p \in Requests, NEW next, Goto(p, next),
         seen' \in [Requests -> Status \cup {"none"}],
         \/ next = "respond"
         \/ pc[p] \in CreatePc /\ next \in CreatePc
         \/ pc[p] \in UpdatePc /\ next \in UpdatePc
         \/ pc[p] \in CancelPc /\ next \in CancelPc
         \/ pc[p] \in DeletePc /\ next \in DeletePc
  PROVE  HandlersOK'
  BY DEF HandlersOK, Goto, Running, CreatePc, UpdatePc, CancelPc, DeletePc

\* A handler that ends.
LEMMA FinishTyped ==
  ASSUME HandlersOK, NEW p \in Requests, NEW a \in Answer, Finish(p, a)
  PROVE  HandlersOK'
  BY DEF HandlersOK, Finish, Running, CreatePc, UpdatePc, CancelPc, DeletePc

\* What a status write does to a row.
LEMMA RowAfter ==
  ASSUME NEW r \in Booking, NEW s \in Status
  PROVE  LET w == [r EXCEPT !.status = s]
         IN  /\ w \in Booking
             /\ w.status = s
             /\ w.listing = r.listing /\ w.guest = r.guest /\ w.host = r.host
             /\ w.checkIn = r.checkIn /\ w.checkOut = r.checkOut
             /\ w.nights = r.nights
  BY DEF Booking

\* A status write keeps the tables typed.
LEMMA WriteTyped ==
  ASSUME TypeOK, NEW p, NEW b \in DOMAIN bookings,
         NEW s \in Status, WriteStatus(p, b, s)
  PROVE  /\ DOMAIN bookings' = DOMAIN bookings
         /\ bookings' \in [DOMAIN bookings' -> Booking]
         /\ revivedOver' \in [Requests -> SUBSET Requests]
         /\ confirms' \in [Requests -> Nat]
         /\ contended' \subseteq Requests
  <1>. USE DEF TypeOK
  <1>1. b \in Requests
    OBVIOUS
  <1>2. /\ DOMAIN bookings' = DOMAIN bookings
        /\ bookings' \in [DOMAIN bookings' -> Booking]
    <2>1. bookings' = [bookings EXCEPT ![b] = [bookings[b] EXCEPT !.status = s]]
      BY DEF WriteStatus
    <2>2. [bookings[b] EXCEPT !.status = s] \in Booking
      BY RowAfter
    <2>. QED  BY <2>1, <2>2
  <1>3. revivedOver' \in [Requests -> SUBSET Requests]
    BY <1>1 DEF WriteStatus
  <1>4. confirms' \in [Requests -> Nat]
    BY <1>1 DEF WriteStatus
  <1>5. contended' \subseteq Requests
    BY <1>1 DEF WriteStatus
  <1>. QED  BY <1>2, <1>3, <1>4, <1>5

\* A handler that awaits a status write holds the id of a booking.
Targets ==
  \A p \in Requests :
    pc[p] \in {"writeStatus", "sendMail", "writeCancel"} =>
      req[p].booking \in DOMAIN bookings

\* The rest of TypeOK: the tables and the history.
TablesOK ==
  /\ listings \subseteq Listings
  /\ DOMAIN bookings \subseteq Requests
  /\ bookings \in [DOMAIN bookings -> Booking]
  /\ mails \in [Requests -> Nat]
  /\ raced \in [Requests -> SUBSET Requests]
  /\ revivedOver \in [Requests -> SUBSET Requests]
  /\ confirms \in [Requests -> Nat]
  /\ contended \subseteq Requests

LEMMA TypeParts == TypeOK <=> HandlersOK /\ TablesOK
  BY DEF TypeOK, HandlersOK, TablesOK

LEMMA TypeInit == Init => TypeOK /\ Targets
  BY DEF Init, TypeOK, Targets, Running, CreatePc, UpdatePc, CancelPc, DeletePc,
         Answer, NoRequest

LEMMA TypeStep ==
  ASSUME TypeOK, Targets, NEW p \in Requests, Step(p)
  PROVE  TypeOK'
  <1>. HandlersOK /\ TablesOK
    BY TypeParts
  <1>. SUFFICES HandlersOK' /\ TablesOK'
    BY TypeParts, PTL
  <1>1. CASE ReceiveCreate(p)
    <2>1. PICK u \in Users, l \in Listings, s \in Stays :
            Receive(p, [op |-> "create", user |-> u, listing |-> l,
                        checkIn |-> s[1], checkOut |-> s[2]], "findListing")
      BY <1>1 DEF ReceiveCreate
    <2>2. [op |-> "create", user |-> u, listing |-> l,
           checkIn |-> s[1], checkOut |-> s[2]] \in CreateRequest
      BY StaysAssumption DEF CreateRequest
    <2>. QED  BY <2>1, <2>2, ReceiveTyped DEF TablesOK, Receive
  <1>2. CASE ReceiveUpdate(p)
    <2>1. PICK u \in Users, b \in KnownIds(p), s \in DtoStatuses :
            Receive(p, [op |-> "update", user |-> u, booking |-> b,
                        status |-> s], "findBooking")
      BY <1>2 DEF ReceiveUpdate
    <2>2. [op |-> "update", user |-> u, booking |-> b, status |-> s]
            \in UpdateRequest
      BY DtoStatusesAssumption DEF UpdateRequest, KnownIds, TablesOK
    <2>. QED  BY <2>1, <2>2, ReceiveTyped DEF TablesOK, Receive
  <1>3. CASE ReceiveCancel(p)
    <2>1. PICK b \in KnownIds(p) :
            Receive(p, [op |-> "cancel", booking |-> b], "findForCancel")
      BY <1>3 DEF ReceiveCancel
    <2>2. [op |-> "cancel", booking |-> b] \in CancelRequest
      BY DEF CancelRequest, KnownIds, TablesOK
    <2>. QED  BY <2>1, <2>2, ReceiveTyped DEF TablesOK, Receive
  <1>4. CASE ReceiveDelete(p)
    <2>1. PICK u \in Users, l \in Listings :
            Receive(p, [op |-> "delete", user |-> u, listing |-> l],
                    "findForDelete")
      BY <1>4 DEF ReceiveDelete
    <2>2. [op |-> "delete", user |-> u, listing |-> l] \in DeleteRequest
      BY DEF DeleteRequest
    <2>. QED  BY <2>1, <2>2, ReceiveTyped DEF TablesOK, Receive
  <1>5. CASE \E a \in {"refused", "error", "ok"} :
               Finish(p, a) /\ UNCHANGED <<store, mails, history>>
    BY <1>5, FinishTyped DEF TablesOK, Answer
  <1>6. CASE FindListing(p)
    BY <1>5, <1>6, GotoTyped
       DEF FindListing, Refuse, TablesOK, HandlersOK, CreatePc
  <1>7. CASE FindOverlap(p)
    BY <1>5, <1>7, GotoTyped
       DEF FindOverlap, Refuse, TablesOK, HandlersOK, CreatePc
  <1>8. CASE InsertBooking(p)
    <2>1. CASE Error(p)
      BY <1>5, <2>1 DEF Error
    <2>2. CASE ~Error(p)
      <3>1. HandlersOK'
        BY <1>8, <2>2, GotoTyped DEF InsertBooking, HandlersOK
      <3>2. NewBooking(req[p]) \in Booking
        BY <1>8, DaysAndNights, HostOfAssumption
           DEF InsertBooking, HandlersOK, CreatePc, CreateRequest, NewBooking,
               Booking, Status
      <3>. QED
        BY <1>8, <2>2, <3>1, <3>2 DEF InsertBooking, TablesOK
    <2>. QED  BY <2>1, <2>2
  <1>9. CASE FindBooking(p)
    <2>1. CASE ~UpdateAllowed(req[p])
      BY <1>5, <1>9, <2>1 DEF FindBooking, Refuse
    <2>2. CASE UpdateAllowed(req[p])
      BY <1>9, <2>2, GotoTyped
         DEF FindBooking, Refuse, TablesOK, HandlersOK, UpdatePc,
             UpdateAllowed, Booking
    <2>. QED  BY <2>1, <2>2
  <1>10. CASE UpdateStatus(p)
    <2>1. req[p].booking \in DOMAIN bookings /\ req[p].status \in Status
      BY <1>10 DEF UpdateStatus, Targets, HandlersOK, UpdatePc, UpdateRequest
    <2>2. HandlersOK'
      BY <1>10, GotoTyped DEF UpdateStatus, HandlersOK, UpdatePc
    <2>. QED  BY <1>10, <2>1, <2>2, WriteTyped DEF UpdateStatus, TablesOK
  <1>11. CASE SendMail(p)
    <2>1. HandlersOK'
      BY <1>11, GotoTyped DEF SendMail, HandlersOK
    <2>. QED  BY <1>11, <2>1 DEF SendMail, TablesOK
  <1>12. CASE FindForCancel(p)
    BY <1>5, <1>12, GotoTyped
       DEF FindForCancel, Refuse, TablesOK, HandlersOK, CancelPc
  <1>13. CASE CancelBooking(p)
    <2>1. req[p].booking \in DOMAIN bookings /\ "CANCELLED_BY_ADMIN" \in Status
      BY <1>13 DEF CancelBooking, Targets, Status
    <2>2. HandlersOK'
      BY <1>13, GotoTyped DEF CancelBooking, HandlersOK
    <2>. QED  BY <1>13, <2>1, <2>2, WriteTyped DEF CancelBooking, TablesOK
  <1>14. CASE FindForDelete(p)
    BY <1>5, <1>14, GotoTyped
       DEF FindForDelete, Refuse, TablesOK, HandlersOK, DeletePc
  <1>15. CASE DeleteListing(p)
    BY <1>5, <1>15, GotoTyped
       DEF DeleteListing, Error, TablesOK, HandlersOK, DeletePc
  <1>16. CASE Respond(p)
    BY <1>5, <1>16 DEF Respond
  <1>17. CASE Timeout(p)
    BY <1>17 DEF Timeout, HandlersOK, TablesOK, Answer
  <1>18. CASE Crash(p)
    BY <1>5, <1>18 DEF Crash, Error
  <1>. QED
    BY <1>1, <1>2, <1>3, <1>4, <1>6, <1>7, <1>8, <1>9, <1>10, <1>11, <1>12,
       <1>13, <1>14, <1>15, <1>16, <1>17, <1>18 DEF Step

----------------------------------------------------------------------------
(* What a step does, seen from the invariants *)

\* A step of p leaves the other handlers alone.
Alone(p) ==
  \A q \in Requests \ {p} : pc'[q] = pc[q] /\ req'[q] = req[q]

\* A step that writes no booking and no history of one.  Only findOverlap
\* brings a handler to its insert, and it has just found the dates free.
Reads(p) ==
  /\ UNCHANGED <<bookings, raced, revivedOver, confirms>>
  /\ \/ UNCHANGED listings
     \/ \E l \in listings : Deletable(l) /\ listings' = listings \ {l}
  /\ \/ pc'[p] # "insertBooking"
     \/ UNCHANGED <<pc, req>>
     \/ req'[p] = req[p] /\ Available(req[p]) /\ NightsAllowed(req[p])
  /\ pc[p] \in {"respond", "done"} => pc'[p] \in {"respond", "done"}

\* The insert of a row that the constraints accept.
Inserts(p) ==
  /\ pc[p] = "insertBooking"
  /\ RowAccepted(NewBooking(req[p]))
  /\ bookings' = [b \in DOMAIN bookings \cup {p} |->
                    IF b = p THEN NewBooking(req[p]) ELSE bookings[b]]
  /\ raced' = [q \in Requests |-> IF q # p /\ pc[q] = "insertBooking"
                                   THEN raced[q] \cup {p} ELSE raced[q]]
  /\ UNCHANGED <<listings, revivedOver, confirms>>
  /\ pc'[p] = "respond"

\* A status write, by a handler or by whoever p is.  It brings no handler to
\* its insert.
Writes(p) ==
  /\ \E b \in DOMAIN bookings, s \in Status : WriteStatus(p, b, s)
  /\ UNCHANGED <<listings, raced>>
  /\ \A q \in Requests :
       /\ pc'[q] = "insertBooking" =>
            pc[q] = "insertBooking" /\ req'[q] = req[q]
       /\ pc[q] \in {"respond", "done"} => pc'[q] \in {"respond", "done"}

\* Every step is one of the three.
Moves(p) == \/ p \in Requests /\ Alone(p) /\ (Reads(p) \/ Inserts(p))
            \/ Writes(p)

LEMMA StepAlone ==
  ASSUME TypeOK, NEW p \in Requests, Step(p)
  PROVE  Alone(p)
  <1>1. CASE Respond(p) \/ Crash(p) \/ Timeout(p)
    BY <1>1 DEF Respond, Crash, Timeout, Error, Finish, Alone, TypeOK
  <1>2. CASE \/ ReceiveCreate(p) \/ ReceiveUpdate(p)
             \/ ReceiveCancel(p) \/ ReceiveDelete(p)
    BY <1>2 DEF ReceiveCreate, ReceiveUpdate, ReceiveCancel, ReceiveDelete,
                Receive, Alone, TypeOK
  <1>3. CASE FindListing(p) \/ FindOverlap(p) \/ InsertBooking(p)
    BY <1>3 DEF FindListing, FindOverlap, InsertBooking, Refuse, Error, Goto,
                Finish, Alone, TypeOK
  <1>4. CASE FindBooking(p) \/ UpdateStatus(p) \/ SendMail(p)
    BY <1>4 DEF FindBooking, UpdateStatus, SendMail, Refuse, Goto, Finish,
                Alone, TypeOK
  <1>5. CASE FindForCancel(p) \/ CancelBooking(p)
    BY <1>5 DEF FindForCancel, CancelBooking, Refuse, Goto, Finish, Alone,
                TypeOK
  <1>6. CASE FindForDelete(p) \/ DeleteListing(p)
    BY <1>6 DEF FindForDelete, DeleteListing, Refuse, Error, Goto, Finish,
                Alone, TypeOK
  <1>. QED  BY <1>1, <1>2, <1>3, <1>4, <1>5, <1>6 DEF Step

LEMMA StepKinds ==
  ASSUME TypeOK, Targets, NEW p \in Requests, Step(p)
  PROVE  Reads(p) \/ Inserts(p) \/ Writes(p)
  <1>. Alone(p)
    BY StepAlone
  <1>1. CASE \E a \in Answer : /\ pc[p] \in Running /\ Finish(p, a)
                               /\ UNCHANGED <<store, mails, history>>
    BY <1>1 DEF Finish, Reads, TypeOK
  <1>2. CASE Timeout(p)
    BY <1>2 DEF Timeout, Reads
  <1>3. CASE \/ ReceiveCreate(p) \/ ReceiveUpdate(p)
             \/ ReceiveCancel(p) \/ ReceiveDelete(p)
    BY <1>3 DEF ReceiveCreate, ReceiveUpdate, ReceiveCancel, ReceiveDelete,
                Receive, Reads, TypeOK
  <1>4. CASE Respond(p) \/ Crash(p)
    BY <1>1, <1>4 DEF Respond, Crash, Error, Running, Answer
  <1>5. CASE FindListing(p)
    BY <1>1, <1>5
       DEF FindListing, Refuse, Goto, Reads, TypeOK, Running, Answer, CreatePc
  <1>6. CASE FindOverlap(p)
    BY <1>1, <1>6
       DEF FindOverlap, Refuse, Goto, Reads, TypeOK, Running, Answer, CreatePc
  <1>7. CASE InsertBooking(p)
    BY <1>1, <1>7 DEF InsertBooking, Error, Goto, Inserts, TypeOK, Running,
                      Answer, CreatePc
  <1>8. CASE FindBooking(p)
    BY <1>1, <1>8
       DEF FindBooking, Refuse, Goto, Reads, TypeOK, Running, Answer, UpdatePc
  <1>9. CASE UpdateStatus(p)
    <2>1. req[p].booking \in DOMAIN bookings /\ req[p].status \in Status
      BY <1>9 DEF UpdateStatus, Targets, TypeOK, UpdatePc, UpdateRequest
    <2>2. WriteStatus(p, req[p].booking, req[p].status)
      BY <1>9 DEF UpdateStatus
    <2>3. pc'[p] \in {"sendMail", "respond"}
      BY <1>9 DEF UpdateStatus, Goto, TypeOK
    <2>4. UNCHANGED <<listings, raced>> /\ pc[p] = "writeStatus"
      BY <1>9 DEF UpdateStatus
    <2>. QED  BY <2>1, <2>2, <2>3, <2>4 DEF Writes, Alone
  <1>10. CASE SendMail(p)
    BY <1>10 DEF SendMail, Goto, Reads, TypeOK
  <1>11. CASE FindForCancel(p)
    BY <1>1, <1>11 DEF FindForCancel, Refuse, Goto, Reads, TypeOK, Running,
                       Answer, CancelPc
  <1>12. CASE CancelBooking(p)
    <2>1. WriteStatus(p, req[p].booking, "CANCELLED_BY_ADMIN")
      BY <1>12 DEF CancelBooking
    <2>2. req[p].booking \in DOMAIN bookings /\ "CANCELLED_BY_ADMIN" \in Status
      BY <1>12 DEF CancelBooking, Targets, Status
    <2>3. pc'[p] = "respond" /\ UNCHANGED <<listings, raced>>
          /\ pc[p] = "writeCancel"
      BY <1>12 DEF CancelBooking, Goto, TypeOK
    <2>. QED  BY <2>1, <2>2, <2>3 DEF Writes, Alone
  <1>13. CASE FindForDelete(p)
    BY <1>1, <1>13 DEF FindForDelete, Refuse, Goto, Reads, TypeOK, Running,
                       Answer, DeletePc
  <1>14. CASE DeleteListing(p)
    BY <1>1, <1>14 DEF DeleteListing, Deletable, Error, Goto, Reads, TypeOK,
                       Running, Answer, DeletePc
  <1>. QED
    BY <1>2, <1>3, <1>4, <1>5, <1>6, <1>7, <1>8, <1>9, <1>10, <1>11, <1>12,
       <1>13, <1>14 DEF Step

LEMMA TargetsStep ==
  ASSUME TypeOK, Targets, NEW p \in Requests, Step(p)
  PROVE  Targets'
  <1>1. DOMAIN bookings \subseteq DOMAIN bookings'
    <2>1. CASE Reads(p)
      BY <2>1 DEF Reads
    <2>2. CASE Inserts(p)
      BY <2>2 DEF Inserts
    <2>3. CASE Writes(p)
      BY <2>3 DEF Writes, WriteStatus, TypeOK
    <2>. QED  BY <2>1, <2>2, <2>3, StepKinds
  <1>2. Alone(p)
    BY StepAlone
  <1>3. pc'[p] \in {"writeStatus", "sendMail", "writeCancel"}
          => req'[p].booking \in DOMAIN bookings
    <2>1. CASE Respond(p) \/ Crash(p) \/ Timeout(p)
      BY <2>1 DEF Respond, Crash, Timeout, Error, Finish, Targets, TypeOK
    <2>2. CASE \/ ReceiveCreate(p) \/ ReceiveUpdate(p)
               \/ ReceiveCancel(p) \/ ReceiveDelete(p)
      BY <2>2 DEF ReceiveCreate, ReceiveUpdate, ReceiveCancel, ReceiveDelete,
                  Receive, TypeOK
    <2>3. CASE FindListing(p) \/ FindOverlap(p) \/ InsertBooking(p)
      BY <2>3 DEF FindListing, FindOverlap, InsertBooking, Refuse, Error, Goto,
                  Finish, TypeOK
    <2>4. CASE FindBooking(p) \/ UpdateStatus(p) \/ SendMail(p)
      BY <2>4 DEF FindBooking, UpdateAllowed, UpdateStatus, SendMail, Refuse,
                  Goto, Finish, TypeOK, Targets
    <2>5. CASE FindForCancel(p) \/ CancelBooking(p)
      BY <2>5 DEF FindForCancel, CancelBooking, Refuse, Goto, Finish, TypeOK,
                  Targets
    <2>6. CASE FindForDelete(p) \/ DeleteListing(p)
      BY <2>6 DEF FindForDelete, DeleteListing, Refuse, Error, Goto, Finish,
                  TypeOK
    <2>. QED  BY <2>1, <2>2, <2>3, <2>4, <2>5, <2>6 DEF Step
  <1>. QED  BY <1>1, <1>2, <1>3 DEF Targets, Alone

\* For every set of requests, users and listings, every variable keeps its
\* type and a handler its own kind of request.
THEOREM TypeCorrect == Spec => []TypeOK
  <1>1. Init => TypeOK /\ Targets
    BY TypeInit
  <1>2. TypeOK /\ Targets /\ [Next]_vars => TypeOK' /\ Targets'
    <2>1. CASE Next
      BY <2>1, TypeStep, TargetsStep DEF Next
    <2>2. CASE UNCHANGED vars
      BY <2>2 DEF vars, TypeOK, Targets
    <2>. QED  BY <2>1, <2>2
  <1>. QED  BY <1>1, <1>2, PTL DEF Spec

----------------------------------------------------------------------------
(* The reservation invariant *)

\* A request that owns a row has nothing left to do but answer.
Creators == \A p \in DOMAIN bookings : pc[p] \in {"respond", "done"}

\* Booking a is active on a night that request r asks for.
Blocks(a, r) == IsActive(a) /\ Occupies(a, r.listing, Day(r.checkIn),
                                        Day(r.checkOut))

\* Between its availability check and its insert a handler relies on what it
\* found.  Every booking that now stands in its way was inserted or revived
\* since, and its stay is within the limits.
Windows ==
  \A p \in Requests : pc[p] = "insertBooking" =>
    /\ \A a \in DOMAIN bookings :
         Blocks(a, req[p]) => a \in raced[p] \cup revivedOver[p]
    /\ NightsAllowed(req[p])

Inv == /\ TypeOK /\ Targets /\ Creators /\ Windows
       /\ BookedListingsExist /\ StayWithinLimits /\ OverlapsExplained

\* A status write leaves every other row alone, and of its own row changes
\* the status only.
LEMMA WriteFrame ==
  ASSUME TypeOK, NEW p, NEW b \in DOMAIN bookings,
         NEW s \in Status, WriteStatus(p, b, s)
  PROVE  /\ DOMAIN bookings' = DOMAIN bookings
         /\ \A x \in DOMAIN bookings :
              /\ bookings'[x].listing = bookings[x].listing
              /\ bookings'[x].guest = bookings[x].guest
              /\ bookings'[x].host = bookings[x].host
              /\ bookings'[x].checkIn = bookings[x].checkIn
              /\ bookings'[x].checkOut = bookings[x].checkOut
              /\ bookings'[x].nights = bookings[x].nights
              /\ x # b => bookings'[x] = bookings[x]
         /\ bookings'[b].status = s
  <1>1. bookings[b] \in Booking
    BY DEF TypeOK
  <1>2. bookings' = [bookings EXCEPT ![b] = [bookings[b] EXCEPT !.status = s]]
    BY DEF WriteStatus
  <1>3. DOMAIN bookings' = DOMAIN bookings
    BY <1>2
  <1>4. /\ bookings'[b] = [bookings[b] EXCEPT !.status = s]
        /\ \A x \in DOMAIN bookings : x # b => bookings'[x] = bookings[x]
    BY <1>2 DEF TypeOK
  <1>5. /\ [bookings[b] EXCEPT !.status = s].status = s
        /\ [bookings[b] EXCEPT !.status = s].listing = bookings[b].listing
        /\ [bookings[b] EXCEPT !.status = s].guest = bookings[b].guest
        /\ [bookings[b] EXCEPT !.status = s].host = bookings[b].host
        /\ [bookings[b] EXCEPT !.status = s].checkIn = bookings[b].checkIn
        /\ [bookings[b] EXCEPT !.status = s].checkOut = bookings[b].checkOut
        /\ [bookings[b] EXCEPT !.status = s].nights = bookings[b].nights
    BY <1>1, RowAfter
  <1>. QED  BY <1>3, <1>4, <1>5

\* Whoever is active after a status write and was not before is known to
\* every booking and to every handler past its check.
LEMMA WriteRevives ==
  ASSUME TypeOK, NEW p, NEW b \in DOMAIN bookings,
         NEW s \in Status, WriteStatus(p, b, s),
         NEW x \in DOMAIN bookings, ~IsActive(x), IsActive(x)'
  PROVE  \A q \in Requests :
           q # x /\ (q \in DOMAIN bookings \/ pc[q] = "insertBooking")
             => x \in revivedOver'[q]
  <1>1. x = b /\ s \in ActiveStatus
    BY WriteFrame DEF IsActive
  <1>. QED  BY <1>1 DEF WriteStatus, IsActive

\* History only grows.
LEMMA HistoryGrows ==
  ASSUME TypeOK, NEW p, Reads(p) \/ Inserts(p) \/ Writes(p),
         NEW q \in Requests
  PROVE  raced[q] \subseteq raced'[q] /\ revivedOver[q] \subseteq revivedOver'[q]
  <1>1. CASE Reads(p)
    BY <1>1 DEF Reads
  <1>2. CASE Inserts(p)
    BY <1>2 DEF Inserts
  <1>3. CASE Writes(p)
    BY <1>3 DEF Writes, WriteStatus
  <1>. QED  BY <1>1, <1>2, <1>3

LEMMA CreatorsStep ==
  ASSUME TypeOK, Creators, NEW p, Moves(p)
  PROVE  Creators'
  <1>1. CASE p \in Requests /\ Alone(p) /\ Reads(p)
    BY <1>1 DEF Reads, Creators, Alone, TypeOK
  <1>2. CASE p \in Requests /\ Alone(p) /\ Inserts(p)
    BY <1>2 DEF Inserts, Creators, Alone, TypeOK
  <1>3. CASE Writes(p)
    BY <1>3, WriteFrame DEF Writes, Creators, Alone, TypeOK
  <1>. QED  BY <1>1, <1>2, <1>3 DEF Moves

LEMMA WindowsStep ==
  ASSUME TypeOK, Creators, Windows, NEW p, Moves(p)
  PROVE  Windows'
  <1>. SUFFICES ASSUME NEW q \in Requests, pc'[q] = "insertBooking"
                PROVE  /\ \A a \in DOMAIN bookings' :
                            Blocks(a, req[q])' => a \in raced'[q] \cup revivedOver'[q]
                       /\ NightsAllowed(req[q])'
    BY DEF Windows
  <1>1. CASE p \in Requests /\ Alone(p) /\ Reads(p)
    <2>1. CASE \/ q # p \/ UNCHANGED <<pc, req>>
      BY <1>1, <2>1 DEF Reads, Alone, Windows, Blocks, IsActive, Occupies,
                        NightsAllowed
    <2>2. CASE q = p /\ ~UNCHANGED <<pc, req>>
      BY <1>1, <2>2 DEF Reads, Available, Blocks, IsActive, Occupies,
                        NightsAllowed
    <2>. QED  BY <2>1, <2>2
  <1>2. CASE p \in Requests /\ Alone(p) /\ Inserts(p)
    <2>1. q # p /\ pc[q] = "insertBooking" /\ req'[q] = req[q]
      BY <1>2 DEF Inserts, Alone
    <2>2. \A a \in DOMAIN bookings' : a = p \/ a \in DOMAIN bookings
      BY <1>2 DEF Inserts
    <2>3. p \in raced'[q]
      BY <1>2, <2>1 DEF Inserts
    <2>4. ASSUME NEW a \in DOMAIN bookings, a # p, Blocks(a, req[q])'
          PROVE  a \in raced'[q] \cup revivedOver'[q]
      BY <1>2, <2>1, <2>4, HistoryGrows
         DEF Inserts, Windows, Blocks, IsActive, Occupies
    <2>. QED  BY <2>1, <2>2, <2>3, <2>4 DEF Windows, NightsAllowed
  <1>3. CASE Writes(p)
    <2>1. pc[q] = "insertBooking" /\ req'[q] = req[q]
      BY <1>3 DEF Writes
    <2>2. PICK b \in DOMAIN bookings, s \in Status : WriteStatus(p, b, s)
      BY <1>3 DEF Writes
    <2>4. ASSUME NEW a \in DOMAIN bookings', Blocks(a, req[q])'
          PROVE  a \in raced'[q] \cup revivedOver'[q]
      <3>1. a \in DOMAIN bookings
        BY <2>2, WriteFrame
      <3>2. CASE IsActive(a)
        <4>1. Blocks(a, req[q])
          BY <2>1, <2>2, <2>4, <3>1, <3>2, WriteFrame DEF Blocks, Occupies
        <4>. QED  BY <1>3, <2>1, <3>1, <4>1, HistoryGrows DEF Windows
      <3>3. CASE ~IsActive(a)
        <4>1. q # a
          BY <2>1, <3>1 DEF Creators
        <4>. QED  BY <2>1, <2>2, <2>4, <3>1, <3>3, <4>1, WriteRevives
                     DEF Blocks
      <3>. QED  BY <3>2, <3>3
    <2>. QED  BY <2>1, <2>4 DEF Windows, NightsAllowed
  <1>. QED  BY <1>1, <1>2, <1>3 DEF Moves

LEMMA OverlapsStep ==
  ASSUME TypeOK, Creators, Windows, OverlapsExplained, NEW p, Moves(p)
  PROVE  OverlapsExplained'
  <1>. SUFFICES ASSUME NEW a \in DOMAIN bookings', NEW b \in DOMAIN bookings',
                       DoubleBooked(a, b)'
                PROVE  \/ a \in raced'[b] \/ b \in raced'[a]
                       \/ a \in revivedOver'[b] \/ b \in revivedOver'[a]
    BY DEF OverlapsExplained
  <1>1. CASE p \in Requests /\ Alone(p) /\ Reads(p)
    BY <1>1 DEF Reads, OverlapsExplained, DoubleBooked, IsActive, Occupies
  <1>2. CASE p \in Requests /\ Alone(p) /\ Inserts(p)
    <2>1. NewBooking(req[p]).listing = req[p].listing
          /\ NewBooking(req[p]).checkIn = Day(req[p].checkIn)
          /\ NewBooking(req[p]).checkOut = Day(req[p].checkOut)
      BY DEF NewBooking
    <2>2. p \notin DOMAIN bookings
      BY <1>2 DEF Inserts, Creators
    <2>3. CASE a # p /\ b # p
      BY <1>2, <2>2, <2>3, HistoryGrows
         DEF Inserts, OverlapsExplained, DoubleBooked, IsActive, Occupies, TypeOK
    <2>4. CASE b = p
      <3>1. a \in DOMAIN bookings /\ Blocks(a, req[p])
        BY <1>2, <2>1, <2>4 DEF Inserts, DoubleBooked, IsActive, Occupies, Blocks
      <3>. QED  BY <1>2, <2>4, <3>1, HistoryGrows DEF Inserts, Windows
    <2>5. CASE a = p
      <3>1. b \in DOMAIN bookings /\ Blocks(b, req[p])
        BY <1>2, <2>1, <2>5 DEF Inserts, DoubleBooked, IsActive, Occupies, Blocks
      <3>. QED  BY <1>2, <2>5, <3>1, HistoryGrows DEF Inserts, Windows
    <2>. QED  BY <2>3, <2>4, <2>5
  <1>3. CASE Writes(p)
    <2>1. PICK c \in DOMAIN bookings, s \in Status : WriteStatus(p, c, s)
      BY <1>3 DEF Writes
    <2>3. a \in DOMAIN bookings /\ b \in DOMAIN bookings
          /\ a \in Requests /\ b \in Requests
      BY <2>1, WriteFrame DEF TypeOK
    <2>4. CASE IsActive(a) /\ IsActive(b)
      <3>1. DoubleBooked(a, b)
        BY <2>1, <2>3, <2>4, WriteFrame DEF DoubleBooked, Occupies
      <3>. QED  BY <1>3, <2>3, <3>1, HistoryGrows DEF OverlapsExplained
    <2>5. CASE ~IsActive(a)
      BY <2>1, <2>3, <2>5, WriteRevives DEF DoubleBooked
    <2>6. CASE ~IsActive(b)
      BY <2>1, <2>3, <2>6, WriteRevives DEF DoubleBooked
    <2>. QED  BY <2>4, <2>5, <2>6
  <1>. QED  BY <1>1, <1>2, <1>3 DEF Moves

LEMMA ListingsStep ==
  ASSUME TypeOK, BookedListingsExist, NEW p, Moves(p)
  PROVE  BookedListingsExist'
  <1>1. CASE p \in Requests /\ Alone(p) /\ Reads(p)
    BY <1>1 DEF Reads, Deletable, BookedListingsExist
  <1>2. CASE p \in Requests /\ Alone(p) /\ Inserts(p)
    BY <1>2 DEF Inserts, RowAccepted, BookedListingsExist
  <1>3. CASE Writes(p)
    BY <1>3, WriteFrame DEF Writes, BookedListingsExist
  <1>. QED  BY <1>1, <1>2, <1>3 DEF Moves

LEMMA StaysStep ==
  ASSUME TypeOK, Windows, StayWithinLimits, NEW p, Moves(p)
  PROVE  StayWithinLimits'
  <1>1. CASE p \in Requests /\ Alone(p) /\ Reads(p)
    BY <1>1 DEF Reads, StayWithinLimits
  <1>2. CASE p \in Requests /\ Alone(p) /\ Inserts(p)
    <2>1. DOMAIN bookings' = DOMAIN bookings \cup {p}
      BY <1>2 DEF Inserts
    <2>2. ASSUME NEW b \in DOMAIN bookings, b # p
          PROVE  bookings'[b] = bookings[b]
      BY <1>2, <2>2 DEF Inserts
    <2>3. bookings'[p] = NewBooking(req[p])
      BY <1>2 DEF Inserts
    <2>4. /\ bookings'[p].listing = req[p].listing
          /\ bookings'[p].checkIn \in Nat /\ bookings'[p].checkOut \in Nat
          /\ bookings'[p].checkOut > bookings'[p].checkIn
          /\ bookings'[p].checkOut - bookings'[p].checkIn
               = NumberOfNights(req[p].checkIn, req[p].checkOut)
      BY <1>2, <2>3, DaysAndNights
         DEF Inserts, RowAccepted, NewBooking, TypeOK, CreatePc, CreateRequest
    <2>5. NightsAllowed(req[p])
      BY <1>2 DEF Inserts, Windows
    <2>. QED  BY <2>1, <2>2, <2>4, <2>5 DEF StayWithinLimits, NightsAllowed
  <1>3. CASE Writes(p)
    BY <1>3, WriteFrame DEF Writes, StayWithinLimits
  <1>. QED  BY <1>1, <1>2, <1>3 DEF Moves

LEMMA InvInit == Init => Inv
  <1>. SUFFICES ASSUME Init PROVE Inv
    OBVIOUS
  <1>1. DOMAIN bookings = {}
    BY DEF Init
  <1>2. Windows
    BY DEF Init, Windows
  <1>. QED  BY <1>1, <1>2, TypeInit
            DEF Inv, Creators, BookedListingsExist, StayWithinLimits,
                OverlapsExplained

LEMMA InvNext == Inv /\ [Next]_vars => Inv'
  <1>. SUFFICES ASSUME Inv, [Next]_vars PROVE Inv'
    OBVIOUS
  <1>1. ASSUME NEW p \in Requests, Step(p)
        PROVE  Inv'
    <2>1. TypeOK' /\ Targets' /\ Alone(p)
      BY <1>1, TypeStep, TargetsStep, StepAlone DEF Inv
    <2>2. Moves(p)
      BY <1>1, <2>1, StepKinds DEF Inv, Moves
    <2>3. Creators' /\ Windows' /\ OverlapsExplained'
      BY <2>1, <2>2, CreatorsStep, WindowsStep, OverlapsStep DEF Inv
    <2>4. BookedListingsExist' /\ StayWithinLimits'
      BY <2>2, ListingsStep, StaysStep DEF Inv
    <2>. QED  BY <2>1, <2>3, <2>4 DEF Inv
  <1>2. CASE UNCHANGED vars
    BY <1>2 DEF vars, Inv, TypeOK, Targets, Creators, Windows, Blocks,
                NightsAllowed, BookedListingsExist, StayWithinLimits,
                OverlapsExplained, DoubleBooked, IsActive, Occupies
  <1>. QED  BY <1>1, <1>2 DEF Next

LEMMA Invariance == Spec => []Inv
  BY InvInit, InvNext, PTL DEF Spec

\* Two active bookings overlap only if their creations raced or one of them was
\* revived, for any number of requests, users and listings.
THEOREM OverlapsAreExplained == Spec => []OverlapsExplained
  <1>1. Inv => OverlapsExplained
    BY DEF Inv
  <1>. QED  BY <1>1, Invariance, PTL

\* No booking is ever left without its listing, whatever deletions race with
\* it.
THEOREM ListingsOfBookingsExist == Spec => []BookedListingsExist
  <1>1. Inv => BookedListingsExist
    BY DEF Inv
  <1>. QED  BY <1>1, Invariance, PTL

\* The nights that a stored stay takes are positive and within its listing's
\* limits, however many instants a day the dates of a request tell apart.
THEOREM StaysAreWithinLimits == Spec => []StayWithinLimits
  <1>1. Inv => StayWithinLimits
    BY DEF Inv
  <1>. QED  BY <1>1, Invariance, PTL

----------------------------------------------------------------------------
(* Who may write a status *)

\* A handler about to write a status may: what it checked when it read the
\* booking still holds, because a row's parties never change.
Authorised ==
  \A p \in Requests : pc[p] = "writeStatus" => UpdateAllowed(req[p])

\* A row keeps everything but its status.
LEMMA RowsKeep ==
  ASSUME TypeOK, Creators, NEW p, Moves(p)
  PROVE  \A b \in DOMAIN bookings :
           /\ b \in DOMAIN bookings'
           /\ bookings'[b].host = bookings[b].host
           /\ bookings'[b].guest = bookings[b].guest
           /\ [bookings'[b] EXCEPT !.status = "PENDING"]
                = [bookings[b] EXCEPT !.status = "PENDING"]
  <1>1. CASE p \in Requests /\ Alone(p) /\ Reads(p)
    BY <1>1 DEF Reads
  <1>2. CASE p \in Requests /\ Alone(p) /\ Inserts(p)
    BY <1>2 DEF Inserts, Creators
  <1>3. CASE Writes(p)
    <2>1. PICK c \in DOMAIN bookings, s \in Status : WriteStatus(p, c, s)
      BY <1>3 DEF Writes
    <2>2. bookings' = [bookings EXCEPT ![c] = [bookings[c] EXCEPT !.status = s]]
      BY <2>1 DEF WriteStatus
    <2>3. \A b \in DOMAIN bookings : bookings[b] \in Booking
      BY DEF TypeOK
    <2>4. [[bookings[c] EXCEPT !.status = s] EXCEPT !.status = "PENDING"]
            = [bookings[c] EXCEPT !.status = "PENDING"]
      BY <2>3 DEF Booking
    <2>. QED  BY <2>1, <2>2, <2>4, WriteFrame DEF TypeOK
  <1>. QED  BY <1>1, <1>2, <1>3 DEF Moves

LEMMA AuthorisedStep ==
  ASSUME TypeOK, Targets, Creators, Authorised, NEW p \in Requests, Step(p)
  PROVE  Authorised'
  <1>1. Alone(p) /\ Moves(p)
    BY StepAlone, StepKinds DEF Moves
  <1>2. ASSUME NEW r, UpdateAllowed(r)
        PROVE  UpdateAllowed(r)'
    BY <1>1, <1>2, RowsKeep DEF UpdateAllowed
  <1>3. pc'[p] = "writeStatus" =>
          req'[p] = req[p] /\ UpdateAllowed(req[p])
    <2>1. CASE Respond(p) \/ Crash(p) \/ Timeout(p)
      BY <2>1 DEF Respond, Crash, Timeout, Error, Finish, Authorised, TypeOK
    <2>2. CASE \/ ReceiveCreate(p) \/ ReceiveUpdate(p)
               \/ ReceiveCancel(p) \/ ReceiveDelete(p)
      BY <2>2 DEF ReceiveCreate, ReceiveUpdate, ReceiveCancel, ReceiveDelete,
                  Receive, TypeOK
    <2>3. CASE FindListing(p) \/ FindOverlap(p) \/ InsertBooking(p)
      BY <2>3 DEF FindListing, FindOverlap, InsertBooking, Refuse, Error, Goto,
                  Finish, TypeOK
    <2>4. CASE FindBooking(p) \/ UpdateStatus(p) \/ SendMail(p)
      BY <2>4 DEF FindBooking, UpdateStatus, SendMail, Refuse, Goto, Finish,
                  TypeOK
    <2>5. CASE FindForCancel(p) \/ CancelBooking(p)
      BY <2>5 DEF FindForCancel, CancelBooking, Refuse, Goto, Finish, TypeOK
    <2>6. CASE FindForDelete(p) \/ DeleteListing(p)
      BY <2>6 DEF FindForDelete, DeleteListing, Refuse, Error, Goto, Finish,
                  TypeOK
    <2>. QED  BY <2>1, <2>2, <2>3, <2>4, <2>5, <2>6 DEF Step
  <1>4. \A q \in Requests : pc'[q] = "writeStatus" =>
          req'[q] = req[q] /\ UpdateAllowed(req[q])
    BY <1>1, <1>3 DEF Alone, Authorised
  <1>. QED  BY <1>2, <1>4 DEF Authorised

\* The handler a change of status can come from.
LEMMA StatusStep ==
  ASSUME TypeOK, Targets, Creators, Authorised, NEW p \in Requests, Step(p),
         NEW b \in DOMAIN bookings,
         bookings'[b].status \notin {bookings[b].status,
                                     "CANCELLED_BY_GUEST", "CANCELLED_BY_ADMIN"}
  PROVE  /\ pc[p] = "writeStatus" /\ pc'[p] # "writeStatus"
         /\ req[p].booking = b
         /\ req[p].user = bookings[b].host
  <1>1. UpdateStatus(p)
    <2>1. bookings' # bookings
      OBVIOUS
    <2>2. ~InsertBooking(p)
      <3>1. SUFFICES ASSUME InsertBooking(p) PROVE FALSE
        OBVIOUS
      <3>2. b # p
        BY <3>1 DEF InsertBooking, Creators
      <3>3. b \in DOMAIN bookings' /\ bookings'[b] = bookings[b]
        BY <3>1, <3>2 DEF InsertBooking, Error
      <3>. QED  BY <3>3
    <2>3. ~CancelBooking(p)
      <3>1. SUFFICES ASSUME CancelBooking(p) PROVE FALSE
        OBVIOUS
      <3>2. WriteStatus(p, req[p].booking, "CANCELLED_BY_ADMIN")
            /\ req[p].booking \in DOMAIN bookings
            /\ "CANCELLED_BY_ADMIN" \in Status
        BY <3>1 DEF CancelBooking, Targets, Status
      <3>. QED  BY <3>2, WriteFrame
    <2>. QED
      BY <2>1, <2>2, <2>3
         DEF Step, Respond, Crash, Timeout, Error, Refuse, ReceiveCreate,
             ReceiveUpdate, ReceiveCancel, ReceiveDelete, Receive, FindListing,
             FindOverlap, FindBooking, SendMail, FindForCancel, FindForDelete,
             DeleteListing
  <1>2. /\ pc[p] = "writeStatus" /\ pc'[p] # "writeStatus"
        /\ WriteStatus(p, req[p].booking, req[p].status)
        /\ req[p].booking \in DOMAIN bookings /\ req[p].status \in Status
    BY <1>1 DEF UpdateStatus, Goto, Targets, TypeOK, UpdatePc, UpdateRequest
  <1>3. req[p].booking = b /\ req[p].status = bookings'[b].status
    BY <1>2, WriteFrame
  <1>4. req[p].user = bookings[b].host
    BY <1>2, <1>3 DEF Authorised, UpdateAllowed
  <1>. QED  BY <1>2, <1>3, <1>4

\* Rows never go away and keep their parties, dates and listing, and only a
\* handler that serves the host advances a booking, for any interleaving of any
\* number of requests.
THEOREM OnlyHostsAdvance == Spec => OnlyHostAdvances
  <1>1. Init => Authorised
    BY DEF Init, Authorised
  <1>2. Inv /\ Authorised /\ [Next]_vars => Authorised'
    <2>1. CASE Next
      BY <2>1, AuthorisedStep DEF Next, Inv
    <2>2. CASE UNCHANGED vars
      BY <2>2 DEF vars, Authorised, UpdateAllowed
    <2>. QED  BY <2>1, <2>2
  <1>3. Inv /\ Authorised /\ [Next]_vars =>
          [ \A b \in DOMAIN bookings :
              /\ b \in DOMAIN bookings'
              /\ [bookings'[b] EXCEPT !.status = "PENDING"]
                   = [bookings[b] EXCEPT !.status = "PENDING"]
              /\ bookings'[b].status
                   \notin {bookings[b].status,
                           "CANCELLED_BY_GUEST", "CANCELLED_BY_ADMIN"}
                   => HostWrites(b) ]_vars
    <2>1. SUFFICES ASSUME Inv, Authorised, NEW p \in Requests, Step(p),
                          NEW b \in DOMAIN bookings
                   PROVE  /\ b \in DOMAIN bookings'
                          /\ [bookings'[b] EXCEPT !.status = "PENDING"]
                               = [bookings[b] EXCEPT !.status = "PENDING"]
                          /\ bookings'[b].status
                               \notin {bookings[b].status, "CANCELLED_BY_GUEST",
                                       "CANCELLED_BY_ADMIN"}
                               => /\ pc[p] = "writeStatus"
                                  /\ pc'[p] # "writeStatus"
                                  /\ req[p].booking = b
                                  /\ req[p].user = bookings[b].host
      BY DEF Next, HostWrites
    <2>2. Moves(p)
      BY <2>1, StepKinds, StepAlone DEF Inv, Moves
    <2>. QED  BY <2>1, <2>2, RowsKeep, StatusStep DEF Inv
  <1>. QED  BY <1>1, <1>2, <1>3, Invariance, PTL DEF Spec, OnlyHostAdvances

----------------------------------------------------------------------------
(* What clients are told *)

\* A request that was refused is over.
RefusedAreDone == \A p \in Requests : answer[p] = "refused" => pc[p] = "done"

\* A step of p refuses only a request that has no booking, and leads to an
\* answer to a create only by inserting what was asked for.
LEMMA HonestMove ==
  ASSUME TypeOK, Targets, Creators, NEW p \in Requests, Step(p)
  PROVE  /\ \A q \in Requests \ {p} : answer'[q] = answer[q]
         /\ answer'[p] = "refused" =>
              \/ answer[p] = "refused"
              \/ /\ pc[p] \notin {"respond", "done"} /\ pc'[p] = "done"
                 /\ UNCHANGED bookings
         /\ pc'[p] = "respond" /\ req'[p].op = "create" =>
              \/ pc[p] = "respond" /\ req'[p] = req[p] /\ UNCHANGED bookings
              \/ /\ p \in DOMAIN bookings' /\ req'[p] = req[p]
                 /\ bookings'[p] = NewBooking(req[p])
  <1>1. CASE Respond(p) \/ Crash(p) \/ Timeout(p)
    BY <1>1 DEF Respond, Crash, Timeout, Error, Finish, TypeOK
  <1>2. CASE \/ ReceiveCreate(p) \/ ReceiveUpdate(p)
             \/ ReceiveCancel(p) \/ ReceiveDelete(p)
    BY <1>2 DEF ReceiveCreate, ReceiveUpdate, ReceiveCancel, ReceiveDelete,
                Receive, TypeOK
  <1>3. CASE FindListing(p) \/ FindOverlap(p)
    BY <1>3 DEF FindListing, FindOverlap, Refuse, Goto, Finish, TypeOK
  <1>4. CASE InsertBooking(p)
    BY <1>4 DEF InsertBooking, Error, Goto, Finish, TypeOK
  <1>5. CASE FindBooking(p) \/ UpdateStatus(p) \/ SendMail(p)
    <2>1. req[p].op = "update"
      BY <1>5 DEF FindBooking, UpdateStatus, SendMail, TypeOK, UpdatePc,
                  UpdateRequest
    <2>. QED
      BY <1>5, <2>1 DEF FindBooking, UpdateStatus, SendMail, Refuse, Goto,
                        Finish, TypeOK
  <1>6. CASE FindForCancel(p) \/ CancelBooking(p)
    <2>1. req[p].op = "cancel"
      BY <1>6 DEF FindForCancel, CancelBooking, TypeOK, CancelPc, CancelRequest
    <2>. QED
      BY <1>6, <2>1 DEF FindForCancel, CancelBooking, Refuse, Goto, Finish,
                        TypeOK
  <1>7. CASE FindForDelete(p) \/ DeleteListing(p)
    <2>1. req[p].op = "delete"
      BY <1>7 DEF FindForDelete, DeleteListing, TypeOK, DeletePc, DeleteRequest
    <2>. QED
      BY <1>7, <2>1 DEF FindForDelete, DeleteListing, Refuse, Error, Goto,
                        Finish, TypeOK
  <1>. QED  BY <1>1, <1>2, <1>3, <1>4, <1>5, <1>6, <1>7 DEF Step

LEMMA HonestStep ==
  ASSUME TypeOK, Targets, Creators, RefusedAreDone, AnswersHonest,
         NEW p \in Requests, Step(p)
  PROVE  RefusedAreDone' /\ AnswersHonest'
  <1>1. Alone(p) /\ Moves(p) /\ (Reads(p) \/ Inserts(p) \/ Writes(p))
    BY StepAlone, StepKinds DEF Moves
  <1>2. DOMAIN bookings' \subseteq DOMAIN bookings \cup {p}
    <2>1. CASE Reads(p)
      BY <2>1 DEF Reads
    <2>2. CASE Inserts(p)
      BY <2>2 DEF Inserts
    <2>3. CASE Writes(p)
      BY <2>3, WriteFrame DEF Writes
    <2>. QED  BY <1>1, <2>1, <2>2, <2>3
  <1>3. \A q \in Requests : answer'[q] = "refused" => pc'[q] = "done"
    <2>1. pc[p] # "done"
      BY DEF Step, ReceiveCreate, ReceiveUpdate, ReceiveCancel, ReceiveDelete,
             Receive, FindListing, FindOverlap, InsertBooking, FindBooking,
             UpdateStatus, SendMail, FindForCancel, CancelBooking,
             FindForDelete, DeleteListing, Respond, Timeout, Crash, Running,
             CreatePc, UpdatePc, CancelPc, DeletePc
    <2>. QED  BY <1>1, <2>1, HonestMove DEF RefusedAreDone, Alone
  <1>4. ASSUME NEW q \in Requests, answer'[q] = "refused"
        PROVE  q \notin DOMAIN bookings'
    <2>1. CASE answer[q] = "refused"
      <3>1. q \notin DOMAIN bookings /\ pc[q] = "done"
        BY <2>1 DEF AnswersHonest, RefusedAreDone
      <3>2. q \in DOMAIN bookings' => q = p /\ Inserts(p)
        BY <1>1, <1>2, <3>1, WriteFrame DEF Reads, Writes
      <3>. QED  BY <3>1, <3>2 DEF Inserts
    <2>2. CASE answer[q] # "refused"
      <3>1. q = p
        BY <1>4, <2>2, HonestMove
      <3>. QED  BY <1>4, <2>2, <3>1, HonestMove DEF Creators
    <2>. QED  BY <2>1, <2>2
  <1>5. ASSUME NEW q \in Requests, pc'[q] = "respond", req'[q].op = "create"
        PROVE  /\ q \in DOMAIN bookings'
               /\ [bookings'[q] EXCEPT !.status = "PENDING"]
                    = NewBooking(req[q])'
    <2>1. ASSUME pc[q] = "respond", req'[q] = req[q]
          PROVE  /\ q \in DOMAIN bookings'
                 /\ [bookings'[q] EXCEPT !.status = "PENDING"]
                      = NewBooking(req[q])'
      BY <1>1, <1>5, <2>1, RowsKeep DEF AnswersHonest, NewBooking
    <2>2. CASE q = p /\ ~(pc[q] = "respond" /\ req'[q] = req[q])
      <3>1. /\ p \in DOMAIN bookings' /\ req'[p] = req[p]
            /\ bookings'[p] = NewBooking(req[p])
        BY <1>5, <2>2, HonestMove
      <3>2. [NewBooking(req[p]) EXCEPT !.status = "PENDING"]
              = NewBooking(req[p])
        BY DEF NewBooking
      <3>. QED  BY <2>2, <3>1, <3>2
    <2>3. CASE q # p
      BY <1>1, <1>5, <2>1, <2>3 DEF Alone
    <2>. QED  BY <2>1, <2>2, <2>3
  <1>. QED  BY <1>3, <1>4, <1>5 DEF RefusedAreDone, AnswersHonest

\* A refused create leaves no booking, and a create about to be answered 201 has
\* the booking it asked for, for any interleaving.
THEOREM AnswersAreHonest == Spec => []AnswersHonest
  <1>1. Init => RefusedAreDone /\ AnswersHonest
    BY DEF Init, RefusedAreDone, AnswersHonest
  <1>2. Inv /\ RefusedAreDone /\ AnswersHonest /\ [Next]_vars
          => RefusedAreDone' /\ AnswersHonest'
    <2>1. CASE Next
      BY <2>1, HonestStep DEF Next, Inv
    <2>2. CASE UNCHANGED vars
      BY <2>2 DEF vars, RefusedAreDone, AnswersHonest, NewBooking
    <2>. QED  BY <2>1, <2>2
  <1>. QED  BY <1>1, <1>2, Invariance, PTL DEF Spec

----------------------------------------------------------------------------
(* Confirmation mails *)

\* Handlers that are about to mail the guest of booking b.
Mailers(b) == {p \in Requests : pc[p] = "sendMail" /\ req[p].booking = b}

\* What a handler read of a booking that nobody else has written since is
\* still its status.
ReadsCurrent ==
  \A p \in Requests :
    pc[p] = "writeStatus" /\ req[p].booking \notin contended =>
      seen[p] = bookings[req[p].booking].status

\* A confirmation pays for one mail: the mails that were sent and those that
\* are about to be.
MailsCovered ==
  \A b \in Requests :
    /\ IsFiniteSet(Mailers(b))
    /\ b \notin contended => mails[b] + Cardinality(Mailers(b)) <= confirms[b]

MailsInv == ReadsCurrent /\ MailsCovered

\* What becomes of a count when one element joins its set or leaves it.
LEMMA CountAfter ==
  ASSUME NEW S, NEW T, NEW x, IsFiniteSet(S),
         T = S \cup {x} \/ T = S \ {x}
  PROVE  /\ Cardinality(S) \in Nat /\ IsFiniteSet(T)
         /\ Cardinality(T) = IF T = S THEN Cardinality(S)
                             ELSE IF x \in S THEN Cardinality(S) - 1
                             ELSE Cardinality(S) + 1
  <1>1. Cardinality(S) \in Nat
    BY FS_CardinalityType
  <1>2. CASE T = S \cup {x}
    BY <1>1, <1>2, FS_AddElement
  <1>3. CASE T = S \ {x}
    BY <1>1, <1>3, FS_RemoveElement
  <1>. QED  BY <1>1, <1>2, <1>3

\* A step of p adds at most p to the handlers about to mail.
LEMMA MailersAfter ==
  ASSUME TypeOK, NEW p \in Requests, Alone(p), NEW b
  PROVE  Mailers(b)' = IF pc'[p] = "sendMail" /\ req'[p].booking = b
                         THEN Mailers(b) \cup {p} ELSE Mailers(b) \ {p}
  BY DEF Mailers, Alone

\* A status write, by whoever d is, changes no status that a handler has read
\* of an uncontended booking, and lowers no count.
LEMMA WriteSeen ==
  ASSUME TypeOK, Targets, ReadsCurrent, NEW d, NEW b \in DOMAIN bookings,
         NEW s \in Status, WriteStatus(d, b, s),
         \A q \in Requests : pc'[q] = "writeStatus" =>
           /\ q # d /\ pc[q] = "writeStatus"
           /\ req'[q] = req[q] /\ seen'[q] = seen[q]
  PROVE  /\ ReadsCurrent'
         /\ contended \subseteq contended'
         /\ \A x \in Requests : confirms'[x] >= confirms[x]
         /\ s = "CONFIRMED" /\ bookings[b].status # "CONFIRMED"
              => confirms'[b] = confirms[b] + 1
  <1>0. b \in Requests /\ \A x \in Requests : confirms[x] \in Nat
    BY DEF TypeOK
  <1>1. contended \subseteq contended'
    BY DEF WriteStatus
  <1>2. /\ \A x \in Requests : confirms'[x] >= confirms[x]
        /\ s = "CONFIRMED" /\ bookings[b].status # "CONFIRMED"
             => confirms'[b] = confirms[b] + 1
    BY <1>0 DEF WriteStatus, TypeOK
  <1>3. ASSUME NEW q \in Requests, pc'[q] = "writeStatus",
               req'[q].booking \notin contended'
        PROVE  seen'[q] = bookings'[req'[q].booking].status
    <2>1. /\ q # d /\ pc[q] = "writeStatus"
          /\ req'[q] = req[q] /\ seen'[q] = seen[q]
          /\ req[q].booking \in DOMAIN bookings
      BY <1>3 DEF Targets
    <2>2. req[q].booking # b
      BY <1>3, <2>1 DEF WriteStatus
    <2>3. bookings'[req[q].booking] = bookings[req[q].booking]
      BY <2>1, <2>2, WriteFrame
    <2>. QED  BY <1>1, <1>3, <2>1, <2>3 DEF ReadsCurrent
  <1>. QED  BY <1>1, <1>2, <1>3 DEF ReadsCurrent

\* A step of p that writes no status: it leaves p about to mail only where p
\* was so before, and p about to write a status only with that status in hand.
Calm(p) ==
  /\ Alone(p) /\ \A q \in Requests \ {p} : seen'[q] = seen[q]
  /\ UNCHANGED <<mails, confirms, contended>>
  /\ \A b \in DOMAIN bookings : bookings'[b].status = bookings[b].status
  /\ pc'[p] = "sendMail" => pc[p] = "sendMail" /\ req'[p] = req[p]
  /\ pc'[p] = "writeStatus" =>
       /\ req'[p] = req[p] /\ req[p].booking \in DOMAIN bookings
       /\ \/ seen'[p] = bookings[req[p].booking].status
          \/ pc[p] = "writeStatus" /\ seen'[p] = seen[p]

LEMMA CalmSteps ==
  ASSUME TypeOK, Targets, Creators, NEW p \in Requests, Step(p)
  PROVE  Calm(p) \/ UpdateStatus(p) \/ SendMail(p) \/ CancelBooking(p)
  <1>. Alone(p)
    BY StepAlone
  <1>1. CASE Respond(p) \/ Crash(p) \/ Timeout(p)
    BY <1>1 DEF Respond, Crash, Timeout, Error, Finish, Calm, TypeOK, Targets
  <1>2. CASE \/ ReceiveCreate(p) \/ ReceiveUpdate(p)
             \/ ReceiveCancel(p) \/ ReceiveDelete(p)
    BY <1>2 DEF ReceiveCreate, ReceiveUpdate, ReceiveCancel, ReceiveDelete,
                Receive, Calm, TypeOK
  <1>3. CASE FindListing(p) \/ FindOverlap(p)
    BY <1>3 DEF FindListing, FindOverlap, Refuse, Goto, Finish, Calm, TypeOK
  <1>4. CASE InsertBooking(p)
    <2>1. p \notin DOMAIN bookings
      BY <1>4 DEF InsertBooking, Creators
    <2>. QED
      BY <1>4, <2>1 DEF InsertBooking, Error, Goto, Finish, Calm, TypeOK
  <1>5. CASE FindBooking(p)
    BY <1>5 DEF FindBooking, UpdateAllowed, Refuse, Goto, Finish, Calm, TypeOK
  <1>6. CASE FindForCancel(p)
    BY <1>6 DEF FindForCancel, Refuse, Goto, Finish, Calm, TypeOK
  <1>7. CASE FindForDelete(p) \/ DeleteListing(p)
    BY <1>7 DEF FindForDelete, DeleteListing, Refuse, Error, Goto, Finish,
                Calm, TypeOK
  <1>. QED  BY <1>1, <1>2, <1>3, <1>4, <1>5, <1>6, <1>7 DEF Step

LEMMA CalmMails ==
  ASSUME TypeOK, Targets, MailsInv, NEW p \in Requests, Calm(p)
  PROVE  MailsInv'
  <1>1. ReadsCurrent'
    <2>. SUFFICES ASSUME NEW q \in Requests, pc'[q] = "writeStatus",
                         req'[q].booking \notin contended'
                  PROVE  seen'[q] = bookings'[req'[q].booking].status
      BY DEF ReadsCurrent
    <2>1. CASE q = p
      BY <2>1 DEF Calm, MailsInv, ReadsCurrent
    <2>2. CASE q # p
      BY <2>2 DEF Calm, Alone, MailsInv, ReadsCurrent, Targets
    <2>. QED  BY <2>1, <2>2
  <1>2. MailsCovered'
    <2>. SUFFICES ASSUME NEW b \in Requests
                  PROVE  /\ IsFiniteSet(Mailers(b)')
                         /\ b \notin contended' =>
                              mails'[b] + Cardinality(Mailers(b)') <= confirms'[b]
      BY DEF MailsCovered
    <2>1. IsFiniteSet(Mailers(b)) /\ Mailers(b)' \subseteq Mailers(b)
      BY MailersAfter DEF Calm, MailsInv, MailsCovered, Mailers
    <2>2. IsFiniteSet(Mailers(b)') /\ Cardinality(Mailers(b)') \in Nat
          /\ Cardinality(Mailers(b)') <= Cardinality(Mailers(b))
      BY <2>1, FS_Subset, FS_CardinalityType
    <2>3. Cardinality(Mailers(b)) \in Nat
          /\ mails[b] \in Nat /\ confirms[b] \in Nat
      BY <2>1, FS_CardinalityType DEF TypeOK
    <2>4. mails'[b] = mails[b] /\ confirms'[b] = confirms[b]
          /\ contended' = contended
      BY DEF Calm
    <2>. QED  BY <2>2, <2>3, <2>4 DEF MailsInv, MailsCovered
  <1>. QED  BY <1>1, <1>2 DEF MailsInv

\* A write that sets nobody to mailing.
LEMMA QuietWriteMails ==
  ASSUME TypeOK, Targets, MailsInv, NEW d, NEW b \in DOMAIN bookings,
         NEW s \in Status, WriteStatus(d, b, s), UNCHANGED mails,
         \A q \in Requests :
           /\ pc'[q] = "writeStatus" =>
                /\ q # d /\ pc[q] = "writeStatus"
                /\ req'[q] = req[q] /\ seen'[q] = seen[q]
           /\ pc'[q] = "sendMail" => pc[q] = "sendMail" /\ req'[q] = req[q]
  PROVE  MailsInv'
  <1>1. /\ ReadsCurrent' /\ contended \subseteq contended'
        /\ \A x \in Requests : confirms'[x] >= confirms[x]
    BY WriteSeen DEF MailsInv
  <1>2. MailsCovered'
    <2>. SUFFICES ASSUME NEW x \in Requests
                  PROVE  /\ IsFiniteSet(Mailers(x)')
                         /\ x \notin contended' =>
                              mails'[x] + Cardinality(Mailers(x)') <= confirms'[x]
      BY DEF MailsCovered
    <2>1. IsFiniteSet(Mailers(x)) /\ Mailers(x)' \subseteq Mailers(x)
      BY DEF MailsInv, MailsCovered, Mailers
    <2>2. IsFiniteSet(Mailers(x)') /\ Cardinality(Mailers(x)') \in Nat
          /\ Cardinality(Mailers(x)') <= Cardinality(Mailers(x))
      BY <2>1, FS_Subset, FS_CardinalityType
    <2>3. Cardinality(Mailers(x)) \in Nat
          /\ mails[x] \in Nat /\ confirms[x] \in Nat /\ confirms'[x] \in Nat
      BY <2>1, FS_CardinalityType, WriteTyped DEF TypeOK
    <2>4. mails'[x] = mails[x]
      OBVIOUS
    <2>. QED  BY <1>1, <2>2, <2>3, <2>4 DEF MailsInv, MailsCovered
  <1>. QED  BY <1>1, <1>2 DEF MailsInv

LEMMA UpdateMails ==
  ASSUME TypeOK, Targets, MailsInv, NEW p \in Requests, UpdateStatus(p)
  PROVE  MailsInv'
  <1>. DEFINE b == req[p].booking
              s == req[p].status
  <1>1. /\ pc[p] = "writeStatus" /\ WriteStatus(p, b, s)
        /\ b \in DOMAIN bookings /\ b \in Requests /\ s \in Status
        /\ UNCHANGED <<req, seen, mails>>
        /\ pc' = [pc EXCEPT ![p] = IF MailNeeded(p) THEN "sendMail"
                                                    ELSE "respond"]
    BY DEF UpdateStatus, Goto, Targets, TypeOK, UpdatePc, UpdateRequest
  <1>2. pc'[p] # "writeStatus" /\ \A q \in Requests \ {p} : pc'[q] = pc[q]
    BY <1>1 DEF TypeOK
  <1>3. CASE ~MailNeeded(p)
    <2>1. pc'[p] = "respond"
      BY <1>1, <1>3 DEF TypeOK
    <2>. QED  BY <1>1, <1>2, <2>1, QuietWriteMails
  <1>4. CASE MailNeeded(p)
    <2>1. pc'[p] = "sendMail" /\ Alone(p)
      BY <1>1, <1>2, <1>4 DEF TypeOK, Alone
    <2>a. \A q \in Requests : pc'[q] = "writeStatus" =>
            /\ q # p /\ pc[q] = "writeStatus"
            /\ req'[q] = req[q] /\ seen'[q] = seen[q]
      BY <1>1, <1>2
    <2>2. /\ ReadsCurrent' /\ contended \subseteq contended'
          /\ \A x \in Requests : confirms'[x] >= confirms[x]
          /\ s = "CONFIRMED" /\ bookings[b].status # "CONFIRMED"
               => confirms'[b] = confirms[b] + 1
      BY <1>1, <2>a, WriteSeen DEF MailsInv
    <2>3. ASSUME NEW x \in Requests
          PROVE  /\ IsFiniteSet(Mailers(x)')
                 /\ x \notin contended' =>
                      mails'[x] + Cardinality(Mailers(x)') <= confirms'[x]
      <3>0. p \notin Mailers(x)
        BY <1>1 DEF Mailers
      <3>1. /\ IsFiniteSet(Mailers(x))
            /\ Mailers(x)' = IF b = x THEN Mailers(x) \cup {p}
                                      ELSE Mailers(x) \ {p}
        BY <1>1, <2>1, MailersAfter DEF MailsInv, MailsCovered
      <3>a. Mailers(x)' = Mailers(x) <=> b # x
        BY <3>0, <3>1
      <3>2. /\ IsFiniteSet(Mailers(x)') /\ Cardinality(Mailers(x)) \in Nat
            /\ Cardinality(Mailers(x)')
                 = IF b = x THEN Cardinality(Mailers(x)) + 1
                            ELSE Cardinality(Mailers(x))
        BY <3>0, <3>1, <3>a, CountAfter
      <3>3. mails'[x] = mails[x] /\ mails[x] \in Nat
            /\ confirms[x] \in Nat /\ confirms'[x] \in Nat
        BY <1>1, WriteTyped DEF TypeOK
      <3>4. x \notin contended' =>
              mails[x] + Cardinality(Mailers(x)) <= confirms[x]
        BY <2>2 DEF MailsInv, MailsCovered
      <3>5. b = x /\ x \notin contended' => confirms'[x] = confirms[x] + 1
        BY <1>1, <1>4, <2>2 DEF MailsInv, ReadsCurrent, MailNeeded
      <3>. QED  BY <2>2, <3>2, <3>3, <3>4, <3>5
    <2>. QED  BY <2>2, <2>3 DEF MailsInv, MailsCovered
  <1>. QED  BY <1>3, <1>4

LEMMA SendMails ==
  ASSUME TypeOK, Targets, MailsInv, NEW p \in Requests, SendMail(p)
  PROVE  MailsInv'
  <1>. DEFINE b == req[p].booking
  <1>1. /\ pc[p] = "sendMail" /\ pc'[p] = "respond" /\ b \in Requests
        /\ UNCHANGED <<req, seen, bookings, confirms, contended>>
        /\ \/ mails' = [mails EXCEPT ![b] = @ + 1]
           \/ mails' = mails
    BY DEF SendMail, Goto, TypeOK, Targets
  <1>2. Alone(p)
    BY StepAlone DEF Step
  <1>3. ReadsCurrent'
    BY <1>1, <1>2 DEF MailsInv, ReadsCurrent, Alone
  <1>4. ASSUME NEW x \in Requests
        PROVE  /\ IsFiniteSet(Mailers(x)')
               /\ x \notin contended' =>
                    mails'[x] + Cardinality(Mailers(x)') <= confirms'[x]
    <2>0. p \in Mailers(x) <=> b = x
      BY <1>1 DEF Mailers
    <2>1. IsFiniteSet(Mailers(x)) /\ Mailers(x)' = Mailers(x) \ {p}
      BY <1>1, <1>2, MailersAfter DEF MailsInv, MailsCovered
    <2>a. Mailers(x)' = Mailers(x) <=> b # x
      BY <2>0, <2>1
    <2>2. /\ IsFiniteSet(Mailers(x)') /\ Cardinality(Mailers(x)) \in Nat
          /\ Cardinality(Mailers(x)')
               = IF b = x THEN Cardinality(Mailers(x)) - 1
                          ELSE Cardinality(Mailers(x))
      BY <2>0, <2>1, <2>a, CountAfter
    <2>3. /\ mails[x] \in Nat /\ confirms[x] \in Nat
          /\ mails'[x] = mails[x] \/ (b = x /\ mails'[x] = mails[x] + 1)
      BY <1>1 DEF TypeOK
    <2>. QED  BY <1>1, <2>2, <2>3 DEF MailsInv, MailsCovered
  <1>. QED  BY <1>3, <1>4 DEF MailsInv, MailsCovered

LEMMA CancelMails ==
  ASSUME TypeOK, Targets, MailsInv, NEW p \in Requests, CancelBooking(p)
  PROVE  MailsInv'
  <1>1. /\ WriteStatus(p, req[p].booking, "CANCELLED_BY_ADMIN")
        /\ req[p].booking \in DOMAIN bookings
        /\ "CANCELLED_BY_ADMIN" \in Status
        /\ UNCHANGED <<req, seen, mails>>
        /\ pc' = [pc EXCEPT ![p] = "respond"]
    BY DEF CancelBooking, Goto, Targets, Status
  <1>2. pc'[p] = "respond" /\ \A q \in Requests \ {p} : pc'[q] = pc[q]
    BY <1>1 DEF TypeOK
  <1>. QED  BY <1>1, <1>2, QuietWriteMails

LEMMA MailsStep ==
  ASSUME TypeOK, Targets, Creators, MailsInv, NEW p \in Requests, Step(p)
  PROVE  MailsInv'
  BY CalmSteps, CalmMails, UpdateMails, SendMails, CancelMails

LEMMA MailsInit == Init => MailsInv
  <1>. SUFFICES ASSUME Init PROVE MailsInv
    OBVIOUS
  <1>1. \A b \in Requests : Mailers(b) = {}
    BY DEF Init, Mailers
  <1>2. IsFiniteSet({}) /\ Cardinality({}) = 0
    BY FS_EmptySet
  <1>3. \A b \in Requests : mails[b] = 0 /\ confirms[b] = 0
    BY DEF Init
  <1>4. \A b \in Requests : IsFiniteSet(Mailers(b)) /\ Cardinality(Mailers(b)) = 0
    BY <1>1, <1>2
  <1>5. MailsCovered
    <2>. SUFFICES ASSUME NEW b \in Requests
                  PROVE  /\ IsFiniteSet(Mailers(b))
                         /\ mails[b] + Cardinality(Mailers(b)) <= confirms[b]
      BY DEF MailsCovered
    <2>. QED  BY <1>3, <1>4
  <1>. QED  BY <1>5 DEF Init, MailsInv, ReadsCurrent

LEMMA MailsEnough ==
  ASSUME TypeOK, MailsInv
  PROVE  MailsExplained
  <1>. SUFFICES ASSUME NEW b \in Requests, b \notin contended
                PROVE  mails[b] <= confirms[b]
    BY DEF MailsExplained
  <1>1. Cardinality(Mailers(b)) \in Nat
    BY FS_CardinalityType DEF MailsInv, MailsCovered
  <1>2. mails[b] + Cardinality(Mailers(b)) <= confirms[b]
    BY DEF MailsInv, MailsCovered
  <1>3. mails[b] \in Nat /\ confirms[b] \in Nat
    BY DEF TypeOK
  <1>. QED  BY <1>1, <1>2, <1>3

\* A guest is mailed no more often than the booking was confirmed, unless two
\* handlers wrote it at once, for any number of requests.
THEOREM MailsAreExplained == Spec => []MailsExplained
  <1>1. Inv /\ MailsInv /\ [Next]_vars => MailsInv'
    <2>1. CASE Next
      BY <2>1, MailsStep DEF Next, Inv
    <2>2. CASE UNCHANGED vars
      BY <2>2 DEF vars, MailsInv, ReadsCurrent, MailsCovered, Mailers
    <2>. QED  BY <2>1, <2>2
  <1>2. Inv /\ MailsInv => MailsExplained
    BY MailsEnough DEF Inv
  <1>. QED  BY <1>1, <1>2, MailsInit, Invariance, PTL DEF Spec
=============================================================================
