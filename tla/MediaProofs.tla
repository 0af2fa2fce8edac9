---------------------------- MODULE MediaProofs ----------------------------
(* Proofs about Media: rows, and the files they name.                       *)
EXTENDS Media, TLAPS

\* What the theorems assume of the constants.
Bounds == MaxFiles \in Nat \ {0} /\ \A f \in Files : f.mime \in Mimes

\* How far a handler is with its files.
Sending ==
  \A p \in Requests :
    /\ pc[p] = "idle" => sent[p] = 0 /\ req[p] = NoRequest
    /\ pc[p] = "store" => Len(req[p].files) <= MaxFiles /\ sent[p] < Len(req[p].files)
    /\ pc[p] = "insert" => sent[p] \in 1 .. Len(req[p].files) /\ Len(req[p].files) <= MaxFiles
    /\ pc[p] \in {"deleteOld", "storeNew"} => sent[p] = 0 /\ Len(req[p].files) = 1
    /\ pc[p] = "updateRow" => \/ sent[p] = 0 /\ req[p].files = <<>>
                              \/ sent[p] = 1 /\ Len(req[p].files) = 1

\* A key that no row and no handler has seen yet.
Unused(q, i) ==
  \/ pc[q] \in {"idle", "deleteOld", "storeNew", "updateRow"}
  \/ pc[q] = "store" /\ i > sent[q]
  \/ pc[q] = "insert" /\ i >= sent[q]

Unseen(k) ==
  /\ k \notin DOMAIN media
  /\ \A m \in DOMAIN media : media[m].key # k
  /\ \A p \in Requests : k \notin found[p]
  /\ \A p \in Requests : req[p].op \in {"update", "delete"} => req[p].id # k

Fresh == \A q \in Requests, i \in 1 .. MaxFiles : Unused(q, i) => Unseen(<<q, i>>)

UniqueKeys == \A m, n \in DOMAIN media : media[m].key = media[n].key => m = n

\* A file replaced by this handler: the row it serves is about to name it.
Replacing(p) == pc[p] = "updateRow" /\ req[p].files # <<>>

\* The file is out of the store, if destroy can find it and has not failed.
Disposed(k) == <<k, "image">> \notin store \/ k \in kept

Serving(p) ==
  /\ pc[p] \in {"deleteOld", "deleteFile"} => \A k, l \in found[p] : k = l
  /\ pc[p] \in {"deleteOld", "deleteFile"} =>
       \A k \in found[p], m \in DOMAIN media : media[m].key = k => m = req[p].id
  /\ pc[p] = "deleteOldFiles" =>
       \A k \in found[p], m \in DOMAIN media : media[m].key = k => media[m].deleted # "no"
  /\ pc[p] = "insert" \/ Replacing(p) => Stored(KeyOf(p))
  /\ pc[p] \in {"storeNew", "deleteRow"} \/ Replacing(p) =>
       \A k \in found[p] : Disposed(k)
  /\ pc[p] \in {"deleteFile", "deleteRow"} /\ req[p].id \in DOMAIN media =>
       media[req[p].id].owner = req[p].user
  /\ pc[p] \in UpdatePc \cup DeletePc /\ req[p].id \in DOMAIN media =>
       media[req[p].id].deleted # "old"
  /\ pc[p] = "deleteOldRows" => found[p] = {}
  /\ pc[p] \in CleanupPc =>
       \A m \in DOMAIN media :
         media[m].deleted = "old" => media[m].key \in found[p] \/ Disposed(media[m].key)

Served == \A p \in Requests : Serving(p)

\* LiveRowsHaveFiles, but for an update of texts only, which excuses nothing.
Loses(p, m) ==
  /\ req[p].op \in {"update", "delete"} /\ req[p].id = m
  /\ pc[p] \in {"storeNew", "deleteRow", "failed"} \/ Replacing(p)

Lost ==
  \A m \in DOMAIN media :
    Live(m) /\ ~Stored(media[m].key) => \E p \in Requests : Loses(p, m)

\* OrphansExplained, of handlers still at work too.
Orphans ==
  \A p \in Requests, i \in 1 .. MaxFiles :
    LET k == <<p, i>>
    IN  /\ <<k, "image">> \in store
        /\ ~\E m \in DOMAIN media : media[m].key = k
        => \/ pc[p] \in {"insert", "updateRow"} /\ i = sent[p]
           \/ pc[p] = "failed"
           \/ k \in kept \cup overtaken

Inv == TypeOK /\ Sending /\ Fresh /\ UniqueKeys /\ Served /\ Lost /\ Orphans

LEMMA InvInit == ASSUME Bounds  PROVE Init => Inv
  <1>. SUFFICES ASSUME Init  PROVE Inv
    OBVIOUS
  <1>1. TypeOK
    BY DEF Init, TypeOK, UploadPc, UpdatePc, DeletePc, BulkPc, AwaitPc, Bounds
  <1>2. Served
    BY DEF Init, Served, Serving, Replacing, UpdatePc, DeletePc, CleanupPc
  <1>. QED
    BY <1>1, <1>2 DEF Init, Inv, Sending, Fresh, Unseen, UniqueKeys, Lost, Orphans, NoRequest

----------------------------------------------------------------------------
(* Types *)

\* The request of a handler at work.
LEMMA Requested ==
  ASSUME TypeOK, NEW p \in Requests
  PROVE  /\ pc[p] \in UploadPc => req[p] \in UploadRequest
         /\ pc[p] \in UpdatePc => req[p] \in UpdateRequest
         /\ pc[p] \in DeletePc => req[p] \in DeleteRequest
  <1>1. \/ req[p] \in UploadRequest \/ req[p] \in UpdateRequest \/ req[p] \in DeleteRequest
        \/ req[p] \in {BulkRequest, CleanupRequest, NoRequest}
    BY DEF TypeOK
  <1>2. \A r \in UploadRequest : r.op = "upload"
    BY DEF UploadRequest
  <1>3. \A r \in UpdateRequest : r.op = "update"
    BY DEF UpdateRequest
  <1>4. \A r \in DeleteRequest : r.op = "delete"
    BY DEF DeleteRequest
  <1>5. \A r \in {BulkRequest, CleanupRequest, NoRequest} :
          r.op \in {"deleteMany", "cleanup", "none"}
    BY DEF BulkRequest, CleanupRequest, NoRequest
  <1>. QED  BY <1>1, <1>2, <1>3, <1>4, <1>5 DEF TypeOK
\* What a handler has last sent.
LEMMA LastSent ==
  ASSUME Bounds, TypeOK, Sending, NEW p \in Requests, pc[p] = "insert" \/ Replacing(p)
  PROVE  /\ sent[p] \in 1 .. MaxFiles /\ KeyOf(p) = <<p, sent[p]>> /\ KeyOf(p) \in Keys
         /\ MimeOf(p) \in Mimes
  <1>1. req[p].files \in Seq(Files)
    BY Requested DEF UploadPc, UpdatePc, UploadRequest, UpdateRequest, Replacing
  <1>2. sent[p] \in 1 .. Len(req[p].files) /\ sent[p] <= MaxFiles
    BY <1>1 DEF Sending, Replacing, Bounds
  <1>3. req[p].files[sent[p]] \in Files
    BY <1>1, <1>2
  <1>4. sent[p] \in 1 .. MaxFiles
    BY <1>1, <1>2 DEF Bounds
  <1>. QED  BY <1>3, <1>4 DEF KeyOf, Keys, MimeOf, Bounds

\* One that is about to send.
LEMMA NextSent ==
  ASSUME Bounds, TypeOK, Sending, NEW p \in Requests, pc[p] \in {"store", "storeNew"}
  PROVE  /\ sent[p] + 1 \in 1 .. MaxFiles
         /\ sent[p] + 1 \in 1 .. Len(req[p].files)
         /\ Len(req[p].files) \in Nat
         /\ sent[p] \in Nat
         /\ req[p].files \in Seq(Files)
  <1>1. req[p].files \in Seq(Files)
    BY Requested DEF UploadPc, UpdatePc, UploadRequest, UpdateRequest
  <1>2. Len(req[p].files) \in Nat /\ sent[p] \in Nat
    BY <1>1 DEF TypeOK
  <1>3. MaxFiles \in Nat /\ MaxFiles >= 1
    BY DEF Bounds
  <1>4. sent[p] < Len(req[p].files) /\ Len(req[p].files) <= MaxFiles
    <2>1. CASE pc[p] = "store"
      BY <2>1 DEF Sending
    <2>2. CASE pc[p] = "storeNew"
      <3>1. sent[p] = 0 /\ Len(req[p].files) = 1
        BY <2>2 DEF Sending
      <3>. QED  BY <1>3, <3>1
    <2>. QED  BY <2>1, <2>2
  <1>. QED  BY <1>1, <1>2, <1>3, <1>4

\* Every write of a row, and what is written.
RowTypes == DOMAIN media' \subseteq Keys /\ media' \in [DOMAIN media' -> Row]

\* The rows after a step, seen from the rows before it.
RowsKept(p) ==
  \A m \in DOMAIN media' :
    \/ /\ InsertRow(p) /\ m = KeyOf(p)
       /\ media'[m].key = m /\ media'[m].deleted = "no"
    \/ /\ m \in DOMAIN media
       /\ media'[m].owner = media[m].owner
       /\ media'[m].deleted \in {media[m].deleted, "recent"}
       /\ \/ media'[m].key = media[m].key
          \/ /\ UpdateRow(p) /\ Replacing(p) /\ m = req[p].id
             /\ media'[m].key = KeyOf(p)

LEMMA RowsStep ==
  ASSUME Bounds, TypeOK, Sending, NEW p \in Requests, Step(p)
  PROVE  RowTypes /\ RowsKept(p)
  <1>. USE DEF RowTypes, RowsKept
  <1>1. CASE InsertRow(p)
    <2>. DEFINE k == KeyOf(p)
                row == [owner |-> req[p].user, key |-> k, mime |-> MimeOf(p), deleted |-> "no"]
    <2>1. pc[p] = "insert"
      BY <1>1 DEF InsertRow
    <2>2. k \in Keys /\ MimeOf(p) \in Mimes /\ req[p].user \in Users
      BY <2>1, LastSent, Requested DEF UploadPc, UploadRequest
    <2>3. row \in Row /\ row.key = k /\ row.deleted = "no"
      BY <2>2 DEF Row
    <2>4. media' = [m \in DOMAIN media \cup {k} |-> IF m = k THEN row ELSE media[m]]
      BY <1>1 DEF InsertRow
    <2>. HIDE DEF row, k
    <2>5. /\ DOMAIN media' = DOMAIN media \cup {k} /\ media'[k] = row
          /\ \A m \in DOMAIN media \ {k} : media'[m] = media[m]
      BY <2>4
    <2>. QED  BY <1>1, <2>2, <2>3, <2>4, <2>5 DEF TypeOK, k
  <1>2. CASE UpdateRow(p)
    <2>. DEFINE m == req[p].id
                row == [media[m] EXCEPT !.key = KeyOf(p), !.mime = MimeOf(p)]
    <2>1. m \in DOMAIN media /\ media[m] \in Row /\ pc[p] = "updateRow"
      BY <1>2 DEF UpdateRow, TypeOK
    <2>2. CASE UNCHANGED media
      BY <2>2 DEF TypeOK
    <2>3. CASE Replacing(p) /\ media' = [media EXCEPT ![m] = row]
      <3>1. KeyOf(p) \in Keys /\ MimeOf(p) \in Mimes
        BY <2>3, LastSent
      <3>2. /\ row \in Row /\ row.key = KeyOf(p) /\ row.owner = media[m].owner
            /\ row.deleted = media[m].deleted
        BY <2>1, <3>1 DEF Row
      <3>. HIDE DEF row
      <3>3. /\ DOMAIN media' = DOMAIN media /\ media'[m] = row
            /\ \A n \in DOMAIN media \ {m} : media'[n] = media[n]
        BY <2>1, <2>3
      <3>4. RowTypes
        BY <2>3, <3>2, <3>3 DEF TypeOK
      <3>. QED  BY <1>2, <2>3, <3>2, <3>3, <3>4
    <2>. QED  BY <1>2, <2>1, <2>2, <2>3 DEF UpdateRow, Replacing
  <1>3. CASE SoftDelete(p)
    <2>. DEFINE m == req[p].id
                row == [media[m] EXCEPT !.deleted = "recent"]
    <2>1. m \in DOMAIN media /\ media[m] \in Row /\ media' = [media EXCEPT ![m] = row]
      BY <1>3 DEF SoftDelete, TypeOK
    <2>2. row \in Row /\ row.key = media[m].key /\ row.owner = media[m].owner
          /\ row.deleted = "recent"
      BY <2>1 DEF Row
    <2>. HIDE DEF row
    <2>3. /\ DOMAIN media' = DOMAIN media /\ media'[m] = row
          /\ \A n \in DOMAIN media \ {m} : media'[n] = media[n]
      BY <2>1
    <2>4. RowTypes
      BY <2>1, <2>2, <2>3 DEF TypeOK
    <2>. QED  BY <2>2, <2>3, <2>4
  <1>4. CASE UpdateMany(p)
    <2>1. ASSUME NEW m \in DOMAIN media
          PROVE  LET row == [media[m] EXCEPT !.deleted = "recent"]
                 IN  row \in Row /\ row.key = media[m].key /\ row.owner = media[m].owner
                     /\ row.deleted = "recent"
      <3>1. media[m] \in Row
        BY DEF TypeOK
      <3>. QED  BY <3>1 DEF Row
    <2>2. /\ DOMAIN media' = DOMAIN media
          /\ \A m \in DOMAIN media :
               media'[m] = IF m \in found[p] THEN [media[m] EXCEPT !.deleted = "recent"]
                                             ELSE media[m]
          /\ media' = [m \in DOMAIN media |-> media'[m]]
      BY <1>4 DEF UpdateMany
    <2>3. \A m \in DOMAIN media : media'[m] \in Row
      BY <2>1, <2>2 DEF TypeOK
    <2>4. RowTypes
      BY <2>2, <2>3 DEF TypeOK
    <2>. QED  BY <2>1, <2>2, <2>4
  <1>5. CASE DeleteRow(p) \/ DeleteOldRows(p)
    BY <1>5 DEF DeleteRow, DeleteOldRows, Without, TypeOK
  <1>6. CASE UNCHANGED media
    BY <1>6 DEF TypeOK
  <1>7. \/ InsertRow(p) \/ UpdateRow(p) \/ SoftDelete(p) \/ UpdateMany(p)
        \/ DeleteRow(p) \/ DeleteOldRows(p) \/ UNCHANGED media
    BY DEF Step, ReceiveUpload, FindForUpdate, FindForDelete, FindMany, FindOld, Begin, Refuse,
         Store, StoreNew, StoreFile, DeleteOld, DeleteFile, DeleteOldFiles, RowMissing, Crash,
         Throw
  <1>. QED  BY <1>1, <1>2, <1>3, <1>4, <1>5, <1>6, <1>7
\* What a step of one handler leaves of the others.
LEMMA Frame ==
  ASSUME TypeOK, NEW p \in Requests, Step(p)
  PROVE  /\ \A q \in Requests \ {p} : /\ pc'[q] = pc[q] /\ req'[q] = req[q]
                                      /\ found'[q] = found[q] /\ sent'[q] = sent[q]
         /\ pc[p] \notin {"done", "failed"}
         /\ kept \subseteq kept' /\ overtaken \subseteq overtaken'
  <1>. USE DEF TypeOK, Begin, Refuse, Goto, Finish, Throw, RemoveFile, StoreFile,
               AwaitPc, UploadPc, UpdatePc, DeletePc, BulkPc, CleanupPc
  <1>1. CASE \/ \E u \in Users, fs \in Batches : ReceiveUpload(p, u, fs)
             \/ \E u \in Users, m \in Keys, fs \in {<<>>} \cup {<<f>> : f \in Files} :
                  FindForUpdate(p, u, m, fs)
    BY <1>1 DEF ReceiveUpload, FindForUpdate
  <1>2. CASE \/ \E u \in Users, m \in Keys, permanent \in BOOLEAN :
                  FindForDelete(p, u, m, permanent)
             \/ \E u \in Users, ids \in SUBSET DOMAIN media : FindMany(p, u, ids)
             \/ FindOld(p)
    BY <1>2 DEF FindForDelete, FindMany, FindOld
  <1>3. CASE Store(p) \/ StoreNew(p)
    BY <1>3 DEF Store, StoreNew
  <1>4. CASE InsertRow(p) \/ UpdateRow(p)
    BY <1>4 DEF InsertRow, UpdateRow
  <1>5. CASE DeleteOld(p) \/ DeleteFile(p) \/ DeleteOldFiles(p)
    BY <1>5 DEF DeleteOld, DeleteFile, DeleteOldFiles
  <1>6. CASE DeleteRow(p) \/ SoftDelete(p) \/ UpdateMany(p) \/ DeleteOldRows(p)
    BY <1>6 DEF DeleteRow, SoftDelete, UpdateMany, DeleteOldRows
  <1>7. CASE RowMissing(p) \/ Crash(p)
    BY <1>7 DEF RowMissing, Crash
  <1>. QED  BY <1>1, <1>2, <1>3, <1>4, <1>5, <1>6, <1>7 DEF Step

\* The types of what a handler keeps, once it has begun with a request.
HandlerOK(p) ==
  /\ pc'[p] \in AwaitPc \cup {"idle", "done", "failed"}
  /\ req'[p] \in UploadRequest \cup UpdateRequest \cup DeleteRequest
                   \cup {BulkRequest, CleanupRequest, NoRequest}
  /\ sent'[p] \in 0 .. MaxFiles
  /\ found'[p] \in SUBSET Keys
  /\ pc'[p] \in UploadPc => req'[p].op = "upload"
  /\ pc'[p] \in UpdatePc => req'[p].op = "update"
  /\ pc'[p] \in DeletePc => req'[p].op = "delete"
  /\ pc'[p] \in BulkPc => req'[p].op = "deleteMany"

Shapes == /\ pc' = [q \in Requests |-> pc'[q]] /\ req' = [q \in Requests |-> req'[q]]
          /\ sent' = [q \in Requests |-> sent'[q]] /\ found' = [q \in Requests |-> found'[q]]

\* The request with which a handler begins, and what it has read.
LEMMA BeginStep ==
  ASSUME Bounds, TypeOK, NEW p \in Requests, NEW r, NEW first, NEW reads,
         Begin(p, r, first, reads), reads \subseteq Keys,
         \/ r \in UploadRequest /\ first \in UploadPc
         \/ r \in UpdateRequest /\ first \in UpdatePc
         \/ r \in DeleteRequest /\ first \in DeletePc
         \/ r = BulkRequest /\ first \in BulkPc
         \/ r = CleanupRequest /\ first \in CleanupPc
  PROVE  HandlerOK(p) /\ Shapes
  <1>1. /\ pc'[p] = first /\ req'[p] = r /\ found'[p] = reads /\ sent' = sent
        /\ Shapes
    BY DEF Begin, TypeOK, Shapes
  <1>2. /\ \A q \in UploadRequest : q.op = "upload"
        /\ \A q \in UpdateRequest : q.op = "update"
        /\ \A q \in DeleteRequest : q.op = "delete"
        /\ BulkRequest.op = "deleteMany"
    BY DEF UploadRequest, UpdateRequest, DeleteRequest, BulkRequest
  <1>. QED
    BY <1>1, <1>2 DEF HandlerOK, TypeOK, AwaitPc, UploadPc, UpdatePc, DeletePc, BulkPc, CleanupPc

\* What a key read from a row is.
LEMMA KeyTypes == ASSUME TypeOK  PROVE \A m \in DOMAIN media : media[m].key \in Keys
  BY DEF TypeOK, Row

\* The other steps: on to the next statement, or to an end.
LEMMA MoveStep ==
  ASSUME TypeOK, NEW p \in Requests,
         \/ \E next : /\ Goto(p, next) /\ UNCHANGED found
                      /\ \/ pc[p] \in UploadPc /\ next \in UploadPc
                         \/ pc[p] \in UpdatePc /\ next \in UpdatePc
                         \/ pc[p] \in DeletePc /\ next \in DeletePc
                         \/ next \in CleanupPc
         \/ Finish(p)
         \/ Throw(p)
         \/ Refuse(p),
         sent'[p] \in 0 .. MaxFiles, sent' = [q \in Requests |-> sent'[q]]
  PROVE  HandlerOK(p) /\ Shapes
  <1>. USE DEF TypeOK, Goto, Finish, Throw, Refuse, HandlerOK, Shapes
  <1>1. CASE \E next : /\ Goto(p, next) /\ UNCHANGED found
                       /\ \/ pc[p] \in UploadPc /\ next \in UploadPc
                          \/ pc[p] \in UpdatePc /\ next \in UpdatePc
                          \/ pc[p] \in DeletePc /\ next \in DeletePc
                          \/ next \in CleanupPc
    BY <1>1 DEF UploadPc, UpdatePc, DeletePc, BulkPc, CleanupPc, AwaitPc
  <1>2. CASE Finish(p)
    BY <1>2 DEF UploadPc, UpdatePc, DeletePc, BulkPc
  <1>3. CASE Throw(p)
    BY <1>3 DEF UploadPc, UpdatePc, DeletePc, BulkPc
  <1>4. CASE Refuse(p)
    BY <1>4 DEF UploadPc, UpdatePc, DeletePc, BulkPc
  <1>. QED  BY <1>1, <1>2, <1>3, <1>4

LEMMA HandlerStep ==
  ASSUME Bounds, TypeOK, Sending, NEW p \in Requests, Step(p)
  PROVE  HandlerOK(p) /\ Shapes
  <1>. USE KeyTypes
  <1>1. ASSUME NEW u \in Users, NEW fs \in Batches, ReceiveUpload(p, u, fs)
        PROVE  HandlerOK(p) /\ Shapes
    <2>1. fs \in Seq(Files)
      <3>1. PICK n \in 1 .. MaxFiles : fs \in [1 .. n -> Files]
        BY DEF Batches
      <3>. QED  BY <3>1
    <2>2. [op |-> "upload", user |-> u, files |-> fs] \in UploadRequest
      BY <2>1 DEF UploadRequest
    <2>. QED  BY <1>1, <2>2, BeginStep DEF ReceiveUpload, UploadPc
  <1>2. ASSUME NEW u \in Users, NEW m \in Keys, NEW fs \in {<<>>} \cup {<<f>> : f \in Files},
               FindForUpdate(p, u, m, fs)
        PROVE  HandlerOK(p) /\ Shapes
    <2>1. fs \in Seq(Files)
      <3>1. CASE fs = <<>>
        BY <3>1
      <3>2. ASSUME NEW f \in Files, fs = <<f>>
            PROVE  fs \in Seq(Files)
        BY <3>2
      <3>. QED  BY <3>1, <3>2
    <2>. DEFINE r == [op |-> "update", user |-> u, id |-> m, files |-> fs]
                first == IF fs = <<>> THEN "updateRow" ELSE "deleteOld"
    <2>2. r \in UpdateRequest /\ first \in UpdatePc
      BY <2>1 DEF UpdateRequest, UpdatePc
    <2>3. CASE Begin(p, r, first, {media[m].key}) /\ m \in DOMAIN media
      <3>. HIDE DEF r, first
      <3>. QED  BY <2>2, <2>3, BeginStep
    <2>4. CASE Refuse(p)
      BY <2>4, MoveStep DEF Refuse, TypeOK
    <2>. QED  BY <1>2, <2>3, <2>4 DEF FindForUpdate, Mine, Live
  <1>3. ASSUME NEW u \in Users, NEW m \in Keys, NEW permanent \in BOOLEAN,
               FindForDelete(p, u, m, permanent)
        PROVE  HandlerOK(p) /\ Shapes
    <2>. DEFINE r == [op |-> "delete", user |-> u, id |-> m]
                first == IF permanent THEN "deleteFile" ELSE "softDelete"
    <2>2. r \in DeleteRequest /\ first \in DeletePc
      BY DEF DeleteRequest, DeletePc
    <2>3. CASE Begin(p, r, first, {media[m].key}) /\ m \in DOMAIN media
      <3>. HIDE DEF r, first
      <3>. QED  BY <2>2, <2>3, BeginStep
    <2>4. CASE Refuse(p)
      BY <2>4, MoveStep DEF Refuse, TypeOK
    <2>. QED  BY <1>3, <2>3, <2>4 DEF FindForDelete, Mine, Live
  <1>4. ASSUME NEW u \in Users, NEW ids \in SUBSET DOMAIN media, FindMany(p, u, ids)
        PROVE  HandlerOK(p) /\ Shapes
    <2>1. {m \in ids : Mine(u, m)} \subseteq Keys
      BY DEF TypeOK
    <2>. QED  BY <1>4, <2>1, BeginStep DEF FindMany, BulkPc
  <1>5. CASE FindOld(p)
    <2>1. {media[m].key : m \in {m \in DOMAIN media : Old(m)}} \subseteq Keys
      OBVIOUS
    <2>. QED  BY <1>5, <2>1, BeginStep DEF FindOld, CleanupPc
  <1>6. CASE Store(p) \/ StoreNew(p)
    <2>1. sent[p] + 1 \in 0 .. MaxFiles
      BY <1>6, NextSent DEF Store, StoreNew, Bounds
    <2>2. sent' = [sent EXCEPT ![p] = sent[p] + 1] /\ UNCHANGED found
      BY <1>6 DEF Store, StoreNew, StoreFile
    <2>3. sent'[p] \in 0 .. MaxFiles /\ sent' = [q \in Requests |-> sent'[q]]
      BY <2>1, <2>2 DEF TypeOK
    <2>4. CASE Store(p)
      BY <2>2, <2>3, <2>4, MoveStep DEF Store, StoreFile, UploadPc
    <2>5. CASE StoreNew(p)
      BY <2>2, <2>3, <2>5, MoveStep DEF StoreNew, StoreFile, UpdatePc
    <2>. QED  BY <1>6, <2>4, <2>5
  <1>7. CASE UNCHANGED sent
    <2>1. sent'[p] \in 0 .. MaxFiles /\ sent' = [q \in Requests |-> sent'[q]]
      BY <1>7 DEF TypeOK
    <2>. USE <2>1, MoveStep
    <2>2. CASE InsertRow(p)
      BY <2>2 DEF InsertRow, UploadPc
    <2>3. CASE DeleteOld(p)
      BY <2>3 DEF DeleteOld, UpdatePc
    <2>4. CASE DeleteFile(p)
      BY <2>4 DEF DeleteFile, DeletePc
    <2>5. CASE UpdateRow(p) \/ DeleteRow(p) \/ SoftDelete(p) \/ UpdateMany(p) \/ DeleteOldRows(p)
      BY <2>5 DEF UpdateRow, DeleteRow, SoftDelete, UpdateMany, DeleteOldRows
    <2>6. CASE RowMissing(p) \/ Crash(p)
      BY <2>6 DEF RowMissing, Crash
    <2>7. CASE DeleteOldFiles(p)
      <3>1. CASE found[p] = {} /\ Goto(p, "deleteOldRows") /\ UNCHANGED found
        BY <3>1 DEF CleanupPc
      <3>2. CASE \E k \in found[p] : found' = [found EXCEPT ![p] = @ \ {k}] /\ UNCHANGED <<pc, req>>
        <4>1. PICK k \in found[p] : found' = [found EXCEPT ![p] = @ \ {k}]
          BY <3>2
        <4>2. found'[p] \in SUBSET Keys /\ found' = [q \in Requests |-> found'[q]]
          BY <4>1 DEF TypeOK
        <4>3. pc' = pc /\ req' = req
          BY <3>2
        <4>. QED  BY <1>7, <4>2, <4>3 DEF TypeOK, HandlerOK, Shapes
      <3>. QED  BY <2>7, <3>1, <3>2 DEF DeleteOldFiles
    <2>8. \/ InsertRow(p) \/ DeleteOld(p) \/ DeleteFile(p) \/ UpdateRow(p) \/ DeleteRow(p)
          \/ SoftDelete(p) \/ UpdateMany(p) \/ DeleteOldRows(p) \/ RowMissing(p) \/ Crash(p)
          \/ DeleteOldFiles(p) \/ Store(p) \/ StoreNew(p)
          \/ HandlerOK(p) /\ Shapes
      BY <1>1, <1>2, <1>3, <1>4, <1>5 DEF Step
    <2>. QED  BY <1>6, <2>2, <2>3, <2>4, <2>5, <2>6, <2>7, <2>8
  <1>8. \/ UNCHANGED sent \/ Store(p) \/ StoreNew(p)
    BY DEF Step, ReceiveUpload, FindForUpdate, FindForDelete, FindMany, FindOld, Begin, Refuse,
         InsertRow, UpdateRow, DeleteRow, SoftDelete, UpdateMany, DeleteOldRows,
         DeleteOld, DeleteFile, DeleteOldFiles, RowMissing, Crash, Throw
  <1>. QED  BY <1>6, <1>7, <1>8

\* What a step does to the store: nothing, or one file comes, or one goes.
Keeps     == UNCHANGED <<store, kept>>
Adds(p)   == /\ pc[p] \in {"store", "storeNew"} /\ sent'[p] = sent[p] + 1
             /\ pc'[p] \in {"insert", "updateRow"}
             /\ \E type \in {"image", "video", "raw"} :
                  store' = store \cup {<<<<p, sent[p] + 1>>, type>>}
             /\ UNCHANGED <<media, kept, found, req>>
Removes(p) == /\ pc[p] \in {"deleteOld", "deleteFile", "deleteOldFiles"}
              /\ \E k \in found[p] : RemoveFile(k)
              /\ UNCHANGED media

LEMMA AddsStep ==
  ASSUME Bounds, TypeOK, Sending, NEW p \in Requests, Store(p) \/ StoreNew(p)
  PROVE  Adds(p)
  <1>1. \A mime \in Mimes : GetResourceType(mime) \in {"image", "video", "raw"}
    BY DEF GetResourceType, Mimes
  <1>2. req[p].files[sent[p] + 1].mime \in Mimes
    BY NextSent DEF Store, StoreNew, Bounds
  <1>. QED  BY <1>1, <1>2 DEF Adds, Store, StoreNew, StoreFile, Goto, TypeOK

LEMMA StoreStep ==
  ASSUME Bounds, TypeOK, Sending, NEW p \in Requests, Step(p)
  PROVE  Keeps \/ Adds(p) \/ Removes(p)
  <1>1. CASE Store(p) \/ StoreNew(p)
    BY <1>1, AddsStep
  <1>2. CASE DeleteOld(p) \/ DeleteFile(p) \/ DeleteOldFiles(p)
    BY <1>2 DEF DeleteOld, DeleteFile, DeleteOldFiles, Removes, Keeps
  <1>3. \/ Store(p) \/ StoreNew(p) \/ DeleteOld(p) \/ DeleteFile(p) \/ DeleteOldFiles(p)
        \/ Keeps
    BY DEF Step, ReceiveUpload, FindForUpdate, FindForDelete, FindMany, FindOld, Begin, Refuse,
         InsertRow, UpdateRow, DeleteRow, SoftDelete, UpdateMany, DeleteOldRows, RowMissing,
         Crash, Throw, Keeps
  <1>. QED  BY <1>1, <1>2, <1>3

LEMMA StoreTypes ==
  ASSUME Bounds, TypeOK, Sending, NEW p \in Requests, Step(p)
  PROVE  /\ store' \subseteq Keys \X {"image", "video", "raw"}
         /\ kept' \subseteq Keys /\ overtaken' \subseteq Keys
  <1>1. ASSUME Keeps
        PROVE  store' \subseteq Keys \X {"image", "video", "raw"} /\ kept' \subseteq Keys
    BY <1>1 DEF Keeps, TypeOK
  <1>2. ASSUME Adds(p)
        PROVE  store' \subseteq Keys \X {"image", "video", "raw"} /\ kept' \subseteq Keys
    BY <1>2, NextSent DEF Adds, TypeOK, Keys
  <1>3. ASSUME Removes(p)
        PROVE  store' \subseteq Keys \X {"image", "video", "raw"} /\ kept' \subseteq Keys
    BY <1>3 DEF Removes, RemoveFile, Destroyed, TypeOK
  <1>4. overtaken' \subseteq Keys
    <2>1. CASE UpdateRow(p) \/ DeleteRow(p)
      BY <2>1, KeyTypes DEF UpdateRow, DeleteRow, TypeOK
    <2>2. CASE UNCHANGED overtaken
      BY <2>2 DEF TypeOK
    <2>3. UpdateRow(p) \/ DeleteRow(p) \/ UNCHANGED overtaken
      BY DEF Step, ReceiveUpload, FindForUpdate, FindForDelete, FindMany, FindOld, Begin, Refuse,
           InsertRow, SoftDelete, UpdateMany, DeleteOldRows, RowMissing, Store, StoreNew,
           StoreFile, DeleteOld, DeleteFile, DeleteOldFiles, Crash, Throw
    <2>. QED  BY <2>1, <2>2, <2>3
  <1>. QED  BY <1>1, <1>2, <1>3, <1>4, StoreStep

LEMMA TypesStep ==
  ASSUME Bounds, TypeOK, Sending, NEW p \in Requests, Step(p)
  PROVE  TypeOK'
  <1>1. /\ RowTypes /\ HandlerOK(p) /\ Shapes
        /\ store' \subseteq Keys \X {"image", "video", "raw"}
        /\ kept' \subseteq Keys /\ overtaken' \subseteq Keys
    BY RowsStep, HandlerStep, StoreTypes
  <1>2. ASSUME NEW q \in Requests  PROVE HandlerOK(q)
    <2>1. CASE q = p
      BY <1>1, <2>1
    <2>2. CASE q # p
      BY <2>2, Frame DEF TypeOK, HandlerOK
    <2>. QED  BY <2>1, <2>2
  <1>3. /\ pc' \in [Requests -> AwaitPc \cup {"idle", "done", "failed"}]
        /\ req' \in [Requests -> UploadRequest \cup UpdateRequest \cup DeleteRequest
                                  \cup {BulkRequest, CleanupRequest, NoRequest}]
        /\ sent' \in [Requests -> 0 .. MaxFiles]
        /\ found' \in [Requests -> SUBSET Keys]
    BY <1>1, <1>2 DEF Shapes, HandlerOK
  <1>4. \A q \in Requests :
          /\ pc'[q] \in UploadPc => req'[q].op = "upload"
          /\ pc'[q] \in UpdatePc => req'[q].op = "update"
          /\ pc'[q] \in DeletePc => req'[q].op = "delete"
          /\ pc'[q] \in BulkPc => req'[q].op = "deleteMany"
    BY <1>2 DEF HandlerOK
  <1>. QED  BY <1>1, <1>3, <1>4 DEF TypeOK, RowTypes

----------------------------------------------------------------------------
(* Handlers begin, and go on *)

\* What a handler that takes up a call knows.
Begins(p) ==
  \/ /\ pc'[p] = "store" /\ found'[p] = {} /\ req'[p].op = "upload"
     /\ Len(req'[p].files) \in 1 .. MaxFiles
  \/ /\ pc'[p] \in {"deleteOld", "updateRow", "deleteFile", "softDelete"}
     /\ pc'[p] = "deleteOld" => Len(req'[p].files) = 1
     /\ pc'[p] = "updateRow" => req'[p].files = <<>>
     /\ req'[p].id \in DOMAIN media /\ found'[p] = {media[req'[p].id].key}
     /\ media[req'[p].id].deleted = "no" /\ media[req'[p].id].owner = req'[p].user
  \/ pc'[p] = "updateMany" /\ req'[p].op = "deleteMany" /\ found'[p] \subseteq DOMAIN media
  \/ /\ pc'[p] = "deleteOldFiles" /\ req'[p].op = "cleanup"
     /\ found'[p] = {media[m].key : m \in {m \in DOMAIN media : Old(m)}}
  \/ pc'[p] = "failed" /\ UNCHANGED <<req, found>>

LEMMA BeginsStep ==
  ASSUME Bounds, TypeOK, NEW p \in Requests, Step(p), pc[p] = "idle"
  PROVE  Begins(p) /\ UNCHANGED <<media, store, sent, kept, overtaken>>
  <1>0. ASSUME NEW r, NEW first, NEW reads, Begin(p, r, first, reads)
        PROVE  /\ pc'[p] = first /\ req'[p] = r /\ found'[p] = reads
               /\ UNCHANGED <<media, store, sent, kept, overtaken>>
    BY <1>0 DEF Begin, TypeOK
  <1>00. ASSUME Refuse(p)
         PROVE  Begins(p) /\ UNCHANGED <<media, store, sent, kept, overtaken>>
    BY <1>00 DEF Refuse, TypeOK, Begins
  <1>1. ASSUME NEW u \in Users, NEW fs \in Batches, ReceiveUpload(p, u, fs)
        PROVE  Begins(p) /\ UNCHANGED <<media, store, sent, kept, overtaken>>
    <2>1. PICK n \in 1 .. MaxFiles : fs \in [1 .. n -> Files]
      BY DEF Batches
    <2>2. fs \in Seq(Files) /\ Len(fs) = n
      BY <2>1
    <2>3. /\ pc'[p] = "store" /\ req'[p] = [op |-> "upload", user |-> u, files |-> fs]
          /\ found'[p] = {} /\ UNCHANGED <<media, store, sent, kept, overtaken>>
      BY <1>1, <1>0 DEF ReceiveUpload
    <2>. QED  BY <2>1, <2>2, <2>3 DEF Begins
  <1>2. ASSUME NEW u \in Users, NEW m \in Keys, NEW fs \in {<<>>} \cup {<<f>> : f \in Files},
               FindForUpdate(p, u, m, fs)
        PROVE  Begins(p) /\ UNCHANGED <<media, store, sent, kept, overtaken>>
    <2>. DEFINE r == [op |-> "update", user |-> u, id |-> m, files |-> fs]
                first == IF fs = <<>> THEN "updateRow" ELSE "deleteOld"
    <2>1. CASE Begin(p, r, first, {media[m].key}) /\ Mine(u, m)
      <3>1. /\ pc'[p] = first /\ req'[p] = r /\ found'[p] = {media[m].key}
            /\ UNCHANGED <<media, store, sent, kept, overtaken>>
        <4>. HIDE DEF r, first
        <4>. QED  BY <2>1, <1>0
      <3>2. /\ r.op = "update" /\ r.user = u /\ r.id = m /\ r.files = fs
            /\ media[m].deleted = "no" /\ media[m].owner = u /\ m \in DOMAIN media
        BY <2>1 DEF Mine, Live
      <3>3. first \in {"updateRow", "deleteOld"}
            /\ (first = "updateRow" <=> fs = <<>>) /\ (fs = <<>> \/ Len(fs) = 1)
        OBVIOUS
      <3>. HIDE DEF r, first
      <3>. QED  BY <3>1, <3>2, <3>3 DEF Begins
    <2>. QED  BY <1>2, <1>00, <2>1 DEF FindForUpdate
  <1>3. ASSUME NEW u \in Users, NEW m \in Keys, NEW permanent \in BOOLEAN,
               FindForDelete(p, u, m, permanent)
        PROVE  Begins(p) /\ UNCHANGED <<media, store, sent, kept, overtaken>>
    <2>. DEFINE r == [op |-> "delete", user |-> u, id |-> m]
                first == IF permanent THEN "deleteFile" ELSE "softDelete"
    <2>1. CASE Begin(p, r, first, {media[m].key}) /\ Mine(u, m)
      <3>1. /\ pc'[p] = first /\ req'[p] = r /\ found'[p] = {media[m].key}
            /\ UNCHANGED <<media, store, sent, kept, overtaken>>
        <4>. HIDE DEF r, first
        <4>. QED  BY <2>1, <1>0
      <3>2. /\ r.op = "delete" /\ r.user = u /\ r.id = m
            /\ media[m].deleted = "no" /\ media[m].owner = u /\ m \in DOMAIN media
        BY <2>1 DEF Mine, Live
      <3>3. first \in {"deleteFile", "softDelete"}
        OBVIOUS
      <3>. HIDE DEF r, first
      <3>. QED  BY <3>1, <3>2, <3>3 DEF Begins
    <2>. QED  BY <1>3, <1>00, <2>1 DEF FindForDelete
  <1>4. ASSUME NEW u \in Users, NEW ids \in SUBSET DOMAIN media, FindMany(p, u, ids)
        PROVE  Begins(p) /\ UNCHANGED <<media, store, sent, kept, overtaken>>
    <2>1. {m \in ids : Mine(u, m)} \subseteq DOMAIN media
      OBVIOUS
    <2>. QED  BY <1>4, <1>0, <2>1 DEF FindMany, Begins, BulkRequest
  <1>5. CASE FindOld(p)
    BY <1>5, <1>0 DEF FindOld, Begins, CleanupRequest
  <1>6. \/ \E u \in Users, fs \in Batches : ReceiveUpload(p, u, fs)
        \/ \E u \in Users, m \in Keys, fs \in {<<>>} \cup {<<f>> : f \in Files} :
             FindForUpdate(p, u, m, fs)
        \/ \E u \in Users, m \in Keys, permanent \in BOOLEAN :
             FindForDelete(p, u, m, permanent)
        \/ \E u \in Users, ids \in SUBSET DOMAIN media : FindMany(p, u, ids)
        \/ FindOld(p)
    BY DEF Step, Store, InsertRow, DeleteOld, StoreNew, UpdateRow, DeleteFile, DeleteRow,
         SoftDelete, RowMissing, UpdateMany, DeleteOldFiles, DeleteOldRows, Crash, AwaitPc,
         UploadPc, UpdatePc, DeletePc, BulkPc, CleanupPc
  <1>. QED  BY <1>1, <1>2, <1>3, <1>4, <1>5, <1>6

\* What a handler that has begun does next.
Goes(p) ==
  /\ UNCHANGED req \/ pc'[p] = "done"
  /\ found'[p] \subseteq found[p]
  /\ \/ Store(p) /\ Adds(p) /\ pc'[p] = "insert"
     \/ StoreNew(p) /\ Adds(p) /\ pc'[p] = "updateRow"
     \/ /\ InsertRow(p) /\ UNCHANGED <<store, sent, kept, overtaken>>
        /\ \/ pc'[p] = "store" /\ sent[p] < Len(req[p].files)
           \/ pc'[p] = "done"
     \/ DeleteOld(p) /\ Removes(p) /\ pc'[p] = "storeNew" /\ UNCHANGED <<sent, overtaken, found>>
     \/ DeleteFile(p) /\ Removes(p) /\ pc'[p] = "deleteRow" /\ UNCHANGED <<sent, overtaken, found>>
     \/ /\ DeleteOldFiles(p) /\ UNCHANGED <<media, sent, overtaken>>
        /\ \/ pc'[p] = "deleteOldRows" /\ found[p] = {} /\ UNCHANGED <<store, kept, found>>
           \/ pc'[p] = "deleteOldFiles" /\ Removes(p)
     \/ /\ UpdateRow(p) \/ DeleteRow(p) \/ SoftDelete(p) \/ UpdateMany(p) \/ DeleteOldRows(p)
        /\ pc'[p] = "done" /\ UNCHANGED <<store, sent, kept>>
     \/ pc'[p] = "failed" /\ UNCHANGED <<media, store, req, sent, kept, overtaken>>

LEMMA GoesStep ==
  ASSUME Bounds, TypeOK, Sending, NEW p \in Requests, Step(p), pc[p] # "idle"
  PROVE  Goes(p)
  <1>. USE DEF TypeOK
  <1>1. CASE Store(p) \/ StoreNew(p)
    BY <1>1, AddsStep DEF Goes, Store, StoreNew, StoreFile, Goto, Adds
  <1>2. CASE InsertRow(p)
    BY <1>2 DEF Goes, InsertRow, Goto, Finish
  <1>3. CASE DeleteOld(p) \/ DeleteFile(p)
    BY <1>3 DEF Goes, DeleteOld, DeleteFile, Goto, Removes
  <1>4. CASE DeleteOldFiles(p)
    BY <1>4 DEF Goes, DeleteOldFiles, Goto, Removes
  <1>5. CASE UpdateRow(p) \/ DeleteRow(p) \/ SoftDelete(p) \/ UpdateMany(p) \/ DeleteOldRows(p)
    BY <1>5 DEF Goes, UpdateRow, DeleteRow, SoftDelete, UpdateMany, DeleteOldRows, Finish
  <1>6. CASE RowMissing(p) \/ Crash(p)
    BY <1>6 DEF Goes, RowMissing, Crash, Throw
  <1>. QED
    BY <1>1, <1>2, <1>3, <1>4, <1>5, <1>6
    DEF Step, ReceiveUpload, FindForUpdate, FindForDelete, FindMany, FindOld, Begin, Refuse

LEMMA SendingStep ==
  ASSUME Bounds, TypeOK, Sending, NEW p \in Requests, Step(p)
  PROVE  Sending'
  <1>. DEFINE Far(q) ==
    /\ pc'[q] = "idle" => sent'[q] = 0 /\ req'[q] = NoRequest
    /\ pc'[q] = "store" => Len(req'[q].files) <= MaxFiles /\ sent'[q] < Len(req'[q].files)
    /\ pc'[q] = "insert" => sent'[q] \in 1 .. Len(req'[q].files) /\ Len(req'[q].files) <= MaxFiles
    /\ pc'[q] \in {"deleteOld", "storeNew"} => sent'[q] = 0 /\ Len(req'[q].files) = 1
    /\ pc'[q] = "updateRow" => \/ sent'[q] = 0 /\ req'[q].files = <<>>
                               \/ sent'[q] = 1 /\ Len(req'[q].files) = 1
  <1>1. ASSUME NEW q \in Requests, q # p  PROVE Far(q)
    BY <1>1, Frame DEF Sending
  <1>2. CASE pc[p] = "idle"
    <2>1. Begins(p) /\ sent'[p] = 0
      BY <1>2, BeginsStep DEF Sending
    <2>2. Far(p)
      BY <2>1 DEF Begins, Bounds
    <2>. QED  BY <1>1, <2>2 DEF Sending
  <1>3. CASE pc[p] # "idle"
    <2>1. Goes(p)
      BY <1>3, GoesStep
    <2>2. CASE Store(p) /\ Adds(p) /\ pc'[p] = "insert"
      <3>1. pc[p] = "store" /\ sent'[p] = sent[p] + 1 /\ req'[p] = req[p]
        BY <2>2 DEF Store, Adds
      <3>2. sent'[p] \in 1 .. Len(req[p].files) /\ Len(req[p].files) <= MaxFiles
        BY <3>1, NextSent DEF Sending
      <3>3. Far(p)
        BY <2>2, <3>1, <3>2
      <3>. QED  BY <1>1, <3>3 DEF Sending
    <2>3. CASE StoreNew(p) /\ Adds(p) /\ pc'[p] = "updateRow"
      <3>1. pc[p] = "storeNew" /\ sent'[p] = sent[p] + 1 /\ req'[p] = req[p]
        BY <2>3 DEF StoreNew, Adds
      <3>2. sent'[p] = 1 /\ Len(req[p].files) = 1
        BY <3>1 DEF Sending
      <3>3. Far(p)
        BY <2>3, <3>1, <3>2
      <3>. QED  BY <1>1, <3>3 DEF Sending
    <2>4. CASE InsertRow(p) /\ UNCHANGED sent /\ pc'[p] = "store" /\ sent[p] < Len(req[p].files)
      <3>1. Len(req[p].files) <= MaxFiles /\ req'[p] = req[p]
        BY <2>1, <2>4 DEF InsertRow, Sending, Goes
      <3>2. Far(p)
        BY <2>4, <3>1
      <3>. QED  BY <1>1, <3>2 DEF Sending
    <2>5. CASE DeleteOld(p) /\ pc'[p] = "storeNew" /\ UNCHANGED sent
      <3>1. sent[p] = 0 /\ Len(req[p].files) = 1 /\ req'[p] = req[p]
        BY <2>1, <2>5 DEF DeleteOld, Sending, Goes
      <3>2. Far(p)
        BY <2>5, <3>1
      <3>. QED  BY <1>1, <3>2 DEF Sending
    <2>6. CASE pc'[p] \in {"deleteRow", "deleteOldRows", "deleteOldFiles", "done", "failed"}
      BY <1>1, <2>6 DEF Sending
    <2>. QED  BY <2>1, <2>2, <2>3, <2>4, <2>5, <2>6 DEF Goes
  <1>. QED  BY <1>2, <1>3

\* No row has the key of a file just stored, and nobody waits for it.
LEMMA KeyUnseen ==
  ASSUME Bounds, TypeOK, Sending, Fresh, NEW p \in Requests
  PROVE  /\ pc[p] = "insert" \/ Replacing(p) => Unseen(KeyOf(p))
         /\ pc[p] \in {"store", "storeNew"} => Unseen(<<p, sent[p] + 1>>)
  <1>1. ASSUME pc[p] = "insert" \/ Replacing(p)
        PROVE  Unseen(KeyOf(p))
    <2>1. sent[p] \in 1 .. MaxFiles /\ KeyOf(p) = <<p, sent[p]>>
      BY <1>1, LastSent
    <2>2. Unused(p, sent[p])
      BY <1>1, <2>1 DEF Unused, Replacing
    <2>. QED  BY <2>1, <2>2 DEF Fresh
  <1>2. ASSUME pc[p] \in {"store", "storeNew"}
        PROVE  Unseen(<<p, sent[p] + 1>>)
    <2>1. sent[p] + 1 \in 1 .. MaxFiles /\ sent[p] \in Nat
      BY <1>2, NextSent
    <2>2. Unused(p, sent[p] + 1)
      BY <1>2, <2>1 DEF Unused
    <2>. QED  BY <2>1, <2>2 DEF Fresh
  <1>. QED  BY <1>1, <1>2

LEMMA UniqueStep ==
  ASSUME Bounds, TypeOK, Sending, Fresh, UniqueKeys, NEW p \in Requests, Step(p)
  PROVE  UniqueKeys'
  <1>1. SUFFICES ASSUME NEW m \in DOMAIN media', NEW n \in DOMAIN media',
                        media'[m].key = media'[n].key
                 PROVE  m = n
    BY DEF UniqueKeys
  <1>. DEFINE New(l) == \/ InsertRow(p) /\ l = KeyOf(p)
                        \/ UpdateRow(p) /\ Replacing(p) /\ l = req[p].id
  <1>2. ASSUME NEW l \in DOMAIN media', ~New(l)
        PROVE  l \in DOMAIN media /\ media'[l].key = media[l].key
    BY <1>2, RowsStep DEF RowsKept
  <1>3. ASSUME NEW l \in DOMAIN media', New(l)
        PROVE  /\ media'[l].key = KeyOf(p)
               /\ \A k \in DOMAIN media : media[k].key # KeyOf(p)
    <2>1. pc[p] = "insert" \/ Replacing(p)
      BY <1>3 DEF InsertRow
    <2>2. Unseen(KeyOf(p))
      BY <2>1, KeyUnseen
    <2>3. \/ media'[l].key = KeyOf(p)
          \/ l \in DOMAIN media /\ media'[l].key = media[l].key /\ UpdateRow(p) /\ Replacing(p)
             /\ l = req[p].id
      BY <1>3, <2>2, RowsStep DEF RowsKept, Unseen
    <2>4. ASSUME l \in DOMAIN media, UpdateRow(p), Replacing(p), l = req[p].id
          PROVE  media'[l].key = KeyOf(p)
      <3>1. media' = [media EXCEPT ![l].key = KeyOf(p), ![l].mime = MimeOf(p)]
        BY <2>4 DEF UpdateRow, Replacing
      <3>2. media[l] \in Row
        BY <2>4 DEF TypeOK
      <3>. QED  BY <2>4, <3>1, <3>2 DEF Row
    <2>. QED  BY <2>2, <2>3, <2>4 DEF Unseen
  <1>4. \A l \in DOMAIN media' : New(l) => \A k \in DOMAIN media' : New(k) => k = l
    BY DEF InsertRow, UpdateRow, Replacing
  <1>. QED  BY <1>1, <1>2, <1>3, <1>4 DEF UniqueKeys

LEMMA FreshStep ==
  ASSUME Bounds, TypeOK, Sending, Fresh, UniqueKeys, NEW p \in Requests, Step(p)
  PROVE  Fresh'
  <1>1. SUFFICES ASSUME NEW q \in Requests, NEW i \in 1 .. MaxFiles, Unused(q, i)'
                 PROVE  Unseen(<<q, i>>)'
    BY DEF Fresh
  <1>. DEFINE k == <<q, i>>
  <1>2. Unused(q, i) /\ ~((InsertRow(p) \/ UpdateRow(p)) /\ k = KeyOf(p))
    <2>1. CASE q # p
      BY <1>1, <2>1, Frame DEF Unused, KeyOf
    <2>2. CASE q = p /\ pc[p] = "idle"
      BY <2>2 DEF Unused, InsertRow, UpdateRow
    <2>3. CASE q = p /\ pc[p] # "idle"
      <3>1. Goes(p)
        BY <2>3, GoesStep
      <3>2. sent[p] \in Nat /\ i \in Nat
        BY DEF TypeOK, Bounds
      <3>3. CASE Store(p)
        <4>1. pc[p] = "store" /\ pc'[p] = "insert"
          BY <3>3 DEF Store, StoreFile, Goto, TypeOK
        <4>2. sent'[p] = sent[p] + 1
          BY <3>3, AddsStep DEF Adds
        <4>3. i >= sent[p] + 1
          BY <1>1, <2>3, <4>1, <4>2 DEF Unused
        <4>. QED  BY <2>3, <3>2, <4>1, <4>3 DEF Unused, InsertRow, UpdateRow
      <3>4. CASE InsertRow(p)
        <4>1. pc[p] = "insert" /\ pc'[p] \in {"store", "done"} /\ sent'[p] = sent[p]
          BY <3>4 DEF InsertRow, Goto, Finish, TypeOK
        <4>2. i > sent[p]
          BY <1>1, <2>3, <4>1 DEF Unused
        <4>. QED  BY <2>3, <3>2, <4>1, <4>2 DEF Unused, KeyOf
      <3>5. CASE ~Store(p) /\ ~InsertRow(p)
        BY <1>1, <2>3, <3>1, <3>5 DEF Goes, Unused, StoreNew, DeleteOld, UpdateRow
      <3>. QED  BY <3>3, <3>4, <3>5
    <2>. QED  BY <2>1, <2>2, <2>3
  <1>3. Unseen(k)
    BY <1>2 DEF Fresh
  <1>4. k \notin DOMAIN media' /\ \A m \in DOMAIN media' : media'[m].key # k
    <2>. HIDE DEF k
    <2>. QED  BY <1>2, <1>3, RowsStep DEF Unseen, RowsKept
  <1>5. ASSUME NEW r \in Requests
        PROVE  /\ k \notin found'[r]
               /\ req'[r].op \in {"update", "delete"} => req'[r].id # k
    <2>. HIDE DEF k
    <2>1. CASE r # p
      BY <1>3, <2>1, Frame DEF Unseen
    <2>2. CASE r = p /\ pc[p] = "idle"
      <3>1. Begins(p)
        BY <2>2, BeginsStep
      <3>. QED  BY <1>3, <2>2, <3>1 DEF Begins, Unseen
    <2>3. CASE r = p /\ pc[p] # "idle"
      <3>1. Goes(p)
        BY <2>3, GoesStep
      <3>2. req'[p] \in {req[p], NoRequest}
        BY <3>1 DEF Goes, InsertRow, UpdateRow, DeleteRow, SoftDelete, UpdateMany, DeleteOldRows,
             Goto, Finish, TypeOK
      <3>. QED  BY <1>3, <2>3, <3>1, <3>2 DEF Goes, Unseen, NoRequest
    <2>. QED  BY <2>1, <2>2, <2>3
  <1>. QED  BY <1>4, <1>5 DEF Unseen

----------------------------------------------------------------------------
(* What handlers at work rely on *)

\* A row whose key somebody has seen has had it before the step.
LEMMA OldRow ==
  ASSUME Bounds, TypeOK, Sending, Fresh, NEW p \in Requests, Step(p),
         NEW m \in DOMAIN media', ~Unseen(media'[m].key)
  PROVE  /\ m \in DOMAIN media /\ media'[m].key = media[m].key
         /\ media'[m].owner = media[m].owner
         /\ media'[m].deleted \in {media[m].deleted, "recent"}
  <1>1. CASE InsertRow(p) /\ m = KeyOf(p) /\ media'[m].key = m
    BY <1>1, KeyUnseen DEF InsertRow
  <1>2. CASE Replacing(p) /\ media'[m].key = KeyOf(p)
    BY <1>2, KeyUnseen
  <1>. QED  BY <1>1, <1>2, RowsStep DEF RowsKept

\* Disposed, after the step.
Gone(k) == <<k, "image">> \notin store' \/ k \in kept'

\* A seen file that is gone stays gone; an unseen one stays where it is.
LEMMA SeenFiles ==
  ASSUME Bounds, TypeOK, Sending, Fresh, NEW p \in Requests, Step(p), NEW k, ~Unseen(k),
         Disposed(k)
  PROVE  Disposed(k)'
  <1>1. CASE Keeps
    BY <1>1 DEF Keeps, Disposed
  <1>2. CASE Adds(p)
    <2>1. k # <<p, sent[p] + 1>>
      BY <1>2, KeyUnseen DEF Adds
    <2>. QED  BY <1>2, <2>1 DEF Adds, Disposed
  <1>3. CASE Removes(p)
    BY <1>3 DEF Removes, RemoveFile, Destroyed, Disposed
  <1>. QED  BY <1>1, <1>2, <1>3, StoreStep

LEMMA UnseenFiles ==
  ASSUME Bounds, TypeOK, Sending, NEW p \in Requests, Step(p), NEW k, Unseen(k), Stored(k)
  PROVE  Stored(k)'
  <1>1. CASE Keeps
    BY <1>1 DEF Keeps, Stored
  <1>2. CASE Adds(p)
    BY <1>2 DEF Adds, Stored
  <1>3. CASE Removes(p)
    BY <1>3 DEF Removes, RemoveFile, Destroyed, Stored, Unseen
  <1>. QED  BY <1>1, <1>2, <1>3, StoreStep

\* The handlers that do not step.
LEMMA OthersServed ==
  ASSUME Bounds, TypeOK, Sending, Fresh, Served, NEW p \in Requests, Step(p),
         NEW q \in Requests, q # p
  PROVE  Serving(q)'
  <1>1. pc'[q] = pc[q] /\ req'[q] = req[q] /\ found'[q] = found[q] /\ sent'[q] = sent[q]
    BY Frame
  <1>2. Serving(q)
    BY DEF Served
  <1>3. \A k \in found[q] : ~Unseen(k)
    BY DEF Unseen
  <1>4. ASSUME NEW m \in DOMAIN media', media'[m].key \in found[q]
        PROVE  /\ m \in DOMAIN media /\ media'[m].key = media[m].key
               /\ media'[m].deleted \in {media[m].deleted, "recent"}
    BY <1>3, <1>4, OldRow
  <1>5. ASSUME pc[q] = "insert" \/ Replacing(q)
        PROVE  Stored(KeyOf(q))'
    <2>1. Unseen(KeyOf(q)) /\ Stored(KeyOf(q))
      BY <1>2, <1>5, KeyUnseen DEF Serving
    <2>2. PICK k : k = KeyOf(q)
      OBVIOUS
    <2>3. Stored(k)'
      BY <2>1, <2>2, UnseenFiles
    <2>. QED  BY <1>1, <2>2, <2>3 DEF KeyOf, Stored
  <1>6. ASSUME pc[q] \in {"storeNew", "deleteRow"} \/ Replacing(q), NEW k \in found[q]
        PROVE  Disposed(k)'
    BY <1>2, <1>3, <1>6, SeenFiles DEF Serving
  <1>7. ASSUME pc[q] \in UpdatePc \cup DeletePc, NEW m, m = req[q].id, m \in DOMAIN media'
        PROVE  /\ m \in DOMAIN media
               /\ media'[m].owner = media[m].owner
               /\ media'[m].deleted \in {media[m].deleted, "recent"}
    <2>1. req[q].op \in {"update", "delete"}
      BY <1>7 DEF TypeOK
    <2>2. ~Unseen(m)
      BY <1>7, <2>1 DEF Unseen
    <2>3. ~(InsertRow(p) /\ m = KeyOf(p))
      BY <2>2, KeyUnseen DEF InsertRow
    <2>. QED  BY <1>7, <2>3, RowsStep DEF RowsKept
  <1>8. ASSUME pc[q] \in CleanupPc, NEW m \in DOMAIN media', media'[m].deleted = "old"
        PROVE  media'[m].key \in found[q] \/ Gone(media'[m].key)
    <2>1. /\ m \in DOMAIN media /\ media[m].deleted = "old"
          /\ \/ media'[m].key = media[m].key
             \/ Replacing(p) /\ m = req[p].id
      BY <1>8, RowsStep DEF RowsKept
    <2>2. ~(Replacing(p) /\ m = req[p].id)
      BY <2>1 DEF Served, Serving, Replacing, UpdatePc
    <2>3. PICK k : k = media[m].key
      OBVIOUS
    <2>4. k \in found[q] \/ Disposed(k)
      BY <1>2, <1>8, <2>1, <2>3 DEF Serving
    <2>5. ~Unseen(k)
      BY <2>1, <2>3 DEF Unseen
    <2>6. k \in found[q] \/ Gone(k)
      BY <2>4, <2>5, SeenFiles DEF Gone, Disposed
    <2>. QED  BY <2>1, <2>2, <2>3, <2>6
  <1>. QED
    <2>1. pc'[q] \in {"deleteOld", "deleteFile"} => \A k, l \in found'[q] : k = l
      BY <1>1, <1>2 DEF Serving
    <2>2. pc'[q] \in {"deleteOld", "deleteFile"} =>
            \A k \in found'[q], m \in DOMAIN media' : media'[m].key = k => m = req'[q].id
      BY <1>1, <1>2, <1>4 DEF Serving
    <2>3. pc'[q] = "deleteOldFiles" =>
            \A k \in found'[q], m \in DOMAIN media' : media'[m].key = k => media'[m].deleted # "no"
      BY <1>1, <1>2, <1>4 DEF Serving
    <2>4. pc'[q] = "insert" \/ Replacing(q)' => Stored(KeyOf(q))'
      BY <1>1, <1>5 DEF Replacing
    <2>5. pc'[q] \in {"storeNew", "deleteRow"} \/ Replacing(q)' =>
            \A k \in found'[q] : Disposed(k)'
      BY <1>1, <1>6 DEF Replacing
    <2>6. pc'[q] \in {"deleteFile", "deleteRow"} /\ req'[q].id \in DOMAIN media' =>
            media'[req'[q].id].owner = req'[q].user
      BY <1>1, <1>2, <1>7 DEF Serving, DeletePc
    <2>7. pc'[q] \in UpdatePc \cup DeletePc /\ req'[q].id \in DOMAIN media' =>
            media'[req'[q].id].deleted # "old"
      BY <1>1, <1>2, <1>7 DEF Serving
    <2>8. pc'[q] = "deleteOldRows" => found'[q] = {}
      BY <1>1, <1>2 DEF Serving
    <2>9. pc'[q] \in CleanupPc =>
            \A m \in DOMAIN media' :
              media'[m].deleted = "old" => media'[m].key \in found'[q] \/ Gone(media'[m].key)
      BY <1>1, <1>8
    <2>. QED  BY <2>1, <2>2, <2>3, <2>4, <2>5, <2>6, <2>7, <2>8, <2>9 DEF Serving, Disposed, Gone

\* The handler that begins.
LEMMA BeginsServed ==
  ASSUME Bounds, TypeOK, UniqueKeys, NEW p \in Requests, Begins(p), UNCHANGED media
  PROVE  Serving(p)'
  <1>. USE DEF UpdatePc, DeletePc, CleanupPc
  <1>1. CASE /\ pc'[p] \in {"deleteOld", "updateRow", "deleteFile", "softDelete"}
             /\ pc'[p] = "updateRow" => req'[p].files = <<>>
             /\ req'[p].id \in DOMAIN media /\ found'[p] = {media[req'[p].id].key}
             /\ media[req'[p].id].deleted = "no" /\ media[req'[p].id].owner = req'[p].user
    BY <1>1 DEF Serving, Replacing, UniqueKeys
  <1>2. CASE /\ pc'[p] = "deleteOldFiles"
             /\ found'[p] = {media[m].key : m \in {m \in DOMAIN media : Old(m)}}
    <2>1. \A m \in DOMAIN media : media[m].deleted = "old" => media[m].key \in found'[p]
      BY <1>2 DEF Old
    <2>2. \A m \in DOMAIN media : media[m].key \in found'[p] => media[m].deleted = "old"
      BY <1>2 DEF Old, UniqueKeys
    <2>. QED  BY <1>2, <2>1, <2>2 DEF Serving, Replacing
  <1>3. CASE pc'[p] \in {"store", "updateMany", "failed"}
    BY <1>3 DEF Serving, Replacing
  <1>. QED  BY <1>1, <1>2, <1>3 DEF Begins

\* The handler that goes on.
LEMMA GoesServed ==
  ASSUME Bounds, TypeOK, Sending, Fresh, Served, NEW p \in Requests, Step(p), Goes(p)
  PROVE  Serving(p)'
  <1>. USE DEF UpdatePc, DeletePc, CleanupPc
  <1>1. Serving(p)
    BY DEF Served
  <1>2. ASSUME Adds(p), pc'[p] = "insert" \/ Replacing(p)'
        PROVE  Stored(KeyOf(p))'
    BY <1>2 DEF Adds, Stored, KeyOf
  <1>3. CASE Store(p) /\ Adds(p) /\ pc'[p] = "insert"
    BY <1>2, <1>3 DEF Serving, Replacing
  <1>4. CASE StoreNew(p) /\ Adds(p) /\ pc'[p] = "updateRow"
    <2>1. /\ pc[p] = "storeNew" /\ found'[p] = found[p] /\ req'[p] = req[p] /\ media' = media
      BY <1>4 DEF StoreNew, Adds
    <2>2. ASSUME NEW k \in found[p]  PROVE Disposed(k)'
      <3>1. ~Unseen(k) /\ Disposed(k)
        BY <1>1, <2>1 DEF Unseen, Serving
      <3>. QED  BY <3>1, SeenFiles
    <2>3. Replacing(p)' => Stored(KeyOf(p))'
      BY <1>2, <1>4
    <2>. QED  BY <1>1, <1>4, <2>1, <2>2, <2>3 DEF Serving
  <1>5. CASE /\ Removes(p) /\ UNCHANGED <<sent, found>> /\ req'[p] = req[p]
             /\ \/ pc[p] = "deleteOld" /\ pc'[p] = "storeNew"
                \/ pc[p] = "deleteFile" /\ pc'[p] = "deleteRow"
    <2>1. PICK k \in found[p] : RemoveFile(k)
      BY <1>5 DEF Removes
    <2>2. Disposed(k)'
      BY <2>1 DEF RemoveFile, Destroyed, Disposed
    <2>3. \A l \in found[p] : l = k
      BY <1>1, <1>5 DEF Serving
    <2>4. media' = media
      BY <1>5 DEF Removes
    <2>5. \A l \in found'[p] : Disposed(l)'
      BY <1>5, <2>2, <2>3
    <2>. QED  BY <1>1, <1>5, <2>4, <2>5 DEF Serving, Replacing
  <1>6. CASE /\ pc[p] = "deleteOldFiles" /\ pc'[p] = "deleteOldRows" /\ found[p] = {}
             /\ UNCHANGED <<media, store, kept, found>>
    BY <1>1, <1>6 DEF Serving, Replacing, Disposed
  <1>7. CASE /\ DeleteOldFiles(p) /\ pc'[p] = "deleteOldFiles" /\ UNCHANGED media
    <2>1. PICK k \in found[p] : RemoveFile(k) /\ found' = [found EXCEPT ![p] = @ \ {k}]
      BY <1>7 DEF DeleteOldFiles, Goto, TypeOK
    <2>2. found'[p] = found[p] \ {k} /\ Gone(k)
      BY <2>1 DEF TypeOK, RemoveFile, Destroyed, Gone
    <2>3. pc[p] = "deleteOldFiles"
      BY <1>7 DEF DeleteOldFiles
    <2>4. ASSUME NEW m \in DOMAIN media, media[m].deleted = "old"
          PROVE  media[m].key \in found'[p] \/ Gone(media[m].key)
      <3>1. PICK l : l = media[m].key
        OBVIOUS
      <3>2. ~Unseen(l)
        BY <3>1 DEF Unseen
      <3>3. l \in found[p] \/ Disposed(l)
        BY <1>1, <2>3, <2>4, <3>1 DEF Serving
      <3>4. Disposed(l) => Gone(l)
        BY <3>2, SeenFiles DEF Gone, Disposed
      <3>. QED  BY <2>2, <3>1, <3>3, <3>4
    <2>5. \A l \in found'[p], m \in DOMAIN media : media[m].key = l => media[m].deleted # "no"
      BY <1>1, <2>2, <2>3 DEF Serving
    <2>. QED  BY <1>7, <2>4, <2>5 DEF Serving, Replacing, Disposed, Gone
  <1>8. CASE pc'[p] \in {"store", "done", "failed"}
    BY <1>8 DEF Serving, Replacing
  <1>. QED
    BY <1>3, <1>4, <1>5, <1>6, <1>7, <1>8
    DEF Goes, DeleteOld, DeleteFile, DeleteOldFiles

LEMMA ServedStep ==
  ASSUME Bounds, TypeOK, Sending, Fresh, UniqueKeys, Served, NEW p \in Requests, Step(p)
  PROVE  Served'
  <1>1. CASE pc[p] = "idle"
    <2>1. Serving(p)'
      BY <1>1, BeginsStep, BeginsServed
    <2>. QED  BY <2>1, OthersServed DEF Served
  <1>2. CASE pc[p] # "idle"
    <2>1. Serving(p)'
      BY <1>2, GoesStep, GoesServed
    <2>. QED  BY <2>1, OthersServed DEF Served
  <1>. QED  BY <1>1, <1>2

----------------------------------------------------------------------------
(* Files lost, and files left behind *)

LEMMA LostStep ==
  ASSUME Bounds, TypeOK, Sending, Fresh, UniqueKeys, Served, Lost, NEW p \in Requests, Step(p)
  PROVE  Lost'
  <1>1. SUFFICES ASSUME NEW m \in DOMAIN media', media'[m].deleted = "no",
                        NEW k, k = media'[m].key, ~Stored(k)'
                 PROVE  \E q \in Requests : Loses(q, m)'
    BY DEF Lost, Live, Stored
  <1>2. ~Unseen(k)
    <2>1. ASSUME pc[p] = "insert" \/ Replacing(p)  PROVE k # KeyOf(p)
      <3>1. Stored(KeyOf(p)) /\ Unseen(KeyOf(p))
        BY <2>1, KeyUnseen DEF Served, Serving
      <3>2. PICK l : l = KeyOf(p)
        OBVIOUS
      <3>3. Stored(l)'
        BY <3>1, <3>2, UnseenFiles
      <3>. QED  BY <1>1, <3>2, <3>3
    <2>2. m \in DOMAIN media /\ media[m].key = k
      BY <1>1, <2>1, RowsStep DEF RowsKept, InsertRow
    <2>. QED  BY <2>2 DEF Unseen
  <1>3. m \in DOMAIN media /\ media[m].key = k /\ media[m].deleted = "no"
    BY <1>1, <1>2, OldRow DEF TypeOK, Row
  <1>4. CASE Stored(k)
    <2>1. Removes(p) /\ k \in found[p]
      BY <1>1, <1>4, StoreStep DEF Keeps, Adds, Removes, RemoveFile, Destroyed, Stored
    <2>2. pc[p] \in {"deleteOld", "deleteFile"} /\ m = req[p].id
      BY <1>3, <2>1 DEF Removes, Served, Serving
    <2>3. req[p].op \in {"update", "delete"}
      BY <2>2 DEF TypeOK, UpdatePc, DeletePc
    <2>4. Goes(p)
      BY <2>2, GoesStep
    <2>5. \/ DeleteOld(p) /\ pc'[p] = "storeNew"
          \/ DeleteFile(p) /\ pc'[p] = "deleteRow"
          \/ pc'[p] = "failed"
      BY <2>2, <2>4 DEF Goes, Store, StoreNew, InsertRow, DeleteOldFiles, UpdateRow, DeleteRow,
           SoftDelete, UpdateMany, DeleteOldRows
    <2>6. req'[p] = req[p]
      BY <2>4, <2>5 DEF Goes
    <2>7. Loses(p, m)'
      BY <2>2, <2>3, <2>5, <2>6 DEF Loses
    <2>. QED  BY <2>7
  <1>5. CASE ~Stored(k)
    <2>1. PICK q \in Requests : Loses(q, m)
      BY <1>3, <1>5 DEF Lost, Live
    <2>2. CASE q # p
      BY <2>1, <2>2, Frame DEF Loses, Replacing
    <2>3. CASE q = p
      <3>1. pc[p] \in {"storeNew", "deleteRow"} \/ Replacing(p)
        BY <2>1, <2>3, Frame DEF Loses
      <3>2. Goes(p)
        BY <3>1, GoesStep DEF Replacing
      <3>3. ~DeleteRow(p)
        BY <1>1, <2>1, <2>3 DEF DeleteRow, Without, Loses
      <3>4. ~UpdateRow(p)
        <4>1. ASSUME UpdateRow(p)  PROVE media'[m].key = KeyOf(p) /\ Replacing(p)
          <5>1. Replacing(p)
            BY <3>1, <4>1 DEF UpdateRow
          <5>2. media' = [media EXCEPT ![m].key = KeyOf(p), ![m].mime = MimeOf(p)]
            BY <2>1, <2>3, <4>1, <5>1 DEF UpdateRow, Replacing, Loses
          <5>3. media[m] \in Row
            BY <1>3 DEF TypeOK
          <5>. QED  BY <1>3, <5>1, <5>2, <5>3 DEF Row
        <4>. QED  BY <1>1, <1>2, <4>1, KeyUnseen
      <3>5. \/ StoreNew(p) /\ Adds(p) /\ pc'[p] = "updateRow"
            \/ pc'[p] = "failed"
        BY <3>1, <3>2, <3>3, <3>4 DEF Goes, Store, InsertRow, DeleteOld, DeleteFile,
             DeleteOldFiles, SoftDelete, UpdateMany, DeleteOldRows, Replacing
      <3>6. req'[p] = req[p]
        BY <3>2, <3>5 DEF Goes
      <3>7. StoreNew(p) => req[p].files # <<>>
        BY DEF StoreNew, Sending
      <3>8. Loses(p, m)'
        BY <2>1, <2>3, <3>5, <3>6, <3>7 DEF Loses, Replacing
      <3>. QED  BY <3>8
    <2>. QED  BY <2>2, <2>3
  <1>. QED  BY <1>4, <1>5

\* A row keeps its key, unless one of three statements takes it.
LEMMA RowsGone ==
  ASSUME Bounds, TypeOK, Sending, Fresh, NEW p \in Requests, Step(p), NEW m \in DOMAIN media
  PROVE  \/ m \in DOMAIN media' /\ media'[m].key = media[m].key
         \/ DeleteRow(p) /\ m = req[p].id
         \/ UpdateRow(p) /\ Replacing(p) /\ m = req[p].id
         \/ DeleteOldRows(p) /\ media[m].deleted = "old"
  <1>0. media[m] \in Row
    BY DEF TypeOK
  <1>1. CASE InsertRow(p)
    <2>1. m # KeyOf(p)
      BY <1>1, KeyUnseen DEF InsertRow, Unseen
    <2>. QED  BY <1>1, <2>1 DEF InsertRow
  <1>2. CASE UpdateRow(p)
    BY <1>0, <1>2 DEF UpdateRow, Replacing, Row
  <1>3. CASE SoftDelete(p) \/ UpdateMany(p)
    <2>. DEFINE row == [media[m] EXCEPT !.deleted = "recent"]
    <2>1. row.key = media[m].key
      BY <1>0 DEF Row
    <2>2. m \in DOMAIN media' /\ media'[m] \in {media[m], row}
      BY <1>3 DEF SoftDelete, UpdateMany
    <2>. QED  BY <2>1, <2>2
  <1>4. CASE DeleteRow(p) \/ DeleteOldRows(p)
    BY <1>4 DEF DeleteRow, DeleteOldRows, Without, Old
  <1>5. CASE UNCHANGED media
    BY <1>5
  <1>6. \/ InsertRow(p) \/ UpdateRow(p) \/ SoftDelete(p) \/ UpdateMany(p)
        \/ DeleteRow(p) \/ DeleteOldRows(p) \/ UNCHANGED media
    BY DEF Step, ReceiveUpload, FindForUpdate, FindForDelete, FindMany, FindOld, Begin, Refuse,
         Store, StoreNew, StoreFile, DeleteOld, DeleteFile, DeleteOldFiles, RowMissing, Crash,
         Throw
  <1>. QED  BY <1>1, <1>2, <1>3, <1>4, <1>5, <1>6

LEMMA OrphansStep ==
  ASSUME Bounds, TypeOK, Sending, Fresh, UniqueKeys, Served, Orphans, NEW p \in Requests, Step(p)
  PROVE  Orphans'
  <1>1. SUFFICES ASSUME NEW q \in Requests, NEW i \in 1 .. MaxFiles, NEW k, k = <<q, i>>,
                        <<k, "image">> \in store',
                        ~\E m \in DOMAIN media' : media'[m].key = k,
                        k \notin kept', k \notin overtaken'
                 PROVE  \/ pc'[q] \in {"insert", "updateRow"} /\ i = sent'[q]
                        \/ pc'[q] = "failed"
    BY DEF Orphans
  <1>2. k \notin kept /\ k \notin overtaken
    BY <1>1, Frame
  <1>3. ASSUME NEW m \in DOMAIN media, media[m].key = k
        PROVE  FALSE
    <2>1. ~Gone(k) /\ ~Unseen(k)
      BY <1>1, <1>3 DEF Gone, Unseen
    <2>2. ~Disposed(k)
      BY <2>1, SeenFiles DEF Gone, Disposed
    <2>3. CASE \/ DeleteRow(p) /\ m = req[p].id
               \/ UpdateRow(p) /\ Replacing(p) /\ m = req[p].id
      <3>1. \A l \in found[p] : Disposed(l)
        BY <2>3 DEF Served, Serving, DeleteRow
      <3>2. overtaken' = overtaken \cup ({media[m].key} \ found[p])
        BY <2>3 DEF DeleteRow, UpdateRow, Replacing
      <3>. QED  BY <1>1, <1>3, <2>2, <3>1, <3>2
    <2>4. CASE DeleteOldRows(p) /\ media[m].deleted = "old"
      BY <1>3, <2>2, <2>4 DEF DeleteOldRows, Served, Serving, CleanupPc
    <2>. QED  BY <1>1, <1>3, <2>3, <2>4, RowsGone
  <1>4. CASE <<k, "image">> \notin store
    <2>1. Adds(p) /\ k = <<p, sent[p] + 1>>
      BY <1>1, <1>4, StoreStep DEF Keeps, Adds, Removes, RemoveFile, Destroyed
    <2>. QED  BY <1>1, <2>1 DEF Adds
  <1>5. CASE <<k, "image">> \in store
    <2>1. \/ pc[q] \in {"insert", "updateRow"} /\ i = sent[q]
          \/ pc[q] = "failed"
      BY <1>1, <1>2, <1>3, <1>5 DEF Orphans
    <2>2. CASE q # p
      BY <2>1, <2>2, Frame
    <2>3. CASE q = p
      <3>1. pc[p] \in {"insert", "updateRow"} /\ i = sent[p]
        BY <2>1, <2>3, Frame
      <3>2. Goes(p)
        BY <3>1, GoesStep
      <3>3. ~InsertRow(p)
        <4>1. ASSUME InsertRow(p)  PROVE KeyOf(p) \in DOMAIN media' /\ media'[KeyOf(p)].key = KeyOf(p)
          BY <4>1 DEF InsertRow
        <4>. QED  BY <1>1, <2>3, <3>1, <4>1 DEF KeyOf
      <3>4. ~UpdateRow(p)
        <4>1. ASSUME UpdateRow(p)  PROVE FALSE
          <5>1. sent[p] # 0 /\ pc[p] = "updateRow"
            BY <3>1, <4>1 DEF UpdateRow, Bounds
          <5>2. Len(req[p].files) = 1 /\ req[p].files # <<>>
            BY <5>1 DEF Sending
          <5>3. media' = [media EXCEPT ![req[p].id].key = KeyOf(p), ![req[p].id].mime = MimeOf(p)]
                /\ req[p].id \in DOMAIN media
            BY <4>1, <5>2 DEF UpdateRow
          <5>4. media[req[p].id] \in Row
            BY <5>3 DEF TypeOK
          <5>5. req[p].id \in DOMAIN media' /\ media'[req[p].id].key = KeyOf(p)
            BY <5>3, <5>4 DEF Row
          <5>. QED  BY <1>1, <2>3, <3>1, <5>5 DEF KeyOf
        <4>. QED  BY <4>1
      <3>5. pc'[p] = "failed"
        BY <3>1, <3>2, <3>3, <3>4 DEF Goes, Store, StoreNew, DeleteOld, DeleteFile, DeleteRow,
             DeleteOldFiles, SoftDelete, UpdateMany, DeleteOldRows
      <3>. QED  BY <2>3, <3>5
    <2>. QED  BY <2>2, <2>3
  <1>. QED  BY <1>4, <1>5

----------------------------------------------------------------------------

\* The retention period passes.
LEMMA AgeStep ==
  ASSUME Bounds, Inv, NEW m \in Keys, Age(m)
  PROVE  Inv'
  <1>. DEFINE row == [media[m] EXCEPT !.deleted = "old"]
  <1>. USE DEF Inv
  <1>1. /\ m \in DOMAIN media /\ media[m] \in Row /\ media[m].deleted = "recent"
        /\ media' = [media EXCEPT ![m] = row]
        /\ UNCHANGED <<store, pc, req, found, sent, kept, overtaken>>
    BY DEF Age, TypeOK
  <1>2. row \in Row /\ row.key = media[m].key /\ row.deleted = "old"
    BY <1>1 DEF Row
  <1>. HIDE DEF row
  <1>3. /\ DOMAIN media' = DOMAIN media /\ media'[m] = row
        /\ \A n \in DOMAIN media \ {m} : media'[n] = media[n]
        /\ media' \in [DOMAIN media -> Row]
    BY <1>1, <1>2 DEF TypeOK
  <1>4. \A n \in DOMAIN media : /\ media'[n].key = media[n].key
                                /\ media'[n].deleted = "no" => media[n].deleted = "no"
    BY <1>1, <1>2, <1>3
  <1>5. TypeOK'
    BY <1>1, <1>3 DEF TypeOK
  <1>6. Sending'
    BY <1>1 DEF Sending
  <1>7. Fresh'
    <2>1. ASSUME NEW q \in Requests, NEW i \in 1 .. MaxFiles, Unused(q, i)'
          PROVE  Unseen(<<q, i>>)'
      <3>1. Unseen(<<q, i>>)
        BY <1>1, <2>1 DEF Fresh, Unused
      <3>. QED  BY <1>1, <1>3, <1>4, <3>1 DEF Unseen
    <2>. QED  BY <2>1 DEF Fresh
  <1>8. UniqueKeys'
    BY <1>3, <1>4 DEF UniqueKeys
  <1>9. Served'
    BY <1>1 DEF Served, Serving, Replacing, Age, UpdatePc, DeletePc, CleanupPc
  <1>10. Lost'
    BY <1>1, <1>3, <1>4 DEF Lost, Live, Stored, Loses, Replacing
  <1>11. Orphans'
    BY <1>1, <1>3, <1>4 DEF Orphans
  <1>. QED  BY <1>5, <1>6, <1>7, <1>8, <1>9, <1>10, <1>11

\* The inductive invariant: what handlers rely on, what unused names are good
\* for, and who answers for a missing or a superfluous file.
THEOREM InvInductive ==
  ASSUME Bounds
  PROVE  /\ Init => Inv
         /\ Inv /\ [Next]_vars => Inv'
  <1>1. ASSUME Inv, NEW p \in Requests, Step(p)  PROVE Inv'
    BY <1>1, TypesStep, SendingStep, FreshStep, UniqueStep, ServedStep, LostStep, OrphansStep
    DEF Inv
  <1>2. ASSUME Inv, UNCHANGED vars  PROVE Inv'
    <2>. USE <1>2 DEF vars, Inv
    <2>1. TypeOK' /\ Sending' /\ UniqueKeys' /\ Orphans'
      BY DEF TypeOK, Sending, UniqueKeys, Orphans
    <2>2. Fresh'
      BY DEF Fresh, Unused, Unseen
    <2>3. Served'
      BY DEF Served, Serving, Replacing, Disposed, Stored, KeyOf
    <2>4. Lost'
      BY DEF Lost, Loses, Live, Stored, Replacing
    <2>. QED  BY <2>1, <2>2, <2>3, <2>4
  <1>. QED  BY <1>1, <1>2, AgeStep, InvInit DEF Next

THEOREM InvHolds == ASSUME Bounds  PROVE Spec => []Inv
  <1>. QED  BY InvInductive, PTL DEF Spec

\* TypeOK: rows, files and handlers have their types (src/media).
THEOREM TypesHold == ASSUME Bounds  PROVE Spec => []TypeOK
  <1>1. Inv => TypeOK
    BY DEF Inv
  <1>. QED  BY <1>1, InvHolds, PTL

\* LiveRowsHaveFiles: a row without its file is one that update or a permanent
\* delete is working on, or was when it failed (media.service.ts).
THEOREM FilesHold == ASSUME Bounds  PROVE Spec => []LiveRowsHaveFiles
  <1>1. Inv => LiveRowsHaveFiles
    BY DEF Inv, Lost, Loses, Replacing, LiveRowsHaveFiles
  <1>. QED  BY <1>1, InvHolds, PTL

\* OrphansExplained: no image is left behind by calls that all succeed, one
\* after the other, and whose deletions the store accepts.
THEOREM OrphansHold == ASSUME Bounds  PROVE Spec => []OrphansExplained
  <1>1. Inv => OrphansExplained
    BY DEF Inv, Orphans, OrphansExplained
  <1>. QED  BY <1>1, InvHolds, PTL
=============================================================================
