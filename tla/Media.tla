------------------------------- MODULE Media -------------------------------
(***************************************************************************)
(* Uploaded files (src/media): rows of the table media, and the files they *)
(* name in Cloudinary's store.  No transaction spans the two, so each      *)
(* operation is a row of awaits, any of which may be its last.             *)
(*                                                                         *)
(* Each member of Requests is one call of MediaService, taken up with its  *)
(* first statement, before which it reads nothing.  A key ends in a fresh  *)
(* UUID, so a file, and the row inserted for it, are named after the call  *)
(* that uploads it and the file's place in that call.                      *)
(***************************************************************************)
EXTENDS Naturals, Sequences

CONSTANTS
  Requests,      \* the calls served
  Users,         \* uploaders
  Files,         \* what may be uploaded: records of mime type and size
  MaxFiles,      \* files in one call of uploadMultiple, 10 in the controller
  AllowedTypes,  \* ALLOWED_IMAGE_TYPES and ALLOWED_VIDEO_TYPES
  MaxFileSize    \* MAX_FILE_SIZE

VARIABLES
  media,         \* the rows, a function on the ids in the table
  store,         \* the files stored, each with its resource type
  pc,            \* the statement a handler awaits next
  req,           \* the request a handler serves
  found,         \* the rows a handler has read and still needs
  sent,          \* how many of its files a handler has handed to the store
  \* History, read by no handler:
  kept,          \* files whose deletion failed and was swallowed
  overtaken      \* files a row named when a handler that had read an older
                 \* name of the row replaced it, or deleted the row

vars == <<media, store, pc, req, found, sent, kept, overtaken>>

----------------------------------------------------------------------------
(* Files, rows and requests *)

Mimes == {"image", "video", "audio", "document", "archive", "other"}
Keys == Requests \X (1 .. MaxFiles)

\* deleted tells how long ago a row was soft-deleted: not at all, within the
\* retention period of cleanupDeleted, or before.
Row == [owner: Users, key: Keys, mime: Mimes, deleted: {"no", "recent", "old"}]

UploadRequest == [op: {"upload"}, user: Users, files: Seq(Files)]
UpdateRequest == [op: {"update"}, user: Users, id: Keys, files: Seq(Files)]
DeleteRequest == [op: {"delete"}, user: Users, id: Keys]
BulkRequest   == [op |-> "deleteMany"]
CleanupRequest == [op |-> "cleanup"]
NoRequest     == [op |-> "none"]

UploadPc  == {"store", "insert"}
UpdatePc  == {"deleteOld", "storeNew", "updateRow"}
DeletePc  == {"deleteFile", "deleteRow", "softDelete"}
BulkPc    == {"updateMany"}
CleanupPc == {"deleteOldFiles", "deleteOldRows"}
AwaitPc   == UploadPc \cup UpdatePc \cup DeletePc \cup BulkPc \cup CleanupPc

Validated(f) == f.size <= MaxFileSize /\ f.mime \in AllowedTypes

\* The provider stores audio as video, and what is neither as raw.
GetResourceType(mime) ==
  CASE mime = "image" -> "image"
    [] mime \in {"video", "audio"} -> "video"
    [] OTHER -> "raw"

Stored(k) == \E type \in {"image", "video", "raw"} : <<k, type>> \in store

\* destroy is called without a resource type, which then is "image": a file
\* of another type is "not found", and that is no error.
Destroyed(k) == store \ {<<k, "image">>}

Live(m) == m \in DOMAIN media /\ media[m].deleted = "no"
Without(ids) == [m \in DOMAIN media \ ids |-> media[m]]

----------------------------------------------------------------------------

Init ==
  /\ media = [m \in {} |-> NoRequest]
  /\ store = {}
  /\ pc = [p \in Requests |-> "idle"]
  /\ req = [p \in Requests |-> NoRequest]
  /\ found = [p \in Requests |-> {}]
  /\ sent = [p \in Requests |-> 0]
  /\ kept = {}
  /\ overtaken = {}

\* A call is taken up, having read rows (or, of one row, the key).
Begin(p, r, first, reads) ==
  /\ pc[p] = "idle"
  /\ pc' = [pc EXCEPT ![p] = first]
  /\ req' = [req EXCEPT ![p] = r]
  /\ found' = [found EXCEPT ![p] = reads]
  /\ UNCHANGED <<media, store, sent, kept, overtaken>>

Refuse(p) ==
  /\ pc[p] = "idle"
  /\ pc' = [pc EXCEPT ![p] = "failed"]
  /\ UNCHANGED <<media, store, req, found, sent, kept, overtaken>>

Goto(p, next) == pc' = [pc EXCEPT ![p] = next] /\ UNCHANGED req

Finish(p) ==
  /\ pc' = [pc EXCEPT ![p] = "done"]
  /\ req' = [req EXCEPT ![p] = NoRequest]
  /\ found' = [found EXCEPT ![p] = {}]

Throw(p) ==
  /\ pc' = [pc EXCEPT ![p] = "failed"]
  /\ found' = [found EXCEPT ![p] = {}]
  /\ UNCHANGED <<media, store, req, sent, kept, overtaken>>

\* storage.delete(k): the file is gone, or the error is caught and logged.
RemoveFile(k) ==
  \/ store' = Destroyed(k) /\ UNCHANGED kept
  \/ UNCHANGED store /\ kept' = kept \cup {k}

----------------------------------------------------------------------------
(* uploadSingle, and uploadMultiple, which calls it for one file at a time *)

ReceiveUpload(p, u, fs) ==
  /\ \A i \in DOMAIN fs : Validated(fs[i])
  /\ Begin(p, [op |-> "upload", user |-> u, files |-> fs], "store", {})

\* The file p has sent last, and its type.
KeyOf(p)  == <<p, sent[p]>>
MimeOf(p) == req[p].files[sent[p]].mime

\* storage.upload resolves with the key it was given.
StoreFile(p, next) ==
  LET n == sent[p] + 1
  IN  /\ store' = store \cup {<<<<p, n>>, GetResourceType(req[p].files[n].mime)>>}
      /\ sent' = [sent EXCEPT ![p] = n]
      /\ Goto(p, next)
      /\ UNCHANGED <<media, found, kept, overtaken>>

Store(p) == pc[p] = "store" /\ StoreFile(p, "insert")

\* Mutant of InsertRow: the row of the next file is inserted with this one's.
InsertAhead(p) ==
  LET k == <<p, Len(req[p].files)>>
      row == [owner |-> req[p].user, key |-> k, mime |-> MimeOf(p),
              deleted |-> "no"]
  IN  /\ pc[p] = "insert"
      /\ media' = [m \in DOMAIN media \cup {k} |->
                     IF m = k THEN row ELSE media[m]]
      /\ \/ sent[p] < Len(req[p].files) /\ Goto(p, "store") /\ UNCHANGED found
         \/ sent[p] = Len(req[p].files) /\ Finish(p)
      /\ UNCHANGED <<store, sent, kept, overtaken>>

InsertRow(p) ==
  LET row == [owner |-> req[p].user, key |-> KeyOf(p), mime |-> MimeOf(p),
              deleted |-> "no"]
  IN  /\ pc[p] = "insert"
      /\ media' = [m \in DOMAIN media \cup {KeyOf(p)} |->
                     IF m = KeyOf(p) THEN row ELSE media[m]]
      /\ \/ sent[p] < Len(req[p].files) /\ Goto(p, "store") /\ UNCHANGED found
         \/ sent[p] = Len(req[p].files) /\ Finish(p)
      /\ UNCHANGED <<store, sent, kept, overtaken>>

----------------------------------------------------------------------------
(* update: the old file goes, the new one comes, the row follows *)

\* findFirst finds the row, and it is the caller's.
Mine(u, m) == Live(m) /\ media[m].owner = u

\* files is empty when only the texts of the row change.
FindForUpdate(p, u, m, fs) ==
  IF Mine(u, m) /\ \A i \in DOMAIN fs : Validated(fs[i])
  THEN Begin(p, [op |-> "update", user |-> u, id |-> m, files |-> fs],
             IF fs = <<>> THEN "updateRow" ELSE "deleteOld", {media[m].key})
  ELSE Refuse(p)

DeleteOld(p) ==
  /\ pc[p] = "deleteOld"
  /\ \E k \in found[p] : RemoveFile(k)
  /\ Goto(p, "storeNew")
  /\ UNCHANGED <<media, found, sent, overtaken>>

StoreNew(p) == pc[p] = "storeNew" /\ StoreFile(p, "updateRow")

\* The row is found by its id alone: it may be soft-deleted by now.
UpdateRow(p) ==
  LET m == req[p].id
  IN  /\ pc[p] = "updateRow"
      /\ m \in DOMAIN media
      /\ \/ /\ req[p].files # <<>>
            /\ media' = [media EXCEPT ![m].key = KeyOf(p), ![m].mime = MimeOf(p)]
            /\ overtaken' = overtaken \cup ({media[m].key} \ found[p])
         \/ req[p].files = <<>> /\ UNCHANGED <<media, overtaken>>
      /\ Finish(p)
      /\ UNCHANGED <<store, sent, kept>>

----------------------------------------------------------------------------
(* delete and deleteMany *)

FindForDelete(p, u, m, permanent) ==
  IF Mine(u, m)
  THEN Begin(p, [op |-> "delete", user |-> u, id |-> m],
             IF permanent THEN "deleteFile" ELSE "softDelete", {media[m].key})
  ELSE Refuse(p)

DeleteFile(p) ==
  /\ pc[p] = "deleteFile"
  /\ \E k \in found[p] : RemoveFile(k)
  /\ Goto(p, "deleteRow")
  /\ UNCHANGED <<media, found, sent, overtaken>>

DeleteRow(p) ==
  LET m == req[p].id
  IN  /\ pc[p] = "deleteRow"
      /\ m \in DOMAIN media
      /\ media' = Without({m})
      /\ overtaken' = overtaken \cup ({media[m].key} \ found[p])
      /\ Finish(p)
      /\ UNCHANGED <<store, sent, kept>>

SoftDelete(p) ==
  /\ pc[p] = "softDelete"
  /\ req[p].id \in DOMAIN media
  /\ media' = [media EXCEPT ![req[p].id].deleted = "recent"]
  /\ Finish(p)
  /\ UNCHANGED <<store, sent, kept, overtaken>>

\* P2025: the row that an update or a delete names is gone.
RowMissing(p) ==
  /\ pc[p] \in {"updateRow", "deleteRow", "softDelete"}
  /\ req[p].id \notin DOMAIN media
  /\ Throw(p)

FindMany(p, u, ids) ==
  LET mine == {m \in ids : Mine(u, m)}
  IN  /\ mine # {}
      /\ Begin(p, BulkRequest, "updateMany", mine)

\* updateMany writes those of the rows that still exist.
UpdateMany(p) ==
  /\ pc[p] = "updateMany"
  /\ media' = [m \in DOMAIN media |->
       IF m \in found[p] THEN [media[m] EXCEPT !.deleted = "recent"] ELSE media[m]]
  /\ Finish(p)
  /\ UNCHANGED <<store, sent, kept, overtaken>>

----------------------------------------------------------------------------
(* cleanupDeleted *)

\* A retention period passes, which no call outlives.
Age(m) ==
  /\ \A p \in Requests : pc[p] \in {"idle", "done", "failed"}
  /\ m \in DOMAIN media
  /\ media[m].deleted = "recent"
  /\ media' = [media EXCEPT ![m].deleted = "old"]
  /\ UNCHANGED <<store, pc, req, found, sent, kept, overtaken>>

Old(m) == m \in DOMAIN media /\ media[m].deleted = "old"

FindOld(p) ==
  Begin(p, CleanupRequest, "deleteOldFiles",
        {media[m].key : m \in {m \in DOMAIN media : Old(m)}})

\* One storage.delete of the loop, or its end.
DeleteOldFiles(p) ==
  /\ pc[p] = "deleteOldFiles"
  /\ \/ \E k \in found[p] : /\ RemoveFile(k)
                            /\ found' = [found EXCEPT ![p] = @ \ {k}]
                            /\ UNCHANGED pc
     \/ found[p] = {} /\ Goto(p, "deleteOldRows") /\ UNCHANGED <<store, found, kept>>
  /\ UNCHANGED <<media, req, sent, overtaken>>

\* Mutant of DeleteOldRows: whatever is soft-deleted by now goes.
DeleteDeletedRows(p) ==
  /\ pc[p] = "deleteOldRows"
  /\ media' = Without({m \in DOMAIN media : media[m].deleted # "no"})
  /\ Finish(p)
  /\ UNCHANGED <<store, sent, kept, overtaken>>

\* deleteMany asks again, with the cutoff computed when the call began.
DeleteOldRows(p) ==
  /\ pc[p] = "deleteOldRows"
  /\ media' = Without({m \in DOMAIN media : Old(m)})
  /\ Finish(p)
  /\ UNCHANGED <<store, sent, kept, overtaken>>

\* The awaited call rejects, or the instance dies.  A statement that commits
\* unnoticed is the statement followed by Crash.
Crash(p) == pc[p] \in AwaitPc /\ Throw(p)

----------------------------------------------------------------------------

\* One or MaxFiles files; both routes take at least one.
Batches == UNION {[1 .. n -> Files] : n \in 1 .. MaxFiles}

Step(p) ==
  \/ \E u \in Users, fs \in Batches : ReceiveUpload(p, u, fs)
  \/ \E u \in Users, m \in Keys, fs \in {<<>>} \cup {<<f>> : f \in Files} :
       FindForUpdate(p, u, m, fs)
  \/ \E u \in Users, m \in Keys, permanent \in BOOLEAN :
       FindForDelete(p, u, m, permanent)
  \/ \E u \in Users, ids \in SUBSET DOMAIN media : FindMany(p, u, ids)
  \/ Store(p) \/ InsertRow(p)
  \/ DeleteOld(p) \/ StoreNew(p) \/ UpdateRow(p)
  \/ DeleteFile(p) \/ DeleteRow(p) \/ SoftDelete(p)
  \/ RowMissing(p) \/ UpdateMany(p)
  \/ FindOld(p) \/ DeleteOldFiles(p) \/ DeleteOldRows(p)
  \/ Crash(p)

Next == (\E p \in Requests : Step(p)) \/ (\E m \in Keys : Age(m))

Spec == Init /\ [][Next]_vars

----------------------------------------------------------------------------
(* Properties *)

\* Rows, files and handlers have their types.
TypeOK ==
  /\ DOMAIN media \subseteq Keys
  /\ media \in [DOMAIN media -> Row]
  /\ store \subseteq Keys \X {"image", "video", "raw"}
  /\ pc \in [Requests -> AwaitPc \cup {"idle", "done", "failed"}]
  /\ req \in [Requests -> UploadRequest \cup UpdateRequest \cup DeleteRequest
                            \cup {BulkRequest, CleanupRequest, NoRequest}]
  /\ sent \in [Requests -> 0 .. MaxFiles]
  /\ found \in [Requests -> SUBSET Keys]
  /\ kept \subseteq Keys
  /\ overtaken \subseteq Keys
  /\ \A p \in Requests :
       /\ pc[p] \in UploadPc => req[p].op = "upload"
       /\ pc[p] \in UpdatePc => req[p].op = "update"
       /\ pc[p] \in DeletePc => req[p].op = "delete"
       /\ pc[p] \in BulkPc => req[p].op = "deleteMany"

\* The file of a row that is not deleted is in the store, except while an
\* update or a permanent delete of the row is between the file and the row, or
\* after one has failed there: only such a failure loses a file for good.
LiveRowsHaveFiles ==
  \A m \in DOMAIN media :
    Live(m) /\ ~Stored(media[m].key) =>
      \E p \in Requests : /\ req[p].op \in {"update", "delete"}
                          /\ req[p].id = m
                          /\ pc[p] \in {"storeNew", "updateRow", "deleteRow", "failed"}

\* A file in the store that no row names is about to get its row, or its call
\* failed first, or it is no image (and destroy cannot find it), or its
\* deletion failed, or two calls replaced the file of one row at once.
OrphansExplained ==
  \A p \in Requests, i \in 1 .. MaxFiles :
    LET k == <<p, i>>
    IN  /\ <<k, "image">> \in store
        /\ ~\E m \in DOMAIN media : media[m].key = k
        => pc[p] # "done" \/ k \in kept \cup overtaken
=============================================================================
