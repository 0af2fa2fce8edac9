----------------------------- MODULE Wishlists -----------------------------
(***************************************************************************)
(* Wishlists (src/wishlists).  A stranger may see a wishlist that is not   *)
(* private: its row and its items are read in two statements.              *)
(*                                                                         *)
(* Each member of Requests is one HTTP request, taken up with its first    *)
(* statement, before which it reads nothing; a wishlist is named after the *)
(* request that inserts it.                                                *)
(***************************************************************************)
CONSTANTS
  Requests,    \* the HTTP requests served
  Existing,    \* wishlists created before
  Users,       \* rows of users
  Places       \* listings that exist at first

VARIABLES
  wishlists,   \* the rows, a function on the ids in the table
  items,       \* the listings of each wishlist, unique and cascading
  places,      \* the listings that exist
  pc,          \* the statement a handler awaits next
  req,         \* the request a handler serves
  shown,       \* the items a handler has read
  \* History, read by no handler:
  shared,      \* listings that were in a wishlist while it was public
  hidden       \* readers whose wishlist was made private after their check

history == <<shared, hidden>>
vars == <<wishlists, items, places, pc, req, shown, history>>

Ids == Requests \cup Existing

Wishlist == [owner: Users, private: BOOLEAN]
Request  == [op: {"read", "update", "delete", "findItem", "removeItem"},
             user: Users, id: Ids, private: BOOLEAN, place: Places]
NoRequest == [op |-> "none"]
AwaitPc == {"readItems", "respond", "update", "delete", "findItem",
            "insertItem", "removeItem"}

Init ==
  /\ wishlists \in [Existing -> Wishlist]
  /\ items = [w \in Ids |-> {}]
  /\ places = Places
  /\ pc = [p \in Requests |-> "idle"]
  /\ req = [p \in Requests |-> NoRequest]
  /\ shown = [p \in Requests |-> {}]
  /\ shared = [w \in Ids |-> {}]
  /\ hidden = {}

Goto(p, next) == pc' = [pc EXCEPT ![p] = next] /\ UNCHANGED req

End(p, how) ==
  /\ pc' = [pc EXCEPT ![p] = how]
  /\ req' = [req EXCEPT ![p] = NoRequest]
  /\ shown' = [shown EXCEPT ![p] = {}]

Finish(p) == End(p, "done")
Throw(p)  == End(p, "failed") /\ UNCHANGED <<wishlists, items, places, history>>

\* Rows and items after a write, and what strangers may see of them.
Write(w, row, content) ==
  /\ wishlists' = [v \in DOMAIN wishlists \cup {w} |-> IF v = w THEN row ELSE wishlists[v]]
  /\ items' = [items EXCEPT ![w] = content]
  /\ shared' = IF row.private THEN shared ELSE [shared EXCEPT ![w] = @ \cup content]
  /\ hidden' = IF row.private
               THEN hidden \cup {p \in Requests : pc[p] = "readItems" /\ req[p].id = w}
               ELSE hidden

CreateWishlist(p, u, private) ==
  /\ pc[p] = "idle"
  /\ Write(p, [owner |-> u, private |-> private], {})
  /\ Finish(p)
  /\ UNCHANGED places

\* Mutant of Allowed: anyone may read any wishlist.
AllowedUnchecked(q) ==
  /\ q.id \in DOMAIN wishlists
  /\ wishlists[q.id].owner = q.user \/ q.op = "read"

\* The check that follows the first read: the owner, or a reader of a wishlist
\* that is not private.
Allowed(q) ==
  /\ q.id \in DOMAIN wishlists
  /\ \/ wishlists[q.id].owner = q.user
     \/ q.op = "read" /\ ~wishlists[q.id].private

FindWishlist(p, q) ==
  /\ pc[p] = "idle"
  /\ Allowed(q)
  /\ q.op = "findItem" => q.place \in places
  /\ pc' = [pc EXCEPT ![p] = IF q.op = "read" THEN "readItems" ELSE q.op]
  /\ req' = [req EXCEPT ![p] = q]
  /\ UNCHANGED <<wishlists, items, places, shown, history>>

\* The items, an empty list by now if the row is gone.
ReadItems(p) ==
  /\ pc[p] = "readItems"
  /\ shown' = [shown EXCEPT ![p] = items[req[p].id]]
  /\ Goto(p, "respond")
  /\ UNCHANGED <<wishlists, items, places, history>>

Respond(p) ==
  pc[p] = "respond" /\ Finish(p) /\ UNCHANGED <<wishlists, items, places, history>>

UpdateWishlist(p) ==
  LET w == req[p].id
  IN  /\ pc[p] = "update"
      /\ w \in DOMAIN wishlists
      /\ Write(w, [wishlists[w] EXCEPT !.private = req[p].private], items[w])
      /\ Finish(p)
      /\ UNCHANGED places

DeleteWishlist(p) ==
  LET w == req[p].id
  IN  /\ pc[p] = "delete"
      /\ w \in DOMAIN wishlists
      /\ wishlists' = [v \in DOMAIN wishlists \ {w} |-> wishlists[v]]
      /\ items' = [items EXCEPT ![w] = {}]
      /\ Finish(p)
      /\ UNCHANGED <<places, history>>

FindItem(p) ==
  /\ pc[p] = "findItem"
  /\ \/ /\ req[p].place \notin items[req[p].id]
        /\ Goto(p, "insertItem")
        /\ UNCHANGED <<wishlists, items, places, shown, history>>
     \/ req[p].place \in items[req[p].id] /\ Throw(p)

\* The foreign keys and the unique index refuse what has changed meanwhile.
InsertItem(p) ==
  LET w == req[p].id
  IN  /\ pc[p] = "insertItem"
      /\ \/ /\ w \in DOMAIN wishlists
            /\ req[p].place \in places \ items[w]
            /\ Write(w, wishlists[w], items[w] \cup {req[p].place})
            /\ Finish(p)
            /\ UNCHANGED places
         \/ ~(w \in DOMAIN wishlists /\ req[p].place \in places \ items[w]) /\ Throw(p)

\* The item is looked for, and deleted by its key: gone is gone.
RemoveItem(p) ==
  LET w == req[p].id
  IN  /\ pc[p] = "removeItem"
      /\ req[p].place \in items[w]
      /\ Write(w, wishlists[w], items[w] \ {req[p].place})
      /\ Finish(p)
      /\ UNCHANGED places

\* A listing is deleted, and its items with it.
DeletePlace(l) ==
  /\ l \in places
  /\ places' = places \ {l}
  /\ items' = [w \in Ids |-> items[w] \ {l}]
  /\ UNCHANGED <<wishlists, pc, req, shown, history>>

\* The awaited statement fails (also when its row is gone), or the instance dies.
Crash(p) == pc[p] \in AwaitPc /\ Throw(p)

Step(p) ==
  \/ \E u \in Users, private \in BOOLEAN : CreateWishlist(p, u, private)
  \/ \E q \in Request : FindWishlist(p, q)
  \/ ReadItems(p) \/ Respond(p) \/ UpdateWishlist(p) \/ DeleteWishlist(p)
  \/ FindItem(p) \/ InsertItem(p) \/ RemoveItem(p) \/ Crash(p)

Next == (\E p \in Requests : Step(p)) \/ (\E l \in Places : DeletePlace(l))

Spec == Init /\ [][Next]_vars

----------------------------------------------------------------------------

\* Rows, items and handlers have their types; items belong to wishlists and
\* listings that exist.
TypeOK ==
  /\ DOMAIN wishlists \subseteq Ids
  /\ wishlists \in [DOMAIN wishlists -> Wishlist]
  /\ items \in [Ids -> SUBSET places]
  /\ places \subseteq Places
  /\ pc \in [Requests -> AwaitPc \cup {"idle", "done", "failed"}]
  /\ req \in [Requests -> Request \cup {NoRequest}]
  /\ shown \in [Requests -> SUBSET Places]
  /\ \A w \in Ids \ DOMAIN wishlists : items[w] = {}

\* A stranger is shown only what was in the wishlist at some time when it was
\* public, unless it was made private, or written while private, between the
\* check and the read of the items.
StrangersSeeShared ==
  \A p \in Requests :
    LET w == req[p].id
    IN  /\ pc[p] = "respond"
        /\ w \in DOMAIN wishlists
        /\ wishlists[w].owner # req[p].user
        /\ p \notin hidden
        => shown[p] \subseteq shared[w]
=============================================================================
