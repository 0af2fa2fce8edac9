-------------------------- MODULE WishlistsProofs --------------------------
(* Proofs about Wishlists: what a stranger is shown.                        *)
EXTENDS Wishlists, TLAPS

\* A request names a wishlist that exists, or existed; none comes back.
Named ==
  \A p \in Requests :
    /\ pc[p] \in AwaitPc => req[p] \in Request
    /\ pc[p] \in AwaitPc /\ req[p].id \notin Existing => pc[req[p].id] = "done"
    /\ p \in DOMAIN wishlists \ Existing => pc[p] = "done"

\* What is in a public wishlist is known to be shared.
Public ==
  \A w \in DOMAIN wishlists : ~wishlists[w].private => items[w] \subseteq shared[w]

\* A stranger who is about to read the items reads a public wishlist.
Readers ==
  \A p \in Requests :
    LET w == req[p].id
    IN  /\ pc[p] = "readItems"
        /\ w \in DOMAIN wishlists
        /\ wishlists[w].owner # req[p].user
        /\ p \notin hidden
        => ~wishlists[w].private

Histories == shared \in [Ids -> SUBSET Places] /\ hidden \subseteq Requests

Inv == TypeOK /\ Histories /\ Named /\ Public /\ Readers /\ StrangersSeeShared

LEMMA InvInit == Init => Inv
  BY DEF Init, Inv, TypeOK, Histories, Named, Public, Readers, StrangersSeeShared, AwaitPc,
         Ids, history

----------------------------------------------------------------------------
(* What a step leaves *)

\* The tables after a write of one wishlist.
LEMMA Written ==
  ASSUME TypeOK, Histories, NEW w \in Ids, NEW row \in Wishlist,
         NEW content \in SUBSET places, Write(w, row, content)
  PROVE  /\ DOMAIN wishlists' = DOMAIN wishlists \cup {w}
         /\ wishlists'[w] = row /\ items'[w] = content
         /\ \A v \in Ids \ {w} : items'[v] = items[v] /\ shared'[v] = shared[v]
         /\ \A v \in DOMAIN wishlists \ {w} : wishlists'[v] = wishlists[v]
         /\ \A v \in Ids : shared[v] \subseteq shared'[v]
         /\ ~row.private => content \subseteq shared'[w]
         /\ hidden \subseteq hidden'
         /\ row.private =>
              \A p \in Requests : pc[p] = "readItems" /\ req[p].id = w => p \in hidden'
         /\ wishlists' \in [DOMAIN wishlists' -> Wishlist] /\ DOMAIN wishlists' \subseteq Ids
         /\ items' \in [Ids -> SUBSET places]
         /\ Histories'
  BY DEF Write, TypeOK, Histories

\* The writes, and the rows they leave; a new row is its request's.
Writes(p) ==
  \E w \in Ids, row \in Wishlist, content \in SUBSET places :
    /\ Write(w, row, content)
    /\ UNCHANGED places
    /\ pc' = [pc EXCEPT ![p] = "done"]
    /\ \/ w = p /\ pc[p] = "idle" /\ content = {}
       \/ w \in DOMAIN wishlists /\ row.owner = wishlists[w].owner /\ pc[p] # "idle"

LEMMA WritesStep ==
  ASSUME Inv, NEW p \in Requests,
         \/ \E u \in Users, private \in BOOLEAN : CreateWishlist(p, u, private)
         \/ UpdateWishlist(p)
         \/ InsertItem(p) /\ ~Throw(p)
         \/ RemoveItem(p)
  PROVE  Writes(p) /\ Finish(p)
  <1>. TypeOK /\ Named
    BY DEF Inv
  <1>1. ASSUME NEW u \in Users, NEW private \in BOOLEAN, CreateWishlist(p, u, private)
        PROVE  Writes(p) /\ Finish(p)
    BY <1>1 DEF CreateWishlist, Writes, Finish, End, Ids, Wishlist
  <1>2. CASE UpdateWishlist(p)
    <2>. DEFINE w == req[p].id
                row == [wishlists[w] EXCEPT !.private = req[p].private]
    <2>1. w \in DOMAIN wishlists /\ wishlists[w] \in Wishlist /\ req[p] \in Request
          /\ w \in Ids /\ items[w] \in SUBSET places /\ pc[p] # "idle"
      BY <1>2 DEF UpdateWishlist, TypeOK, Named, AwaitPc
    <2>2. row \in Wishlist /\ row.owner = wishlists[w].owner
      BY <2>1 DEF Wishlist, Request
    <2>3. Write(w, row, items[w]) /\ Finish(p) /\ UNCHANGED places
      BY <1>2 DEF UpdateWishlist
    <2>4. pc' = [pc EXCEPT ![p] = "done"]
      BY <2>3 DEF Finish, End
    <2>. HIDE DEF row, w
    <2>. QED  BY <2>1, <2>2, <2>3, <2>4 DEF Writes
  <1>3. CASE InsertItem(p) /\ ~Throw(p)
    <2>. DEFINE w == req[p].id
    <2>1. w \in DOMAIN wishlists /\ wishlists[w] \in Wishlist
          /\ w \in Ids /\ items[w] \cup {req[p].place} \in SUBSET places /\ pc[p] # "idle"
      BY <1>3 DEF InsertItem, TypeOK
    <2>2. Write(w, wishlists[w], items[w] \cup {req[p].place}) /\ Finish(p) /\ UNCHANGED places
      BY <1>3 DEF InsertItem
    <2>4. pc' = [pc EXCEPT ![p] = "done"]
      BY <2>2 DEF Finish, End
    <2>. QED  BY <2>1, <2>2, <2>4 DEF Writes
  <1>4. CASE RemoveItem(p)
    <2>. DEFINE w == req[p].id
    <2>1. w \in Ids
      BY <1>4 DEF RemoveItem, TypeOK, Named, AwaitPc, Request
    <2>2. w \in DOMAIN wishlists /\ wishlists[w] \in Wishlist
          /\ items[w] \ {req[p].place} \in SUBSET places /\ pc[p] # "idle"
      BY <1>4, <2>1 DEF RemoveItem, TypeOK
    <2>3. Write(w, wishlists[w], items[w] \ {req[p].place}) /\ Finish(p) /\ UNCHANGED places
      BY <1>4 DEF RemoveItem
    <2>4. pc' = [pc EXCEPT ![p] = "done"]
      BY <2>3 DEF Finish, End
    <2>. QED  BY <2>1, <2>2, <2>3, <2>4 DEF Writes
  <1>. QED  BY <1>1, <1>2, <1>3, <1>4
LEMMA WritesInv ==
  ASSUME Requests \cap Existing = {}, Inv, NEW p \in Requests, Writes(p), Finish(p)
  PROVE  Inv'
  <1>. TypeOK /\ Histories /\ Named /\ Public /\ Readers /\ StrangersSeeShared
    BY DEF Inv
  <1>1. PICK w \in Ids, row \in Wishlist, content \in SUBSET places :
          /\ Write(w, row, content)
          /\ UNCHANGED places
          /\ \/ w = p /\ pc[p] = "idle" /\ content = {}
             \/ w \in DOMAIN wishlists /\ row.owner = wishlists[w].owner /\ pc[p] # "idle"
    BY DEF Writes
  <1>2. /\ pc' = [pc EXCEPT ![p] = "done"]
        /\ \A q \in Requests \ {p} : pc'[q] = pc[q] /\ req'[q] = req[q] /\ shown'[q] = shown[q]
        /\ pc'[p] = "done"
        /\ req'[p] = NoRequest /\ shown'[p] = {}
        /\ req' \in [Requests -> Request \cup {NoRequest}]
        /\ shown' \in [Requests -> SUBSET Places]
    BY DEF Finish, End, TypeOK
  <1>3. /\ DOMAIN wishlists' = DOMAIN wishlists \cup {w}
        /\ wishlists'[w] = row /\ items'[w] = content
        /\ \A v \in Ids \ {w} : items'[v] = items[v] /\ shared'[v] = shared[v]
        /\ \A v \in DOMAIN wishlists \ {w} : wishlists'[v] = wishlists[v]
        /\ \A v \in Ids : shared[v] \subseteq shared'[v]
        /\ ~row.private => content \subseteq shared'[w]
        /\ hidden \subseteq hidden'
        /\ row.private =>
             \A q \in Requests : pc[q] = "readItems" /\ req[q].id = w => q \in hidden'
        /\ wishlists' \in [DOMAIN wishlists' -> Wishlist] /\ DOMAIN wishlists' \subseteq Ids
        /\ items' \in [Ids -> SUBSET places]
        /\ Histories'
    BY <1>1, Written
  <1>4. TypeOK'
    BY <1>1, <1>2, <1>3 DEF TypeOK
  <1>5. Named'
    BY <1>1, <1>2, <1>3 DEF Named, Ids, AwaitPc
  <1>6. Public'
    BY <1>1, <1>3 DEF Public, TypeOK
  <1>7. ASSUME NEW q \in Requests \ {p}, pc[q] \in AwaitPc
        PROVE  /\ req[q].id \in Ids
               /\ req[q].id = w => w \in DOMAIN wishlists /\ row.owner = wishlists[w].owner
    <2>1. req[q] \in Request /\ req[q].id \in Ids
      BY <1>7 DEF Named, Request
    <2>. QED  BY <1>1, <1>7, <2>1 DEF Named
  <1>8. Readers'
    BY <1>2, <1>3, <1>7 DEF Readers, AwaitPc
  <1>9. StrangersSeeShared'
    BY <1>2, <1>3, <1>7 DEF StrangersSeeShared, AwaitPc
  <1>. QED  BY <1>3, <1>4, <1>5, <1>6, <1>8, <1>9 DEF Inv

LEMMA NamedStep ==
  ASSUME Named, NEW p \in Requests, pc[p] # "done",
         \A q \in Requests \ {p} : pc'[q] = pc[q] /\ req'[q] = req[q],
         DOMAIN wishlists' \subseteq DOMAIN wishlists,
         pc'[p] \in AwaitPc =>
           req'[p] \in Request /\ (req'[p].id \notin Existing => pc[req'[p].id] = "done")
  PROVE  Named'
  <1>1. \A r \in Request : r.id \notin Existing => r.id \in Requests
    BY DEF Request, Ids
  <1>2. \A q \in Requests : pc[q] = "done" => pc'[q] = "done"
    OBVIOUS
  <1>. QED  BY <1>1, <1>2 DEF Named

\* A handler that ends without a write.
LEMMA EndInv ==
  ASSUME Inv, NEW p \in Requests, NEW how \in {"done", "failed"}, End(p, how),
         pc[p] \in AwaitPc, UNCHANGED <<wishlists, items, places, history>>
  PROVE  Inv'
  <1>1. /\ pc'[p] = how /\ req'[p] = NoRequest /\ shown'[p] = {}
        /\ \A q \in Requests \ {p} : pc'[q] = pc[q] /\ req'[q] = req[q] /\ shown'[q] = shown[q]
    BY DEF End, Inv, TypeOK
  <1>2. TypeOK' /\ Histories'
    BY DEF End, Inv, TypeOK, Histories, history
  <1>3. Named'
    BY <1>1, NamedStep DEF Inv, AwaitPc
  <1>4. Public' /\ Readers' /\ StrangersSeeShared'
    BY <1>1 DEF Inv, Public, Readers, StrangersSeeShared, history
  <1>. QED  BY <1>2, <1>3, <1>4 DEF Inv

\* One whose next statement reads.
LEMMA ReadInv ==
  ASSUME Inv, NEW p \in Requests,
         (\E q \in Request : FindWishlist(p, q)) \/ ReadItems(p)
           \/ (FindItem(p) /\ ~Throw(p))
  PROVE  Inv'
  <1>. TypeOK /\ Histories /\ Named /\ Public /\ Readers /\ StrangersSeeShared
    BY DEF Inv
  <1>1. ASSUME NEW q \in Request, FindWishlist(p, q)  PROVE Inv'
    <2>1. /\ pc[p] = "idle" /\ pc'[p] \in AwaitPc /\ req'[p] = q /\ Allowed(q)
          /\ pc'[p] = "readItems" => q.op = "read"
          /\ pc'[p] # "respond"
          /\ \A r \in Requests \ {p} : pc'[r] = pc[r] /\ req'[r] = req[r]
          /\ UNCHANGED <<wishlists, items, places, shown, history>>
      BY <1>1 DEF FindWishlist, TypeOK, AwaitPc, Request
    <2>2. TypeOK' /\ Histories'
      BY <1>1, <2>1 DEF FindWishlist, TypeOK, Histories, history
    <2>3. q.id \in DOMAIN wishlists /\ q.id \in Ids
      BY <2>1 DEF Allowed, TypeOK
    <2>4. Named'
      BY <2>1, <2>3, NamedStep DEF Named, Ids
    <2>5. Public' /\ Readers' /\ StrangersSeeShared'
      BY <2>1 DEF Public, Readers, StrangersSeeShared, Allowed, history
    <2>. QED  BY <2>2, <2>4, <2>5 DEF Inv
  <1>2. CASE ReadItems(p)
    <2>1. /\ pc[p] = "readItems" /\ pc'[p] = "respond" /\ shown'[p] = items[req[p].id]
          /\ \A r \in Requests \ {p} : pc'[r] = pc[r] /\ shown'[r] = shown[r]
          /\ UNCHANGED <<wishlists, items, places, req, history>>
      BY <1>2 DEF ReadItems, Goto, TypeOK
    <2>2. req[p].id \in Ids
      BY <2>1 DEF Named, AwaitPc, Request
    <2>3. TypeOK' /\ Histories'
      BY <1>2, <2>1, <2>2 DEF ReadItems, Goto, TypeOK, Histories, history, AwaitPc
    <2>4. Named'
      BY <2>1, NamedStep DEF Named, AwaitPc
    <2>5. Public' /\ Readers' /\ StrangersSeeShared'
      BY <2>1, <2>2 DEF Public, Readers, StrangersSeeShared, history
    <2>. QED  BY <2>3, <2>4, <2>5 DEF Inv
  <1>3. CASE FindItem(p) /\ ~Throw(p)
    <2>1. /\ pc[p] = "findItem" /\ pc'[p] = "insertItem"
          /\ \A r \in Requests \ {p} : pc'[r] = pc[r]
          /\ UNCHANGED <<wishlists, items, places, shown, req, history>>
      BY <1>3 DEF FindItem, Goto, TypeOK
    <2>2. TypeOK' /\ Histories'
      BY <1>3, <2>1 DEF FindItem, Goto, TypeOK, Histories, history, AwaitPc
    <2>3. Named'
      BY <2>1, NamedStep DEF Named, AwaitPc
    <2>4. Public' /\ Readers' /\ StrangersSeeShared'
      BY <2>1 DEF Public, Readers, StrangersSeeShared, history
    <2>. QED  BY <2>2, <2>3, <2>4 DEF Inv
  <1>. QED  BY <1>1, <1>2, <1>3

LEMMA DeleteInv ==
  ASSUME Inv, NEW p \in Requests, DeleteWishlist(p)
  PROVE  Inv'
  <1>. DEFINE w == req[p].id
  <1>. TypeOK /\ Histories /\ Named /\ Public /\ Readers /\ StrangersSeeShared
    BY DEF Inv
  <1>1. /\ pc[p] \in AwaitPc /\ pc'[p] = "done" /\ req'[p] = NoRequest /\ shown'[p] = {}
        /\ \A q \in Requests \ {p} : pc'[q] = pc[q] /\ req'[q] = req[q] /\ shown'[q] = shown[q]
        /\ UNCHANGED <<places, history>>
    BY DEF DeleteWishlist, Finish, End, TypeOK, AwaitPc
  <1>2. /\ DOMAIN wishlists' = DOMAIN wishlists \ {w}
        /\ \A v \in DOMAIN wishlists' : wishlists'[v] = wishlists[v] /\ items'[v] = items[v]
        /\ \A v \in Ids : items'[v] \in {items[v], {}}
    BY DEF DeleteWishlist, TypeOK
  <1>3. TypeOK' /\ Histories'
    BY DEF DeleteWishlist, Finish, End, TypeOK, Histories, history
  <1>4. Named'
    BY <1>1, <1>2, NamedStep DEF AwaitPc
  <1>5. Public' /\ Readers' /\ StrangersSeeShared'
    BY <1>1, <1>2 DEF Public, Readers, StrangersSeeShared, history
  <1>. QED  BY <1>3, <1>4, <1>5 DEF Inv

LEMMA DeletePlaceInv ==
  ASSUME Inv, NEW l \in Places, DeletePlace(l)
  PROVE  Inv'
  <1>1. TypeOK' /\ Histories'
    BY DEF DeletePlace, Inv, TypeOK, Histories, history
  <1>2. Named' /\ Public' /\ Readers' /\ StrangersSeeShared'
    BY DEF DeletePlace, Inv, TypeOK, Named, Public, Readers, StrangersSeeShared, history
  <1>. QED  BY <1>1, <1>2 DEF Inv

----------------------------------------------------------------------------
(* The theorems *)

\* The conjunction is inductive.
THEOREM InvInductive ==
  ASSUME Requests \cap Existing = {}
  PROVE  Inv /\ [Next]_vars => Inv'
  <1>. SUFFICES ASSUME Inv, [Next]_vars  PROVE Inv'
    OBVIOUS
  <1>1. ASSUME NEW p \in Requests, Step(p)  PROVE Inv'
    <2>1. CASE \/ \E u \in Users, private \in BOOLEAN : CreateWishlist(p, u, private)
               \/ UpdateWishlist(p) \/ RemoveItem(p)
               \/ InsertItem(p) /\ ~Throw(p)
      BY <2>1, WritesStep, WritesInv
    <2>2. CASE \/ \E q \in Request : FindWishlist(p, q)
               \/ ReadItems(p)
               \/ FindItem(p) /\ ~Throw(p)
      BY <2>2, ReadInv
    <2>3. CASE DeleteWishlist(p)
      BY <2>3, DeleteInv
    <2>4. CASE Respond(p)
      BY <2>4, EndInv DEF Respond, Finish, AwaitPc
    <2>5. CASE Throw(p) /\ pc[p] \in AwaitPc
      BY <2>5, EndInv DEF Throw
    <2>6. Crash(p) \/ FindItem(p) \/ InsertItem(p) => pc[p] \in AwaitPc
      BY DEF Crash, FindItem, InsertItem, AwaitPc
    <2>. QED  BY <1>1, <2>1, <2>2, <2>3, <2>4, <2>5, <2>6 DEF Step, Crash
  <1>2. CASE UNCHANGED vars
    BY <1>2 DEF vars, history, Inv, TypeOK, Histories, Named, Public, Readers,
         StrangersSeeShared
  <1>. QED  BY <1>1, <1>2, DeletePlaceInv DEF Next

THEOREM InvHolds ==
  ASSUME Requests \cap Existing = {}
  PROVE  Spec => []Inv
  BY InvInit, InvInductive, PTL DEF Spec

\* Rows, items and handlers have their types, for any users and listings.
THEOREM TypesHold ==
  ASSUME Requests \cap Existing = {}
  PROVE  Spec => []TypeOK
  <1>1. Inv => TypeOK
    BY DEF Inv
  <1>. QED  BY <1>1, InvHolds, PTL

\* getWishlist of a stranger (wishlists.service.ts) shows nothing that was never
\* public, unless the wishlist turned private between its two reads.
THEOREM StrangersHold ==
  ASSUME Requests \cap Existing = {}
  PROVE  Spec => []StrangersSeeShared
  <1>1. Inv => StrangersSeeShared
    BY DEF Inv
  <1>. QED  BY <1>1, InvHolds, PTL
=============================================================================
