------------------------------ MODULE Services ------------------------------
(***************************************************************************)
(* Four parts of the API that share no table and no memory, running side   *)
(* by side: Messaging, Lists, Media and Wishlists.                         *)
(***************************************************************************)
EXTENDS Messaging, Lists

CONSTANTS
  Uploaders, Files, MaxFiles, AllowedTypes, MaxFileSize,        \* of Media
  Owners, Places, Existing                                      \* of Wishlists

VARIABLES
  media, store, mpc, mreq, found, sent, kept, overtaken,        \* of Media
  wishlists, items, places, wpc, wreq, shown, shared, hidden    \* of Wishlists

mediaVars == <<media, store, mpc, mreq, found, sent, kept, overtaken>>
wishlistsVars == <<wishlists, items, places, wpc, wreq, shown, shared, hidden>>
partsVars == <<vars, listVars, mediaVars, wishlistsVars>>

MediaPart == INSTANCE Media WITH
  Users <- Uploaders, pc <- mpc, req <- mreq

WishlistsPart == INSTANCE Wishlists WITH
  Users <- Owners, pc <- wpc, req <- wreq

\* A call carries at most ten files, each of a type that mapMimeToCategory has a
\* category for; a wishlist that is created gets a fresh UUID.
ASSUME FilesAssumption ==
  MaxFiles \in Nat \ {0} /\ \A f \in Files : f.mime \in MediaPart!Mimes
ASSUME ExistingAssumption == Requests \cap Existing = {}

----------------------------------------------------------------------------

PartsInit == Init /\ ListsInit /\ MediaPart!Init /\ WishlistsPart!Init

MessagingStep == Next /\ UNCHANGED <<listVars, mediaVars, wishlistsVars>>
ListsStep     == ListsNext /\ UNCHANGED <<vars, mediaVars, wishlistsVars>>
MediaStep     == MediaPart!Next /\ UNCHANGED <<vars, listVars, wishlistsVars>>
WishlistsStep == WishlistsPart!Next /\ UNCHANGED <<vars, listVars, mediaVars>>

PartsNext == MessagingStep \/ ListsStep \/ MediaStep \/ WishlistsStep

PartsSpec == PartsInit /\ [][PartsNext]_partsVars

----------------------------------------------------------------------------

\* All rows, files, sockets, handlers and pages have their types.
TypesOK ==
  TypeOK /\ ListsTypeOK /\ MediaPart!TypeOK /\ WishlistsPart!TypeOK

\* A live row of media has its file, but for failures between the two.
LiveRowsHaveFiles == MediaPart!LiveRowsHaveFiles

\* A stored image that no row names is accounted for.
OrphansExplained == MediaPart!OrphansExplained

\* A stranger is shown only what was shared.
StrangersSeeShared == WishlistsPart!StrangersSeeShared
=============================================================================
