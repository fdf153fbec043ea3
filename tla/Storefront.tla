----------------------------- MODULE Storefront -----------------------------
(***************************************************************************)
(* What a listing sells and who still gets it: the upload of a snapshot    *)
(* (MarketplaceService.create_snapshot, app/marketplace/assets.py), the    *)
(* delivery of its objects, and what the deletion of an account does to    *)
(* the shop (app/auth/deletion.py), around the listings of Marketplace.    *)
(*                                                                         *)
(* The objects of a snapshot and its document are in two stores and no     *)
(* transaction spans them: they are written one by one, any of the writes  *)
(* may fail, with or without an effect, and the process may be gone in     *)
(* between.  A deletion works through the results of its queries, one      *)
(* document after the other, while everybody's requests go on.             *)
(***************************************************************************)
EXTENDS Marketplace, SequencesExt

CONSTANTS
    Snapshots,      \* snapshot ids, each minted once
    Packages,       \* what sellers send: records as in Package
    AssetIds, NoAsset,
    MAX_ASSETS,
    DELETED_OWNER,
    MaxDeletions    \* bound: users who delete their account

(***************************************************************************)
(* A manifest's design refers to images by photo stickers and by imported  *)
(* artworks; a sticker wraps its design and may have a final image.        *)
(***************************************************************************)
Package ==
    [kind: {"mirror", "sticker"},       \* contentType, as the seller says
     wrapped: BOOLEAN,                  \* the document has the key "design"
     photos: SUBSET AssetIds, artworks: SUBSET AssetIds,
     finalAssetID: AssetIds \cup {NoAsset},
     source: Sources,                   \* the document's id
     sound: BOOLEAN,                    \* JSON, PNGs, within the sizes, no path or URL
     assets: SUBSET AssetIds]           \* the images sent with it

ASSUME StorefrontAssumption ==
    /\ DELETED_OWNER \notin Users
    /\ NoAsset \notin AssetIds
    /\ Packages \subseteq Package
    /\ MAX_ASSETS \in Nat /\ MaxDeletions \in Nat

\* A request brings finitely many images.
ASSUME PackagesAssumption == \A p \in Packages : IsFiniteSet(p.assets)

VARIABLES
    snapshotId,     \* listing id -> the snapshot it sells
    uploads,        \* snapshot id -> [at, seller, package, written, cleaned]
    objects,        \* the <<snapshot id, part>> pairs in the bucket
    snapshots,      \* snapshot id -> document
    deletion        \* user -> [at, todo], for the users who delete their account

storage == <<uploads, objects, snapshots>>

\* What Marketplace keeps is in its own vars.
storeVars == <<vars, snapshotId, storage, deletion>>

StorefrontTypeOK ==
    /\ DOMAIN uploads \subseteq Snapshots
    /\ \A x \in DOMAIN uploads :
          /\ uploads[x].at \in {"put", "clean", "document", "ended"}
          /\ uploads[x].seller \in Users
          /\ uploads[x].package \in Packages
    /\ objects \subseteq (DOMAIN uploads) \X ({"manifest", "preview"} \cup AssetIds)
    /\ DOMAIN snapshots \subseteq DOMAIN uploads
    /\ DOMAIN snapshotId = DOMAIN listings
    /\ Range(snapshotId) \subseteq DOMAIN snapshots
    /\ DOMAIN deletion \subseteq Users
    /\ \A u \in DOMAIN deletion :
          /\ deletion[u].at \in {"retire", "likes", "personal", "failed", "done"}
          /\ deletion[u].todo \subseteq Listings

StorefrontInit ==
    /\ Init
    /\ snapshotId = <<>>
    /\ uploads = <<>>
    /\ objects = {}
    /\ snapshots = <<>>
    /\ deletion = <<>>

----------------------------------------------------------------------------
(***************************************************************************)
(* Packages                                                                *)
(***************************************************************************)

_design_asset_ids(p) == p.photos \cup p.artworks

referenced_asset_ids(p) ==
    _design_asset_ids(p)
        \cup (IF p.kind = "sticker" THEN {p.finalAssetID} \ {NoAsset} ELSE {})

\* _mirror_shape and _sticker_shape: a sticker that is called a mirror is found out.
Shaped(p) == p.wrapped <=> p.kind = "sticker"

\* A JSON object without paths, URLs or scripts in it.
_checked_manifest(p) == p.sound

checked_package(p) ==
    /\ _checked_manifest(p)
    /\ Cardinality(p.assets) <= MAX_ASSETS
    /\ Shaped(p)
    /\ referenced_asset_ids(p) = p.assets

----------------------------------------------------------------------------
(***************************************************************************)
(* Uploads                                                                 *)
(***************************************************************************)

\* The seller's name for what is in it, which a block is about.
source_content_id(p) == p.source

\* The objects of a package, in the order they are written.
keys(p) == <<"manifest", "preview">> \o SetToSeq(p.assets)

\* A request that was let in before the user's document went may still be on its way; none
\* outlasts the whole deletion.
Active(u) == u \in DOMAIN deletion => deletion[u].at # "done"

\* POST /marketplace/snapshots; after a 503 the app sends it anew, and gets a new id.
create_snapshot(u, x, p) ==
    /\ Active(u)
    /\ x \notin DOMAIN uploads
    /\ checked_package(p)
    /\ uploads' = Put(uploads, x, [at |-> "put", seller |-> u, package |-> p,
                                   written |-> 0, cleaned |-> 0])
    /\ UNCHANGED <<vars, snapshotId, objects, snapshots, deletion>>

UploadAt(x, place) == x \in DOMAIN uploads /\ uploads[x].at = place

Object(x, i) == <<x, keys(uploads[x].package)[i]>>

\* MarketplaceAssetStorage.put of the next object; what it raises it may raise too late.
put(x) ==
    LET next == uploads[x].written + 1 IN
    /\ UploadAt(x, "put")
    /\ \/ /\ objects' = objects \cup {Object(x, next)}
          /\ uploads' = [uploads EXCEPT
                 ![x].written = next,
                 ![x].at = IF next = Len(keys(uploads[x].package)) THEN "document" ELSE "put"]
       \/ /\ objects' \in {objects, objects \cup {Object(x, next)}}
          /\ uploads' = [uploads EXCEPT ![x].at = IF next = 1 THEN "ended" ELSE "clean"]
    /\ UNCHANGED <<vars, snapshotId, snapshots, deletion>>

\* What was written before is deleted, and what cannot be deleted stays.
clean(x) ==
    LET next == uploads[x].cleaned + 1 IN
    /\ UploadAt(x, "clean")
    /\ objects' \in {objects, objects \ {Object(x, next)}}
    /\ uploads' = [uploads EXCEPT
           ![x].cleaned = next,
           ![x].at = IF next = uploads[x].written THEN "ended" ELSE "clean"]
    /\ UNCHANGED <<vars, snapshotId, snapshots, deletion>>

_snapshot_document(up) == [seller |-> up.seller, package |-> up.package]

\* create, and no more: it may fail and have landed.
WriteDocument(x) ==
    snapshots' \in {snapshots, Put(snapshots, x, _snapshot_document(uploads[x]))}

\* Fault: a document that may not be there has its objects deleted.
document_or_clean(x) ==
    /\ UploadAt(x, "document")
    /\ WriteDocument(x)
    /\ \E at \in {"ended", "clean"} : uploads' = [uploads EXCEPT ![x].at = at]
    /\ UNCHANGED <<vars, snapshotId, objects, deletion>>

\* The document comes last.  A failure here (503) leaves the objects where they are.
document(x) ==
    /\ UploadAt(x, "document")
    /\ WriteDocument(x)
    /\ uploads' = [uploads EXCEPT ![x].at = "ended"]
    /\ UNCHANGED <<vars, snapshotId, objects, deletion>>

\* The process is gone.
upload_dies(x) ==
    /\ x \in DOMAIN uploads /\ uploads[x].at # "ended"
    /\ uploads' = [uploads EXCEPT ![x].at = "ended"]
    /\ UNCHANGED <<vars, snapshotId, objects, snapshots, deletion>>

----------------------------------------------------------------------------
(***************************************************************************)
(* The shop                                                                *)
(***************************************************************************)

_owned_snapshot(x, u) == x \in DOMAIN snapshots /\ snapshots[x].seller = u

\* A draft of a snapshot that is there and the seller's own.
create_listing(u, l, t, x, p) ==
    /\ Active(u)
    /\ _owned_snapshot(x, u)
    /\ create_draft(u, l, t, source_content_id(snapshots[x].package), p)
    /\ snapshotId' = Put(snapshotId, l, x)
    /\ UNCHANGED <<storage, deletion>>

\* The other requests are transactions of Marketplace, and touch neither what was uploaded
\* nor which snapshot a listing sells.
publish_listing(u, l) == publish(u, l)
unpublish_listing(u, l) == unpublish(u, l)
delete_my_listing(u, l) == delete(u, l)
purchase_listing(u, l) == acquire(u, l)
like_listing(u, l) == like(u, l)
unlike_listing(u, l) == unlike(u, l)
takedown_listing(l) == takedown(l)
restore_listing(l) == restore(l)

ByUser(u, l) ==
    /\ Active(u)
    /\ \/ publish_listing(u, l) \/ unpublish_listing(u, l) \/ delete_my_listing(u, l)
       \/ purchase_listing(u, l) \/ like_listing(u, l) \/ unlike_listing(u, l)

ByOperator(l) == takedown_listing(l) \/ restore_listing(l)

shop(u, l) ==
    /\ ByUser(u, l) \/ ByOperator(l)
    /\ UNCHANGED <<snapshotId, storage, deletion>>

(***************************************************************************)
(* Delivery, which changes nothing.                                        *)
(***************************************************************************)

any_listing(l) == l \in DOMAIN listings

get_published(l) == is_public(l)

\* _complete_snapshot and _read: the object of the listing, if it can be read.
Stored(l, part) ==
    snapshotId[l] \in DOMAIN snapshots /\ <<snapshotId[l], part>> \in objects

\* GET .../preview, for everybody.
listing_preview(l) == get_published(l) /\ Stored(l, "preview")

\* The seller sees it whatever the state of the listing, and so does an operator.
my_listing_preview(u, l) == any_listing(l) /\ listings[l].seller = u /\ Stored(l, "preview")

\* GET .../template and .../template/assets/{id}: for the seller and for those who own it.
template(u, l, part) ==
    /\ any_listing(l)
    /\ listings[l].seller = u \/ <<u, l>> \in DOMAIN ownership
    /\ Stored(l, part)

----------------------------------------------------------------------------
(***************************************************************************)
(* The deletion of an account, in the shop                                 *)
(***************************************************************************)

DeletionAt(u, place) == u \in DOMAIN deletion /\ deletion[u].at = place

Then(u, place, todo) == deletion' = Put(deletion, u, [at |-> place, todo |-> todo])

SoldBy(u) == {l \in DOMAIN listings : listings[l].seller = u}

LikedBy(u) == {l \in DOMAIN listings : <<u, l>> \in likes}

\* DELETE /users/me/account, for the first time or again: the listings the query finds.
delete_account(u) ==
    /\ u \notin DOMAIN deletion \/ DeletionAt(u, "failed")
    /\ Cardinality(DOMAIN deletion \cup {u}) <= MaxDeletions
    /\ Then(u, "retire", SoldBy(u))
    /\ UNCHANGED <<vars, snapshotId, storage>>

\* One update that reads nothing: whatever the listing has become, it is deleted.
retire(u, l) ==
    /\ DeletionAt(u, "retire") /\ l \in deletion[u].todo
    /\ listings' = [listings EXCEPT ![l].status = "deleted", ![l].seller = DELETED_OWNER]
    /\ Then(u, "retire", deletion[u].todo \ {l})
    /\ UNCHANGED <<titleClaims, blocks, ownership, likes, balance, ledger, notifications,
                   snapshotId, storage>>

\* The listings are down: the likes the query finds.
find_likes(u) ==
    /\ DeletionAt(u, "retire") /\ deletion[u].todo = {}
    /\ Then(u, "likes", LikedBy(u))
    /\ UNCHANGED <<vars, snapshotId, storage>>

\* Fault: a like that was taken back meanwhile is counted off again.
remove_like_unread(u, l) ==
    /\ DeletionAt(u, "likes") /\ l \in deletion[u].todo
    /\ likes' = likes \ {<<u, l>>}
    /\ listings' = [listings EXCEPT ![l].likeCount = IF @ > 0 THEN @ - 1 ELSE 0]
    /\ Then(u, "likes", deletion[u].todo \ {l})
    /\ UNCHANGED <<titleClaims, blocks, ownership, balance, ledger, notifications,
                   snapshotId, storage>>

\* _remove_one_like: one transaction, and nothing to do if the like is gone.
remove_like(u, l) ==
    /\ DeletionAt(u, "likes") /\ l \in deletion[u].todo
    /\ \/ /\ <<u, l>> \in likes
          /\ likes' = likes \ {<<u, l>>}
          /\ listings' = [listings EXCEPT ![l].likeCount = IF @ > 0 THEN @ - 1 ELSE 0]
       \/ /\ <<u, l>> \notin likes
          /\ UNCHANGED <<likes, listings>>
    /\ Then(u, "likes", deletion[u].todo \ {l})
    /\ UNCHANGED <<titleClaims, blocks, ownership, balance, ledger, notifications,
                   snapshotId, storage>>

likes_removed(u) ==
    /\ DeletionAt(u, "likes") /\ deletion[u].todo = {}
    /\ Then(u, "personal", {})
    /\ UNCHANGED <<vars, snapshotId, storage>>

(***************************************************************************)
(* _delete_personal_documents (AccountDeletion has its other collections): *)
(* what the user has bought.  The user's document went before it, so that  *)
(* a failure here cannot be repaired by asking again.                      *)
(***************************************************************************)
delete_ownership(u) ==
    /\ DeletionAt(u, "personal")
    /\ \/ ownership' = Restrict(ownership, {o \in DOMAIN ownership : o[1] # u})
       \/ UNCHANGED ownership
    /\ Then(u, "done", {})
    /\ UNCHANGED <<listings, titleClaims, blocks, likes, balance, ledger, notifications,
                   snapshotId, storage>>

\* The store fails between two documents (503), and the user may ask again.
deletion_fails(u) ==
    /\ DeletionAt(u, "retire") \/ DeletionAt(u, "likes")
    /\ Then(u, "failed", {})
    /\ UNCHANGED <<vars, snapshotId, storage>>

----------------------------------------------------------------------------
StorefrontNext ==
    \/ \E u \in Users, x \in Snapshots, p \in Packages : create_snapshot(u, x, p)
    \/ \E x \in Snapshots : put(x) \/ clean(x) \/ document(x) \/ upload_dies(x)
    \/ \E u \in Users, l \in Listings, t \in Titles, x \in Snapshots, p \in Prices :
          create_listing(u, l, t, x, p)
    \/ \E u \in Users, l \in Listings : shop(u, l) \/ retire(u, l) \/ remove_like(u, l)
    \/ \E u \in Users :
          \/ delete_account(u) \/ find_likes(u) \/ likes_removed(u)
          \/ delete_ownership(u) \/ deletion_fails(u)

StorefrontSpec == StorefrontInit /\ [][StorefrontNext]_storeVars

----------------------------------------------------------------------------
(***************************************************************************)
(* Properties                                                              *)
(***************************************************************************)

\* What the app loads to show a template: the places its decoder looks for images in.
Needed(p) ==
    {"manifest"} \cup p.photos \cup p.artworks
        \cup (IF p.kind = "sticker" THEN {p.finalAssetID} \ {NoAsset} ELSE {})

(***************************************************************************)
(* Who has bought a template gets it, with every image in it, whatever has *)
(* become of the listing, its seller's account and the uploads that went   *)
(* wrong; so does a seller of what he sells, and what he, or the shop,     *)
(* shows can be looked at.                                                 *)
(***************************************************************************)
BuyersReceive ==
    \A l \in DOMAIN listings :
        /\ \A u \in Users :
              <<u, l>> \in DOMAIN ownership \/ listings[l].seller = u
                  => \A part \in Needed(snapshots[snapshotId[l]].package) : template(u, l, part)
        /\ \A u \in Users : listings[l].seller = u => my_listing_preview(u, l)
        /\ get_published(l) => listing_preview(l)

\* The number of likes is the number of like documents, also while a deletion takes a
\* user's likes back and the same user takes one back himself.
LikeCountsMatch ==
    \A l \in DOMAIN listings : listings[l].likeCount = Cardinality({k \in likes : k[2] = l})

\* A listing whose seller is gone is out of the shop for good: no request that was on its
\* way, no operator and no second deletion puts it back.
RetiredStays ==
    [][\A l \in DOMAIN listings :
          listings[l].seller = DELETED_OWNER =>
             /\ listings'[l].seller = DELETED_OWNER /\ listings'[l].status = "deleted"
             /\ ~is_public(l)']_storeVars

\* deletion.py calls it the deletion of a listing as it always was, and that one lets the
\* name go, since "otherwise nobody could use it again" (firestore_store.py, delete).
NamesAreReleased == ClaimsArePublished

\* deletion.py: what was on sale is taken down.
DeletedSellersAreGone ==
    \A u \in Users, l \in DOMAIN listings :
        DeletionAt(u, "done") /\ listings[l].seller = u => ~is_public(l)

=============================================================================
