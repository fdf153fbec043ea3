---------------------------- MODULE Marketplace ----------------------------
(***************************************************************************)
(* The marketplace: listings, the names they reserve, their sales, their   *)
(* likes and what an operator does to them                                 *)
(* (app/marketplace/service.py, app/marketplace/firestore_store.py).       *)
(*                                                                         *)
(* Each action is one committed Firestore transaction with every document  *)
(* it writes: the listing, its title claim, the ownership, the like, the   *)
(* block on a source, the notification, and the ledger entry and wallet    *)
(* that apply_in_transaction adds to it.  A request that is refused        *)
(* (ListingNotFound, InvalidTransition, ModeratedListing, TitleTaken,      *)
(* InsufficientShards, SelfPurchase, SelfLike, TerminalListing,            *)
(* NotModerated) or that finds nothing to do writes nothing: its guard is  *)
(* false.                                                                  *)
(*                                                                         *)
(* A snapshot is an immutable content its seller has uploaded; it is named *)
(* by that seller and the local content it was made from, or NoSource for  *)
(* a document of the time before sources were recorded.  A listing never   *)
(* changes its content type, so the type is part of the source's name.     *)
(***************************************************************************)
EXTENDS Integers, FiniteSets, Functions, FiniteSetsExt

CONSTANTS
    Users,
    Listings,       \* listing ids
    Titles,         \* listing_title_key values
    Sources,        \* ids of the sellers' local contents
    NoSource,
    Prices,         \* priceShards values a draft may carry
    StartBalance,   \* shards every user has before the marketplace is used
    Fee,            \* MarketplacePublishPolicy.fee
    MODERATION_COMPENSATION

ASSUME PricesAssumption ==
    /\ Prices \subseteq Nat
    /\ StartBalance \in Nat
    /\ Fee \in Nat \ {0}
    /\ MODERATION_COMPENSATION \in Nat \ {0}

ASSUME SourceAssumption == NoSource \notin Sources

VARIABLES
    listings,       \* listing id -> document, for the listings created
    titleClaims,    \* title -> the listing that holds it
    blocks,         \* <<seller, source>> -> the listing whose takedown wrote the block
    ownership,      \* <<buyer, listing>> -> price paid
    likes,          \* the <<user, listing>> pairs with a like document
    balance,        \* user -> wallet balance
    ledger,         \* idempotency key -> delta
    notifications   \* notification id -> the shard amount it tells the seller of

vars == <<listings, titleClaims, blocks, ownership, likes, balance, ledger, notifications>>

Statuses == {"draft", "published", "unlisted", "deleted"}

Listing == [seller: Users, title: Titles, source: Sources \cup {NoSource}, price: Prices,
            status: Statuses, moderated: BOOLEAN, publishFeePaid: BOOLEAN,
            downloadCount: Nat, likeCount: Nat]

Key(u, reason, event) == <<u, reason, event>>

TypeOK ==
    /\ DOMAIN listings \subseteq Listings
    /\ listings \in [DOMAIN listings -> Listing]
    /\ DOMAIN titleClaims \subseteq Titles
    /\ Range(titleClaims) \subseteq DOMAIN listings
    /\ DOMAIN blocks \subseteq Users \X Sources
    /\ Range(blocks) \subseteq DOMAIN listings
    /\ DOMAIN ownership \subseteq Users \X DOMAIN listings
    /\ Range(ownership) \subseteq Prices
    /\ likes \subseteq Users \X DOMAIN listings
    /\ balance \in [Users -> Nat]

Empty == [x \in {} |-> x]

Init ==
    /\ listings = Empty
    /\ titleClaims = Empty
    /\ blocks = Empty
    /\ ownership = Empty
    /\ likes = {}
    /\ balance = [u \in Users |-> StartBalance]
    /\ ledger = Empty
    /\ notifications = Empty

----------------------------------------------------------------------------
\* transaction.set: the collection with this document, new or replaced.
Put(coll, id, doc) == [k \in DOMAIN coll \cup {id} |-> IF k = id THEN doc ELSE coll[k]]

\* transaction.delete: no error when the document is not there.
Without(coll, id) == Restrict(coll, DOMAIN coll \ {id})

\* What the public reads: published and not taken down.
is_public(l) ==
    /\ l \in DOMAIN listings
    /\ listings[l].status = "published"
    /\ ~ listings[l].moderated

\* The seller's own listing; somebody else's is not found.
Owned(u, l) == l \in DOMAIN listings /\ listings[l].seller = u

\* The listing gives up the name it was published under.
release_title(l) == titleClaims' = Without(titleClaims, listings[l].title)

(***************************************************************************)
(* Sellers                                                                 *)
(***************************************************************************)

\* A draft of one of the seller's own snapshots.  No fee, no name taken.
create_draft(u, l, title, source, price) ==
    /\ l \notin DOMAIN listings
    /\ listings' = Put(listings, l,
                       [seller |-> u, title |-> title, source |-> source, price |-> price,
                        status |-> "draft", moderated |-> FALSE, publishFeePaid |-> FALSE,
                        downloadCount |-> 0, likeCount |-> 0])
    /\ UNCHANGED <<titleClaims, blocks, ownership, likes, balance, ledger, notifications>>

\* The wallets and the ledger, as one value that movements are staged on.
Books == [balance |-> balance, ledger |-> ledger]

\* Fault: a wallet may go below zero.
AffordsAnything(u, delta, key) == TRUE

\* apply_in_transaction does not raise InsufficientShards.
Affords(u, delta, key) == key \in DOMAIN ledger \/ balance[u] + delta >= 0

\* What apply_in_transaction stages; an entry that exists is a duplicate and stages nothing.
Staged(books, u, delta, key) ==
    IF key \in DOMAIN books.ledger THEN books
    ELSE [balance |-> [books.balance EXCEPT ![u] = @ + delta],
          ledger |-> Put(books.ledger, key, delta)]

\* context.flush: the staged writes join the transaction.
Flush(books) == balance' = books.balance /\ ledger' = books.ledger

\* Fault: the wallet pays at each publication, the ledger knows of the first.
ChargeAtEachPublish(u, l) ==
    /\ balance[u] >= Fee
    /\ balance' = [balance EXCEPT ![u] = @ - Fee]
    /\ ledger' = Put(ledger, Key(u, "publish_fee", l), -Fee)

\* Fault: a seller with less than the fee pays what there is.
ChargeWhatIsThere(u, l) ==
    LET fee == IF balance[u] < Fee THEN balance[u] ELSE Fee IN
    \/ /\ listings[l].publishFeePaid
       /\ UNCHANGED <<balance, ledger>>
    \/ /\ ~ listings[l].publishFeePaid
       /\ Flush(Staged(Books, u, -fee, Key(u, "publish_fee", l)))

\* The fee of the first publication, keyed by the listing; a republication is free.
ChargeFee(u, l) ==
    \/ /\ listings[l].publishFeePaid
       /\ UNCHANGED <<balance, ledger>>
    \/ /\ ~ listings[l].publishFeePaid
       /\ Affords(u, -Fee, Key(u, "publish_fee", l))
       /\ Flush(Staged(Books, u, -Fee, Key(u, "publish_fee", l)))

\* Fault: a deleted listing can be published again.
publish_deleted(u, l) ==
    LET listing == listings[l] IN
    /\ Owned(u, l)
    /\ ~ listing.moderated
    /\ listing.status # "published"
    /\ <<u, listing.source>> \notin DOMAIN blocks
    /\ listing.title \in DOMAIN titleClaims => titleClaims[listing.title] = l
    /\ ChargeFee(u, l)
    /\ titleClaims' = Put(titleClaims, listing.title, l)
    /\ listings' = [listings EXCEPT ![l].status = "published", ![l].publishFeePaid = TRUE]
    /\ UNCHANGED <<blocks, ownership, likes, notifications>>

(***************************************************************************)
(* The name, the fee and the status are one commit; the name is tested     *)
(* before the fee is taken.                                                *)
(***************************************************************************)
publish(u, l) ==
    LET listing == listings[l] IN
    /\ Owned(u, l)
    /\ listing.status # "deleted"                       \* InvalidTransition
    /\ ~ listing.moderated                              \* ModeratedListing
    /\ listing.status # "published"                     \* nothing to do
    /\ <<u, listing.source>> \notin DOMAIN blocks       \* ModeratedListing
    /\ listing.title \in DOMAIN titleClaims
          => titleClaims[listing.title] = l             \* TitleTaken
    /\ ChargeFee(u, l)
    /\ titleClaims' = Put(titleClaims, listing.title, l)
    /\ listings' = [listings EXCEPT ![l].status = "published", ![l].publishFeePaid = TRUE]
    /\ UNCHANGED <<blocks, ownership, likes, notifications>>

\* Fault: a listing that goes down keeps its name.
unpublish_keeping_title(u, l) ==
    /\ Owned(u, l)
    /\ listings[l].status = "published"
    /\ listings' = [listings EXCEPT ![l].status = "unlisted"]
    /\ UNCHANGED <<titleClaims, blocks, ownership, likes, balance, ledger, notifications>>

\* Down from the shop, by the seller; the name is free again.
unpublish(u, l) ==
    /\ Owned(u, l)
    /\ listings[l].status = "published"
    /\ listings' = [listings EXCEPT ![l].status = "unlisted"]
    /\ release_title(l)
    /\ UNCHANGED <<blocks, ownership, likes, balance, ledger, notifications>>

(***************************************************************************)
(* Deleted by its seller, from any status.  The document, the ownerships   *)
(* and the ledger stay, and the title's claim is deleted whoever holds it. *)
(***************************************************************************)
delete(u, l) ==
    /\ Owned(u, l)
    /\ listings[l].status # "deleted"
    /\ listings' = [listings EXCEPT ![l].status = "deleted"]
    /\ release_title(l)
    /\ UNCHANGED <<blocks, ownership, likes, balance, ledger, notifications>>

----------------------------------------------------------------------------
(***************************************************************************)
(* Buyers                                                                  *)
(***************************************************************************)

\* Fault: both sides of a sale are keyed by the listing alone.
TradeKeyedByListing(u, seller, l, price) ==
    LET bought == Key(u, "purchase", l)
        sold == Key(seller, "sale", l)
    IN
    /\ Affords(u, -price, bought)
    /\ Flush(Staged(Staged(Books, u, -price, bought), seller, price, sold))

\* The buyer pays and the seller is paid; both entries carry the ownership's id.
Trade(u, seller, l, price) ==
    LET bought == Key(u, "purchase", <<u, l>>)
        sold == Key(seller, "sale", <<u, l>>)
    IN
    /\ Affords(u, -price, bought)
    /\ Flush(Staged(Staged(Books, u, -price, bought), seller, price, sold))

\* The sale notice is written in the commit of the sale.
acquire(u, l) ==
    LET listing == listings[l] IN
    /\ is_public(l)
    /\ <<u, l>> \notin DOMAIN ownership                 \* already owned
    /\ listing.seller # u                               \* SelfPurchase
    /\ \/ /\ listing.price > 0
          /\ Trade(u, listing.seller, l, listing.price)
       \/ /\ listing.price = 0
          /\ UNCHANGED <<balance, ledger>>
    /\ ownership' = Put(ownership, <<u, l>>, listing.price)
    /\ listings' = [listings EXCEPT ![l].downloadCount = @ + 1]
    /\ notifications' = Put(notifications, <<"sale", <<u, l>>>>, listing.price)
    /\ UNCHANGED <<titleClaims, blocks, likes>>

\* Fault: a second tap counts again.
like_counts_each_tap(u, l) ==
    /\ is_public(l)
    /\ listings[l].seller # u
    /\ likes' = likes \cup {<<u, l>>}
    /\ listings' = [listings EXCEPT ![l].likeCount = @ + 1]
    /\ UNCHANGED <<titleClaims, blocks, ownership, balance, ledger, notifications>>

like(u, l) ==
    /\ is_public(l)
    /\ <<u, l>> \notin likes                            \* already liked
    /\ listings[l].seller # u                           \* SelfLike
    /\ likes' = likes \cup {<<u, l>>}
    /\ listings' = [listings EXCEPT ![l].likeCount = @ + 1]
    /\ UNCHANGED <<titleClaims, blocks, ownership, balance, ledger, notifications>>

\* A like can be taken back from a listing that is no longer public.
unlike(u, l) ==
    /\ l \in DOMAIN listings
    /\ listings[l].status # "draft"
    /\ <<u, l>> \in likes
    /\ listings[l].likeCount # 0                        \* LikeCountInconsistent
    /\ likes' = likes \ {<<u, l>>}
    /\ listings' = [listings EXCEPT ![l].likeCount = @ - 1]
    /\ UNCHANGED <<titleClaims, blocks, ownership, balance, ledger, notifications>>

----------------------------------------------------------------------------
(***************************************************************************)
(* Operators                                                               *)
(***************************************************************************)

(***************************************************************************)
(* The compensation a takedown reports.  apply_in_transaction stages its   *)
(* writes in a context that is made for this call and never flushed, so    *)
(* the ledger and the wallet stay as they are.                             *)
(***************************************************************************)
compensate(l) ==
    IF Key(listings[l].seller, "moderation_compensation", l) \in DOMAIN ledger
    THEN 0 ELSE MODERATION_COMPENSATION

\* A listing in any status is taken down; its source cannot be listed anew.
takedown(l) ==
    LET listing == listings[l] IN
    /\ l \in DOMAIN listings
    /\ ~ listing.moderated
    /\ listings' = [listings EXCEPT ![l].moderated = TRUE]
    /\ blocks' = IF listing.source = NoSource THEN blocks
                 ELSE Put(blocks, <<listing.seller, listing.source>>, l)
    /\ notifications' = Put(notifications, <<"takedown", l>>, compensate(l))
    /\ UNCHANGED <<titleClaims, ownership, likes, balance, ledger>>

\* Fault: a restored listing leaves its block behind.
OwnsNothing(l) == FALSE

\* The block on the listing's source is this listing's own.
OwnsBlock(l) ==
    LET id == <<listings[l].seller, listings[l].source>> IN
    id \in DOMAIN blocks /\ blocks[id] = l

\* Fault: what the operator restores is on sale again, whatever the seller did to it.
restore_for_sale(l) ==
    /\ l \in DOMAIN listings
    /\ listings[l].moderated
    /\ listings' = [listings EXCEPT ![l].moderated = FALSE, ![l].status = "published"]
    /\ blocks' = IF OwnsBlock(l)
                 THEN Without(blocks, <<listings[l].seller, listings[l].source>>)
                 ELSE blocks
    /\ UNCHANGED <<titleClaims, ownership, likes, balance, ledger, notifications>>

\* The operator takes the takedown back, unless the seller has deleted the listing.
restore(l) ==
    /\ l \in DOMAIN listings
    /\ listings[l].status # "deleted"                   \* TerminalListing
    /\ listings[l].moderated                            \* NotModerated
    /\ listings' = [listings EXCEPT ![l].moderated = FALSE]
    /\ blocks' = IF OwnsBlock(l)
                 THEN Without(blocks, <<listings[l].seller, listings[l].source>>)
                 ELSE blocks
    /\ UNCHANGED <<titleClaims, ownership, likes, balance, ledger, notifications>>

----------------------------------------------------------------------------
Next ==
    \/ \E u \in Users, l \in Listings :
          \/ \E t \in Titles, s \in Sources \cup {NoSource}, p \in Prices :
                create_draft(u, l, t, s, p)
          \/ publish(u, l)
          \/ unpublish(u, l)
          \/ delete(u, l)
          \/ acquire(u, l)
          \/ like(u, l)
          \/ unlike(u, l)
    \/ \E l \in Listings : takedown(l) \/ restore(l)

Spec == Init /\ [][Next]_vars

----------------------------------------------------------------------------
(***************************************************************************)
(* Properties                                                              *)
(***************************************************************************)

\* The shards a set of ledger entries moves.
Total(keys) == MapThenSumSet(LAMBDA k : ledger[k], keys)

\* A wallet is what its user started with and the sum of the ledger's entries.
LedgerExplainsBalances ==
    \A u \in Users : balance[u] = StartBalance + Total({k \in DOMAIN ledger : k[1] = u})

(***************************************************************************)
(* publishFeePaid, which makes a republication free, is true exactly when  *)
(* the ledger shows one fee, the policy's, paid by the seller.             *)
(***************************************************************************)
FeeFlagMatchesLedger ==
    \A l \in DOMAIN listings :
        LET key == Key(listings[l].seller, "publish_fee", l) IN
        /\ listings[l].publishFeePaid <=> key \in DOMAIN ledger
        /\ key \in DOMAIN ledger => ledger[key] = -Fee

(***************************************************************************)
(* What the buyers of a seller's listings paid is what the seller was      *)
(* paid, to the shard and for each of them, and is what the sale notices   *)
(* say: with many buyers of one listing no sale is lost.                   *)
(***************************************************************************)
EverySaleIsPaid ==
    \A u \in Users :
        LET sold == {o \in DOMAIN ownership : listings[o[2]].seller = u}
            bought == {o \in DOMAIN ownership : o[1] = u}
            Paid(os) == MapThenSumSet(LAMBDA o : ownership[o], os)
        IN
        /\ Total({k \in DOMAIN ledger : k[1] = u /\ k[2] = "sale"}) = Paid(sold)
        /\ Total({k \in DOMAIN ledger : k[1] = u /\ k[2] = "purchase"}) = -Paid(bought)
        /\ \A o \in sold : notifications[<<"sale", o>>] = ownership[o]

\* The counters on a listing are the numbers of its ownerships and likes.
CountersMatchDocuments ==
    \A l \in DOMAIN listings :
        /\ listings[l].downloadCount = Cardinality({o \in DOMAIN ownership : o[2] = l})
        /\ listings[l].likeCount = Cardinality({k \in likes : k[2] = l})

(***************************************************************************)
(* A name is held only by a published listing of that name, so a name that *)
(* nobody sells under can be taken.                                        *)
(***************************************************************************)
ClaimsArePublished ==
    \A t \in DOMAIN titleClaims :
        LET l == titleClaims[t] IN
        listings[l].title = t /\ listings[l].status = "published"

\* A block is there because of a listing, of that seller and source, that is taken down.
BlocksAreExplained ==
    \A b \in DOMAIN blocks :
        LET l == blocks[b] IN
        /\ b = <<listings[l].seller, listings[l].source>>
        /\ listings[l].moderated

(***************************************************************************)
(* What no step takes back: a deleted listing, a fee paid, what a buyer    *)
(* owns and at which price, an entry of the ledger, and the seller, title, *)
(* source and price a listing was made with.                               *)
(***************************************************************************)
RightsKept ==
    /\ \A l \in DOMAIN listings :
          /\ l \in DOMAIN listings'
          /\ listings[l].status = "deleted" => listings'[l].status = "deleted"
          /\ listings[l].publishFeePaid => listings'[l].publishFeePaid
          /\ \A f \in {"seller", "title", "source", "price"} :
                listings'[l][f] = listings[l][f]
    /\ Restrict(ownership', DOMAIN ownership) = ownership
    /\ Restrict(ledger', DOMAIN ledger) = ledger

\* No step takes back what RightsKept lists.
RightsStay == [][RightsKept]_vars

(***************************************************************************)
(* The title rule: no two published listings have the same name.  It is    *)
(* what listing_title_key and TitleTaken are for.                          *)
(***************************************************************************)
PublishedTitlesUnique ==
    \A l, m \in DOMAIN listings :
        (/\ listings[l].status = "published"
         /\ listings[m].status = "published"
         /\ listings[l].title = listings[m].title) => l = m

\* A notice of a takedown that tells of shards tells of shards that were paid.
CompensationIsPaid ==
    \A l \in DOMAIN listings :
        (/\ <<"takedown", l>> \in DOMAIN notifications
         /\ notifications[<<"takedown", l>>] > 0)
            => Key(listings[l].seller, "moderation_compensation", l) \in DOMAIN ledger

=============================================================================
