-------------------------- MODULE StorefrontProofs --------------------------
(***************************************************************************)
(* What the shop guarantees for every set of users, listings, titles,      *)
(* sources, prices and packages.  The first part is about Marketplace by   *)
(* itself, the second about Storefront, where accounts are deleted in it.  *)
(*                                                                         *)
(* IInv is the inductive invariant of Marketplace.  That the fee flag      *)
(* agrees with the ledger needs to know where fee entries come from        *)
(* (FeesHaveListings): a listing that is created must not find a fee paid  *)
(* under its id.  That a name is held by a published listing needs that    *)
(* what is released is the name of the listing that goes down.  The        *)
(* counters need IInv as far as it says that nobody has bought or liked a  *)
(* listing yet to be made, and so do the sums of what sales paid           *)
(* (SalesInv).                                                             *)
(*                                                                         *)
(* A deletion updates listings without reading them, so that Storefront    *)
(* has invariants of its own: nobody owns a retired listing, whose seller  *)
(* is no user, every like is of a listing that is there (SInv), and what   *)
(* is sold is all there, whatever uploads were broken off (RInv).          *)
(***************************************************************************)
EXTENDS Storefront, Tallies, SequenceTheorems

\* Every fee in the ledger was paid for a listing, by its seller.
FeesHaveListings ==
    \A u, l : Key(u, "publish_fee", l) \in DOMAIN ledger =>
                  l \in DOMAIN listings /\ listings[l].seller = u

\* The collections are functions.
Collections ==
    /\ ledger = [k \in DOMAIN ledger |-> ledger[k]]
    /\ ownership = [o \in DOMAIN ownership |-> ownership[o]]

IInv ==
    /\ TypeOK
    /\ Collections
    /\ FeesHaveListings
    /\ FeeFlagMatchesLedger
    /\ ClaimsArePublished
    /\ BlocksAreExplained

----------------------------------------------------------------------------
(***************************************************************************)
(* Helpers                                                                 *)
(***************************************************************************)

\* Deleting a document leaves the others.
LEMMA WithoutFacts ==
    ASSUME NEW coll, NEW id
    PROVE  /\ DOMAIN Without(coll, id) = DOMAIN coll \ {id}
           /\ \A k \in DOMAIN coll : k # id => Without(coll, id)[k] = coll[k]
  BY DEF Without, Restrict

\* A collection's values lie in a set when each of them does.
LEMMA RangeFacts ==
    ASSUME NEW coll, NEW S
    PROVE  Range(coll) \subseteq S <=> \A k \in DOMAIN coll : coll[k] \in S
  BY DEF Range

\* Keys are equal only part by part.
LEMMA KeyFacts ==
    \A u, r, e, v, s, f : Key(u, r, e) = Key(v, s, f) <=> u = v /\ r = s /\ e = f
  BY DEF Key

\* apply_in_transaction adds at most its own entry, and no wallet falls below zero when
\* InsufficientShards is not raised.
LEMMA StagedFacts ==
    ASSUME NEW books, books.balance \in [Users -> Nat],
           books.ledger = [k \in DOMAIN books.ledger |-> books.ledger[k]],
           NEW u \in Users, NEW delta \in Int, NEW key,
           key \in DOMAIN books.ledger \/ books.balance[u] + delta >= 0
    PROVE  LET after == Staged(books, u, delta, key) IN
           /\ after.balance \in [Users -> Nat]
           /\ DOMAIN after.ledger = DOMAIN books.ledger \cup {key}
           /\ \A k \in DOMAIN books.ledger : after.ledger[k] = books.ledger[k]
           /\ key \notin DOMAIN books.ledger => after.ledger[key] = delta
           /\ after.ledger = [k \in DOMAIN after.ledger |-> after.ledger[k]]
  <1>1. CASE key \in DOMAIN books.ledger
    BY <1>1 DEF Staged
  <1>2. CASE key \notin DOMAIN books.ledger
    <2>1. [books.balance EXCEPT ![u] = @ + delta] \in [Users -> Nat]
      BY <1>2
    <2>2. /\ Staged(books, u, delta, key).balance = [books.balance EXCEPT ![u] = @ + delta]
          /\ Staged(books, u, delta, key).ledger = Put(books.ledger, key, delta)
      BY <1>2 DEF Staged
    <2>3. \A k \in DOMAIN books.ledger : Put(books.ledger, key, delta)[k] = books.ledger[k]
      BY <1>2 DEF Put
    <2>4. /\ DOMAIN Put(books.ledger, key, delta) = DOMAIN books.ledger \cup {key}
          /\ Put(books.ledger, key, delta)[key] = delta
          /\ Put(books.ledger, key, delta)
               = [k \in DOMAIN books.ledger \cup {key} |-> Put(books.ledger, key, delta)[k]]
      BY DEF Put
    <2>. QED
      BY <1>2, <2>1, <2>2, <2>3, <2>4
  <1>. QED
    BY <1>1, <1>2

\* Empty collections satisfy the invariant.
LEMMA InitIInv == Init => IInv
  BY PricesAssumption
  DEF Init, Empty, IInv, TypeOK, Collections, FeesHaveListings, FeeFlagMatchesLedger,
      ClaimsArePublished, BlocksAreExplained, Range

----------------------------------------------------------------------------
(***************************************************************************)
(* The economy of a step, once for all actions that leave fees alone: the  *)
(* entries of fees, and the flags that follow them, are untouched.         *)
(***************************************************************************)
LEMMA NoFeeStep ==
    ASSUME IInv,
           DOMAIN listings \subseteq DOMAIN listings',
           \A l \in DOMAIN listings :
               /\ listings'[l].seller = listings[l].seller
               /\ listings'[l].publishFeePaid = listings[l].publishFeePaid,
           \A l \in DOMAIN listings' \ DOMAIN listings : ~ listings'[l].publishFeePaid,
           \A l \in DOMAIN listings' : listings'[l].publishFeePaid \in BOOLEAN,
           \A u, l : Key(u, "publish_fee", l) \in DOMAIN ledger'
                        <=> Key(u, "publish_fee", l) \in DOMAIN ledger,
           \A k \in DOMAIN ledger : ledger'[k] = ledger[k]
    PROVE  FeesHaveListings' /\ FeeFlagMatchesLedger'
  <1>1. FeesHaveListings'
    BY DEF IInv, FeesHaveListings
  <1>2. FeeFlagMatchesLedger'
    <2> SUFFICES ASSUME NEW l \in DOMAIN listings'
                 PROVE  LET key == Key(listings'[l].seller, "publish_fee", l) IN
                        /\ listings'[l].publishFeePaid <=> key \in DOMAIN ledger'
                        /\ key \in DOMAIN ledger' => ledger'[key] = -Fee
      BY DEF FeeFlagMatchesLedger
    <2>1. CASE l \in DOMAIN listings
      BY <2>1 DEF IInv, FeeFlagMatchesLedger
    <2>2. CASE l \notin DOMAIN listings
      BY <2>2 DEF IInv, FeesHaveListings
    <2>. QED
      BY <2>1, <2>2
  <1>. QED
    BY <1>1, <1>2


\* A new draft is unpublished, unpaid and unblocked, and its id has never been paid for.
LEMMA DraftStep ==
    ASSUME IInv,
           NEW u \in Users, NEW l \in Listings, NEW t \in Titles,
           NEW s \in Sources \cup {NoSource}, NEW p \in Prices,
           create_draft(u, l, t, s, p)
    PROVE  IInv'
  <1>1. /\ DOMAIN listings' = DOMAIN listings \cup {l}
        /\ l \notin DOMAIN listings
        /\ listings'[l] \in Listing
        /\ ~ listings'[l].publishFeePaid
        /\ \A m \in DOMAIN listings : listings'[m] = listings[m]
        /\ listings' = [m \in DOMAIN listings' |-> listings'[m]]
    BY DEF create_draft, Put, Listing, Statuses
  <1>2. UNCHANGED <<titleClaims, blocks, ownership, likes, balance, ledger>>
    BY DEF create_draft
  <1>3. TypeOK'
    BY <1>1, <1>2, RangeFacts DEF IInv, TypeOK
  <1>4. Collections'
    BY <1>2 DEF IInv, Collections
  <1>5. \A m \in DOMAIN listings' : listings'[m].publishFeePaid \in BOOLEAN
    BY <1>3 DEF TypeOK, Listing
  <1>6. FeesHaveListings' /\ FeeFlagMatchesLedger'
    BY <1>1, <1>2, <1>5, NoFeeStep
  <1>7. \A x : x \in Range(titleClaims) \/ x \in Range(blocks) => x \in DOMAIN listings
    BY DEF IInv, TypeOK
  <1>8. ClaimsArePublished'
    BY <1>1, <1>2, <1>7 DEF IInv, ClaimsArePublished, Range
  <1>9. BlocksAreExplained'
    BY <1>1, <1>2, <1>7 DEF IInv, BlocksAreExplained, Range
  <1>. QED
    BY <1>3, <1>4, <1>6, <1>8, <1>9 DEF IInv

(***************************************************************************)
(* The types of a step that changes one listing's document, keeping its    *)
(* seller, title and source, and adds no listing.                          *)
(***************************************************************************)
LEMMA ListingTypes ==
    ASSUME IInv,
           NEW l \in DOMAIN listings, NEW doc \in Listing,
           listings' = [listings EXCEPT ![l] = doc]
    PROVE  /\ DOMAIN listings' = DOMAIN listings
           /\ listings' \in [DOMAIN listings' -> Listing]
           /\ listings'[l] = doc
           /\ \A m \in DOMAIN listings : m # l => listings'[m] = listings[m]
           /\ \A m \in DOMAIN listings' : listings'[m].publishFeePaid \in BOOLEAN
  <1>1. listings \in [DOMAIN listings -> Listing]
    BY DEF IInv, TypeOK
  <1>2. /\ DOMAIN listings' = DOMAIN listings
        /\ listings' \in [DOMAIN listings' -> Listing]
        /\ listings'[l] = doc
        /\ \A m \in DOMAIN listings : m # l => listings'[m] = listings[m]
    BY <1>1
  <1>. QED
    BY <1>2 DEF Listing

\* The documents of listings are listings.
LEMMA ListingFacts ==
    ASSUME IInv, NEW l \in DOMAIN listings
    PROVE  /\ listings[l] \in Listing
           /\ l \in Listings
           /\ listings[l].seller \in Users
           /\ listings[l].title \in Titles
           /\ listings[l].source \in Sources \cup {NoSource}
           /\ listings[l].price \in Prices /\ listings[l].price \in Nat
           /\ listings[l].downloadCount \in Nat
           /\ listings[l].likeCount \in Nat
  BY PricesAssumption DEF IInv, TypeOK, Listing

\* What a publication does to the books: the fee is in them, and nothing else is new.
LEMMA PublishBooks ==
    ASSUME IInv, NEW u \in Users, NEW l \in Listings, publish(u, l)
    PROVE  LET key == Key(u, "publish_fee", l) IN
           /\ balance' \in [Users -> Nat]
           /\ DOMAIN ledger' = DOMAIN ledger \cup {key}
           /\ \A k \in DOMAIN ledger : ledger'[k] = ledger[k]
           /\ ledger'[key] = -Fee
           /\ ledger' = [k \in DOMAIN ledger' |-> ledger'[k]]
  <1> DEFINE key == Key(u, "publish_fee", l)
  <1>0. l \in DOMAIN listings /\ listings[l].seller = u
    BY DEF publish, Owned
  <1>1. /\ Books.balance = balance /\ Books.ledger = ledger
        /\ balance \in [Users -> Nat]
        /\ ledger = [k \in DOMAIN ledger |-> ledger[k]]
    BY DEF Books, IInv, TypeOK, Collections
  <1>2. listings[l].publishFeePaid <=> key \in DOMAIN ledger
    BY <1>0 DEF IInv, FeeFlagMatchesLedger
  <1>3. key \in DOMAIN ledger => ledger[key] = -Fee
    BY <1>0 DEF IInv, FeeFlagMatchesLedger
  <1>4. CASE listings[l].publishFeePaid
    <2>1. UNCHANGED <<balance, ledger>>
      BY <1>4 DEF publish, ChargeFee
    <2>. QED
      BY <1>1, <1>2, <1>3, <1>4, <2>1
  <1>5. CASE ~ listings[l].publishFeePaid
    <2>1. /\ key \in DOMAIN ledger \/ balance[u] + -Fee >= 0
          /\ balance' = Staged(Books, u, -Fee, key).balance
          /\ ledger' = Staged(Books, u, -Fee, key).ledger
      BY <1>5 DEF publish, ChargeFee, Affords, Flush
    <2>2. -Fee \in Int
      BY PricesAssumption
    <2>. QED
      BY <1>1, <1>2, <1>5, <2>1, <2>2, StagedFacts
  <1>. QED
    BY <1>4, <1>5

\* Publishing takes the name and, the first time, the fee.
LEMMA PublishStep ==
    ASSUME IInv, NEW u \in Users, NEW l \in Listings, publish(u, l)
    PROVE  IInv'
  <1> DEFINE doc == [listings[l] EXCEPT !.status = "published", !.publishFeePaid = TRUE]
             key == Key(u, "publish_fee", l)
  <1>1. l \in DOMAIN listings /\ listings[l].seller = u
    BY DEF publish, Owned
  <1>2. listings[l] \in Listing
    BY <1>1, ListingFacts
  <1>3. /\ doc \in Listing
        /\ doc.seller = u /\ doc.title = listings[l].title /\ doc.source = listings[l].source
        /\ doc.status = "published" /\ doc.publishFeePaid = TRUE
        /\ doc.moderated = listings[l].moderated
    BY <1>1, <1>2 DEF Listing, Statuses
  <1>4. listings' = [listings EXCEPT ![l] = doc]
    BY <1>1 DEF publish, IInv, TypeOK
  <1> HIDE DEF doc
  <1>5. /\ DOMAIN listings' = DOMAIN listings
        /\ listings' \in [DOMAIN listings' -> Listing]
        /\ listings'[l] = doc
        /\ \A m \in DOMAIN listings : m # l => listings'[m] = listings[m]
    BY <1>1, <1>3, <1>4, ListingTypes
  <1>6. UNCHANGED <<blocks, ownership, likes>>
    BY DEF publish
  <1>7. /\ balance' \in [Users -> Nat]
        /\ DOMAIN ledger' = DOMAIN ledger \cup {key}
        /\ \A k \in DOMAIN ledger : ledger'[k] = ledger[k]
        /\ ledger'[key] = -Fee
        /\ ledger' = [k \in DOMAIN ledger' |-> ledger'[k]]
    BY PublishBooks
  <1>8. /\ DOMAIN titleClaims' = DOMAIN titleClaims \cup {listings[l].title}
        /\ titleClaims'[listings[l].title] = l
        /\ \A t \in DOMAIN titleClaims : t # listings[l].title => titleClaims'[t] = titleClaims[t]
    BY DEF publish, Put
  <1>9. /\ \A t \in DOMAIN titleClaims : titleClaims[t] \in DOMAIN listings
        /\ \A b \in DOMAIN blocks : blocks[b] \in DOMAIN listings
    BY RangeFacts DEF IInv, TypeOK
  <1>10. TypeOK'
    <2>1. listings[l].title \in Titles
      BY <1>1, ListingFacts
    <2>2. DOMAIN titleClaims' \subseteq Titles /\ Range(titleClaims') \subseteq DOMAIN listings'
      BY <1>1, <1>5, <1>8, <1>9, <2>1, RangeFacts DEF IInv, TypeOK
    <2>. QED
      BY <1>5, <1>6, <1>7, <2>2 DEF IInv, TypeOK
  <1>11. Collections'
    BY <1>6, <1>7 DEF IInv, Collections
  <1>12. FeesHaveListings'
    <2> SUFFICES ASSUME NEW v, NEW m, Key(v, "publish_fee", m) \in DOMAIN ledger'
                 PROVE  m \in DOMAIN listings' /\ listings'[m].seller = v
      BY DEF FeesHaveListings
    <2>1. CASE Key(v, "publish_fee", m) = key
      BY <1>1, <1>3, <1>5, <2>1, KeyFacts
    <2>2. CASE Key(v, "publish_fee", m) # key
      <3>1. m \in DOMAIN listings /\ listings[m].seller = v
        BY <1>7, <2>2 DEF IInv, FeesHaveListings
      <3>. QED
        BY <1>1, <1>3, <1>5, <3>1
    <2>. QED
      BY <2>1, <2>2
  <1>13. FeeFlagMatchesLedger'
    <2> SUFFICES ASSUME NEW m \in DOMAIN listings'
                 PROVE  LET k == Key(listings'[m].seller, "publish_fee", m) IN
                        /\ listings'[m].publishFeePaid <=> k \in DOMAIN ledger'
                        /\ k \in DOMAIN ledger' => ledger'[k] = -Fee
      BY DEF FeeFlagMatchesLedger
    <2>1. CASE m = l
      BY <1>3, <1>5, <1>7, <2>1
    <2>2. CASE m # l
      BY <1>5, <1>7, <2>2, KeyFacts DEF IInv, FeeFlagMatchesLedger
    <2>. QED
      BY <2>1, <2>2
  <1>14. ClaimsArePublished'
    <2> SUFFICES ASSUME NEW t \in DOMAIN titleClaims'
                 PROVE  /\ listings'[titleClaims'[t]].title = t
                        /\ listings'[titleClaims'[t]].status = "published"
      BY DEF ClaimsArePublished
    <2>1. CASE t = listings[l].title
      BY <1>1, <1>3, <1>5, <1>8, <2>1
    <2>2. CASE t # listings[l].title
      <3>1. /\ t \in DOMAIN titleClaims /\ titleClaims'[t] = titleClaims[t]
            /\ titleClaims[t] \in DOMAIN listings
            /\ listings[titleClaims[t]].title = t
            /\ listings[titleClaims[t]].status = "published"
        BY <1>8, <1>9, <2>2 DEF IInv, ClaimsArePublished
      <3>. QED
        BY <1>3, <1>5, <3>1
    <2>. QED
      BY <2>1, <2>2
  <1>15. BlocksAreExplained'
    <2> SUFFICES ASSUME NEW b \in DOMAIN blocks
                 PROVE  /\ b = <<listings'[blocks[b]].seller, listings'[blocks[b]].source>>
                        /\ listings'[blocks[b]].moderated
      BY <1>6 DEF BlocksAreExplained
    <2>1. /\ blocks[b] \in DOMAIN listings
          /\ b = <<listings[blocks[b]].seller, listings[blocks[b]].source>>
          /\ listings[blocks[b]].moderated
      BY <1>9 DEF IInv, BlocksAreExplained
    <2>. QED
      BY <1>1, <1>3, <1>5, <2>1
  <1>. QED
    BY <1>10, <1>11, <1>12, <1>13, <1>14, <1>15 DEF IInv

\* A listing that goes down, withdrawn or deleted, releases its own name: no claim is left
\* that names it, because a claim carries the title of its holder.
LEMMA DownStep ==
    ASSUME IInv, NEW u \in Users, NEW l \in Listings, NEW status \in {"unlisted", "deleted"},
           Owned(u, l), release_title(l),
           listings' = [listings EXCEPT ![l].status = status],
           UNCHANGED <<blocks, ownership, likes, balance, ledger>>
    PROVE  IInv'
  <1> DEFINE doc == [listings[l] EXCEPT !.status = status]
  <1>1. l \in DOMAIN listings /\ listings[l] \in Listing
    BY ListingFacts DEF Owned
  <1>2. /\ doc \in Listing
        /\ doc.seller = listings[l].seller /\ doc.title = listings[l].title
        /\ doc.source = listings[l].source /\ doc.moderated = listings[l].moderated
        /\ doc.publishFeePaid = listings[l].publishFeePaid
    BY <1>1 DEF Listing, Statuses
  <1>3. listings' = [listings EXCEPT ![l] = doc]
    BY <1>1 DEF IInv, TypeOK
  <1>4. /\ DOMAIN listings' = DOMAIN listings
        /\ listings' \in [DOMAIN listings' -> Listing]
        /\ listings'[l] = doc
        /\ \A m \in DOMAIN listings : m # l => listings'[m] = listings[m]
        /\ \A m \in DOMAIN listings' : listings'[m].publishFeePaid \in BOOLEAN
    BY <1>1, <1>2, <1>3, ListingTypes
  <1>5. /\ DOMAIN titleClaims' = DOMAIN titleClaims \ {listings[l].title}
        /\ \A t \in DOMAIN titleClaims' : titleClaims'[t] = titleClaims[t]
    BY WithoutFacts DEF release_title
  <1>6. /\ \A t \in DOMAIN titleClaims : titleClaims[t] \in DOMAIN listings
        /\ \A b \in DOMAIN blocks : blocks[b] \in DOMAIN listings
    BY RangeFacts DEF IInv, TypeOK
  <1>7. TypeOK'
    <2>1. DOMAIN titleClaims' \subseteq Titles /\ Range(titleClaims') \subseteq DOMAIN listings'
      BY <1>4, <1>5, <1>6, RangeFacts DEF IInv, TypeOK
    <2>. QED
      BY <1>4, <2>1 DEF IInv, TypeOK
  <1>8. Collections'
    BY DEF IInv, Collections
  <1>9. FeesHaveListings' /\ FeeFlagMatchesLedger'
    BY <1>2, <1>4, NoFeeStep
  <1>10. ClaimsArePublished'
    <2> SUFFICES ASSUME NEW t \in DOMAIN titleClaims'
                 PROVE  /\ listings'[titleClaims'[t]].title = t
                        /\ listings'[titleClaims'[t]].status = "published"
      BY DEF ClaimsArePublished
    <2>1. /\ titleClaims'[t] = titleClaims[t] /\ titleClaims[t] \in DOMAIN listings
          /\ listings[titleClaims[t]].title = t
          /\ listings[titleClaims[t]].status = "published"
          /\ t # listings[l].title
      BY <1>5, <1>6 DEF IInv, ClaimsArePublished
    <2>. QED
      BY <1>4, <2>1
  <1>11. BlocksAreExplained'
    BY <1>2, <1>4, <1>6 DEF IInv, BlocksAreExplained
  <1>. QED
    BY <1>7, <1>8, <1>9, <1>10, <1>11 DEF IInv

(***************************************************************************)
(* Counters: a step that changes only the counts of a listing, and the     *)
(* documents that are counted.                                             *)
(***************************************************************************)
LEMMA CountStep ==
    ASSUME IInv, NEW l \in DOMAIN listings, NEW doc \in Listing,
           listings' = [listings EXCEPT ![l] = doc],
           \A f \in {"seller", "title", "source", "status", "moderated", "publishFeePaid"} :
               doc[f] = listings[l][f],
           UNCHANGED <<titleClaims, blocks>>,
           balance' \in [Users -> Nat],
           ledger' = [k \in DOMAIN ledger' |-> ledger'[k]],
           \A u, m : Key(u, "publish_fee", m) \in DOMAIN ledger'
                        <=> Key(u, "publish_fee", m) \in DOMAIN ledger,
           \A k \in DOMAIN ledger : ledger'[k] = ledger[k],
           ownership' = [o \in DOMAIN ownership' |-> ownership'[o]],
           DOMAIN ownership' \subseteq Users \X DOMAIN listings,
           Range(ownership') \subseteq Prices,
           likes' \subseteq Users \X DOMAIN listings
    PROVE  IInv'
  <1>1. /\ DOMAIN listings' = DOMAIN listings
        /\ listings' \in [DOMAIN listings' -> Listing]
        /\ listings'[l] = doc
        /\ \A m \in DOMAIN listings : m # l => listings'[m] = listings[m]
        /\ \A m \in DOMAIN listings' : listings'[m].publishFeePaid \in BOOLEAN
    BY ListingTypes
  <1>2. /\ doc.seller = listings[l].seller /\ doc.title = listings[l].title
        /\ doc.source = listings[l].source /\ doc.moderated = listings[l].moderated
        /\ doc.status = listings[l].status /\ doc.publishFeePaid = listings[l].publishFeePaid
    OBVIOUS
  <1>3. TypeOK'
    BY <1>1 DEF IInv, TypeOK
  <1>4. Collections'
    BY DEF Collections
  <1>5. FeesHaveListings' /\ FeeFlagMatchesLedger'
    BY <1>1, <1>2, NoFeeStep
  <1>6. /\ \A t \in DOMAIN titleClaims : titleClaims[t] \in DOMAIN listings
        /\ \A b \in DOMAIN blocks : blocks[b] \in DOMAIN listings
    BY RangeFacts DEF IInv, TypeOK
  <1>7. ClaimsArePublished'
    BY <1>1, <1>2, <1>6 DEF IInv, ClaimsArePublished
  <1>8. BlocksAreExplained'
    BY <1>1, <1>2, <1>6 DEF IInv, BlocksAreExplained
  <1>. QED
    BY <1>3, <1>4, <1>5, <1>7, <1>8 DEF IInv

\* What a sale does to the books: entries are added, none of them a fee.
LEMMA TradeBooks ==
    ASSUME IInv, NEW u \in Users, NEW v \in Users, NEW l, NEW price \in Nat,
           Trade(u, v, l, price)
    PROVE  /\ balance' \in [Users -> Nat]
           /\ ledger' = [k \in DOMAIN ledger' |-> ledger'[k]]
           /\ DOMAIN ledger' = DOMAIN ledger \cup
                {Key(u, "purchase", <<u, l>>), Key(v, "sale", <<u, l>>)}
           /\ \A k \in DOMAIN ledger : ledger'[k] = ledger[k]
  <1> DEFINE bought == Key(u, "purchase", <<u, l>>)
             sold == Key(v, "sale", <<u, l>>)
             debited == Staged(Books, u, -price, bought)
             credited == Staged(debited, v, price, sold)
  <1>1. /\ Books.balance = balance /\ Books.ledger = ledger
        /\ balance \in [Users -> Nat]
        /\ ledger = [k \in DOMAIN ledger |-> ledger[k]]
    BY DEF Books, IInv, TypeOK, Collections
  <1>2. /\ bought \in DOMAIN ledger \/ balance[u] + -price >= 0
        /\ balance' = credited.balance /\ ledger' = credited.ledger
    BY DEF Trade, Affords, Flush
  <1> HIDE DEF bought, sold
  <1>3. -price \in Int
    OBVIOUS
  <1>4. /\ debited.balance \in [Users -> Nat]
        /\ DOMAIN debited.ledger = DOMAIN ledger \cup {bought}
        /\ \A k \in DOMAIN ledger : debited.ledger[k] = ledger[k]
        /\ debited.ledger = [k \in DOMAIN debited.ledger |-> debited.ledger[k]]
    BY <1>1, <1>2, <1>3, StagedFacts
  <1> HIDE DEF debited
  <1>5. debited.balance[v] + price >= 0
    BY <1>4
  <1>6. /\ credited.balance \in [Users -> Nat]
        /\ DOMAIN credited.ledger = DOMAIN debited.ledger \cup {sold}
        /\ \A k \in DOMAIN debited.ledger : credited.ledger[k] = debited.ledger[k]
        /\ credited.ledger = [k \in DOMAIN credited.ledger |-> credited.ledger[k]]
    BY <1>4, <1>5, StagedFacts
  <1>. QED
    BY <1>2, <1>4, <1>6 DEF bought, sold

\* What an acquisition does to the books, priced or free.
LEMMA AcquireBooks ==
    ASSUME IInv, NEW u \in Users, NEW l \in Listings, acquire(u, l)
    PROVE  /\ balance' \in [Users -> Nat]
           /\ ledger' = [k \in DOMAIN ledger' |-> ledger'[k]]
           /\ \A v, m : Key(v, "publish_fee", m) \in DOMAIN ledger'
                           <=> Key(v, "publish_fee", m) \in DOMAIN ledger
           /\ DOMAIN ledger \subseteq DOMAIN ledger'
           /\ \A k \in DOMAIN ledger : ledger'[k] = ledger[k]
  <1>1. l \in DOMAIN listings
    BY DEF acquire, is_public
  <1>2. listings[l].seller \in Users /\ listings[l].price \in Nat
    BY <1>1, ListingFacts
  <1>3. CASE UNCHANGED <<balance, ledger>>
    BY <1>3 DEF IInv, TypeOK, Collections
  <1>4. CASE Trade(u, listings[l].seller, l, listings[l].price)
    <2>1. /\ balance' \in [Users -> Nat]
          /\ ledger' = [k \in DOMAIN ledger' |-> ledger'[k]]
          /\ DOMAIN ledger' = DOMAIN ledger \cup
                {Key(u, "purchase", <<u, l>>), Key(listings[l].seller, "sale", <<u, l>>)}
          /\ \A k \in DOMAIN ledger : ledger'[k] = ledger[k]
      BY <1>2, <1>4, TradeBooks
    <2>. QED
      BY <2>1, KeyFacts
  <1>. QED
    BY <1>3, <1>4 DEF acquire

\* An acquisition adds an ownership and counts it.
LEMMA AcquireStep ==
    ASSUME IInv, NEW u \in Users, NEW l \in Listings, acquire(u, l)
    PROVE  IInv'
  <1> DEFINE doc == [listings[l] EXCEPT !.downloadCount = @ + 1]
  <1>1. l \in DOMAIN listings
    BY DEF acquire, is_public
  <1>2. listings[l] \in Listing /\ listings[l].price \in Prices
    BY <1>1, ListingFacts
  <1>3. /\ doc \in Listing
        /\ \A f \in {"seller", "title", "source", "status", "moderated", "publishFeePaid"} :
              doc[f] = listings[l][f]
    BY <1>2 DEF Listing
  <1>4. listings' = [listings EXCEPT ![l] = doc]
    BY <1>1 DEF acquire, IInv, TypeOK
  <1> HIDE DEF doc
  <1>5. /\ balance' \in [Users -> Nat]
        /\ ledger' = [k \in DOMAIN ledger' |-> ledger'[k]]
        /\ \A v, m : Key(v, "publish_fee", m) \in DOMAIN ledger'
                        <=> Key(v, "publish_fee", m) \in DOMAIN ledger
        /\ \A k \in DOMAIN ledger : ledger'[k] = ledger[k]
    BY AcquireBooks
  <1>6. /\ DOMAIN ownership' = DOMAIN ownership \cup {<<u, l>>}
        /\ ownership'[<<u, l>>] = listings[l].price
        /\ \A o \in DOMAIN ownership : o # <<u, l>> => ownership'[o] = ownership[o]
        /\ ownership' = [o \in DOMAIN ownership' |-> ownership'[o]]
    BY DEF acquire, Put
  <1>7. DOMAIN ownership' \subseteq Users \X DOMAIN listings
    BY <1>1, <1>6 DEF IInv, TypeOK
  <1>8. Range(ownership') \subseteq Prices
    BY <1>2, <1>6, RangeFacts DEF IInv, TypeOK
  <1>9. UNCHANGED <<titleClaims, blocks, likes>>
    BY DEF acquire
  <1>10. likes' \subseteq Users \X DOMAIN listings
    BY <1>9 DEF IInv, TypeOK
  <1>. QED
    BY <1>1, <1>3, <1>4, <1>5, <1>6, <1>7, <1>8, <1>9, <1>10, CountStep

\* A like, or taking it back, sets the count to a natural number: unlike stops at zero.
LEMMA LikeCounts ==
    ASSUME IInv, NEW u \in Users, NEW l \in Listings, like(u, l) \/ unlike(u, l)
    PROVE  \E n \in Nat : listings' = [listings EXCEPT ![l].likeCount = n]
  <1>1. l \in DOMAIN listings
    BY DEF like, unlike, is_public
  <1>2. listings[l].likeCount \in Nat
    BY <1>1, ListingFacts
  <1>3. CASE like(u, l)
    <2>1. listings[l].likeCount + 1 \in Nat
      BY <1>2
    <2>2. listings' = [listings EXCEPT ![l].likeCount = listings[l].likeCount + 1]
      BY <1>3 DEF like
    <2>. QED
      BY <2>1, <2>2
  <1>4. CASE unlike(u, l)
    <2>1. listings[l].likeCount - 1 \in Nat
      BY <1>2, <1>4 DEF unlike
    <2>2. listings' = [listings EXCEPT ![l].likeCount = listings[l].likeCount - 1]
      BY <1>4 DEF unlike
    <2>. QED
      BY <2>1, <2>2
  <1>. QED
    BY <1>3, <1>4

\* A like, or taking it back, changes the document and the count.
LEMMA LikeStep ==
    ASSUME IInv, NEW u \in Users, NEW l \in Listings, like(u, l) \/ unlike(u, l)
    PROVE  IInv'
  <1>1. l \in DOMAIN listings
    BY DEF like, unlike, is_public
  <1>2. listings[l] \in Listing /\ listings[l].likeCount \in Nat
    BY <1>1, ListingFacts
  <1>3. PICK n \in Nat : listings' = [listings EXCEPT ![l].likeCount = n]
    BY LikeCounts
  <1> DEFINE doc == [listings[l] EXCEPT !.likeCount = n]
  <1>4. /\ doc \in Listing
        /\ \A f \in {"seller", "title", "source", "status", "moderated", "publishFeePaid"} :
              doc[f] = listings[l][f]
    BY <1>2 DEF Listing
  <1>5. listings' = [listings EXCEPT ![l] = doc]
    BY <1>1, <1>3 DEF IInv, TypeOK
  <1> HIDE DEF doc
  <1>6. UNCHANGED <<titleClaims, blocks, ownership, balance, ledger>>
    BY DEF like, unlike
  <1>7. likes' \subseteq Users \X DOMAIN listings
    BY <1>1 DEF like, unlike, IInv, TypeOK
  <1>8. /\ balance' \in [Users -> Nat]
        /\ ledger' = [k \in DOMAIN ledger' |-> ledger'[k]]
        /\ ownership' = [o \in DOMAIN ownership' |-> ownership'[o]]
        /\ DOMAIN ownership' \subseteq Users \X DOMAIN listings
        /\ Range(ownership') \subseteq Prices
    BY <1>6 DEF IInv, TypeOK, Collections
  <1>. QED
    BY <1>1, <1>4, <1>5, <1>6, <1>7, <1>8, CountStep

(***************************************************************************)
(* Moderation changes the listing's flag and the blocks: what is left of   *)
(* the invariant is that the blocks are explained by what is taken down.   *)
(***************************************************************************)
LEMMA ModerationStep ==
    ASSUME IInv, NEW l \in DOMAIN listings, NEW flag \in BOOLEAN,
           listings' = [listings EXCEPT ![l].moderated = flag],
           UNCHANGED <<titleClaims, ownership, likes, balance, ledger>>,
           DOMAIN blocks' \subseteq Users \X Sources,
           \A b \in DOMAIN blocks' :
               /\ blocks'[b] \in DOMAIN listings
               /\ b = <<listings[blocks'[b]].seller, listings[blocks'[b]].source>>
               /\ blocks'[b] = l => flag
               /\ blocks'[b] # l => listings[blocks'[b]].moderated
    PROVE  IInv'
  <1> DEFINE doc == [listings[l] EXCEPT !.moderated = flag]
  <1>1. listings[l] \in Listing
    BY ListingFacts
  <1>2. /\ doc \in Listing
        /\ doc.seller = listings[l].seller /\ doc.title = listings[l].title
        /\ doc.source = listings[l].source /\ doc.status = listings[l].status
        /\ doc.publishFeePaid = listings[l].publishFeePaid /\ doc.moderated = flag
    BY <1>1 DEF Listing
  <1>3. listings' = [listings EXCEPT ![l] = doc]
    BY DEF IInv, TypeOK
  <1>0. doc \in Listing
    BY <1>2
  <1> HIDE DEF doc
  <1>4. /\ DOMAIN listings' = DOMAIN listings
        /\ listings' \in [DOMAIN listings' -> Listing]
        /\ listings'[l] = doc
        /\ \A m \in DOMAIN listings : m # l => listings'[m] = listings[m]
        /\ \A m \in DOMAIN listings' : listings'[m].publishFeePaid \in BOOLEAN
    BY ONLY <1>0, <1>3, IInv, l \in DOMAIN listings, ListingTypes
  <1>5. Range(blocks') \subseteq DOMAIN listings'
    BY <1>4, RangeFacts
  <1>6. TypeOK'
    BY <1>4, <1>5 DEF IInv, TypeOK
  <1>7. Collections'
    BY DEF IInv, Collections
  <1>8. FeesHaveListings' /\ FeeFlagMatchesLedger'
    BY <1>2, <1>4, NoFeeStep
  <1>9. \A t \in DOMAIN titleClaims : titleClaims[t] \in DOMAIN listings
    BY RangeFacts DEF IInv, TypeOK
  <1>10. ClaimsArePublished'
    BY <1>2, <1>4, <1>9 DEF IInv, ClaimsArePublished
  <1>11. BlocksAreExplained'
    BY <1>2, <1>4 DEF BlocksAreExplained
  <1>. QED
    BY <1>6, <1>7, <1>8, <1>10, <1>11 DEF IInv

\* A takedown writes a block that names the listing it takes down.
LEMMA TakedownStep ==
    ASSUME IInv, NEW l \in Listings, takedown(l)
    PROVE  IInv'
  <1> DEFINE id == <<listings[l].seller, listings[l].source>>
  <1>1. l \in DOMAIN listings
    BY DEF takedown
  <1>2. \A b \in DOMAIN blocks :
          /\ blocks[b] \in DOMAIN listings
          /\ b = <<listings[blocks[b]].seller, listings[blocks[b]].source>>
          /\ listings[blocks[b]].moderated
    BY RangeFacts DEF IInv, TypeOK, BlocksAreExplained
  <1>3. /\ DOMAIN blocks' \subseteq Users \X Sources
        /\ \A b \in DOMAIN blocks' :
             (blocks'[b] = l /\ b = id) \/ (b \in DOMAIN blocks /\ blocks'[b] = blocks[b])
    <2>1. CASE listings[l].source = NoSource
      BY <2>1 DEF takedown, IInv, TypeOK
    <2>2. CASE listings[l].source # NoSource
      <3>1. id \in Users \X Sources
        BY <1>1, <2>2, ListingFacts
      <3>2. blocks' = Put(blocks, id, l)
        BY <2>2 DEF takedown
      <3>3. DOMAIN blocks \subseteq Users \X Sources
        BY DEF IInv, TypeOK
      <3>4. /\ DOMAIN blocks' = DOMAIN blocks \cup {id}
            /\ \A b \in DOMAIN blocks' : blocks'[b] = IF b = id THEN l ELSE blocks[b]
        BY <3>2 DEF Put
      <3>. QED
        BY <3>1, <3>3, <3>4
    <2>. QED
      BY <2>1, <2>2
  <1>4. /\ listings' = [listings EXCEPT ![l].moderated = TRUE]
        /\ UNCHANGED <<titleClaims, ownership, likes, balance, ledger>>
    BY DEF takedown
  <1>5. \A b \in DOMAIN blocks' :
          /\ blocks'[b] \in DOMAIN listings
          /\ b = <<listings[blocks'[b]].seller, listings[blocks'[b]].source>>
          /\ blocks'[b] = l => TRUE
          /\ blocks'[b] # l => listings[blocks'[b]].moderated
    <2> SUFFICES ASSUME NEW b \in DOMAIN blocks'
                 PROVE  /\ blocks'[b] \in DOMAIN listings
                        /\ b = <<listings[blocks'[b]].seller, listings[blocks'[b]].source>>
                        /\ blocks'[b] # l => listings[blocks'[b]].moderated
      OBVIOUS
    <2>1. CASE blocks'[b] = l /\ b = id
      BY <1>1, <2>1
    <2>2. CASE b \in DOMAIN blocks /\ blocks'[b] = blocks[b]
      BY <1>2, <2>2
    <2>. QED
      BY <1>3, <2>1, <2>2
  <1> HIDE DEF id
  <1>. QED
    BY <1>1, <1>3, <1>4, <1>5, ModerationStep

\* A restoration removes the one block that could name the listing.
LEMMA RestoreStep ==
    ASSUME IInv, NEW l \in Listings, restore(l)
    PROVE  IInv'
  <1> DEFINE id == <<listings[l].seller, listings[l].source>>
  <1>1. l \in DOMAIN listings
    BY DEF restore
  <1>2. \A b \in DOMAIN blocks :
          /\ blocks[b] \in DOMAIN listings
          /\ b = <<listings[blocks[b]].seller, listings[blocks[b]].source>>
          /\ listings[blocks[b]].moderated
    BY RangeFacts DEF IInv, TypeOK, BlocksAreExplained
  <1>3. \A b \in DOMAIN blocks' :
          b \in DOMAIN blocks /\ blocks'[b] = blocks[b] /\ blocks[b] # l
    <2>1. CASE OwnsBlock(l)
      <3>1. blocks' = Without(blocks, id)
        BY <2>1 DEF restore
      <3>. QED
        BY <1>2, <3>1 DEF Without, Restrict
    <2>2. CASE ~ OwnsBlock(l)
      <3>1. blocks' = blocks
        BY <2>2 DEF restore
      <3>. QED
        BY <1>2, <2>2, <3>1 DEF OwnsBlock
    <2>. QED
      BY <2>1, <2>2
  <1>4. DOMAIN blocks' \subseteq Users \X Sources
    BY <1>3 DEF IInv, TypeOK
  <1>5. /\ listings' = [listings EXCEPT ![l].moderated = FALSE]
        /\ UNCHANGED <<titleClaims, ownership, likes, balance, ledger>>
    BY DEF restore
  <1>6. \A b \in DOMAIN blocks' :
          /\ blocks'[b] \in DOMAIN listings
          /\ b = <<listings[blocks'[b]].seller, listings[blocks'[b]].source>>
          /\ blocks'[b] = l => FALSE
          /\ blocks'[b] # l => listings[blocks'[b]].moderated
    BY <1>2, <1>3
  <1> HIDE DEF id
  <1>. QED
    BY <1>1, <1>4, <1>5, <1>6, ModerationStep

\* Every step preserves the invariant, and so does a stutter.
LEMMA NextIInv == IInv /\ [Next]_vars => IInv'
  <1> SUFFICES ASSUME IInv, [Next]_vars PROVE IInv'
    OBVIOUS
  <1>1. ASSUME NEW u \in Users, NEW l \in Listings, NEW t \in Titles,
               NEW s \in Sources \cup {NoSource}, NEW p \in Prices,
               create_draft(u, l, t, s, p)
        PROVE  IInv'
    BY <1>1, DraftStep
  <1>2. ASSUME NEW u \in Users, NEW l \in Listings, publish(u, l)
        PROVE  IInv'
    BY <1>2, PublishStep
  <1>3. ASSUME NEW u \in Users, NEW l \in Listings, unpublish(u, l)
        PROVE  IInv'
    <2>1. /\ Owned(u, l) /\ release_title(l)
          /\ listings' = [listings EXCEPT ![l].status = "unlisted"]
          /\ UNCHANGED <<blocks, ownership, likes, balance, ledger>>
      BY <1>3 DEF unpublish
    <2>. QED
      BY <2>1, DownStep
  <1>4. ASSUME NEW u \in Users, NEW l \in Listings, delete(u, l)
        PROVE  IInv'
    <2>1. /\ Owned(u, l) /\ release_title(l)
          /\ listings' = [listings EXCEPT ![l].status = "deleted"]
          /\ UNCHANGED <<blocks, ownership, likes, balance, ledger>>
      BY <1>4 DEF delete
    <2>. QED
      BY <2>1, DownStep
  <1>5. ASSUME NEW u \in Users, NEW l \in Listings, acquire(u, l)
        PROVE  IInv'
    BY <1>5, AcquireStep
  <1>6. ASSUME NEW u \in Users, NEW l \in Listings, like(u, l) \/ unlike(u, l)
        PROVE  IInv'
    BY <1>6, LikeStep
  <1>7. ASSUME NEW l \in Listings, takedown(l)
        PROVE  IInv'
    BY <1>7, TakedownStep
  <1>8. ASSUME NEW l \in Listings, restore(l)
        PROVE  IInv'
    BY <1>8, RestoreStep
  <1>9. CASE UNCHANGED vars
    BY <1>9 DEF vars, IInv, TypeOK, Collections, FeesHaveListings, FeeFlagMatchesLedger,
                ClaimsArePublished, BlocksAreExplained
  <1>. QED
    BY <1>1, <1>2, <1>3, <1>4, <1>5, <1>6, <1>7, <1>8, <1>9 DEF Next

(***************************************************************************)
(* What a step that changes one listing's document must keep for           *)
(* RightsKept.                                                             *)
(***************************************************************************)
LEMMA KeptByChange ==
    ASSUME IInv, NEW l \in DOMAIN listings, NEW doc \in Listing,
           listings' = [listings EXCEPT ![l] = doc],
           \A f \in {"seller", "title", "source", "price"} : doc[f] = listings[l][f],
           listings[l].status = "deleted" => doc.status = "deleted",
           listings[l].publishFeePaid => doc.publishFeePaid,
           \A k \in DOMAIN ledger : ledger'[k] = ledger[k],
           \A o \in DOMAIN ownership : ownership'[o] = ownership[o]
    PROVE  RightsKept
  <1>1. /\ DOMAIN listings' = DOMAIN listings
        /\ listings'[l] = doc
        /\ \A m \in DOMAIN listings : m # l => listings'[m] = listings[m]
    BY ListingTypes
  <1>2. /\ ledger = [k \in DOMAIN ledger |-> ledger[k]]
        /\ ownership = [o \in DOMAIN ownership |-> ownership[o]]
    BY DEF IInv, Collections
  <1>3. Restrict(ledger', DOMAIN ledger) = ledger
    BY <1>2 DEF Restrict
  <1>4. Restrict(ownership', DOMAIN ownership) = ownership
    BY <1>2 DEF Restrict
  <1>. QED
    BY <1>1, <1>3, <1>4 DEF RightsKept

\* A new draft changes no document there is.
LEMMA DraftKeeps ==
    ASSUME IInv, NEW u \in Users, NEW l \in Listings, NEW t \in Titles,
           NEW s \in Sources \cup {NoSource}, NEW p \in Prices,
           create_draft(u, l, t, s, p)
    PROVE  RightsKept
  <1>1. /\ DOMAIN listings \subseteq DOMAIN listings'
        /\ \A m \in DOMAIN listings : listings'[m] = listings[m]
    BY DEF create_draft, Put
  <1>2. /\ ledger' = ledger /\ ownership' = ownership
        /\ ledger = [k \in DOMAIN ledger |-> ledger[k]]
        /\ ownership = [o \in DOMAIN ownership |-> ownership[o]]
    BY DEF create_draft, IInv, Collections
  <1>3. Restrict(ledger', DOMAIN ledger) = ledger
    BY <1>2 DEF Restrict
  <1>4. Restrict(ownership', DOMAIN ownership) = ownership
    BY <1>2 DEF Restrict
  <1>. QED
    BY <1>1, <1>3, <1>4 DEF RightsKept

\* A publication is of a listing that is not deleted, and marks the fee paid.
LEMMA PublishKeeps ==
    ASSUME IInv, NEW u \in Users, NEW l \in Listings, publish(u, l)
    PROVE  RightsKept
  <1> DEFINE doc == [listings[l] EXCEPT !.status = "published", !.publishFeePaid = TRUE]
  <1>1. l \in DOMAIN listings /\ listings[l] \in Listing /\ listings[l].status # "deleted"
    BY ListingFacts DEF publish, Owned
  <1>2. /\ doc \in Listing
        /\ \A f \in {"seller", "title", "source", "price"} : doc[f] = listings[l][f]
        /\ doc.publishFeePaid
    BY <1>1 DEF Listing, Statuses
  <1>3. listings' = [listings EXCEPT ![l] = doc]
    BY <1>1 DEF publish, IInv, TypeOK
  <1> HIDE DEF doc
  <1>4. \A k \in DOMAIN ledger : ledger'[k] = ledger[k]
    BY PublishBooks
  <1>5. ownership' = ownership
    BY DEF publish
  <1>. QED
    BY <1>1, <1>2, <1>3, <1>4, <1>5, KeptByChange

\* An acquisition adds to the ledger and to the ownerships.
LEMMA AcquireKeeps ==
    ASSUME IInv, NEW u \in Users, NEW l \in Listings, acquire(u, l)
    PROVE  RightsKept
  <1> DEFINE doc == [listings[l] EXCEPT !.downloadCount = @ + 1]
  <1>1. l \in DOMAIN listings /\ listings[l] \in Listing
    BY ListingFacts DEF acquire, is_public
  <1>2. /\ doc \in Listing
        /\ \A f \in {"seller", "title", "source", "price"} : doc[f] = listings[l][f]
        /\ doc.status = listings[l].status
        /\ doc.publishFeePaid = listings[l].publishFeePaid
    BY <1>1 DEF Listing
  <1>3. listings' = [listings EXCEPT ![l] = doc]
    BY <1>1 DEF acquire, IInv, TypeOK
  <1> HIDE DEF doc
  <1>4. \A k \in DOMAIN ledger : ledger'[k] = ledger[k]
    BY AcquireBooks
  <1>5. \A o \in DOMAIN ownership : ownership'[o] = ownership[o]
    BY DEF acquire, Put
  <1>. QED
    BY <1>1, <1>2, <1>3, <1>4, <1>5, KeptByChange

(***************************************************************************)
(* The steps that set one field of a listing, other than its origin, its   *)
(* price or its fee, and touch neither the ledger nor the ownerships.      *)
(***************************************************************************)
LEMMA FieldKeeps ==
    ASSUME IInv, NEW l \in DOMAIN listings, UNCHANGED <<ownership, ledger>>,
           \/ listings' = [listings EXCEPT ![l].status = "deleted"]
           \/ /\ listings' = [listings EXCEPT ![l].status = "unlisted"]
              /\ listings[l].status # "deleted"
           \/ \E flag \in BOOLEAN : listings' = [listings EXCEPT ![l].moderated = flag]
           \/ \E n \in Nat : listings' = [listings EXCEPT ![l].likeCount = n]
    PROVE  RightsKept
  <1>1. listings[l] \in Listing /\ listings \in [DOMAIN listings -> Listing]
    BY ListingFacts DEF IInv, TypeOK
  <1>2. PICK doc \in Listing :
          /\ listings' = [listings EXCEPT ![l] = doc]
          /\ \A f \in {"seller", "title", "source", "price"} : doc[f] = listings[l][f]
          /\ listings[l].status = "deleted" => doc.status = "deleted"
          /\ doc.publishFeePaid = listings[l].publishFeePaid
    <2>1. CASE listings' = [listings EXCEPT ![l].status = "deleted"]
      <3> DEFINE d == [listings[l] EXCEPT !.status = "deleted"]
      <3>1. /\ d \in Listing
            /\ \A f \in {"seller", "title", "source", "price"} : d[f] = listings[l][f]
            /\ d.status = "deleted" /\ d.publishFeePaid = listings[l].publishFeePaid
        BY <1>1 DEF Listing, Statuses
      <3>2. listings' = [listings EXCEPT ![l] = d]
        BY <1>1, <2>1
      <3>. QED
        BY <3>1, <3>2
    <2>2. CASE /\ listings' = [listings EXCEPT ![l].status = "unlisted"]
               /\ listings[l].status # "deleted"
      <3> DEFINE d == [listings[l] EXCEPT !.status = "unlisted"]
      <3>1. /\ d \in Listing
            /\ \A f \in {"seller", "title", "source", "price"} : d[f] = listings[l][f]
            /\ d.publishFeePaid = listings[l].publishFeePaid
        BY <1>1 DEF Listing, Statuses
      <3>2. listings' = [listings EXCEPT ![l] = d]
        BY <1>1, <2>2
      <3>. QED
        BY <2>2, <3>1, <3>2
    <2>3. ASSUME NEW flag \in BOOLEAN, listings' = [listings EXCEPT ![l].moderated = flag]
          PROVE  \E d \in Listing :
                   /\ listings' = [listings EXCEPT ![l] = d]
                   /\ \A f \in {"seller", "title", "source", "price"} : d[f] = listings[l][f]
                   /\ listings[l].status = "deleted" => d.status = "deleted"
                   /\ d.publishFeePaid = listings[l].publishFeePaid
      <3> DEFINE d == [listings[l] EXCEPT !.moderated = flag]
      <3>1. /\ d \in Listing
            /\ \A f \in {"seller", "title", "source", "price"} : d[f] = listings[l][f]
            /\ d.status = listings[l].status /\ d.publishFeePaid = listings[l].publishFeePaid
        BY <1>1 DEF Listing
      <3>2. listings' = [listings EXCEPT ![l] = d]
        BY <1>1, <2>3
      <3>. QED
        BY <3>1, <3>2
    <2>4. ASSUME NEW n \in Nat, listings' = [listings EXCEPT ![l].likeCount = n]
          PROVE  \E d \in Listing :
                   /\ listings' = [listings EXCEPT ![l] = d]
                   /\ \A f \in {"seller", "title", "source", "price"} : d[f] = listings[l][f]
                   /\ listings[l].status = "deleted" => d.status = "deleted"
                   /\ d.publishFeePaid = listings[l].publishFeePaid
      <3> DEFINE d == [listings[l] EXCEPT !.likeCount = n]
      <3>1. /\ d \in Listing
            /\ \A f \in {"seller", "title", "source", "price"} : d[f] = listings[l][f]
            /\ d.status = listings[l].status /\ d.publishFeePaid = listings[l].publishFeePaid
        BY <1>1 DEF Listing
      <3>2. listings' = [listings EXCEPT ![l] = d]
        BY <1>1, <2>4
      <3>. QED
        BY <3>1, <3>2
    <2>. QED
      BY <2>1, <2>2, <2>3, <2>4
  <1>. QED
    BY <1>2, KeptByChange

\* No step takes a right back.
LEMMA NextKeeps == IInv /\ [Next]_vars => RightsKept \/ UNCHANGED vars
  <1> SUFFICES ASSUME IInv, Next PROVE RightsKept
    OBVIOUS
  <1>1. ASSUME NEW u \in Users, NEW l \in Listings, NEW t \in Titles,
               NEW s \in Sources \cup {NoSource}, NEW p \in Prices,
               create_draft(u, l, t, s, p)
        PROVE  RightsKept
    BY <1>1, DraftKeeps
  <1>2. ASSUME NEW u \in Users, NEW l \in Listings, publish(u, l)
        PROVE  RightsKept
    BY <1>2, PublishKeeps
  <1>3. ASSUME NEW u \in Users, NEW l \in Listings, unpublish(u, l)
        PROVE  RightsKept
    <2>1. /\ l \in DOMAIN listings /\ listings[l].status # "deleted"
          /\ listings' = [listings EXCEPT ![l].status = "unlisted"]
          /\ UNCHANGED <<ownership, ledger>>
      BY <1>3 DEF unpublish, Owned
    <2>. QED
      BY <2>1, FieldKeeps
  <1>4. ASSUME NEW u \in Users, NEW l \in Listings, delete(u, l)
        PROVE  RightsKept
    <2>1. /\ l \in DOMAIN listings
          /\ listings' = [listings EXCEPT ![l].status = "deleted"]
          /\ UNCHANGED <<ownership, ledger>>
      BY <1>4 DEF delete, Owned
    <2>. QED
      BY <2>1, FieldKeeps
  <1>5. ASSUME NEW u \in Users, NEW l \in Listings, acquire(u, l)
        PROVE  RightsKept
    BY <1>5, AcquireKeeps
  <1>6. ASSUME NEW u \in Users, NEW l \in Listings, like(u, l) \/ unlike(u, l)
        PROVE  RightsKept
    <2>1. l \in DOMAIN listings /\ UNCHANGED <<ownership, ledger>>
      BY <1>6 DEF like, unlike, is_public
    <2>2. \E n \in Nat : listings' = [listings EXCEPT ![l].likeCount = n]
      BY <1>6, LikeCounts
    <2>. QED
      BY <2>1, <2>2, FieldKeeps
  <1>7. ASSUME NEW l \in Listings, takedown(l) \/ restore(l)
        PROVE  RightsKept
    <2>1. l \in DOMAIN listings /\ UNCHANGED <<ownership, ledger>>
      BY <1>7 DEF takedown, restore
    <2>2. \E flag \in BOOLEAN : listings' = [listings EXCEPT ![l].moderated = flag]
      BY <1>7 DEF takedown, restore
    <2>. QED
      BY <2>1, <2>2, FieldKeeps
  <1>. QED
    BY <1>1, <1>2, <1>3, <1>4, <1>5, <1>6, <1>7 DEF Next

----------------------------------------------------------------------------
(***************************************************************************)
(* Counters                                                                *)
(***************************************************************************)

\* The documents that are counted are finitely many, or their number would mean nothing.
Counted ==
    /\ IsFiniteSet(likes) /\ IsFiniteSet(DOMAIN ownership)
    /\ CountersMatchDocuments

\* The counters of listing l agree with the documents.
CountsOf(l) ==
    /\ listings[l].downloadCount = Cardinality(Of(DOMAIN ownership, l))
    /\ listings[l].likeCount = Cardinality(Of(likes, l))

\* The same, listing by listing.
LEMMA CountedFacts ==
    CountersMatchDocuments <=> \A l \in DOMAIN listings : CountsOf(l)
  BY DEF CountersMatchDocuments, CountsOf, Of

\* A step that leaves the documents alone and every counter with them.
LEMMA CountersUntouched ==
    ASSUME Counted, likes' = likes, DOMAIN ownership' = DOMAIN ownership,
           DOMAIN listings' = DOMAIN listings,
           \A l \in DOMAIN listings :
               /\ listings'[l].downloadCount = listings[l].downloadCount
               /\ listings'[l].likeCount = listings[l].likeCount
    PROVE  Counted'
  BY DEF Counted, CountersMatchDocuments

\* A listing that was not there has been neither bought nor liked.
LEMMA DraftCounts ==
    ASSUME IInv, Counted, NEW u \in Users, NEW l \in Listings, NEW t, NEW s, NEW p,
           create_draft(u, l, t, s, p)
    PROVE  Counted'
  <1>1. /\ l \notin DOMAIN listings
        /\ DOMAIN listings' = DOMAIN listings \cup {l}
        /\ \A m \in DOMAIN listings : listings'[m] = listings[m]
        /\ listings'[l].downloadCount = 0 /\ listings'[l].likeCount = 0
        /\ likes' = likes /\ ownership' = ownership
    BY DEF create_draft, Put
  <1>2. Of(likes, l) = {} /\ Of(DOMAIN ownership, l) = {}
    BY <1>1 DEF IInv, TypeOK, Of
  <1>3. \A m \in DOMAIN listings : CountsOf(m)
    BY CountedFacts DEF Counted
  <1>4. \A m \in DOMAIN listings' : CountsOf(m)'
    BY <1>1, <1>2, <1>3, FS_EmptySet DEF CountsOf
  <1>5. CountersMatchDocuments'
    BY <1>4 DEF CountersMatchDocuments, CountsOf, Of
  <1>. QED
    BY <1>1, <1>5 DEF Counted

\* A purchase is counted when its ownership is new.
LEMMA AcquireCounts ==
    ASSUME IInv, Counted, NEW u \in Users, NEW l \in Listings, acquire(u, l)
    PROVE  Counted'
  <1>1. /\ l \in DOMAIN listings
        /\ <<u, l>> \notin DOMAIN ownership
        /\ DOMAIN ownership' = DOMAIN ownership \cup {<<u, l>>}
        /\ listings' = [listings EXCEPT ![l].downloadCount = @ + 1]
        /\ likes' = likes
    BY DEF acquire, is_public, Put
  <1>2. listings \in [DOMAIN listings -> Listing]
    BY DEF IInv, TypeOK
  <1>3. /\ DOMAIN listings' = DOMAIN listings
        /\ listings'[l].downloadCount = listings[l].downloadCount + 1
        /\ listings'[l].likeCount = listings[l].likeCount
        /\ \A m \in DOMAIN listings : m # l => listings'[m] = listings[m]
    BY <1>1, <1>2 DEF Listing
  <1>4. /\ IsFiniteSet(DOMAIN ownership')
        /\ Cardinality(Of(DOMAIN ownership', l)) = Cardinality(Of(DOMAIN ownership, l)) + 1
        /\ \A m : m # l => Of(DOMAIN ownership', m) = Of(DOMAIN ownership, m)
    BY <1>1, OneMore DEF Counted
  <1>5. \A m \in DOMAIN listings : CountsOf(m)
    BY CountedFacts DEF Counted
  <1>6. \A m \in DOMAIN listings' : CountsOf(m)'
    BY <1>1, <1>3, <1>4, <1>5 DEF CountsOf
  <1>7. CountersMatchDocuments'
    BY <1>6 DEF CountersMatchDocuments, CountsOf, Of
  <1>. QED
    BY <1>1, <1>4, <1>7 DEF Counted

\* A like is counted when it is new, and counted off when it was there.
LEMMA LikesCounted ==
    ASSUME IInv, Counted, NEW u \in Users, NEW l \in Listings, like(u, l) \/ unlike(u, l)
    PROVE  Counted'
  <1>1. /\ l \in DOMAIN listings /\ ownership' = ownership
        /\ \/ /\ <<u, l>> \notin likes /\ likes' = likes \cup {<<u, l>>}
              /\ listings' = [listings EXCEPT ![l].likeCount = @ + 1]
           \/ /\ <<u, l>> \in likes /\ likes' = likes \ {<<u, l>>}
              /\ listings' = [listings EXCEPT ![l].likeCount = @ - 1]
    BY DEF like, unlike, is_public
  <1>2. listings \in [DOMAIN listings -> Listing]
    BY DEF IInv, TypeOK
  <1>3. /\ DOMAIN listings' = DOMAIN listings
        /\ listings'[l].downloadCount = listings[l].downloadCount
        /\ \A m \in DOMAIN listings : m # l => listings'[m] = listings[m]
    BY <1>1, <1>2 DEF Listing
  <1>4. /\ IsFiniteSet(likes')
        /\ listings'[l].likeCount = Cardinality(Of(likes', l))
        /\ \A m : m # l => Of(likes', m) = Of(likes, m)
    <2>1. listings[l].likeCount = Cardinality(Of(likes, l)) /\ listings[l].likeCount \in Nat
      BY <1>1, CountedFacts, ListingFacts DEF Counted, CountsOf
    <2>2. CASE /\ <<u, l>> \notin likes /\ likes' = likes \cup {<<u, l>>}
               /\ listings' = [listings EXCEPT ![l].likeCount = @ + 1]
      <3>1. listings'[l].likeCount = listings[l].likeCount + 1
        BY <1>1, <1>2, <2>2 DEF Listing
      <3>. QED
        BY <2>1, <2>2, <3>1, OneMore DEF Counted
    <2>3. CASE /\ <<u, l>> \in likes /\ likes' = likes \ {<<u, l>>}
               /\ listings' = [listings EXCEPT ![l].likeCount = @ - 1]
      <3>1. listings'[l].likeCount = listings[l].likeCount - 1
        BY <1>1, <1>2, <2>3 DEF Listing
      <3>. QED
        BY <2>1, <2>3, <3>1, OneLess DEF Counted
    <2>. QED
      BY <1>1, <2>2, <2>3
  <1>5. \A m \in DOMAIN listings : CountsOf(m)
    BY CountedFacts DEF Counted
  <1>6. \A m \in DOMAIN listings' : CountsOf(m)'
    BY <1>1, <1>3, <1>4, <1>5 DEF CountsOf
  <1>7. CountersMatchDocuments'
    BY <1>6 DEF CountersMatchDocuments, CountsOf, Of
  <1>. QED
    BY <1>1, <1>4, <1>7 DEF Counted

\* Every other step sets fields that count nothing.
LEMMA OtherFields ==
    ASSUME IInv, Counted, NEW l \in DOMAIN listings, likes' = likes, ownership' = ownership,
           \/ listings' = [listings EXCEPT ![l].status = "published", ![l].publishFeePaid = TRUE]
           \/ listings' = [listings EXCEPT ![l].status = "unlisted"]
           \/ listings' = [listings EXCEPT ![l].status = "deleted"]
           \/ listings' = [listings EXCEPT ![l].moderated = TRUE]
           \/ listings' = [listings EXCEPT ![l].moderated = FALSE]
    PROVE  Counted'
  <1>1. listings \in [DOMAIN listings -> Listing]
    BY DEF IInv, TypeOK
  <1>2. /\ DOMAIN listings' = DOMAIN listings
        /\ \A m \in DOMAIN listings :
              /\ listings'[m].downloadCount = listings[m].downloadCount
              /\ listings'[m].likeCount = listings[m].likeCount
    BY <1>1 DEF Listing
  <1>. QED
    BY <1>2, CountersUntouched

\* Every step keeps the counters exact.
LEMMA NextCounted == IInv /\ Counted /\ [Next]_vars => Counted'
  <1> SUFFICES ASSUME IInv, Counted, [Next]_vars PROVE Counted'
    OBVIOUS
  <1>1. ASSUME NEW u \in Users, NEW l \in Listings, NEW t \in Titles,
               NEW s \in Sources \cup {NoSource}, NEW p \in Prices,
               create_draft(u, l, t, s, p)
        PROVE  Counted'
    BY <1>1, DraftCounts
  <1>2. ASSUME NEW u \in Users, NEW l \in Listings,
               publish(u, l) \/ unpublish(u, l) \/ delete(u, l)
        PROVE  Counted'
    <2>1. /\ l \in DOMAIN listings /\ likes' = likes /\ ownership' = ownership
          /\ \/ listings' = [listings EXCEPT ![l].status = "published",
                                            ![l].publishFeePaid = TRUE]
             \/ listings' = [listings EXCEPT ![l].status = "unlisted"]
             \/ listings' = [listings EXCEPT ![l].status = "deleted"]
      BY <1>2 DEF publish, unpublish, delete, Owned
    <2>. QED
      BY <2>1, OtherFields
  <1>3. ASSUME NEW u \in Users, NEW l \in Listings, acquire(u, l)
        PROVE  Counted'
    BY <1>3, AcquireCounts
  <1>4. ASSUME NEW u \in Users, NEW l \in Listings, like(u, l) \/ unlike(u, l)
        PROVE  Counted'
    BY <1>4, LikesCounted
  <1>5. ASSUME NEW l \in Listings, takedown(l) \/ restore(l)
        PROVE  Counted'
    <2>1. /\ l \in DOMAIN listings /\ likes' = likes /\ ownership' = ownership
          /\ \/ listings' = [listings EXCEPT ![l].moderated = TRUE]
             \/ listings' = [listings EXCEPT ![l].moderated = FALSE]
      BY <1>5 DEF takedown, restore
    <2>. QED
      BY <2>1, OtherFields
  <1>6. CASE UNCHANGED vars
    BY <1>6, CountersUntouched DEF vars
  <1>. QED
    BY <1>1, <1>2, <1>3, <1>4, <1>5, <1>6 DEF Next

----------------------------------------------------------------------------
(***************************************************************************)
(* Balances and sales, as sums.                                            *)
(***************************************************************************)

\* The entries of user u in the ledger c, and those of u's sales and purchases.
MineOf(c, u) == {k \in DOMAIN c : k[1] = u}

SalesOf(c, u) == {k \in DOMAIN c : k[1] = u /\ k[2] = "sale"}

BuysOf(c, u) == {k \in DOMAIN c : k[1] = u /\ k[2] = "purchase"}

\* What was sold of u's listings, and what u bought.
SalesBy(u) == {o \in DOMAIN ownership : listings[o[2]].seller = u}

BoughtBy(u) == {o \in DOMAIN ownership : o[1] = u}

\* Wallets that the ledger staged with them explains.
Explained(books) ==
    /\ Summable(books.ledger)
    /\ books.balance \in [Users -> Int]
    /\ \A u \in Users :
          books.balance[u] = StartBalance + SumOf(books.ledger, MineOf(books.ledger, u))

\* What is sold is paid, entry by entry: SalesInv is what makes EverySaleIsPaid inductive.
\* An entry of a trade is there only with its ownership, so a new sale finds neither of
\* its two entries in the ledger.
SalesInv ==
    /\ Summable(ledger) /\ Summable(ownership)
    /\ \A k \in DOMAIN ledger : k[2] \in {"sale", "purchase"} => k[3] \in DOMAIN ownership
    /\ \A u \in Users :
          /\ SumOf(ledger, SalesOf(ledger, u)) = SumOf(ownership, SalesBy(u))
          /\ SumOf(ledger, BuysOf(ledger, u)) = -SumOf(ownership, BoughtBy(u))
    /\ \A o \in DOMAIN ownership :
          /\ <<"sale", o>> \in DOMAIN notifications
          /\ notifications[<<"sale", o>>] = ownership[o]

\* The model's sums are the ones the lemmas are about.
LEMMA TotalIsSum == \A K : Total(K) = SumOf(ledger, K)
  BY DEF Total, SumOf, MapThenSumSet, MapThenFoldSet

LEMMA ExplainedFacts == Explained(Books) => LedgerExplainsBalances
  BY TotalIsSum DEF Explained, Books, LedgerExplainsBalances, MineOf

LEMMA SalesFacts == SalesInv => EverySaleIsPaid
  <1>. DEFINE Paid(os) == MapThenSumSet(LAMBDA o : ownership[o], os)
  <1>1. \A os : Paid(os) = SumOf(ownership, os)
    BY DEF SumOf, MapThenSumSet, MapThenFoldSet
  <1>. HIDE DEF Paid
  <1>2. SalesInv => \A u \in Users :
          /\ Total(SalesOf(ledger, u)) = Paid(SalesBy(u))
          /\ Total(BuysOf(ledger, u)) = -Paid(BoughtBy(u))
          /\ \A o \in SalesBy(u) : notifications[<<"sale", o>>] = ownership[o]
    BY <1>1, TotalIsSum DEF SalesInv, SalesBy
  <1>. QED
    BY <1>2 DEF EverySaleIsPaid, Paid, SalesOf, BuysOf, SalesBy, BoughtBy

\* transaction.set of a document that is new adds one entry.
LEMMA PutAdds ==
    ASSUME NEW c, NEW k, NEW d
    PROVE  Put(c, k, d) = Added(c, k, d)
  BY DEF Put, Added

\* A movement that is staged moves one wallet by what its entry says; a duplicate neither.
LEMMA StagedExplained ==
    ASSUME NEW books, Explained(books), NEW v \in Users, NEW d \in Int,
           NEW key, key[1] = v
    PROVE  Explained(Staged(books, v, d, key))
  <1>. DEFINE c == books.ledger
              n == Added(c, key, d)
              b == [books.balance EXCEPT ![v] = @ + d]
  <1>1. CASE key \in DOMAIN c
    BY <1>1 DEF Staged
  <1>2. CASE key \notin DOMAIN c
    <2>1. Staged(books, v, d, key) = [balance |-> b, ledger |-> n]
      BY <1>2, PutAdds DEF Staged
    <2>2. /\ Summable(n)
          /\ \A K \in SUBSET DOMAIN c :
               /\ SumOf(c, K) \in Int
               /\ SumOf(n, K) = SumOf(c, K)
               /\ SumOf(n, K \cup {key}) = SumOf(c, K) + d
      BY <1>2, SumOfAdded DEF Explained
    <2>3. DOMAIN n = DOMAIN c \cup {key}
      BY DEF Added
    <2>. HIDE DEF n
    <2>4. /\ b \in [Users -> Int]
          /\ \A u \in Users : b[u] = IF u = v THEN books.balance[u] + d ELSE books.balance[u]
      <3>1. books.balance \in [Users -> Int]
        BY DEF Explained
      <3>. QED
        BY <3>1
    <2>5. ASSUME NEW u \in Users
          PROVE  b[u] = StartBalance + SumOf(n, MineOf(n, u))
      <3>1. MineOf(c, u) \in SUBSET DOMAIN c
        BY DEF MineOf
      <3>2. books.balance[u] = StartBalance + SumOf(c, MineOf(c, u))
        BY DEF Explained
      <3>3. MineOf(n, u) = IF u = v THEN MineOf(c, u) \cup {key} ELSE MineOf(c, u)
        BY <2>3 DEF MineOf
      <3>4. SumOf(n, MineOf(n, u)) = IF u = v THEN SumOf(c, MineOf(c, u)) + d
                                     ELSE SumOf(c, MineOf(c, u))
        BY <2>2, <3>1, <3>3
      <3>5. SumOf(c, MineOf(c, u)) \in Int
        BY <2>2, <3>1
      <3>6. StartBalance \in Int
        BY PricesAssumption
      <3>. HIDE DEF b, c
      <3>. QED
        BY <2>4, <3>2, <3>4, <3>5, <3>6
    <2>. HIDE DEF b
    <2>6. Explained([balance |-> b, ledger |-> n])
      BY <2>2, <2>4, <2>5 DEF Explained
    <2>. QED
      BY <2>1, <2>6
  <1>. QED
    BY <1>1, <1>2

\* Every handler that moves shards stages its movements.
LEMMA NextExplained == IInv /\ Explained(Books) /\ [Next]_vars => Explained(Books)'
  <1>. SUFFICES ASSUME IInv, Explained(Books), [Next]_vars PROVE Explained(Books')
    BY DEF Explained
  <1>1. CASE UNCHANGED <<balance, ledger>>
    <2>1. Books' = Books
      BY <1>1 DEF Books
    <2>. QED
      BY <2>1
  <1>2. ASSUME NEW u \in Users, NEW l \in Listings, publish(u, l),
               ~ UNCHANGED <<balance, ledger>>
        PROVE  Explained(Books')
    <2>. DEFINE key == Key(u, "publish_fee", l)
    <2>1. Flush(Staged(Books, u, -Fee, key))
      BY <1>2 DEF publish, ChargeFee
    <2>2. key[1] = u /\ -Fee \in Int
      BY PricesAssumption DEF Key
    <2>. HIDE DEF key
    <2>3. Explained(Staged(Books, u, -Fee, key))
      BY <2>2, StagedExplained
    <2>. QED
      BY <2>1, <2>3 DEF Flush, Explained, Books
  <1>3. ASSUME NEW u \in Users, NEW l \in Listings, acquire(u, l),
               ~ UNCHANGED <<balance, ledger>>
        PROVE  Explained(Books')
    <2>. DEFINE v == listings[l].seller
                p == listings[l].price
                bought == Key(u, "purchase", <<u, l>>)
                sold == Key(v, "sale", <<u, l>>)
                half == Staged(Books, u, -p, bought)
    <2>1. Flush(Staged(half, v, p, sold))
      BY <1>3 DEF acquire, Trade
    <2>2. v \in Users /\ p \in Int /\ -p \in Int
      BY <1>3, ListingFacts DEF acquire, is_public
    <2>3. bought[1] = u /\ sold[1] = v
      BY DEF Key
    <2>. HIDE DEF v, p, bought, sold
    <2>4. Explained(half)
      BY <2>2, <2>3, StagedExplained
    <2>. HIDE DEF half
    <2>5. Explained(Staged(half, v, p, sold))
      BY <2>2, <2>3, <2>4, StagedExplained
    <2>. QED
      BY <2>1, <2>5 DEF Flush, Explained, Books
  <1>. QED
    BY <1>1, <1>2, <1>3
    DEF Next, vars, create_draft, unpublish, delete, like, unlike, takedown, restore

\* A step that trades nothing keeps what is sold and what is paid: it may create a listing,
\* but nobody owns one that did not exist.
LEMMA SalesUntouched ==
    ASSUME IInv, SalesInv, UNCHANGED <<ledger, ownership>>,
           \A l \in DOMAIN listings :
               l \in DOMAIN listings' /\ listings'[l].seller = listings[l].seller,
           \A o \in DOMAIN ownership :
               /\ <<"sale", o>> \in DOMAIN notifications'
               /\ notifications'[<<"sale", o>>] = notifications[<<"sale", o>>]
    PROVE  SalesInv'
  <1>1. \A o \in DOMAIN ownership : o[2] \in DOMAIN listings
    BY DEF IInv, TypeOK
  <1>2. \A u \in Users : SalesBy(u)' = SalesBy(u) /\ BoughtBy(u)' = BoughtBy(u)
    BY <1>1 DEF SalesBy, BoughtBy
  <1>. QED
    BY <1>2 DEF SalesInv

\* A publication books a fee, which is neither a sale nor a purchase.
LEMMA PublishSales ==
    ASSUME IInv, SalesInv, NEW u \in Users, NEW l \in Listings, publish(u, l)
    PROVE  SalesInv'
  <1>1. /\ UNCHANGED <<ownership, notifications>>
        /\ l \in DOMAIN listings
        /\ listings' = [listings EXCEPT ![l].status = "published", ![l].publishFeePaid = TRUE]
    BY DEF publish, Owned
  <1>2. /\ DOMAIN listings' = DOMAIN listings
        /\ \A m \in DOMAIN listings : listings'[m].seller = listings[m].seller
    BY <1>1 DEF IInv, TypeOK, Listing
  <1>3. CASE ledger' = ledger
    BY <1>1, <1>2, <1>3, SalesUntouched DEF SalesInv
  <1>4. CASE ledger' # ledger
    <2>. DEFINE key == Key(u, "publish_fee", l)
    <2>1. ledger' = Added(ledger, key, -Fee) /\ key \notin DOMAIN ledger
      BY <1>4, PutAdds DEF publish, ChargeFee, Flush, Staged, Books
    <2>2. key[2] = "publish_fee" /\ -Fee \in Int
      BY PricesAssumption DEF Key
    <2>3. DOMAIN ledger' = DOMAIN ledger \cup {key}
      BY <2>1 DEF Added
    <2>. HIDE DEF key
    <2>4. /\ Summable(ledger')
          /\ \A K \in SUBSET DOMAIN ledger : SumOf(ledger', K) = SumOf(ledger, K)
      <3>. DEFINE d == -Fee
                  n == Added(ledger, key, d)
      <3>1. Summable(ledger) /\ key \notin DOMAIN ledger /\ d \in Int
        BY <2>1, <2>2 DEF SalesInv
      <3>2. ledger' = n
        BY <2>1
      <3>. HIDE DEF d
      <3>3. /\ Summable(n)
            /\ \A K \in SUBSET DOMAIN ledger :
                 /\ SumOf(ledger, K) \in Int
                 /\ SumOf(n, K) = SumOf(ledger, K)
                 /\ SumOf(n, K \cup {key}) = SumOf(ledger, K) + d
        BY <3>1, SumOfAdded
      <3>. HIDE DEF n
      <3>. QED
        BY <3>2, <3>3
    <2>5. \A v \in Users : /\ SalesOf(ledger', v) = SalesOf(ledger, v)
                           /\ BuysOf(ledger', v) = BuysOf(ledger, v)
                           /\ SalesOf(ledger, v) \in SUBSET DOMAIN ledger
                           /\ BuysOf(ledger, v) \in SUBSET DOMAIN ledger
      BY <2>2, <2>3 DEF SalesOf, BuysOf
    <2>6. \A o \in DOMAIN ownership : o[2] \in DOMAIN listings
      BY DEF IInv, TypeOK
    <2>7. \A v \in Users : SalesBy(v)' = SalesBy(v) /\ BoughtBy(v)' = BoughtBy(v)
      BY <1>1, <1>2, <2>6 DEF SalesBy, BoughtBy
    <2>8. \A v \in Users : /\ SumOf(ledger', SalesOf(ledger', v)) = SumOf(ledger, SalesOf(ledger, v))
                           /\ SumOf(ledger', BuysOf(ledger', v)) = SumOf(ledger, BuysOf(ledger, v))
      BY <2>4, <2>5
    <2>9. \A k \in DOMAIN ledger' :
             k[2] \in {"sale", "purchase"} => k[3] \in DOMAIN ownership'
      BY <1>1, <2>2, <2>3 DEF SalesInv
    <2>. QED
      BY <1>1, <2>4, <2>7, <2>8, <2>9 DEF SalesInv
  <1>. QED
    BY <1>3, <1>4

\* The two entries of a sale, and what they add to anyone's sales and purchases.
LEMMA TradeSales ==
    ASSUME SalesInv, NEW u \in Users, NEW v \in Users, NEW l, NEW p \in Int,
           <<u, l>> \notin DOMAIN ownership, Trade(u, v, l, p)
    PROVE  /\ Summable(ledger')
           /\ \A k \in DOMAIN ledger' : k \in DOMAIN ledger \/ k[3] = <<u, l>>
           /\ \A w \in Users :
                /\ SumOf(ledger', SalesOf(ledger', w)) =
                      IF w = v THEN SumOf(ledger, SalesOf(ledger, w)) + p
                      ELSE SumOf(ledger, SalesOf(ledger, w))
                /\ SumOf(ledger', BuysOf(ledger', w)) =
                      IF w = u THEN SumOf(ledger, BuysOf(ledger, w)) + -p
                      ELSE SumOf(ledger, BuysOf(ledger, w))
  <1>. DEFINE bought == Key(u, "purchase", <<u, l>>)
              sold == Key(v, "sale", <<u, l>>)
              half == Added(ledger, bought, -p)
  <1>1. /\ bought[1] = u /\ bought[2] = "purchase" /\ bought[3] = <<u, l>>
        /\ sold[1] = v /\ sold[2] = "sale" /\ sold[3] = <<u, l>>
        /\ sold # bought
    BY DEF Key
  <1>2. bought \notin DOMAIN ledger /\ sold \notin DOMAIN ledger
    BY <1>1 DEF SalesInv
  <1>3. DOMAIN half = DOMAIN ledger \cup {bought}
    BY DEF Added
  <1>4. ledger' = Added(half, sold, p)
    <2>1. Staged(Books, u, -p, bought).ledger = half
      BY <1>2, PutAdds DEF Staged, Books
    <2>2. Staged(Staged(Books, u, -p, bought), v, p, sold).ledger = Added(half, sold, p)
      BY <1>1, <1>2, <1>3, <2>1, PutAdds DEF Staged
    <2>. QED
      BY <2>2 DEF Trade, Flush
  <1>5. DOMAIN ledger' = DOMAIN half \cup {sold}
    BY <1>4 DEF Added
  <1>. HIDE DEF bought, sold
  <1>6. /\ Summable(half)
        /\ \A K \in SUBSET DOMAIN ledger :
             /\ SumOf(ledger, K) \in Int
             /\ SumOf(half, K) = SumOf(ledger, K)
             /\ SumOf(half, K \cup {bought}) = SumOf(ledger, K) + -p
    <2>1. Summable(ledger) /\ -p \in Int
      BY DEF SalesInv
    <2>. QED
      BY <1>2, <2>1, SumOfAdded
  <1>. HIDE DEF half
  <1>7. /\ Summable(ledger')
        /\ \A K \in SUBSET DOMAIN half :
             /\ SumOf(ledger', K) = SumOf(half, K)
             /\ SumOf(ledger', K \cup {sold}) = SumOf(half, K) + p
    <2>1. sold \notin DOMAIN half
      BY <1>1, <1>2, <1>3
    <2>. QED
      BY <1>4, <1>6, <2>1, SumOfAdded
  <1>8. ASSUME NEW w \in Users
        PROVE  /\ SumOf(ledger', SalesOf(ledger', w)) =
                     IF w = v THEN SumOf(ledger, SalesOf(ledger, w)) + p
                     ELSE SumOf(ledger, SalesOf(ledger, w))
               /\ SumOf(ledger', BuysOf(ledger', w)) =
                     IF w = u THEN SumOf(ledger, BuysOf(ledger, w)) + -p
                     ELSE SumOf(ledger, BuysOf(ledger, w))
    <2>1. /\ SalesOf(ledger', w) = IF w = v THEN SalesOf(ledger, w) \cup {sold}
                                   ELSE SalesOf(ledger, w)
          /\ BuysOf(ledger', w) = IF w = u THEN BuysOf(ledger, w) \cup {bought}
                                  ELSE BuysOf(ledger, w)
      BY <1>1, <1>3, <1>5 DEF SalesOf, BuysOf
    <2>2. /\ SalesOf(ledger, w) \in SUBSET DOMAIN ledger
          /\ SalesOf(ledger, w) \in SUBSET DOMAIN half
          /\ BuysOf(ledger, w) \in SUBSET DOMAIN ledger
          /\ BuysOf(ledger, w) \in SUBSET DOMAIN half
          /\ BuysOf(ledger, w) \cup {bought} \in SUBSET DOMAIN half
      BY <1>3 DEF SalesOf, BuysOf
    <2>3. SumOf(ledger', SalesOf(ledger', w)) =
             IF w = v THEN SumOf(ledger, SalesOf(ledger, w)) + p
             ELSE SumOf(ledger, SalesOf(ledger, w))
      BY <1>6, <1>7, <2>1, <2>2
    <2>4. SumOf(ledger', BuysOf(ledger', w)) =
             IF w = u THEN SumOf(ledger, BuysOf(ledger, w)) + -p
             ELSE SumOf(ledger, BuysOf(ledger, w))
      BY <1>6, <1>7, <2>1, <2>2
    <2>. QED
      BY <2>3, <2>4
  <1>9. \A k \in DOMAIN ledger' : k \in DOMAIN ledger \/ k[3] = <<u, l>>
    BY <1>1, <1>3, <1>5
  <1>. QED
    BY <1>7, <1>8, <1>9

\* An acquisition adds its price to what was sold and bought, and to what was paid.
LEMMA AcquireSales ==
    ASSUME IInv, SalesInv, NEW u \in Users, NEW l \in Listings, acquire(u, l)
    PROVE  SalesInv'
  <1>. DEFINE o == <<u, l>>
              v == listings[l].seller
              p == listings[l].price
  <1>1. /\ l \in DOMAIN listings
        /\ o \notin DOMAIN ownership
        /\ ownership' = Added(ownership, o, p)
        /\ notifications' = Put(notifications, <<"sale", o>>, p)
        /\ listings' = [listings EXCEPT ![l].downloadCount = @ + 1]
    BY PutAdds DEF acquire, is_public
  <1>2. v \in Users /\ p \in Int /\ -p \in Int
    BY <1>1, ListingFacts
  <1>3. /\ DOMAIN ownership' = DOMAIN ownership \cup {o}
        /\ ownership'[o] = p
        /\ \A x \in DOMAIN ownership : ownership'[x] = ownership[x]
    BY <1>1 DEF Added
  <1>4. /\ DOMAIN listings' = DOMAIN listings
        /\ \A m \in DOMAIN listings : listings'[m].seller = listings[m].seller
    BY <1>1 DEF IInv, TypeOK, Listing
  <1>5. /\ Summable(ownership')
        /\ \A K \in SUBSET DOMAIN ownership :
             /\ SumOf(ownership, K) \in Int
             /\ SumOf(ownership', K) = SumOf(ownership, K)
             /\ SumOf(ownership', K \cup {o}) = SumOf(ownership, K) + p
    <2>1. Summable(ownership)
      BY DEF SalesInv
    <2>2. o \notin DOMAIN ownership /\ ownership' = Added(ownership, o, p) /\ p \in Int
      BY <1>1, <1>2
    <2>. HIDE DEF o, p
    <2>. QED
      BY <2>1, <2>2, SumOfAdded
  <1>6. \A x \in DOMAIN ownership : x[2] \in DOMAIN listings
    BY DEF IInv, TypeOK
  <1>7. \A w \in Users :
          /\ SalesBy(w)' = IF w = v THEN SalesBy(w) \cup {o} ELSE SalesBy(w)
          /\ BoughtBy(w)' = IF w = u THEN BoughtBy(w) \cup {o} ELSE BoughtBy(w)
          /\ SalesBy(w) \in SUBSET DOMAIN ownership
          /\ BoughtBy(w) \in SUBSET DOMAIN ownership
    BY <1>1, <1>3, <1>4, <1>6 DEF SalesBy, BoughtBy
  <1>8. /\ Summable(ledger')
        /\ \A k \in DOMAIN ledger' :
             k \in DOMAIN ledger \/ k[3] = o
        /\ \A w \in Users :
             /\ SumOf(ledger', SalesOf(ledger', w)) =
                   IF w = v THEN SumOf(ledger, SalesOf(ledger, w)) + p
                   ELSE SumOf(ledger, SalesOf(ledger, w))
             /\ SumOf(ledger', BuysOf(ledger', w)) =
                   IF w = u THEN SumOf(ledger, BuysOf(ledger, w)) + -p
                   ELSE SumOf(ledger, BuysOf(ledger, w))
    <2>1. CASE p > 0
      <3>1. Trade(u, v, l, p)
        BY <2>1 DEF acquire
      <3>. HIDE DEF v, p
      <3>. QED
        BY <1>1, <1>2, <3>1, TradeSales
    <2>2. CASE ~ (p > 0)
      <3>1. ledger' = ledger /\ p = 0
        BY <2>2 DEF acquire
      <3>2. \A w : SalesOf(ledger, w) \in SUBSET DOMAIN ledger
                   /\ BuysOf(ledger, w) \in SUBSET DOMAIN ledger
        BY DEF SalesOf, BuysOf
      <3>3. Summable(ledger)
        BY DEF SalesInv
      <3>4. \A K \in SUBSET DOMAIN ledger : SumOf(ledger, K) \in Int
        <4>. SUFFICES ASSUME NEW K \in SUBSET DOMAIN ledger PROVE SumOf(ledger, K) \in Int
          OBVIOUS
        <4>1. IsFiniteSet(K) /\ \A k \in K : ledger[k] \in Int
          BY <3>3, FS_Subset DEF Summable
        <4>. QED
          BY <4>1, SumType
      <3>5. \A w : SumOf(ledger, SalesOf(ledger, w)) \in Int
                   /\ SumOf(ledger, BuysOf(ledger, w)) \in Int
        BY <3>2, <3>4
      <3>. HIDE DEF v, p
      <3>. QED
        BY <3>1, <3>3, <3>5
    <2>. QED
      BY <2>1, <2>2
  <1>9. \A x \in DOMAIN ownership' :
          /\ <<"sale", x>> \in DOMAIN notifications'
          /\ notifications'[<<"sale", x>>] = ownership'[x]
    BY <1>1, <1>3 DEF SalesInv, Put
  <1>. HIDE DEF o, v, p
  <1>10. ASSUME NEW w \in Users
         PROVE  /\ SumOf(ledger', SalesOf(ledger', w)) = SumOf(ownership', SalesBy(w)')
                /\ SumOf(ledger', BuysOf(ledger', w)) = -SumOf(ownership', BoughtBy(w)')
    <2>1. /\ SumOf(ledger, SalesOf(ledger, w)) = SumOf(ownership, SalesBy(w))
          /\ SumOf(ledger, BuysOf(ledger, w)) = -SumOf(ownership, BoughtBy(w))
      BY DEF SalesInv
    <2>2. SumOf(ownership', SalesBy(w)') =
            IF w = v THEN SumOf(ownership, SalesBy(w)) + p ELSE SumOf(ownership, SalesBy(w))
      BY <1>5, <1>7
    <2>3. SumOf(ownership', BoughtBy(w)') =
            IF w = u THEN SumOf(ownership, BoughtBy(w)) + p ELSE SumOf(ownership, BoughtBy(w))
      BY <1>5, <1>7
    <2>4. SumOf(ownership, SalesBy(w)) \in Int /\ SumOf(ownership, BoughtBy(w)) \in Int
      BY <1>5, <1>7
    <2>. QED
      BY <1>2, <1>8, <2>1, <2>2, <2>3, <2>4
  <1>11. \A k \in DOMAIN ledger' :
            k[2] \in {"sale", "purchase"} => k[3] \in DOMAIN ownership'
    BY <1>3, <1>8 DEF SalesInv
  <1>. QED
    BY <1>5, <1>8, <1>9, <1>10, <1>11 DEF SalesInv

\* Every step keeps sales and payments equal.
LEMMA NextSales == IInv /\ SalesInv /\ [Next]_vars => SalesInv'
  <1>. SUFFICES ASSUME IInv, SalesInv, [Next]_vars PROVE SalesInv'
    OBVIOUS
  <1>1. ASSUME NEW u \in Users, NEW l \in Listings, NEW t \in Titles,
               NEW s \in Sources \cup {NoSource}, NEW p \in Prices,
               create_draft(u, l, t, s, p)
        PROVE  SalesInv'
    <2>1. /\ UNCHANGED <<ledger, ownership, notifications>>
          /\ \A m \in DOMAIN listings : m \in DOMAIN listings' /\ listings'[m] = listings[m]
      BY <1>1 DEF create_draft, Put
    <2>. QED
      BY <2>1, SalesUntouched DEF SalesInv
  <1>2. ASSUME NEW u \in Users, NEW l \in Listings, publish(u, l)
        PROVE  SalesInv'
    BY <1>2, PublishSales
  <1>3. ASSUME NEW u \in Users, NEW l \in Listings, acquire(u, l)
        PROVE  SalesInv'
    BY <1>3, AcquireSales
  <1>4. ASSUME NEW l \in DOMAIN listings, UNCHANGED <<ledger, ownership, notifications>>,
               \/ listings' = [listings EXCEPT ![l].status = "unlisted"]
               \/ listings' = [listings EXCEPT ![l].status = "deleted"]
               \/ listings' = [listings EXCEPT ![l].likeCount = @ + 1]
               \/ listings' = [listings EXCEPT ![l].likeCount = @ - 1]
               \/ listings' = [listings EXCEPT ![l].moderated = FALSE]
        PROVE  SalesInv'
    <2>1. /\ DOMAIN listings' = DOMAIN listings
          /\ \A m \in DOMAIN listings : listings'[m].seller = listings[m].seller
      BY <1>4 DEF IInv, TypeOK, Listing
    <2>. QED
      BY <1>4, <2>1, SalesUntouched DEF SalesInv
  <1>5. ASSUME NEW u \in Users, NEW l \in Listings,
               unpublish(u, l) \/ delete(u, l) \/ like(u, l) \/ unlike(u, l)
        PROVE  SalesInv'
    <2>1. l \in DOMAIN listings /\ UNCHANGED <<ledger, ownership, notifications>>
      BY <1>5 DEF unpublish, delete, like, unlike, Owned, is_public
    <2>. QED
      BY <1>4, <1>5, <2>1 DEF unpublish, delete, like, unlike
  <1>6. ASSUME NEW l \in Listings, takedown(l)
        PROVE  SalesInv'
    <2>1. /\ l \in DOMAIN listings /\ UNCHANGED <<ledger, ownership>>
          /\ listings' = [listings EXCEPT ![l].moderated = TRUE]
          /\ notifications' = Put(notifications, <<"takedown", l>>, compensate(l))
      BY <1>6 DEF takedown
    <2>2. /\ DOMAIN listings' = DOMAIN listings
          /\ \A m \in DOMAIN listings : listings'[m].seller = listings[m].seller
      BY <2>1 DEF IInv, TypeOK, Listing
    <2>3. \A o \in DOMAIN ownership :
            /\ <<"sale", o>> \in DOMAIN notifications'
            /\ notifications'[<<"sale", o>>] = notifications[<<"sale", o>>]
      BY <2>1 DEF SalesInv, Put
    <2>. QED
      BY <2>1, <2>2, <2>3, SalesUntouched
  <1>7. ASSUME NEW l \in Listings, restore(l)
        PROVE  SalesInv'
    BY <1>4, <1>7 DEF restore
  <1>8. CASE UNCHANGED vars
    BY <1>8, SalesUntouched DEF vars, SalesInv
  <1>. QED
    BY <1>1, <1>2, <1>3, <1>5, <1>6, <1>7, <1>8 DEF Next

----------------------------------------------------------------------------
\* The inductive invariant holds in every reachable state.
THEOREM SpecIInv == Spec => []IInv
  BY InitIInv, NextIInv, PTL DEF Spec

\* No wallet is negative, and every title claim, block, ownership and like refers to a
\* listing that exists: an unpaid fee or price stops its whole transaction.
THEOREM SpecTypeOK == Spec => []TypeOK
  <1>1. IInv => TypeOK
    BY DEF IInv
  <1>. QED
    BY <1>1, SpecIInv, PTL

\* publishFeePaid, on which a free republication rests, agrees with the ledger
\* (publish writes both in one commit).
THEOREM SpecFeeFlagMatchesLedger == Spec => []FeeFlagMatchesLedger
  <1>1. IInv => FeeFlagMatchesLedger
    BY DEF IInv
  <1>. QED
    BY <1>1, SpecIInv, PTL

\* A name is held only by a published listing of that name (publish takes it, unpublish
\* and delete release it).
THEOREM SpecClaimsArePublished == Spec => []ClaimsArePublished
  <1>1. IInv => ClaimsArePublished
    BY DEF IInv
  <1>. QED
    BY <1>1, SpecIInv, PTL

\* A source is blocked only because of a listing of it that is taken down (takedown and
\* restore).
THEOREM SpecBlocksAreExplained == Spec => []BlocksAreExplained
  <1>1. IInv => BlocksAreExplained
    BY DEF IInv
  <1>. QED
    BY <1>1, SpecIInv, PTL

\* No step takes back a deletion, a paid fee, an ownership or a ledger entry, or changes
\* what a listing was made with: no handler of the marketplace does, in any order.
THEOREM SpecRightsStay == Spec => RightsStay
  BY SpecIInv, NextKeeps, PTL DEF Spec, RightsStay

\* The counters of likes and downloads on a listing are the numbers of its documents
\* (like, unlike and acquire write both in one commit).
THEOREM SpecCountersMatchDocuments == Spec => []CountersMatchDocuments
  <1>1. Init => Counted
    <2> SUFFICES ASSUME Init PROVE Counted
      OBVIOUS
    <2>1. DOMAIN listings = {} /\ likes = {} /\ DOMAIN ownership = {}
      BY DEF Init, Empty
    <2>. QED
      BY <2>1, FS_EmptySet DEF Counted, CountersMatchDocuments
  <1>2. Counted => CountersMatchDocuments
    BY DEF Counted
  <1>. QED
    BY <1>1, <1>2, NextCounted, SpecIInv, PTL DEF Spec

\* A wallet is what its user started with and the sum of the user's ledger entries, for
\* ledgers of any length (apply_in_transaction stages the two together).
THEOREM SpecLedgerExplainsBalances == Spec => []LedgerExplainsBalances
  <1>1. Init => Explained(Books)
    <2>. SUFFICES ASSUME Init PROVE Explained(Books)
      OBVIOUS
    <2>1. Books.balance = [u \in Users |-> StartBalance] /\ DOMAIN Books.ledger = {}
      BY DEF Init, Books, Empty
    <2>2. \A u : MineOf(Books.ledger, u) = {}
      BY <2>1 DEF MineOf
    <2>3. StartBalance \in Int
      BY PricesAssumption
    <2>. QED
      BY <2>1, <2>2, <2>3, SumEmpty, FS_EmptySet DEF Explained, Summable
  <1>. QED
    BY <1>1, NextExplained, ExplainedFacts, SpecIInv, PTL DEF Spec

\* For any number of buyers and listings: what the buyers of a seller's listings paid is what
\* the seller was paid, and every sale was told to the seller with its price.
THEOREM SpecEverySaleIsPaid == Spec => []EverySaleIsPaid
  <1>1. Init => SalesInv
    <2>. SUFFICES ASSUME Init PROVE SalesInv
      OBVIOUS
    <2>1. DOMAIN ledger = {} /\ DOMAIN ownership = {}
      BY DEF Init, Empty
    <2>2. \A u : /\ SalesOf(ledger, u) = {} /\ BuysOf(ledger, u) = {}
                 /\ SalesBy(u) = {} /\ BoughtBy(u) = {}
      BY <2>1 DEF SalesOf, BuysOf, SalesBy, BoughtBy
    <2>. QED
      <3>1. Summable(ledger) /\ Summable(ownership)
        BY <2>1, FS_EmptySet DEF Summable
      <3>2. SumOf(ledger, {}) = 0 /\ SumOf(ownership, {}) = 0
        BY SumEmpty
      <3>3. \A u : /\ SumOf(ledger, SalesOf(ledger, u)) = SumOf(ownership, SalesBy(u))
                   /\ SumOf(ledger, BuysOf(ledger, u)) = -SumOf(ownership, BoughtBy(u))
        BY <2>2, <3>2
      <3>. QED
        BY <2>1, <3>1, <3>3 DEF SalesInv
  <1>. QED
    BY <1>1, NextSales, SalesFacts, SpecIInv, PTL DEF Spec

----------------------------------------------------------------------------
(***************************************************************************)
(* Storefront: what a deletion has retired never comes back, the number of *)
(* likes is the number of like documents, and what is sold is delivered.   *)
(***************************************************************************)

\* The documents of listings have the fields that requests change.
Fields == \A l \in DOMAIN listings : {"seller", "status", "likeCount"} \subseteq DOMAIN listings[l]

Retired(l) == listings[l].seller = DELETED_OWNER

RetiredAreDeleted == \A l \in DOMAIN listings : Retired(l) => listings[l].status = "deleted"

LikesHaveListings == IsFiniteSet(likes) /\ \A k \in likes : k[2] \in DOMAIN listings

SInv ==
    /\ Fields
    /\ RetiredAreDeleted
    /\ LikesHaveListings
    /\ LikeCountsMatch

\* What RetiredStays says of one step.
StayRetired ==
    \A l \in DOMAIN listings :
        Retired(l) => /\ listings'[l].seller = DELETED_OWNER /\ listings'[l].status = "deleted"
                      /\ ~is_public(l)'

----------------------------------------------------------------------------
(***************************************************************************)
(* Likes                                                                   *)
(***************************************************************************)

\* A step that leaves the likes alone and every counter with them.
LEMMA LikesUntouched ==
    ASSUME SInv, likes' = likes, DOMAIN listings' = DOMAIN listings,
           \A l \in DOMAIN listings : listings'[l].likeCount = listings[l].likeCount
    PROVE  LikesHaveListings' /\ LikeCountsMatch'
  BY DEF SInv, LikesHaveListings, LikeCountsMatch

LEMMA LikeAdded ==
    ASSUME SInv, NEW u, NEW l \in DOMAIN listings, <<u, l>> \notin likes,
           likes' = likes \cup {<<u, l>>},
           listings' = [listings EXCEPT ![l].likeCount = @ + 1]
    PROVE  LikesHaveListings' /\ LikeCountsMatch'
  <1>1. /\ DOMAIN listings' = DOMAIN listings
        /\ listings'[l].likeCount = listings[l].likeCount + 1
        /\ \A m \in DOMAIN listings : m # l => listings'[m] = listings[m]
    BY DEF SInv, Fields
  <1>2. /\ IsFiniteSet(likes')
        /\ Cardinality(Of(likes', l)) = Cardinality(Of(likes, l)) + 1
        /\ \A m : m # l => Of(likes', m) = Of(likes, m)
    BY OneMore DEF SInv, LikesHaveListings
  <1>3. \A m \in DOMAIN listings : listings[m].likeCount = Cardinality(Of(likes, m))
    BY DEF SInv, LikeCountsMatch, Of
  <1>4. \A m \in DOMAIN listings' : listings'[m].likeCount = Cardinality(Of(likes', m))
    BY <1>1, <1>2, <1>3
  <1>5. \A k \in likes' : k[2] \in DOMAIN listings'
    BY <1>1 DEF SInv, LikesHaveListings
  <1>. QED
    BY <1>2, <1>4, <1>5 DEF LikesHaveListings, LikeCountsMatch, Of

\* The two ways to count a like off agree: no counter is zero while there is a like.
LEMMA LikeRemoved ==
    ASSUME SInv, NEW u, NEW l \in DOMAIN listings, <<u, l>> \in likes,
           likes' = likes \ {<<u, l>>},
           \/ listings' = [listings EXCEPT ![l].likeCount = @ - 1]
           \/ listings' = [listings EXCEPT ![l].likeCount = IF @ > 0 THEN @ - 1 ELSE 0]
    PROVE  LikesHaveListings' /\ LikeCountsMatch'
  <1>1. \A m \in DOMAIN listings : listings[m].likeCount = Cardinality(Of(likes, m))
    BY DEF SInv, LikeCountsMatch, Of
  <1>2. /\ IsFiniteSet(likes')
        /\ Cardinality(Of(likes, l)) \in Nat \ {0}
        /\ Cardinality(Of(likes', l)) = Cardinality(Of(likes, l)) - 1
        /\ \A m : m # l => Of(likes', m) = Of(likes, m)
    BY OneLess DEF SInv, LikesHaveListings
  <1>3. /\ DOMAIN listings' = DOMAIN listings
        /\ listings'[l].likeCount = listings[l].likeCount - 1
        /\ \A m \in DOMAIN listings : m # l => listings'[m] = listings[m]
    BY <1>1, <1>2 DEF SInv, Fields
  <1>4. \A m \in DOMAIN listings' : listings'[m].likeCount = Cardinality(Of(likes', m))
    BY <1>1, <1>2, <1>3
  <1>5. \A k \in likes' : k[2] \in DOMAIN listings'
    BY <1>3 DEF SInv, LikesHaveListings
  <1>. QED
    BY <1>2, <1>4, <1>5 DEF LikesHaveListings, LikeCountsMatch, Of

----------------------------------------------------------------------------
(***************************************************************************)
(* Retired listings                                                        *)
(***************************************************************************)

\* What a step may do to a listing that is there: retire it, or leave its seller alone and,
\* if it is retired, its status.
Lawful(m) ==
    \/ listings'[m].seller = DELETED_OWNER /\ listings'[m].status = "deleted"
    \/ /\ listings'[m].seller = listings[m].seller
       /\ Retired(m) => listings'[m].status = listings[m].status

LEMMA LawfulStep ==
    ASSUME SInv, DOMAIN listings' = DOMAIN listings, Fields', \A m \in DOMAIN listings : Lawful(m)
    PROVE  RetiredAreDeleted' /\ StayRetired
  <1>1. \A m \in DOMAIN listings :
           listings'[m].seller = DELETED_OWNER => listings'[m].status = "deleted"
    BY DEF SInv, RetiredAreDeleted, Lawful, Retired
  <1>2. \A m \in DOMAIN listings : Retired(m) => listings'[m].seller = DELETED_OWNER
    BY DEF Lawful, Retired
  <1>. QED
    BY <1>1, <1>2 DEF RetiredAreDeleted, StayRetired, Retired, is_public

\* A step that changes no listing and no like.
LEMMA NothingChanged ==
    ASSUME SInv, UNCHANGED <<listings, likes>>
    PROVE  SInv' /\ StayRetired
  BY DEF SInv, Fields, RetiredAreDeleted, Retired, LikesHaveListings, LikeCountsMatch, StayRetired,
         is_public

\* A new listing is a user's, and nobody has liked it.
LEMMA ListingStep ==
    ASSUME SInv, NEW u \in Users, NEW l \in Listings, NEW t, NEW x, NEW p,
           create_listing(u, l, t, x, p)
    PROVE  SInv' /\ StayRetired
  <1>1. /\ l \notin DOMAIN listings /\ likes' = likes
        /\ DOMAIN listings' = DOMAIN listings \cup {l}
        /\ \A m \in DOMAIN listings : listings'[m] = listings[m]
        /\ {"seller", "status", "likeCount"} \subseteq DOMAIN listings'[l]
        /\ listings'[l].seller = u /\ listings'[l].likeCount = 0
    BY DEF create_listing, create_draft, Put
  <1>2. u # DELETED_OWNER
    BY StorefrontAssumption
  <1>3. Fields' /\ RetiredAreDeleted' /\ StayRetired
    BY <1>1, <1>2 DEF SInv, Fields, RetiredAreDeleted, Retired, StayRetired, is_public
  <1>4. Of(likes, l) = {}
    BY <1>1 DEF SInv, LikesHaveListings, Of
  <1>5. LikesHaveListings' /\ LikeCountsMatch'
    BY <1>1, <1>4, FS_EmptySet DEF SInv, LikesHaveListings, LikeCountsMatch, Of
  <1>. QED
    BY <1>3, <1>5 DEF SInv

\* A seller changes the status of his own listing, which is not a retired one.
LEMMA SellerStep ==
    ASSUME SInv, NEW u \in Users, NEW l \in Listings,
           publish_listing(u, l) \/ unpublish_listing(u, l) \/ delete_my_listing(u, l)
    PROVE  SInv' /\ StayRetired
  <1>1. /\ l \in DOMAIN listings /\ listings[l].seller = u /\ likes' = likes
        /\ \/ listings' = [listings EXCEPT ![l].status = "published", ![l].publishFeePaid = TRUE]
           \/ listings' = [listings EXCEPT ![l].status = "unlisted"]
           \/ listings' = [listings EXCEPT ![l].status = "deleted"]
    BY DEF publish_listing, unpublish_listing, delete_my_listing, publish,
           unpublish, delete, Owned
  <1>2. /\ DOMAIN listings' = DOMAIN listings /\ Fields'
        /\ listings'[l].seller = u
        /\ \A m \in DOMAIN listings : listings'[m].likeCount = listings[m].likeCount
        /\ \A m \in DOMAIN listings : m # l => listings'[m] = listings[m]
    BY <1>1 DEF SInv, Fields
  <1>3. \A m \in DOMAIN listings : Lawful(m)
    BY <1>1, <1>2, StorefrontAssumption DEF Lawful, Retired
  <1>. QED
    BY <1>1, <1>2, <1>3, LawfulStep, LikesUntouched DEF SInv

\* A sale, a takedown and a restoration leave seller, status and likes alone.
LEMMA SaleStep ==
    ASSUME SInv, NEW u \in Users, NEW l \in Listings,
           purchase_listing(u, l) \/ takedown_listing(l) \/ restore_listing(l)
    PROVE  SInv' /\ StayRetired
  <1>1. /\ l \in DOMAIN listings /\ likes' = likes
        /\ \/ listings' = [listings EXCEPT ![l].downloadCount = @ + 1]
           \/ listings' = [listings EXCEPT ![l].moderated = TRUE]
           \/ listings' = [listings EXCEPT ![l].moderated = FALSE]
    BY DEF purchase_listing, takedown_listing, restore_listing, acquire,
           takedown, restore, is_public
  <1>2. /\ DOMAIN listings' = DOMAIN listings /\ Fields'
        /\ \A m \in DOMAIN listings :
              /\ listings'[m].likeCount = listings[m].likeCount
              /\ listings'[m].seller = listings[m].seller
              /\ listings'[m].status = listings[m].status
    BY <1>1 DEF SInv, Fields
  <1>3. \A m \in DOMAIN listings : Lawful(m)
    BY <1>2 DEF Lawful
  <1>. QED
    BY <1>1, <1>2, <1>3, LawfulStep, LikesUntouched DEF SInv

\* Likes change counters and nothing else of a listing.
LEMMA LikesStep ==
    ASSUME SInv, NEW u \in Users, NEW l \in Listings,
           like_listing(u, l) \/ unlike_listing(u, l)
    PROVE  SInv' /\ StayRetired
  <1>1. /\ l \in DOMAIN listings
        /\ \/ /\ <<u, l>> \notin likes /\ likes' = likes \cup {<<u, l>>}
              /\ listings' = [listings EXCEPT ![l].likeCount = @ + 1]
           \/ /\ <<u, l>> \in likes /\ likes' = likes \ {<<u, l>>}
              /\ listings' = [listings EXCEPT ![l].likeCount = @ - 1]
    BY DEF like_listing, unlike_listing, like, unlike, is_public
  <1>2. /\ DOMAIN listings' = DOMAIN listings /\ Fields'
        /\ \A m \in DOMAIN listings : /\ listings'[m].seller = listings[m].seller
                                      /\ listings'[m].status = listings[m].status
    BY <1>1 DEF SInv, Fields
  <1>3. \A m \in DOMAIN listings : Lawful(m)
    BY <1>2 DEF Lawful
  <1>4. LikesHaveListings' /\ LikeCountsMatch'
    BY <1>1, LikeAdded, LikeRemoved
  <1>. QED
    BY <1>2, <1>3, <1>4, LawfulStep DEF SInv

----------------------------------------------------------------------------
(***************************************************************************)
(* The deletion of an account                                              *)
(***************************************************************************)

\* The blind update: whatever the listing was, it is retired.
LEMMA RetireStep ==
    ASSUME SInv, NEW u \in Users, NEW l \in Listings, retire(u, l)
    PROVE  SInv' /\ StayRetired
  <1>1. /\ likes' = likes
        /\ listings' = [listings EXCEPT ![l].status = "deleted", ![l].seller = DELETED_OWNER]
    BY DEF retire
  <1>2. /\ DOMAIN listings' = DOMAIN listings /\ Fields'
        /\ \A m \in DOMAIN listings : listings'[m].likeCount = listings[m].likeCount
        /\ \A m \in DOMAIN listings : m # l => listings'[m] = listings[m]
        /\ l \in DOMAIN listings =>
              listings'[l].seller = DELETED_OWNER /\ listings'[l].status = "deleted"
    BY <1>1 DEF SInv, Fields
  <1>3. \A m \in DOMAIN listings : Lawful(m)
    BY <1>2 DEF Lawful
  <1>. QED
    BY <1>1, <1>2, <1>3, LawfulStep, LikesUntouched DEF SInv

\* A like is counted off if it is still there.
LEMMA RemoveLikeStep ==
    ASSUME SInv, NEW u \in Users, NEW l \in Listings, remove_like(u, l)
    PROVE  SInv' /\ StayRetired
  <1>1. CASE UNCHANGED <<listings, likes>>
    BY <1>1, NothingChanged
  <1>2. CASE /\ <<u, l>> \in likes /\ likes' = likes \ {<<u, l>>}
             /\ listings' = [listings EXCEPT ![l].likeCount = IF @ > 0 THEN @ - 1 ELSE 0]
    <2>1. l \in DOMAIN listings
      <3>1. <<u, l>>[2] \in DOMAIN listings
        BY <1>2 DEF SInv, LikesHaveListings
      <3>. QED
        BY <3>1
    <2>2. /\ DOMAIN listings' = DOMAIN listings /\ Fields'
          /\ \A m \in DOMAIN listings : /\ listings'[m].seller = listings[m].seller
                                        /\ listings'[m].status = listings[m].status
      BY <1>2, <2>1 DEF SInv, Fields
    <2>3. \A m \in DOMAIN listings : Lawful(m)
      BY <2>2 DEF Lawful
    <2>4. LikesHaveListings' /\ LikeCountsMatch'
      BY <1>2, <2>1, LikeRemoved
    <2>. QED
      BY <2>2, <2>3, <2>4, LawfulStep DEF SInv
  <1>. QED
    BY <1>1, <1>2 DEF remove_like

----------------------------------------------------------------------------
(***************************************************************************)
(* Theorems                                                                *)
(***************************************************************************)

LEMMA InitSInv == StorefrontInit => SInv
  <1>. SUFFICES ASSUME StorefrontInit
       PROVE  SInv
    OBVIOUS
  <1>1. listings = [x \in {} |-> x] /\ likes = {}
    BY DEF StorefrontInit, Init, Empty
  <1>. QED
    BY <1>1, FS_EmptySet DEF SInv, Fields, RetiredAreDeleted, LikesHaveListings, LikeCountsMatch

LEMMA NextSInv ==
    ASSUME SInv, [StorefrontNext]_storeVars
    PROVE  SInv' /\ StayRetired
  <1>1. ASSUME NEW u \in Users, NEW l \in Listings, NEW t \in Titles, NEW x \in Snapshots,
               NEW p \in Prices, create_listing(u, l, t, x, p)
        PROVE  SInv' /\ StayRetired
    BY <1>1, ListingStep
  <1>2. ASSUME NEW u \in Users, NEW l \in Listings, shop(u, l)
        PROVE  SInv' /\ StayRetired
    BY <1>2, SellerStep, SaleStep, LikesStep DEF shop, ByUser, ByOperator
  <1>3. ASSUME NEW u \in Users, NEW l \in Listings, retire(u, l) \/ remove_like(u, l)
        PROVE  SInv' /\ StayRetired
    BY <1>3, RetireStep, RemoveLikeStep
  <1>4. CASE UNCHANGED <<listings, likes>>
    BY <1>4, NothingChanged
  <1>5. ASSUME NEW u \in Users, NEW x \in Snapshots, NEW p \in Packages, create_snapshot(u, x, p)
        PROVE  UNCHANGED <<listings, likes>>
    BY <1>5 DEF create_snapshot, vars
  <1>6. ASSUME NEW x \in Snapshots, put(x) \/ clean(x) \/ document(x) \/ upload_dies(x)
        PROVE  UNCHANGED <<listings, likes>>
    BY <1>6 DEF put, clean, document, upload_dies, vars
  <1>7. ASSUME NEW u \in Users,
               \/ delete_account(u) \/ find_likes(u) \/ likes_removed(u)
               \/ delete_ownership(u) \/ deletion_fails(u)
        PROVE  UNCHANGED <<listings, likes>>
    BY <1>7 DEF delete_account, find_likes, likes_removed, delete_ownership, deletion_fails, vars
  <1>8. CASE UNCHANGED storeVars
    BY <1>4, <1>8 DEF storeVars, vars
  <1>. QED
    BY <1>1, <1>2, <1>3, <1>4, <1>5, <1>6, <1>7, <1>8 DEF StorefrontNext

\* The inductive invariant holds in every reachable state.
THEOREM SpecSInv == StorefrontSpec => []SInv
  <1>1. SInv /\ [StorefrontNext]_storeVars => SInv'
    BY NextSInv
  <1>. QED
    BY <1>1, InitSInv, PTL DEF StorefrontSpec

\* The counter of likes is exact, however many accounts are deleted while others like.
THEOREM SpecLikeCountsMatch == StorefrontSpec => []LikeCountsMatch
  <1>1. SInv => LikeCountsMatch
    BY DEF SInv
  <1>. QED
    BY <1>1, SpecSInv, PTL

\* A listing whose seller is gone stays out of the shop, whatever was on its way.
THEOREM SpecRetiredStays == StorefrontSpec => RetiredStays
  <1>1. SInv /\ [StorefrontNext]_storeVars => [StayRetired]_storeVars
    BY NextSInv
  <1>2. StayRetired <=>
          \A l \in DOMAIN listings :
              listings[l].seller = DELETED_OWNER =>
                 /\ listings'[l].seller = DELETED_OWNER /\ listings'[l].status = "deleted"
                 /\ ~is_public(l)'
    BY DEF StayRetired, Retired
  <1>. QED
    BY <1>1, <1>2, SpecSInv, PTL DEF StorefrontSpec, RetiredStays

----------------------------------------------------------------------------
(***************************************************************************)
(* What is sold is complete                                                *)
(*                                                                         *)
(* An upload's document is written when all its objects are, and then the  *)
(* upload is over: nothing cleans after it any more.                       *)
(***************************************************************************)

Written(x, n) == \A i \in 1..n : Object(x, i) \in objects

InOrder(x) ==
    LET up == uploads[x]  all == Len(keys(up.package)) IN
    /\ {"at", "seller", "package", "written", "cleaned"} \subseteq DOMAIN up
    /\ up.package \in Packages /\ checked_package(up.package)
    /\ up.written \in 0..all
    /\ up.at \in {"put", "document"} => Written(x, up.written)
    /\ up.at = "put" => up.written < all
    /\ up.at = "document" => up.written = all

UploadsInOrder == \A x \in DOMAIN uploads : InOrder(x)

SnapshotsComplete ==
    \A x \in DOMAIN snapshots :
        /\ x \in DOMAIN uploads /\ uploads[x].at = "ended"
        /\ snapshots[x] = _snapshot_document(uploads[x])
        /\ Written(x, Len(keys(uploads[x].package)))

ListingsSellSnapshots ==
    \A l \in DOMAIN listings : l \in DOMAIN snapshotId /\ snapshotId[l] \in DOMAIN snapshots

RInv ==
    /\ UploadsInOrder
    /\ SnapshotsComplete
    /\ ListingsSellSnapshots

\* A set in some order, nothing left out.
LEMMA SetToSeqFacts ==
    ASSUME NEW S, IsFiniteSet(S)
    PROVE  /\ SetToSeq(S) \in Seq(S)
           /\ \A e \in S : \E i \in 1..Len(SetToSeq(S)) : SetToSeq(S)[i] = e
  <1>. DEFINE n == Cardinality(S)
              f == SetToSeq(S)
  <1>1. n \in Nat
    BY FS_CardinalityType
  <1>2. PICK m \in Nat : ExistsBijection(1..m, S)
    BY FS_NatBijection
  <1>3. m = n
    BY <1>2, FS_CountingElements
  <1>4. \E g \in [1..n -> S] : IsInjective(g)
    BY <1>2, <1>3 DEF ExistsBijection, Bijection, Injection
  <1>5. f \in [1..n -> S] /\ IsInjective(f)
    BY <1>4 DEF SetToSeq
  <1>6. Cardinality(1..n) = n
    BY <1>1, FS_Interval
  <1>. HIDE DEF f, n
  <1>7. f \in Injection(1..n, S)
    BY <1>5 DEF Injection
  <1>8. f \in Surjection(1..n, S)
    BY <1>6, <1>7, FS_Injection DEF n
  <1>9. f \in Seq(S) /\ Len(f) = n
    BY <1>1, <1>5
  <1>. QED
    BY <1>8, <1>9 DEF Surjection, f

\* A sequence behind two elements.
LEMMA TwoBefore ==
    ASSUME NEW T, NEW g \in Seq(T), NEW f \in Seq(T), Len(g) = 2
    PROVE  /\ Len(g \o f) = 2 + Len(f)
           /\ (g \o f)[1] = g[1] /\ (g \o f)[2] = g[2]
           /\ \A i \in 1..Len(f) : (g \o f)[i + 2] = f[i]
  <1>1. Len(f) \in Nat
    OBVIOUS
  <1>2. /\ Len(g \o f) = Len(g) + Len(f)
        /\ \A i \in 1..(Len(g) + Len(f)) :
              (g \o f)[i] = IF i <= Len(g) THEN g[i] ELSE f[i - Len(g)]
    BY ConcatProperties, Zenon
  <1>3. \A i \in 1..(2 + Len(f)) : (g \o f)[i] = IF i <= 2 THEN g[i] ELSE f[i - 2]
    BY <1>1, <1>2
  <1>4. (g \o f)[1] = g[1] /\ (g \o f)[2] = g[2]
    <2>1. 1 \in 1..(2 + Len(f)) /\ 2 \in 1..(2 + Len(f)) /\ 1 <= 2 /\ 2 <= 2
      BY <1>1
    <2>. QED
      BY ONLY <1>3, <2>1, Zenon
  <1>5. ASSUME NEW i \in 1..Len(f)
        PROVE  (g \o f)[i + 2] = f[i]
    <2>1. i + 2 \in 1..(2 + Len(f)) /\ ~(i + 2 <= 2) /\ (i + 2) - 2 = i
      BY <1>1
    <2>. QED
      BY <1>3, <2>1
  <1>. QED
    BY <1>1, <1>2, <1>4, <1>5

\* Every object of a package is written, the manifest and the preview before the images.
LEMMA KeysCover ==
    ASSUME NEW p, IsFiniteSet(p.assets)
    PROVE  /\ Len(keys(p)) \in Nat \ {0}
           /\ \A part \in {"manifest", "preview"} \cup p.assets :
                 \E i \in 1..Len(keys(p)) : keys(p)[i] = part
  <1>. DEFINE S == p.assets
              f == SetToSeq(S)
              g == <<"manifest", "preview">>
              T == {"manifest", "preview"} \cup S
  <1>1. /\ f \in Seq(S)
        /\ \A e \in S : \E i \in 1..Len(f) : f[i] = e
    BY SetToSeqFacts
  <1>2. keys(p) = g \o f
    BY DEF keys
  <1>. HIDE DEF f
  <1>3. g \in Seq(T) /\ f \in Seq(T)
    BY <1>1
  <1>4. Len(g) = 2 /\ g[1] = "manifest" /\ g[2] = "preview" /\ Len(f) \in Nat
    BY <1>3
  <1>. HIDE DEF T, g
  <1>5. /\ Len(g \o f) = 2 + Len(f)
        /\ (g \o f)[1] = "manifest" /\ (g \o f)[2] = "preview"
        /\ \A i \in 1..Len(f) : (g \o f)[i + 2] = f[i]
    BY <1>3, <1>4, TwoBefore
  <1>6. ASSUME NEW e \in S
        PROVE  \E i \in 1..Len(g \o f) : (g \o f)[i] = e
    <2>1. PICK i \in 1..Len(f) : f[i] = e
      BY <1>1
    <2>2. i + 2 \in 1..Len(g \o f) /\ (g \o f)[i + 2] = e
      BY <1>4, <1>5, <2>1
    <2>. QED
      BY <2>2
  <1>7. 1 \in 1..Len(g \o f) /\ 2 \in 1..Len(g \o f) /\ Len(g \o f) \in Nat \ {0}
    BY <1>4, <1>5
  <1>. QED
    BY <1>2, <1>5, <1>6, <1>7

\* What the app needs of a package was in the package, or it was refused.
LEMMA NeededIsSent ==
    ASSUME NEW p, checked_package(p)
    PROVE  Needed(p) \subseteq {"manifest", "preview"} \cup p.assets
  BY DEF checked_package, referenced_asset_ids, _design_asset_ids, Needed

\* What is sold is a snapshot, a snapshot has its objects, and they are all the app needs.
LEMMA CompleteIsReceived == RInv => BuyersReceive
  <1>. SUFFICES ASSUME RInv, NEW l \in DOMAIN listings
       PROVE  \A part \in Needed(snapshots[snapshotId[l]].package) \cup {"preview"} :
                 Stored(l, part)
    BY DEF BuyersReceive, template, my_listing_preview, listing_preview, any_listing
  <1>. DEFINE x == snapshotId[l]
              p == uploads[x].package
  <1>1. x \in DOMAIN snapshots
    BY DEF RInv, ListingsSellSnapshots
  <1>2. /\ x \in DOMAIN uploads
        /\ snapshots[x] = _snapshot_document(uploads[x])
        /\ Written(x, Len(keys(p)))
    BY <1>1 DEF RInv, SnapshotsComplete
  <1>3. p \in Packages /\ checked_package(p) /\ snapshots[x].package = p
    BY <1>2 DEF RInv, UploadsInOrder, InOrder, _snapshot_document
  <1>4. IsFiniteSet(p.assets)
    BY <1>3, PackagesAssumption
  <1>5. \A part \in {"manifest", "preview"} \cup p.assets : <<x, part>> \in objects
    <2>1. \A i \in 1..Len(keys(p)) : <<x, keys(p)[i]>> \in objects
      BY <1>2 DEF Written, Object
    <2>. HIDE DEF p, x
    <2>. QED
      BY <1>4, <2>1, KeysCover
  <1>. HIDE DEF p
  <1>6. Needed(snapshots[x].package) \subseteq {"manifest", "preview"} \cup p.assets
    BY <1>3, NeededIsSent
  <1>. QED
    BY <1>1, <1>5, <1>6 DEF Stored


\* What has no document yet.
LEMMA NotYetSold ==
    ASSUME RInv, NEW x, x \in DOMAIN uploads => uploads[x].at # "ended"
    PROVE  x \notin DOMAIN snapshots
  BY DEF RInv, SnapshotsComplete

\* A step of one upload that has no document yet: the objects of the others stay.
LEMMA OneUpload ==
    ASSUME RInv, NEW x, x \notin DOMAIN snapshots,
           DOMAIN uploads' = DOMAIN uploads \cup {x},
           \A y \in DOMAIN uploads : y # x => uploads'[y] = uploads[y],
           \A y \in DOMAIN uploads : y # x =>
              \A part : <<y, part>> \in objects => <<y, part>> \in objects',
           InOrder(x)',
           UNCHANGED <<vars, snapshotId, snapshots>>
    PROVE  RInv'
  <1>1. ASSUME NEW y \in DOMAIN uploads, y # x, NEW n, Written(y, n)
        PROVE  Written(y, n)'
    BY <1>1 DEF Written, Object
  <1>2. ASSUME NEW y \in DOMAIN uploads, y # x
        PROVE  InOrder(y)'
    <2>1. InOrder(y) /\ uploads'[y] = uploads[y]
      BY <1>2 DEF RInv, UploadsInOrder
    <2>. QED
      BY <1>1, <1>2, <2>1 DEF InOrder
  <1>3. UploadsInOrder'
    BY <1>2 DEF UploadsInOrder
  <1>4. ASSUME NEW y \in DOMAIN snapshots
        PROVE  /\ y \in DOMAIN uploads' /\ uploads'[y].at = "ended"
               /\ snapshots'[y] = _snapshot_document(uploads'[y])
               /\ Written(y, Len(keys(uploads[y].package)))'
               /\ uploads'[y] = uploads[y]
    <2>1. /\ y \in DOMAIN uploads /\ y # x /\ uploads[y].at = "ended"
          /\ snapshots[y] = _snapshot_document(uploads[y])
          /\ Written(y, Len(keys(uploads[y].package)))
      BY <1>4 DEF RInv, SnapshotsComplete
    <2>2. Written(y, Len(keys(uploads[y].package)))'
      BY <2>1 DEF Written, Object
    <2>. QED
      BY <2>1, <2>2
  <1>5. SnapshotsComplete'
    BY <1>4 DEF SnapshotsComplete
  <1>6. ListingsSellSnapshots'
    BY DEF RInv, ListingsSellSnapshots, vars
  <1>. QED
    BY <1>3, <1>5, <1>6 DEF RInv


\* A new upload has written nothing, and has something to write.
LEMMA SnapshotStep ==
    ASSUME RInv, NEW u \in Users, NEW x \in Snapshots, NEW p \in Packages, create_snapshot(u, x, p)
    PROVE  RInv'
  <1>1. /\ x \notin DOMAIN uploads /\ checked_package(p) /\ objects' = objects
        /\ DOMAIN uploads' = DOMAIN uploads \cup {x}
        /\ \A y \in DOMAIN uploads : y # x => uploads'[y] = uploads[y]
        /\ uploads'[x] = [at |-> "put", seller |-> u, package |-> p, written |-> 0, cleaned |-> 0]
        /\ UNCHANGED <<vars, snapshotId, snapshots>>
    BY DEF create_snapshot, Put
  <1>2. Len(keys(p)) \in Nat \ {0}
    BY KeysCover, PackagesAssumption
  <1>3. Written(x, 0)'
    BY DEF Written
  <1>4. InOrder(x)'
    BY <1>1, <1>2, <1>3 DEF InOrder
  <1>5. x \notin DOMAIN snapshots
    BY <1>1, NotYetSold
  <1>. QED
    BY <1>1, <1>4, <1>5, OneUpload

\* The next object is there, or the upload is broken off.
LEMMA PutStep ==
    ASSUME RInv, NEW x \in Snapshots, put(x)
    PROVE  RInv'
  <1>. DEFINE up == uploads[x]
              next == up.written + 1
              all == Len(keys(up.package))
  <1>1. /\ x \in DOMAIN uploads /\ up.at = "put"
        /\ {"at", "seller", "package", "written", "cleaned"} \subseteq DOMAIN up
        /\ up.package \in Packages /\ checked_package(up.package)
        /\ up.written \in 0..all /\ up.written < all /\ Written(x, up.written)
    BY DEF put, UploadAt, RInv, UploadsInOrder, InOrder
  <1>2. all \in Nat
    BY <1>1, KeysCover, PackagesAssumption
  <1>3. x \notin DOMAIN snapshots
    BY <1>1, NotYetSold
  <1>4. UNCHANGED <<vars, snapshotId, snapshots>>
    BY DEF put
  <1>5. CASE /\ objects' = objects \cup {Object(x, next)}
             /\ uploads' = [uploads EXCEPT
                    ![x].written = next, ![x].at = IF next = all THEN "document" ELSE "put"]
    <2>1. /\ DOMAIN uploads' = DOMAIN uploads
          /\ \A y \in DOMAIN uploads : y # x => uploads'[y] = uploads[y]
          /\ DOMAIN uploads'[x] = DOMAIN up /\ uploads'[x].package = up.package
          /\ uploads'[x].written = next
          /\ uploads'[x].at = IF next = all THEN "document" ELSE "put"
      BY <1>1, <1>5
    <2>2. ASSUME NEW i \in 1..next
          PROVE  Object(x, i) \in objects'
      <3>1. i \in 1..up.written \/ i = next
        BY <1>1, <1>2
      <3>. QED
        BY <1>1, <1>5, <3>1 DEF Written
    <2>3. Written(x, up.written)'
      <3>1. ASSUME NEW i \in 1..next
            PROVE  Object(x, i)' \in objects'
        BY <2>1, <2>2 DEF Object
      <3>. QED
        BY <2>1, <3>1 DEF Written
    <2>4. next \in 0..all
      BY <1>1, <1>2
    <2>5. InOrder(x)'
      BY <1>1, <1>2, <2>1, <2>3, <2>4 DEF InOrder
    <2>. QED
      BY <1>1, <1>3, <1>4, <1>5, <2>1, <2>5, OneUpload
  <1>6. CASE /\ objects' \in {objects, objects \cup {Object(x, next)}}
             /\ uploads' = [uploads EXCEPT ![x].at = IF next = 1 THEN "ended" ELSE "clean"]
    <2>1. /\ DOMAIN uploads' = DOMAIN uploads
          /\ \A y \in DOMAIN uploads : y # x => uploads'[y] = uploads[y]
          /\ DOMAIN uploads'[x] = DOMAIN up /\ uploads'[x].package = up.package
          /\ uploads'[x].written = up.written
          /\ uploads'[x].at \in {"ended", "clean"}
      BY <1>1, <1>6
    <2>2. InOrder(x)'
      BY <1>1, <2>1 DEF InOrder
    <2>3. objects \subseteq objects'
      BY <1>6
    <2>. QED
      BY <1>1, <1>3, <1>4, <2>1, <2>2, <2>3, OneUpload
  <1>. QED
    BY <1>5, <1>6 DEF put

\* Only a broken upload is cleaned, and of that only its own objects.
LEMMA CleanStep ==
    ASSUME RInv, NEW x \in Snapshots, clean(x) \/ upload_dies(x)
    PROVE  RInv'
  <1>. DEFINE up == uploads[x]
  <1>1. /\ x \in DOMAIN uploads /\ up.at # "ended"
        /\ {"at", "seller", "package", "written", "cleaned"} \subseteq DOMAIN up
        /\ up.package \in Packages /\ checked_package(up.package)
        /\ up.written \in 0..Len(keys(up.package))
    BY DEF clean, upload_dies, UploadAt, RInv, UploadsInOrder, InOrder
  <1>2. x \notin DOMAIN snapshots
    BY <1>1, NotYetSold
  <1>3. /\ UNCHANGED <<vars, snapshotId, snapshots>>
        /\ \/ objects' = objects
           \/ \E part : objects' = objects \ {<<x, part>>}
    BY DEF clean, upload_dies, Object
  <1>4. /\ DOMAIN uploads' = DOMAIN uploads
        /\ \A y \in DOMAIN uploads : y # x => uploads'[y] = uploads[y]
        /\ DOMAIN uploads'[x] = DOMAIN up /\ uploads'[x].package = up.package
        /\ uploads'[x].written = up.written
        /\ uploads'[x].at \in {"ended", "clean"}
    BY <1>1 DEF clean, upload_dies
  <1>5. InOrder(x)'
    BY <1>1, <1>4 DEF InOrder
  <1>6. \A y \in DOMAIN uploads : y # x =>
           \A part : <<y, part>> \in objects => <<y, part>> \in objects'
    BY <1>3
  <1>. QED
    BY <1>1, <1>2, <1>3, <1>4, <1>5, <1>6, OneUpload

\* The document comes when all objects are there, and nothing cleans after it.
LEMMA DocumentStep ==
    ASSUME RInv, NEW x \in Snapshots, document(x)
    PROVE  RInv'
  <1>. DEFINE up == uploads[x]
  <1>1. /\ x \in DOMAIN uploads /\ up.at = "document"
        /\ {"at", "seller", "package", "written", "cleaned"} \subseteq DOMAIN up
        /\ up.package \in Packages /\ checked_package(up.package)
        /\ up.written \in 0..Len(keys(up.package)) /\ up.written = Len(keys(up.package))
        /\ Written(x, Len(keys(up.package)))
    BY DEF document, UploadAt, RInv, UploadsInOrder, InOrder
  <1>2. /\ DOMAIN uploads' = DOMAIN uploads
        /\ \A y \in DOMAIN uploads : y # x => uploads'[y] = uploads[y]
        /\ DOMAIN uploads'[x] = DOMAIN up /\ uploads'[x].package = up.package
        /\ uploads'[x].written = up.written /\ uploads'[x].seller = up.seller
        /\ uploads'[x].at = "ended"
    BY <1>1 DEF document
  <1>3. /\ UNCHANGED <<vars, snapshotId, objects>>
        /\ \/ snapshots' = snapshots
           \/ /\ DOMAIN snapshots' = DOMAIN snapshots \cup {x}
              /\ snapshots'[x] = _snapshot_document(up)
              /\ \A y \in DOMAIN snapshots : y # x => snapshots'[y] = snapshots[y]
    BY DEF document, WriteDocument, Put
  <1>4. \A y \in DOMAIN uploads : uploads'[y].package = uploads[y].package
    BY <1>2
  <1>5. ASSUME NEW y \in DOMAIN uploads, NEW n, Written(y, n)
        PROVE  Written(y, n)'
    BY <1>3, <1>4, <1>5 DEF Written, Object
  <1>6. ASSUME NEW y \in DOMAIN uploads
        PROVE  InOrder(y)'
    <2>1. CASE y = x
      BY <1>1, <1>2, <2>1 DEF InOrder
    <2>2. CASE y # x
      <3>1. InOrder(y) /\ uploads'[y] = uploads[y]
        BY <1>2, <2>2 DEF RInv, UploadsInOrder
      <3>. QED
        BY <1>5, <3>1 DEF InOrder
    <2>. QED
      BY <2>1, <2>2
  <1>7. UploadsInOrder'
    BY <1>2, <1>6 DEF UploadsInOrder
  <1>8. x \notin DOMAIN snapshots
    BY <1>1, NotYetSold
  <1>9. ASSUME NEW y \in DOMAIN snapshots'
        PROVE  /\ y \in DOMAIN uploads' /\ uploads'[y].at = "ended"
               /\ snapshots'[y] = _snapshot_document(uploads'[y])
               /\ Written(y, Len(keys(uploads[y].package)))'
               /\ uploads'[y].package = uploads[y].package
    <2>1. CASE y = x
      <3>1. snapshots'[x] = _snapshot_document(up)
        BY <1>3, <1>8, <1>9, <2>1
      <3>2. Written(x, Len(keys(up.package)))'
        BY <1>1, <1>3, <1>4 DEF Written, Object
      <3>. QED
        BY <1>1, <1>2, <2>1, <3>1, <3>2 DEF _snapshot_document
    <2>2. CASE y # x
      <3>1. /\ y \in DOMAIN uploads /\ uploads[y].at = "ended"
            /\ snapshots[y] = _snapshot_document(uploads[y])
            /\ Written(y, Len(keys(uploads[y].package)))
            /\ snapshots'[y] = snapshots[y]
        BY <1>3, <1>9, <2>2 DEF RInv, SnapshotsComplete
      <3>2. Written(y, Len(keys(uploads[y].package)))'
        BY <1>3, <1>4, <3>1 DEF Written, Object
      <3>. QED
        BY <1>2, <2>2, <3>1, <3>2
    <2>. QED
      BY <2>1, <2>2
  <1>10. SnapshotsComplete'
    BY <1>9 DEF SnapshotsComplete
  <1>11. ListingsSellSnapshots'
    BY <1>3 DEF RInv, ListingsSellSnapshots, vars
  <1>. QED
    BY <1>7, <1>10, <1>11 DEF RInv


\* A draft is of a snapshot that is there, and no request gives a listing another one.
LEMMA ShopStep ==
    ASSUME RInv, UNCHANGED <<uploads, objects, snapshots>>,
           \/ DOMAIN listings' = DOMAIN listings /\ snapshotId' = snapshotId
           \/ \E u \in Users, l \in Listings, t \in Titles, x \in Snapshots, p \in Prices :
                 create_listing(u, l, t, x, p)
    PROVE  RInv'
  <1>1. UploadsInOrder' /\ SnapshotsComplete'
    BY DEF RInv, UploadsInOrder, SnapshotsComplete, InOrder, Written, Object
  <1>2. CASE DOMAIN listings' = DOMAIN listings /\ snapshotId' = snapshotId
    BY <1>1, <1>2 DEF RInv, ListingsSellSnapshots
  <1>3. ASSUME NEW u \in Users, NEW l \in Listings, NEW t \in Titles, NEW x \in Snapshots,
               NEW p \in Prices, create_listing(u, l, t, x, p)
        PROVE  RInv'
    <2>1. /\ x \in DOMAIN snapshots
          /\ DOMAIN listings' = DOMAIN listings \cup {l}
          /\ DOMAIN snapshotId' = DOMAIN snapshotId \cup {l}
          /\ snapshotId'[l] = x
          /\ \A m \in DOMAIN snapshotId : m # l => snapshotId'[m] = snapshotId[m]
      BY <1>3 DEF create_listing, _owned_snapshot, create_draft, Put
    <2>2. ListingsSellSnapshots'
      BY <2>1 DEF RInv, ListingsSellSnapshots
    <2>. QED
      BY <1>1, <2>2 DEF RInv
  <1>. QED
    BY <1>2, <1>3

\* No other request makes a listing, or removes one.
LEMMA SameListings ==
    ASSUME NEW u \in Users, NEW l \in Listings, shop(u, l) \/ retire(u, l) \/ remove_like(u, l)
    PROVE  DOMAIN listings' = DOMAIN listings /\ UNCHANGED <<snapshotId, storage>>
  <1>1. CASE retire(u, l) \/ remove_like(u, l)
    BY <1>1 DEF retire, remove_like
  <1>2. CASE shop(u, l) /\ ByUser(u, l)
    BY <1>2 DEF shop, ByUser, publish_listing, unpublish_listing, delete_my_listing,
                purchase_listing, like_listing, unlike_listing, publish, unpublish,
                delete, acquire, like, unlike
  <1>3. CASE shop(u, l) /\ ByOperator(l)
    BY <1>3 DEF shop, ByOperator, takedown_listing, restore_listing, takedown,
                restore
  <1>. QED
    BY <1>1, <1>2, <1>3 DEF shop

LEMMA InitRInv == StorefrontInit => RInv
  <1>. SUFFICES ASSUME StorefrontInit
       PROVE  RInv
    OBVIOUS
  <1>1. DOMAIN listings = {} /\ DOMAIN uploads = {} /\ DOMAIN snapshots = {}
    BY DEF StorefrontInit, Init, Empty
  <1>. QED
    BY <1>1 DEF RInv, UploadsInOrder, SnapshotsComplete, ListingsSellSnapshots

LEMMA NextRInv ==
    ASSUME RInv, [StorefrontNext]_storeVars
    PROVE  RInv'
  <1>1. ASSUME NEW u \in Users, NEW x \in Snapshots, NEW p \in Packages, create_snapshot(u, x, p)
        PROVE  RInv'
    BY <1>1, SnapshotStep
  <1>2. ASSUME NEW x \in Snapshots, put(x) \/ clean(x) \/ document(x) \/ upload_dies(x)
        PROVE  RInv'
    BY <1>2, PutStep, CleanStep, DocumentStep
  <1>3. ASSUME NEW u \in Users, NEW l \in Listings, NEW t \in Titles, NEW x \in Snapshots,
               NEW p \in Prices, create_listing(u, l, t, x, p)
        PROVE  RInv'
    <2>1. UNCHANGED <<uploads, objects, snapshots>>
      BY <1>3 DEF create_listing, storage
    <2>. QED
      BY <1>3, <2>1, ShopStep
  <1>4. ASSUME NEW u \in Users, NEW l \in Listings, shop(u, l) \/ retire(u, l) \/ remove_like(u, l)
        PROVE  RInv'
    BY <1>4, SameListings, ShopStep DEF storage
  <1>5. ASSUME NEW u \in Users,
               \/ delete_account(u) \/ find_likes(u) \/ likes_removed(u)
               \/ delete_ownership(u) \/ deletion_fails(u)
        PROVE  RInv'
    <2>1. UNCHANGED <<listings, snapshotId, storage>>
      BY <1>5 DEF delete_account, find_likes, likes_removed, delete_ownership, deletion_fails,
                  vars
    <2>. QED
      BY <2>1, ShopStep DEF storage
  <1>6. CASE UNCHANGED storeVars
    BY <1>6, ShopStep DEF storeVars, vars, storage
  <1>. QED
    BY <1>1, <1>2, <1>3, <1>4, <1>5, <1>6 DEF StorefrontNext

\* Who owns a listing, or sells it, gets everything the app needs of it, wherever the upload
\* and the deletions of accounts were broken off.
THEOREM SpecBuyersReceive == StorefrontSpec => []BuyersReceive
  <1>1. RInv /\ [StorefrontNext]_storeVars => RInv'
    BY NextRInv
  <1>2. RInv => BuyersReceive
    BY CompleteIsReceived
  <1>. QED
    BY <1>1, <1>2, InitRInv, PTL DEF StorefrontSpec

----------------------------------------------------------------------------
(***************************************************************************)
(* Types                                                                   *)
(***************************************************************************)

UploadsTyped ==
    /\ DOMAIN uploads \subseteq Snapshots
    /\ \A x \in DOMAIN uploads :
          /\ uploads[x].at \in {"put", "clean", "document", "ended"}
          /\ uploads[x].seller \in Users

Parts == {"manifest", "preview"} \cup AssetIds

ObjectsTyped == objects \subseteq (DOMAIN uploads) \X Parts

ListingsTyped == DOMAIN listings \subseteq Listings /\ DOMAIN snapshotId = DOMAIN listings

DeletionsTyped ==
    /\ DOMAIN deletion \subseteq Users
    /\ \A u \in DOMAIN deletion :
          /\ deletion[u].at \in {"retire", "likes", "personal", "failed", "done"}
          /\ deletion[u].todo \subseteq Listings

TInv ==
    /\ RInv
    /\ UploadsTyped
    /\ ObjectsTyped
    /\ ListingsTyped
    /\ DeletionsTyped

\* The next object of an upload is one of its package's parts.
LEMMA NextPart ==
    ASSUME TInv, NEW x, UploadAt(x, "put")
    PROVE  Object(x, uploads[x].written + 1) \in (DOMAIN uploads) \X Parts
  <1>. PICK p, i : p = uploads[x].package /\ i = uploads[x].written + 1
    OBVIOUS
  <1>1. InOrder(x) /\ x \in DOMAIN uploads
    BY DEF TInv, RInv, UploadsInOrder, UploadAt
  <1>2. p \in Packages
    BY <1>1 DEF InOrder
  <1>3. p.assets \subseteq AssetIds /\ IsFiniteSet(p.assets)
    BY <1>2, StorefrontAssumption, PackagesAssumption DEF Package
  <1>4. SetToSeq(p.assets) \in Seq(p.assets)
    BY <1>3, SetToSeqFacts
  <1>5. SetToSeq(p.assets) \in Seq(Parts)
    BY <1>3, <1>4 DEF Parts
  <1>6. keys(p) \in Seq(Parts)
    BY <1>5 DEF keys, Parts
  <1>7. Len(keys(p)) \in Nat
    BY <1>6
  <1>8. i \in 1..Len(keys(p))
    BY <1>1, <1>7 DEF InOrder, UploadAt
  <1>9. keys(p)[i] \in Parts
    BY <1>6, <1>8
  <1>. QED
    BY <1>1, <1>9 DEF Object

LEMMA UploadSteps ==
    ASSUME TInv, NEW x \in Snapshots,
           \/ \E u \in Users, p \in Packages : create_snapshot(u, x, p)
           \/ put(x) \/ clean(x) \/ document(x) \/ upload_dies(x)
    PROVE  UploadsTyped' /\ ObjectsTyped'
  <1>1. ASSUME NEW u \in Users, NEW p \in Packages, create_snapshot(u, x, p)
        PROVE  UploadsTyped' /\ ObjectsTyped'
    <2>1. /\ DOMAIN uploads' = DOMAIN uploads \cup {x}
          /\ uploads'[x].at = "put" /\ uploads'[x].seller = u
          /\ \A y \in DOMAIN uploads : y # x => uploads'[y] = uploads[y]
          /\ objects' = objects
      BY <1>1 DEF create_snapshot, Put
    <2>2. UploadsTyped'
      BY <2>1 DEF TInv, UploadsTyped
    <2>3. ObjectsTyped'
      BY <2>1 DEF TInv, ObjectsTyped
    <2>. QED
      BY <2>2, <2>3
  <1>2. CASE put(x) \/ clean(x) \/ document(x) \/ upload_dies(x)
    <2>1. /\ DOMAIN uploads' = DOMAIN uploads
          /\ \A y \in DOMAIN uploads : y # x => uploads'[y] = uploads[y]
      BY <1>2 DEF put, clean, document, upload_dies
    <2>2. x \in DOMAIN uploads
      BY <1>2 DEF put, clean, document, upload_dies, UploadAt
    <2>3. "at" \in DOMAIN uploads[x] /\ "seller" \in DOMAIN uploads[x]
      BY <2>2 DEF TInv, RInv, UploadsInOrder, InOrder
    <2>4. /\ uploads'[x].at \in {"put", "clean", "document", "ended"}
          /\ uploads'[x].seller = uploads[x].seller
      BY <1>2, <2>2, <2>3 DEF put, clean, document, upload_dies
    <2>5. UploadsTyped'
      BY <2>1, <2>2, <2>4 DEF TInv, UploadsTyped
    <2>6. CASE put(x)
      <3>1. Object(x, uploads[x].written + 1) \in (DOMAIN uploads) \X Parts
        BY <2>6, NextPart DEF put
      <3>. QED
        BY <2>1, <2>5, <2>6, <3>1 DEF put, TInv, ObjectsTyped
    <2>7. CASE clean(x) \/ document(x) \/ upload_dies(x)
      <3>1. objects' \subseteq objects
        BY <2>7 DEF clean, document, upload_dies
      <3>. QED
        BY <2>1, <2>5, <3>1 DEF TInv, ObjectsTyped
    <2>. QED
      BY <1>2, <2>6, <2>7
  <1>. QED
    BY <1>1, <1>2

LEMMA DeletionSteps ==
    ASSUME TInv, NEW u \in Users,
           \/ delete_account(u) \/ find_likes(u) \/ likes_removed(u)
           \/ delete_ownership(u) \/ deletion_fails(u)
           \/ \E l \in Listings : retire(u, l) \/ remove_like(u, l)
    PROVE  DeletionsTyped'
  <1>1. PICK at \in {"retire", "likes", "personal", "failed", "done"}, todo \in SUBSET Listings :
           Then(u, at, todo)
    <2>1. SoldBy(u) \subseteq Listings /\ LikedBy(u) \subseteq Listings
      BY DEF TInv, ListingsTyped, SoldBy, LikedBy
    <2>2. u \in DOMAIN deletion => deletion[u].todo \subseteq Listings
      BY DEF TInv, DeletionsTyped
    <2>3. ASSUME NEW l \in Listings, retire(u, l) \/ remove_like(u, l)
          PROVE  \E at \in {"retire", "likes", "personal", "failed", "done"},
                    todo \in SUBSET Listings : Then(u, at, todo)
      <3>. PICK rest : rest = deletion[u].todo \ {l}
        OBVIOUS
      <3>1. rest \in SUBSET Listings
        BY <2>2, <2>3 DEF retire, remove_like, DeletionAt
      <3>2. Then(u, "retire", rest) \/ Then(u, "likes", rest)
        BY <2>3 DEF retire, remove_like
      <3>. QED
        BY <3>1, <3>2
    <2>. QED
      BY <2>1, <2>3 DEF delete_account, find_likes, likes_removed, delete_ownership, deletion_fails
  <1>2. /\ DOMAIN deletion' = DOMAIN deletion \cup {u}
        /\ deletion'[u] = [at |-> at, todo |-> todo]
        /\ \A v \in DOMAIN deletion : v # u => deletion'[v] = deletion[v]
    BY <1>1 DEF Then, Put
  <1>. QED
    BY <1>2 DEF TInv, DeletionsTyped

LEMMA NextTInv ==
    ASSUME TInv, [StorefrontNext]_storeVars
    PROVE  TInv'
  <1>1. RInv'
    BY NextRInv DEF TInv
  <1>2. ASSUME UNCHANGED <<uploads, objects>>
        PROVE  UploadsTyped' /\ ObjectsTyped'
    BY <1>2 DEF TInv, UploadsTyped, ObjectsTyped
  <1>3. ASSUME DOMAIN listings' = DOMAIN listings, snapshotId' = snapshotId
        PROVE  ListingsTyped'
    BY <1>3 DEF TInv, ListingsTyped
  <1>4. ASSUME deletion' = deletion
        PROVE  DeletionsTyped'
    BY <1>4 DEF TInv, DeletionsTyped
  <1>5. ASSUME NEW x \in Snapshots,
               \/ \E u \in Users, p \in Packages : create_snapshot(u, x, p)
               \/ put(x) \/ clean(x) \/ document(x) \/ upload_dies(x)
        PROVE  TInv'
    <2>1. UploadsTyped' /\ ObjectsTyped'
      BY <1>5, UploadSteps
    <2>2. UNCHANGED <<vars, snapshotId, deletion>>
      BY <1>5 DEF create_snapshot, put, clean, document, upload_dies
    <2>. QED
      BY <1>1, <1>3, <1>4, <2>1, <2>2 DEF TInv, vars
  <1>6. ASSUME NEW u \in Users, NEW l \in Listings, NEW t \in Titles, NEW x \in Snapshots,
               NEW p \in Prices, create_listing(u, l, t, x, p)
        PROVE  TInv'
    <2>1. /\ DOMAIN listings' = DOMAIN listings \cup {l}
          /\ DOMAIN snapshotId' = DOMAIN snapshotId \cup {l}
      BY <1>6 DEF create_listing, create_draft, Put
    <2>2. ListingsTyped'
      BY <2>1 DEF TInv, ListingsTyped
    <2>3. UNCHANGED <<uploads, objects, deletion>>
      BY <1>6 DEF create_listing, storage
    <2>. QED
      BY <1>1, <1>2, <1>4, <2>2, <2>3 DEF TInv
  <1>7. ASSUME NEW u \in Users, NEW l \in Listings, shop(u, l) \/ retire(u, l) \/ remove_like(u, l)
        PROVE  TInv'
    <2>1. DOMAIN listings' = DOMAIN listings /\ UNCHANGED <<snapshotId, storage>>
      BY <1>7, SameListings
    <2>2. DeletionsTyped'
      BY <1>4, <1>7, DeletionSteps DEF shop
    <2>. QED
      BY <1>1, <1>2, <1>3, <2>1, <2>2 DEF TInv, storage
  <1>8. ASSUME NEW u \in Users,
               \/ delete_account(u) \/ find_likes(u) \/ likes_removed(u)
               \/ delete_ownership(u) \/ deletion_fails(u)
        PROVE  TInv'
    <2>1. UNCHANGED <<listings, snapshotId, storage>>
      BY <1>8 DEF delete_account, find_likes, likes_removed, delete_ownership, deletion_fails,
                  vars
    <2>2. DeletionsTyped'
      BY <1>8, DeletionSteps
    <2>. QED
      BY <1>1, <1>2, <1>3, <2>1, <2>2 DEF TInv, storage
  <1>9. CASE UNCHANGED storeVars
    BY <1>1, <1>2, <1>3, <1>4, <1>9 DEF TInv, storeVars, storage, vars
  <1>. QED
    BY <1>5, <1>6, <1>7, <1>8, <1>9 DEF StorefrontNext

\* Uploads, objects, documents and deletions keep their shapes: in particular no object is in the
\* bucket without an upload, no document without one, and every listing sells a snapshot.
THEOREM SpecStorefrontTypeOK == StorefrontSpec => []StorefrontTypeOK
  <1>1. StorefrontInit => TInv
    <2>. SUFFICES ASSUME StorefrontInit
         PROVE  TInv
      OBVIOUS
    <2>1. /\ DOMAIN listings = {} /\ DOMAIN uploads = {} /\ objects = {}
          /\ DOMAIN snapshotId = {} /\ DOMAIN deletion = {}
      BY DEF StorefrontInit, Init, Empty
    <2>. QED
      BY <2>1, InitRInv DEF TInv, UploadsTyped, ObjectsTyped, ListingsTyped, DeletionsTyped
  <1>2. TInv /\ [StorefrontNext]_storeVars => TInv'
    BY NextTInv
  <1>3. TInv => StorefrontTypeOK
    <2>. SUFFICES ASSUME TInv
         PROVE  StorefrontTypeOK
      OBVIOUS
    <2>1. \A x \in DOMAIN uploads : uploads[x].package \in Packages
      BY DEF TInv, RInv, UploadsInOrder, InOrder
    <2>2. DOMAIN snapshots \subseteq DOMAIN uploads
      BY DEF TInv, RInv, SnapshotsComplete
    <2>3. Range(snapshotId) \subseteq DOMAIN snapshots
      BY DEF TInv, RInv, ListingsTyped, ListingsSellSnapshots, Range
    <2>. QED
      BY <2>1, <2>2, <2>3 DEF StorefrontTypeOK, TInv, UploadsTyped, ObjectsTyped, ListingsTyped,
         DeletionsTyped, Parts
  <1>. QED
    BY <1>1, <1>2, <1>3, PTL DEF StorefrontSpec

=============================================================================
