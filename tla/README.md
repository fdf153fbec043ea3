# A specification of the ggumirror backend

The repository is a FastAPI service over Firestore and Cloud Storage. Users earn
*shards* (attendance, rewarded ads, App Store purchases) and spend them on AI
images, marketplace listings, catalog templates and mirror capacity. There is no
lock, queue or worker in the program: every request runs by itself, on any number
of instances, and the only coordination is a Firestore transaction per operation,
the `create` of a document whose id is derived from the event, and, for AI
generations, a compare-and-set on a document. What can go wrong is therefore what
happens *between* commits: retries, duplicates, crashes, late answers, and
sequences of legal calls that nobody wrote a test for. The modules here are about
that.

All paths below are relative to `src/app/`.

## Inventory

| component | code | state | operations | what is hard | what makes it correct |
|---|---|---|---|---|---|
| Shard ledger | `shards/` | `shard_wallets`, `shard_ledger`, `shard_quotas`, `iap_transactions`, `iap_refunds` | `apply`, `refund`, `reverse_refund`, `apply_in_transaction`, `claim_guest_wallet` | concurrent movements of one wallet, duplicates, lost commit answers, recovery limited by the balance | every event counts once; a wallet is the sum of its ledger; balances never negative; what is refunded or reversed stays within what was bought or recovered |
| Attendance | `shards/attendance.py` | daily entry | `claim` | two claims of one day | paid once a day |
| Rewarded ads | `ads/`, `api/ads.py` | reward contexts, daily quota, keys in memory | `context`, `rewarded_ssv`, `handle_callback` | Google calls again and late, at the daily limit; keys rotate under a cache no lock protects | what 200 says stays true; every watched ad is settled |
| In-app purchases | `iap/`, `api/iap.py`, `api/app_store.py` | (in the ledger's collections) | `credit`, `handle` (REFUND, REFUND_REVERSED), `_route` | notifications out of order, duplicated or unanswered; guest purchases refunded around a takeover | one transaction pays one user, once; what Apple hears as done is done |
| AI stickers | `ai/service.py`, `ai/firestore_store.py` | `ai_generations`, objects in a bucket | `generate`, `_resume`, `reconcile`, `sweep` | debit, provider, upload and settlement are separate calls; leases expire; workers come back late | a settled job stays settled; a failed one is repaid; a succeeded one is paid and has its image |
| AI mirrors | `ai/mirror.py` | none but two ledger entries | `generate` | a refund that only the process that debited would make; the same request sent again | who was debited has the image or the price back |
| Marketplace | `marketplace/firestore_store.py`, `marketplace/service.py` | `marketplace_listings`, `listing_title_claims`, `marketplace_ownership`, `marketplace_likes`, `moderation_blocks`, `notifications` | `create_draft`, `publish`, `unpublish`, `delete`, `acquire`, `like`, `unlike`, `takedown`, `restore` | several documents copied from each other; names and blocks shared between listings | fee paid once, sales paid, counters exact, names unique, removed sources blocked |
| Snapshots and assets | `marketplace/service.py`, `marketplace/assets.py` | snapshot documents, objects in a bucket | `create_snapshot`, `put`, `delete`, delivery of previews, manifests and assets | two stores and no transaction between them; cleaning that fails as well | what can be bought is complete, for good |
| Catalog, capacity | `catalog/`, `capacity/` | acquisitions, counters, slots | `purchase`, `acquire`, `reconcile` | purchase keyed by an operation id; a counter and a debit in one commit | paid once, owned once |
| Accounts | `auth/`, `api/auth.py` | users, identities, sessions, display names | guest session, Apple sign-in, guest takeover, rename | sign-in is several commits; two devices at once | one account per identity; a guest's shards move once |
| Account deletion | `auth/deletion.py` | every collection | `delete` | a long sequence of steps without a transaction | repeatable; what it has retired stays retired; nothing of the user stays behind |
| Notifications, digest, push | `notifications/`, `push/` | notifications, deliveries, preferences, devices | `run_daily`, `run_weekly`, `register`, `disable` | jobs that overlap; claim before delivery; stale disabling | at most one digest per user and window |
| Key caches | `ads/verifier.py`, `auth/jwks.py` | public keys in the memory of a process | look-up, refresh, look for a rotation | threads without a lock; answers out of order; limits on how often to fetch | a key that is published is found in the end |
| Verification and transport | `ads/verifier.py`, `iap/apple_verifier.py`, `auth/apple.py`, `ai/provider.py`, `push/` | none | | cryptography and HTTP | not modelled |
| HTTP layer | `main.py`, `api/` | none | | wiring, shapes | not modelled |

Components talk by direct calls in one request. The shared state is Firestore:
AI, catalog and capacity call the ledger's `credit` and `debit` or
`apply_in_transaction`; the marketplace puts its own documents and the ledger's in one
transaction; sign-in calls `claim_guest_wallet`; account deletion writes to all of them.

## Modules

```
ShardAccounting            documents, keys, projections, refund amounts (no state)
  |- ShardLedger           every committed movement, atomically   <- ShardLedgerProofs
  |     ^ refined by
  |- ShardTransactions     handlers, attempts, snapshots, commits, lost answers
  |                                                        <- ShardTransactionsProofs
  |- AppStore              extends ShardLedger: purchases and Apple's notifications
  |                                                        <- ShardLedgerProofs
  '- RewardedAds           extends ShardLedger: contexts and Google's callbacks, with
       |                                                   <- ShardLedgerProofs
       '- KeyCache         the public keys a process remembers (no specification of its own)
AIGeneration               one sticker generation, workers, leases, crashes
                                                           <- AIGenerationProofs
AIMirror                   one mirror generation, which keeps no document
Marketplace                listings, names, sales, likes, moderation
  '- Storefront            extends it: uploads, delivery, deletions   <- StorefrontProofs (of both)
Tallies                    lemmas on counted documents and on sums of entries, for
                           the proofs of ShardLedger, Marketplace and Storefront
Accounts                   guests, sign-in, sessions, display names, payments of guests
  '- AccountDeletion       the same, while an account is being deleted
                                                           <- AccountDeletionProofs
Purchases                  templates and slots, across a deletion of the account
                                                           <- PurchasesProofs
Digest                     the scheduler's jobs, preferences, devices
                                                           <- DigestProofs
MC*                        the instances TLC checks
```

**ShardAccounting / ShardLedger** (`shards/`, the ledger side of `iap/` and `ads/`).
`wallets`, `ledger`, `quotas`, `claims` and `refunds` are the five collections; the
ledger is a function from idempotency key to delta. The key is the tuple the code
hashes with lengths (`idempotency_hash`), which is injective. An action is one
committed transaction, its guard the conjunction of the code's early returns:
`Attendance`, `RewardedAd`, `IapCredit`, `Debit`, `CreditBack`, `RefundIap`,
`ReverseRefund`, `GuestClaim`; `Duplicate` is the answer to an event that is already
there. Delta amounts come from the code's policy or from small constants.

**ShardTransactions** models the same store one level down: a handler takes a
request, reads a snapshot of the documents it needs, computes its writes from that
snapshot (`Writes`, one operator per kind of request, each staging documents with `Put`),
and commits. A commit is accepted only if what was read is unchanged
(external: Firestore), a `create` of an existing document fails and makes the store
run the operation again (`AlreadyExists`), a contended commit is aborted and retried
up to `MaxAttempts`, and an answer may be lost after the commit landed, whereupon the
client sends the request again. `ImplementsLedger` is the refinement: the flat
document store, read as wallets, ledger, quotas, claims and refunds, is a behaviour
of `ShardLedger`.

**AppStore** (`iap/`, `api/iap.py`, `api/app_store.py`) extends the ledger by the App Store;
its own specification is `AppStoreSpec`. `apple` is what Apple has decided of each purchase, in its order; `answers` the last
answer it heard to each message. A submission checks the owner (`Submit`), the credit is
another step (`Credit`), and a sign-in that takes a guest over is two (`MoveWallet`,
`mark_guest_claimed`). A message that Apple has sent may be handled at any time, before or
after others, again, or twice (`receive_notification`), without its answer being heard
(`receive_unheard`), or not at all (`receive_unavailable`). `route` is `_check` and `_route`;
`handle_refund` and `handle_reversal` are the early returns of `iap/refunds.py` in their
order, each with the answer that `api/app_store.py` makes of it: `acknowledged` and `skipped`
are 200, `invalid` is 400, `deferred` is 503. The documents (`shards`) are `ShardLedger`'s own variables, and
the handlers are written with its actions, so that its invariants hold here by construction; that the
code's transactions are those actions is the business of `ShardTransactions`. A notification is one step: its only write is the ledger's transaction, which reads again what it depends on, and an answer that
comes from an older read is that of a message handled at the time of the read.

**KeyCache** is `AppleJWKSProvider` and `AdMobKeyProvider`, which are one machine with
two lives of the copy. A thread asks, fetches, hears (`Responds`) and stores (`Store`) in
separate steps, and nothing locks the copy. Times are ages, counted up to the point where
the code ceases to tell them apart. The signer publishes keys in order and withdraws old ones.

**RewardedAds** (`ads/`, `api/ads.py`) extends the ledger too (`AdsSpec`) and runs the callback: the key (`key_for`), the product and
the presence of a context (`Verified`), the context's user (`resolve_user`), the payment
(`grant`), each with its answer, which Google hears or not. 200 settles an ad, anything
else makes Google call again. Another process pays ads of the same day (`PaidElsewhere`),
and this one may be replaced (`Restart`).

**AIGeneration** is one `requestId`. Three workers (the first request, its re-sends,
recoveries) run the lines of `generate`, `_run`, `_fail`, `_abandon`, `_resume` and
`reconcile` one call at a time; each call to Firestore, the ledger, the provider or
the bucket is an action, and each may fail, be left unanswered where that matters, or
be the last thing the worker does (`crash`). A lease token is identified with the
worker that took it. `lease_outlived` is a worker that is still running when its
lease has run out.

**AIMirror** is the other generation, of which nothing is kept but two ledger entries.
A request is the call it makes next; `fails` is a call that raised, landed or not, a lost
answer or a dead process. The user sends one `requestId` again until there is an image.

**Marketplace** has one action per transaction of `marketplace/firestore_store.py`,
writing every document of it. `Staged`/`Flush` are `apply_in_transaction` and the
context's `flush`: `publish` and `acquire` flush, `_compensate` does not, and the
model says so. `create_draft` reads the snapshot before it creates the listing,
without a transaction; snapshots are immutable and never deleted, so the two steps are one here.

**Storefront** extends `Marketplace`, whose transactions are its requests (`shop`), with what
they sell; its own specification is `StorefrontSpec`. `create_snapshot` checks the package and writes an upload object by object
(`put`), cleans up after a failure (`clean`) and writes the document last (`document`); a
write may fail with or without an effect and the process may be gone. `snapshotId` says what
a listing sells, and delivery (`template`, `my_listing_preview`, `listing_preview`) reads the document
and the object. The deletion works through what its queries found, listing by listing (`retire`, which
reads nothing) and like by like (`remove_like`, a transaction), and `delete_ownership` is the part of
`_delete_personal_documents` that the shop sees. The content type of a listing is what the seller
says; `create_draft` does not compare it with the snapshot's, and neither does the model. Left
out: the push after a sale.

**Accounts** (`auth/`, `api/auth.py`, of `iap/` the owner check, of `capacity/` what it writes to the
user's document). A request is its
handler's local variables and the store call it makes next; each store call is an
action: `user_for_identity` or `link_identity`, `claim_guest_wallet`,
`mark_guest_claimed`, `seed_display_name`, `create_session`, `revoke_session`,
`set_display_name`, `apply`, `store_purchase_slots`. What a handler reads before its first write is read when it
arrives (`Receive`) and may be stale afterwards. `fails` ends a request before its next
call: the store's error, a crash of the instance, or a refusal by that call. A payment is
made with its payer's id and credited later; `check_owner` is one step, `apply` another.
The ledger is the part a takeover and a payment need: which entries exist, and balances.
A purchase of slots takes its price and sets a field of the user's document with merge, which makes the
document again if it is gone (`merged`); a repeat of one, and its records, are in `Purchases`.
`minted`, `credited`, `takenOver` and `remade` are history, for the properties.

**AccountDeletion** extends it with `delete`: one action per collection in the code's
order, while every request of `Accounts` goes on, failing anywhere (`deletion_fails`) and
called again as long as `current_user` lets the user in, be it after a deletion that is done. A deleted session is an invalid
one: both are refused. Listings and likes, which come before the claims, are in `Storefront`,
ownership too; collections that no other module reads are left out.

**Purchases** (`catalog/`, `capacity/`). A handler reads before its transaction: the price
table of the version it runs in, and the templates its user owns. That is one step
(`acquire`, `reconcile`, `purchase`, `purchase_slots`), the transaction is another
(`store_...`), and a deployment with other prices (`deploy`) or the deletion of the account
may come in between. `Charge` is `apply_in_transaction` with its `flush`. `reconcile` makes one
transaction per template. The deletion is the part of `auth/deletion.py` that touches these
documents, in its order. `granted`, `wasFree` and `firsts` are history.

**Digest** (`notifications/`, `push/`, `api/jobs.py`). A job reads the subscribers and counts
new mirrors, then goes from user to user: `consider` (the preference and whether there is
news), `claim`, `create` (not for recommendations), `read_devices`, `send`, `disable`. The
order of the users is free. The window is fixed when the job starts, so that midnight may
pass under it. A failure of a push is passed over as in the code, any other ends the job
(`fails`); the scheduler may call it again. `update` and `save` are the two halves of a settings
request.

## What the runs show

| run | question |
|---|---|
| `shard_ledger` | Do wallets, ledger, quotas, claims and refund records agree after any sequence of movements? Six invariants and `AppendOnly`. |
| `shard_transactions` | Do concurrent, retried, unanswered transactions implement those atomic movements, and is what callers are told true: one that it paid, the others that it was paid? |
| `app_store` | Do messages that are late, repeated, unanswered or out of order come to the end Apple asked for, is every 200 true and every 400 final? |
| `rewarded_ads` | Is every ad that was watched settled, and settled truly, with rotating keys, a cache shared by threads, failures and restarts? |
| `ai_generation` | Is a job made once, settled for good, paid if it succeeded, repaid if it was refunded, and always settled once the user comes back? |
| `ai_mirror` | Has a user who was debited the image or the price back in the end, whatever died in between? |
| `marketplace` | Do fees, sales, counters, names and blocks agree with the documents they come from, and does no step take back a right? |
| `storefront` | Does who has bought a template get all of it, whatever became of uploads, listings and accounts, do likes stay counted and retired listings out of the shop? |
| `account_deletion` | Do identities, names and payments keep one owner, does no guest get out of reach, and does nothing but a purchase of slots bring back what is deleted, with every handler interleaved and failing at any call? |
| `purchases` | Are templates and slots paid once and counted exactly, with prices that change, requests that are sent again and accounts that are deleted in between? |
| `digest` | Is a user told once in a window, and only of what was asked for and is new, with jobs that overlap, repeat and stop anywhere? |
| `account_takeover_leaves_shards` | disagreement, below |

Every property has a mutant, an operator marked *Fault* that changes a mapped
definition as a plausible slip in the code would; the run finds the property violated by it.
Every module has a type invariant, which holds in its instance (add `TypeOK`, or the
`...TypeOK` of a module that extends another, to the configuration); a run names it where more than types is in it.

### Disagreements between the code and what it says of itself

1. *Shards left on a guest's wallet* (`api/auth.py:132`). A payment of the guest that is
   credited after `claim_guest_wallet` and before the session ends goes to the guest: the
   account's own submission of it is refused, and the guest's session is revoked. This is
   `account_takeover_leaves_shards`, a run that must fail; its finding quotes the test that says otherwise.

The claims below are definitions of the modules that no passing run can include. To see one
violated, add it as an `INVARIANT` to the named configuration.

2. *Succeeded without its image* (`ai/service.py:231`; `SucceededHasImage`, `MCAIGeneration`).
   A late worker deletes the object while a recovery, which has seen it, is about to settle
   the job on it.
3. *Two listings with one name* (`marketplace/firestore_store.py:141`; `PublishedTitlesUnique`,
   `MCMarketplace` with a third listing). Deleting a draft or unlisted listing deletes the title
   claim of whoever holds it.
4. *Compensation never paid* (`marketplace/firestore_store.py:692`; `CompensationIsPaid`,
   `MCMarketplace`). The writes are staged in a context that is dropped; the notice says the
   shards were paid.
5. *A deletion that cannot be called again* (`auth/deletion.py:183`; `FailedDeletionCanBeRetried`,
   `MCAccountDeletion`). The user's document goes first; when a later collection fails, the
   session is refused (401) and so is the next sign-in, since the identity is still there and its
   user is not. The sessions, the ledger and the identity stay.
6. *A refund that is never taken* (`iap/refunds.py:158`; `SkippedIsNeverPaid`, `MCAppStore`).
   A refund that Apple sends before the device submits the purchase is answered 200 as one of
   a purchase the server never paid for, whose answer would stay the same; the purchase is credited afterwards.
7. *A failed fetch taken for a bad signature* (`ads/verifier.py:128`; `FetchFailureIsNotRejection`,
   `MCRewardedAds`). The first fetch of the keys fails and the call is answered 503, as
   `tests/test_rewarded_ads.py:289` has it; the next call within the interval may not fetch, has no keys, and is
   answered as one with an unknown key. Nothing is lost by it if Google goes on calling after a 400, which
   `WatchedIsSettled` assumes; the code cannot make sure of it.
8. *Names of deleted sellers* (`auth/deletion.py:96`; `NamesAreReleased`, `MCStorefront`).
   The deletion of an account calls what it does to a listing the ordinary deletion; that one lets the
   title go, so that others can use it, this one does not.
9. *For sale after the deletion* (`auth/deletion.py:101`; `DeletedSellersAreGone`, `MCStorefront`).
   A listing that a request still under way creates and publishes after the query is not retired.
10. *A mirror for nothing* (`ai/mirror.py:127`; `ImagesArePaid`, `MCAIMirror`). A request that failed and
    was refunded is sent again with its `requestId`: the debit is there already, and the image is made.
11. *Let in after the deletion* (`capacity/store.py:221`; `DeletedIsLockedOut`, `MCAccountDeletion`). The
    deletion is to be "a real deletion" of the sessions, too (`auth/deletion.py:3` and `:8`). A purchase of slots that
    was under way commits between the deletion of the user's document and of the wallet, and sets with merge: the
    document is back. A session that a sign-in under way makes after the sessions were deleted then
    lets its device in, as an account without a name; no later sign-in leads there (`DeletedIsForgotten`).

These others are behaviours of the modules that no property excludes and no definition singles out:

* *A refund without a debit* (`ai/service.py:169`). The pending document and the debit
  are two commits, though `ai/models.py:108` calls them one. A job that stops
  between them, or whose debit was refused and whose closing write failed, is recovered as
  failed and refunded.
* *Succeeded and refunded* (`ai/service.py:243`). The refund is credited before the
  compare-and-set; a recovery that finds the image can settle the job first.
* *A block that is lifted* (`marketplace/firestore_store.py:645`). Two takedowns of one
  source leave one block document, which names the second; restoring that one frees the source.
* *A setting that is set back* (`notifications/preferences.py:131`). Two screens change
  one setting each; the later save writes both as it had read them.
* *A new registration that is switched off* (`push/service.py:119`). APNs gives a token up, the
  device registers it again, and the answer to the first push disables it.
* *Refunds around a takeover* (`iap/refunds.py:217`). A guest's purchase that the account submits
  is credited to the account, while the purchase still names the guest: its refund is answered 400
  each time. One that the guest was paid for before the takeover is recovered from the guest's wallet, which
  is empty by then.
* *Refunded twice* (`shards/firestore_store.py:264`). A purchase that was refunded, given back and is
  refunded again has its record already: nothing is taken.

What nevertheless holds next to them is checked too: a name is always held by a
published listing of that name (`ClaimsArePublished`), a block always by a listing
that is taken down (`BlocksAreExplained`), a refunded job is always repaid
and a succeeded one paid (`SettledAsPaid`), a settled one never changes (`TerminalStays`).

### Bounds

* `MCShardLedger`: two interchangeable users (one may be the guest of the other), one
  day, two ads against a limit of one, one App Store transaction of three shards,
  percentages of 0.001 %, 50 % and 100 % (rounding to zero, a true part, all), one thing
  to pay for. Every pair of operations interacts: three shards are enough to spend
  some and be refunded more than what is left. The state space is finite without any
  cap, since each event happens once.
* `MCShardTransactions`: nine requests over the same wallets, four handlers, two
  attempts each. Two handlers race, a third holds a lost answer and a fourth re-sends.
* `MCAIGeneration`: three workers (one late, one recovering, one that sees the
  result of both) and at most four faults. The disagreements need fewer.
* `MCAccountDeletion`: one account, one guest with a session and one id still free; two
  identities, one of them the account's; one more session token, two names, one payment;
  a pack of slots at a shard; three requests, two of them at once, and one deletion. A sign-in that takes the
  guest over, one that adopts it and a payment under way are three requests, and races
  need two; a deletion needs a session, hence a sign-in, and leaves two more requests
  to meet it.
* `MCMarketplace`: three users, so that one listing has two buyers; two listings that
  may share title and source; a start balance that pays one fee or one purchase. A third listing
  is needed only to see two published under one title.
* `MCAppStore`: a guest that has bought two shards, refunded in full, in half, by a percentage out of
  range or without saying how much, and reversed; an account it may be taken over by, with a purchase from
  another bundle; one thing to spend on, so that the wallet has less than the refund; one
  notice that is acknowledged and one of an unknown type. Two turns are what a reversal needs
  to overtake its refund.
* `MCRewardedAds`: two ads of one user and day with a limit of one, the second paid by another
  process, so that the limit is reached meanwhile; two threads, which is what it takes to
  store an older answer over a newer one; two keys, one rotation; the shortest times that
  differ (a copy lives two ticks, a fetch may be repeated after one); one restart.
* `MCStorefront`: three interchangeable users, of whom two may go; two listings of one title and source,
  free of charge; one snapshot of a mirror with two images, hence four objects to fail at; two
  packages that must be refused.
* `MCAIMirror`: three requests at once and three faults, one for each.
* `MCPurchases`: two users, two templates (one may become free, or cost something), two
  operations, prices 0 and 1, three requests of which two are under way at once, one deployment, one
  deletion. Shards for two purchases each, so that the third is refused.
* `MCDigest`: two jobs, two users, one device that may change hands once, three days of which two are
  a week, one change of the settings. Two jobs are what it takes to tell twice; the second may
  start on another day.

`CHECK_DEADLOCK FALSE` is set where everything there is to do can have been done: a
job is settled and no worker is left, the user has the mirror's image, each handler has been used, every
listing exists and is deleted, the snapshot is uploaded and the deletions of accounts are done,
the requests and the deletion are over, the jobs are done on the last day.

### Fairness

`Settles` (`ai_generation`): weak fairness on the steps of a running worker says that a
call to Firestore, the provider or the bucket returns, with a result or an error; the clients
have timeouts, and `ai/service.py` relies on it. Weak fairness on `resume` says that the
user comes back, which is the trigger `ai/service.py` names for recovery: nothing runs in the
background, and `sweep` is called by `GET /ai/stickers/config` (`api/ai.py:146`) when the user's app starts. Time passing (the lease and the grace
period) is fair too. Crashes and failures are not, and are bounded by `MaxFaults`:
with unboundedly many nothing settles. `ServedOrRepaid` (`ai_mirror`) is under the same
assumptions: requests being served go on, and the user sends the `requestId` again.

`NoticesAreFollowed` (`app_store`): Apple sends a message again until it hears 200, which is what the
503s of `api/app_store.py` are for, so `receive_notification` is weakly fair for every refund and
reversal that has not heard 200. Failures and lost answers are unbounded there. The device's
part is not fair: a purchase may never be submitted.

`WatchedIsSettled` (`rewarded_ads`): time passes and threads run (weak fairness). The rest is strong
fairness, because it is of actions that other steps may disable again and again: Google calls
again; not every fetch of the keys fails while calls keep asking for it; not every read of
the context and not every answer on its way back is lost. Without one of the latter a service
whose store or network is down for ever would have to settle.

## What is proved

`ShardLedgerProofs`, for all users, days, ads, transactions, orders and amounts within the assumptions
of `ShardAccounting` (amounts and limits are positive, percentages lie in 1..100000):
type correctness (no negative wallet, no day above its limit), `WalletReconciles`,
`ClaimsMatchCredits`, `RefundsAgree` (`RefundsMatchLedger` and `RefundsWithinPurchase`),
`GuestClaimsBalance`, `AppendOnly`, and that a refund asks for between one shard and
the whole purchase. The invariant `IInv` is the conjunction of the state ones: a
refund needs the claim's amount to stay within it, the record needs the ledger entry to
be new, and all need the types. One lemma per action; an ordinary movement is shown once
(`OrdinaryStep`) to leave the keys of purchases, refunds and takeovers alone.

`StorefrontProofs`, first part, for all users, listings, titles and sources and for any fee, prices
and start balances within the assumptions of `Marketplace`, of `Marketplace` by itself: type correctness (no wallet is charged below
zero by a fee or a purchase), `FeeFlagMatchesLedger`, `ClaimsArePublished`,
`BlocksAreExplained` and `RightsStay`. These are not inductive by themselves. A new listing starts
unpaid, so it must be known that no fee is in the ledger under its id:
`FeesHaveListings` (a fee was paid by the seller of an existing listing) says so.
`Collections` says that the ledger and the ownerships are functions, which comparing them
before and after a step needs. One lemma per action again, with the writes of publication and of a sale
(`PublishBooks`, `AcquireBooks`) in lemmas of their own. `CountersMatchDocuments` is kept by every
step on top of that (`NextCounted`): each counter moves with one document that was or was not there
(`PairCounts`), and `TypeOK` says that a listing yet to be made has none.

`SpecQuotaCountsRewards` adds to the ledger's theorems that the count of a day is the number of its
paid ads, for any number of ads: a set of them is finite because the count is, and grows by
one element at a time (`FS_AddElement`).

*Sums.* `SpecLedgerExplainsWallets`, `SpecLedgerExplainsBalances` and `SpecEverySaleIsPaid` are about sums
over sets of entries of any size. `Tallies` shows what a sum is (`MapThenSumSet` of nothing
is zero, one more element adds its value, the rest is unchanged) without induction, which the provers cannot
instantiate: of the subsets on which the claim fails one would be smallest, since the strict subset
order on a finite set is well-founded. `BooksInv` (the ledger is finite, and explains each wallet) is
kept because a movement adds the entry it moves the wallet by, and a refund's entry is new. `SalesInv` adds to the
marketplace's books that a sale's two entries are those of one ownership, with its price and notice;
a free template has the ownership without entries, which is why the price is there and not a count.

`ShardTransactionsProofs`, for any number of handlers, attempts, users and requests: type correctness,
`AnswersAreTrue`, and `ImplementsLedger`, that the document store refines `ShardLedger`. The heart is `ReadsSuffice`: what
an attempt answers and writes depends on the documents in `Reads` only, so that a commit whose reads are
still current decides as the database itself would have. Where an operation creates a document that it has not
read (the entries of a refund and a reversal) `DbInv` says that the entry and the record or claim it
did read come together: `ClaimsCredited`, `RefundsRecorded`, `ReversalsRecorded`. `HandlersInv` is that
a snapshot holds documents that are well-formed, and `Told` that who was answered left the document that says
so and that nobody else was told the same. The theorems about the ledger hold of the store through
the refinement; they are not stated again for it.

`AIGenerationProofs`, for any number of requests and of faults: type correctness, `SettledAsPaid`,
`ProviderCalledOnce` and `TerminalStays`. The document, the ledger and the bucket share no transaction, so `IInv`
says where the workers are: one at most runs the job (`OneRunner`), and it alone debits and calls the provider
(`OneCall`); nobody finishes as succeeded unless the debit is there (`DebitFirst`), and nobody finishes
as refunded unless the refund is, or the debit never will be (`SquaredFirst`).

`ShardLedgerProofs`, second part, of `AppStore`, for all users, purchases, messages, percentages and turns:
`AcknowledgedIsDone`, `RefusedIsFinal` and `MovedAsAppleSaid`. The invariant `AInv` adds to
them `Numbers` (amounts are numbers), `Signed` (every refund on its way is one Apple may have
signed) and `RefundsHaveClaims` (a refund is recorded of whom the purchase names, who is also whom it paid). A 200
stays true because claims, records and what was given back are for good (`ClaimsKept`, `RefundsKept`), and a 400
stays final because who was credited is: no refund of a purchase that somebody else was paid for is ever
recorded, so that no reversal of it can be due. `SpecAppStoreTypeOK` has, next to the
ledger's types, that Apple's next message is always one of those it may send, as refunds
and reversals take turns (`NextMessage`).

`ShardLedgerProofs`, third part, of `RewardedAds`, for all users, days, ads, threads, keys, limits and restarts:
`SettledIsFair` and the types. A 200 must stay true after
Google has stopped calling, so `AdsInv` says what each answer was decided by, in terms that no step undoes:
an ad is paid to its viewer only, and in this process only with a context (`PaidAsShown`); an ad that was watched
gets no context any more and loses none (`ContextsKept`); a day that is used up stays so (`DayUsedUp`), and
its counter is the number of ads paid by the ledger's `QuotaInv`. Between its calls a handler carries what it
has found out (`HandlersFit`): that the ad was watched, and behind the signature that it is expected and has a
context. The key cache is in it by its types and by one fact only, that a thread whose lookup is under way has
not gone further; which keys it holds decides when an ad is settled, never how. Assumed is that an ad has one
viewer among the users, that no context is not an age, and that the key cache's times are positive, the
interval between fetches being no longer than the life of a copy (`RewardedAdsAssumption`).

`StorefrontProofs`, second part, of `Storefront`, for all users, listings, packages and prices: `LikeCountsMatch`, `RetiredStays` and
`BuyersReceive`. For the first two, `SInv` adds `RetiredAreDeleted` (a retired listing is a deleted one, which `restore` refuses),
`LikesHaveListings` (a new listing counts no likes, so there must be none of it) and `Fields`. That
nobody can act on a retired listing comes from the assumption that `DELETED_OWNER` is no user.
For `BuyersReceive`, `RInv` follows each upload: the objects up to `written` are there until the document is
tried (`UploadsInOrder`), a snapshot's upload is over, so that nothing cleans after it
(`SnapshotsComplete`), and listings sell snapshots (`ListingsSellSnapshots`). That the
objects are all the app needs is what `checked_package` compares (`NeededIsSent`) and that
`SetToSeq` leaves nothing out, which needs a package to have finitely many images
(`PackagesAssumption`). `SpecStorefrontTypeOK` adds that each object in the bucket is a part of its upload's
package (`NextPart`).

`AccountDeletionProofs`, for any number of users, identities, sessions, names, payments and requests: type
correctness, `IdentitiesAndNamesAreOneUsers`, `PaymentsReachOneOwner`, `TakenOverBeforeRevoked` and
`DeletedIsForgotten`. A request reads in one call and acts on it in a later one, so `IInv` has to say
what stays true of what it carries: `Sound`, for each call a request may be at. It survives
because of what no step undoes (`Evolves`): an id is not given to a second user, an
account does not become a guest again, and `claimedBy` is written once. A payment credited to the
owner that a request found is still that owner's when the credit comes, since a payer that
was taken over stays so, and one that is deleted has no account to compare with, nor has one whose document
was made again. `Gone` says how far a deletion has come: no user's document but one made again from
`delete_user` on, no identity at its end. A document made again reads as an account's
(`RemadeAreAccounts`), so that no sign-in adopts it: this is why no identity comes back with it. The assumptions are those of `Accounts`: `None` is nothing else
(`NoneAssumption`), a purchase is of some shards and slots cost some (`AmountAssumption`), an identity of the initial population belongs to one registered user
(`PopulationAssumption`), and the bound of a run is a number (`BoundAssumption`). That users in
the model are finitely many is not assumed.

`PurchasesProofs`, for all users, templates, operations, price tables and requests: type correctness (no
wallet below zero), `TemplatesArePaid`, `CountsAreFirstAcquisitions` and `SlotsArePaid`. A handler reads prices and
records before its transaction and deployments and deletions come in between, so `IInv` says what it may
still rely on (`Carries`): a template that was free has been given away by some version, and one that was
owned is owned by everybody who stays. `Counted` is the count with its history: who has a template was counted, and of
those who stay nobody else was, so that a first record meets a user not counted before. `Paid` says of each user who stays
that records and ledger entries come together, and `GrantedOnce` that the record of an operation outlives
the account. What steps of a deletion leave alone is shown once (`TakesStep`): everything of the others.

`DigestProofs`, for all users, tokens, jobs, days, edits and registrations: type correctness, `ToldOnce` and
`DeliveriesAreDue`. A job claims in one transaction and acts in later steps, on a list of devices and
settings it has read before, and another job of the same day may be anywhere in between. `DInv` says
where a job is and what that entitles it to: past its claim its place is taken and held by no other job
(`HeldOnce`), nothing was stored before `create` and no device of its list was pushed to (`JobFirst`); from its claim on
its user has asked for the kind and a mirror is in the window's reach (`JobDue`); what a settings request will save was
asked for before it is saved (`WantsAsked`). That a mirror published within a span is in the job's window or the one before is
arithmetic on `\div` (`WindowFacts`), for spans of any length.

`WalletReconciles` is proved and no run checks it by itself; it follows from `LedgerExplainsWallets`.

Every safety property that a passing run checks is stated by one of these theorems. Model-checked only are the
liveness properties (`Settles`, `NoticesAreFollowed`, `WatchedIsSettled`, `ServedOrRepaid`): fairness and
ENABLED are beyond the provers. `AIMirror` and `KeyCache` have no theorems of their own: what is asked of them is
liveness, and the cache's types are part of `AdsInv`.

## Abstractions

* Firestore is external: a transaction reads a consistent snapshot and commits only if
  what it read has not changed; a `create` fails if the document exists.
* What the client library raises after its last attempt is taken as a failure without effect.
* Time is the two facts the code derives from it: a lease or a grace period is over, or is not.
* Titles, prompts, images and packages are values without content; a listing's
  content type is part of its source's name.
* Ages in `KeyCache` and `RewardedAds` are ticks up to the limit that the code compares with.
* A package is which images it refers to, which it brings, and whether its bytes are sound.
* A day of the digest is a number; what was published one span before the job counts or does
  not, as the hour has it. The subscribers and the count are read in one step: neither depends on the other.
* Account deletion removes ledger documents in `AccountDeletion` and wallets in `Purchases` only: `ShardLedger` is the ledger of
  users who stay, so `AppendOnly` and `WalletReconciles` are about them.

## Plan

In order, each with an MC module and a passing run unless it joins an existing one:

1. *(done)* `ShardAccounting`, `ShardLedger`, `ShardTransactions` and the refinement; the ledger's proofs.
2. *(done)* `AIGeneration`. *(done)* `Marketplace`.
3. *(done)* `Accounts`, `AccountDeletion`; deletion against the marketplace's requests in `Storefront`.
4. *(done)* `AppStore`: REFUND and REFUND_REVERSED before, after and between credits, over `ShardLedger`.
5. *(done)* `Purchases`: catalog acquisition and capacity slots.
6. *(done)* `Digest`. Left: marking as read, `notify_sale`.
7. *(done)* `AIMirror`, `RewardedAds` and `KeyCache`. Left: the collections of a deletion that
   no module has (preferences, devices, notifications, generations, reward contexts).
8. Proofs: *(done)* the ledger with its sums, its refinement by `ShardTransactions`, the answers of `AppStore`, the
   settlement of `AIGeneration`, the books of `Marketplace`, likes and deliveries of `Storefront`,
   `Accounts` and `AccountDeletion`, `Purchases`, `Digest`, rewarded ads. Left: nothing but liveness.

## Not modelled

* AI prompts and the image provider: text checks and an HTTP call, whose success or failure is a
  choice in `AIGeneration` and `AIMirror`. The expiry of stored images.
* Signatures: Apple's payloads and tokens and Google's callbacks are good, bad or cannot be
  checked. The caches of the keys that check them are modelled, the cryptography is not.
* Push transport (APNs over HTTP) and the best-effort notice after a sale.
* Routing, shapes of requests and responses, configuration and wiring (`main.py`, most of `api/`).
* Pure reads: listing, search and paging in the shop, ledger and notification lists, status of rewarded ads.
* `InMemory...` stores, which stand in for Firestore in tests and make one process of it.
