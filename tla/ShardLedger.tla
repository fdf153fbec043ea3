---------------------------- MODULE ShardLedger ----------------------------
(***************************************************************************)
(* The shard ledger: what every request that moves shards promises.        *)
(*                                                                         *)
(* A wallet document per user, an append-only ledger whose document id is  *)
(* the idempotency key, a counter per user and day for rewarded ads, one   *)
(* global claim per App Store transaction and one record per App Store     *)
(* refund (app/shards/firestore_store.py).  Each action below is ONE       *)
(* committed Firestore transaction.  A request that is refused             *)
(* (InsufficientShards, QuotaExceeded, ClaimOwnedByAnother, RefundMismatch,*)
(* PurchaseClaimMissing, ...) or that is a duplicate writes nothing: its   *)
(* guard is false, and Duplicate is the step that answers it.              *)
(* ShardTransactions shows how concurrent, retried transaction attempts    *)
(* implement these atomic steps.                                           *)
(***************************************************************************)
EXTENDS ShardAccounting, FiniteSets, FiniteSetsExt

VARIABLES
    wallets,    \* user -> wallet (a wallet that was never written reads as all zero)
    ledger,     \* idempotency key -> delta, for the entries that exist
    quotas,     \* <<user, day>> -> rewards counted
    claims,     \* transaction -> global claim, for the transactions credited
    refunds     \* transaction -> refund record, for the refunds processed

shards == <<wallets, ledger, quotas, claims, refunds>>

----------------------------------------------------------------------------
Init ==
    /\ wallets = [u \in Users |-> EmptyWallet]
    /\ ledger = [k \in {} |-> 0]
    /\ quotas = [q \in Users \X Days |-> 0]
    /\ claims = [t \in {} |-> t]
    /\ refunds = [t \in {} |-> t]

\* The tail every ordinary movement shares: the entry is new, the balance suffices.
Apply(u, delta, reason, event) ==
    /\ Key(u, reason, event) \notin DOMAIN ledger
    /\ wallets[u].balance + delta >= 0
    /\ ledger' = Create(ledger, Key(u, reason, event), delta)
    /\ wallets' = [wallets EXCEPT ![u] = Moved(@, delta)]

\* The user checks in on a day.
Attendance(u, d) ==
    /\ Apply(u, DAILY_REWARD, "daily_attendance", d)
    /\ UNCHANGED <<quotas, claims, refunds>>

\* Fault: the count is left to a write after the transaction that pays.
RewardedAdUncounted(u, a) ==
    /\ quotas[<<u, RewardDay[a]>>] < DAILY_REWARD_LIMIT
    /\ Apply(u, REWARD_PER_AD, "rewarded_ad", a)
    /\ UNCHANGED <<quotas, claims, refunds>>

(***************************************************************************)
(* AdMob confirms an ad.  The duplicate test comes before the quota, the   *)
(* count grows in the transaction that pays, and the day is the ad's own.  *)
(***************************************************************************)
RewardedAd(u, a) ==
    LET period == <<u, RewardDay[a]>> IN
    /\ quotas[period] < DAILY_REWARD_LIMIT
    /\ Apply(u, REWARD_PER_AD, "rewarded_ad", a)
    /\ quotas' = [quotas EXCEPT ![period] = @ + 1]
    /\ UNCHANGED <<claims, refunds>>

\* Fault: only the per-user ledger key guards a purchase.
IapCreditPerUser(u, t) ==
    /\ Apply(u, Amount[t], "iap_purchase", t)
    /\ claims' = Create(claims, t, [userId |-> u, amount |-> Amount[t]])
    /\ UNCHANGED <<quotas, refunds>>

(***************************************************************************)
(* A purchase is credited.  The claim's key holds no user id: whoever is   *)
(* first owns the transaction for good.                                    *)
(***************************************************************************)
IapCredit(u, t) ==
    /\ t \in DOMAIN claims => claims[t].userId = u      \* ClaimOwnedByAnother
    /\ Apply(u, Amount[t], "iap_purchase", t)
    /\ t \notin DOMAIN claims                           \* transaction.create
    /\ claims' = Create(claims, t, [userId |-> u, amount |-> Amount[t]])
    /\ UNCHANGED <<quotas, refunds>>

\* The user pays for something: an AI generation, a template, capacity.
Debit(u, o, n) ==
    /\ Apply(u, -n, "debit", o)
    /\ UNCHANGED <<quotas, claims, refunds>>

\* The price of something that failed is given back.
CreditBack(u, o, n) ==
    /\ Apply(u, n, "refund", o)
    /\ UNCHANGED <<quotas, claims, refunds>>

\* Fault: the record says that everything Apple asked for was recovered.
RefundRecordsRequested(u, t, p) ==
    LET requested == requested_amount(claims[t].amount, p)
        recovered == recovered_amount(wallets[u].balance, requested)
    IN
    /\ t \in DOMAIN claims
    /\ claims[t].userId = u
    /\ t \notin DOMAIN refunds
    /\ ledger' = Create(ledger, Key(u, "iap_refund", t), -recovered)
    /\ wallets' = [wallets EXCEPT ![u] = Recovered(@, recovered)]
    /\ refunds' = Create(refunds, t,
                    [userId |-> u, requested |-> requested,
                     recovered |-> requested, reversed |-> 0])
    /\ UNCHANGED <<quotas, claims>>

(***************************************************************************)
(* Apple refunded a purchase.  The balance never goes below zero: what is  *)
(* not there is not recovered and not owed.  With nothing to recover the   *)
(* record alone is written.                                                *)
(***************************************************************************)
RefundIap(u, t, p) ==
    LET requested == requested_amount(claims[t].amount, p)
        recovered == recovered_amount(wallets[u].balance, requested)
        key == Key(u, "iap_refund", t)
    IN
    /\ t \in DOMAIN claims                              \* PurchaseClaimMissing
    /\ claims[t].userId = u                             \* RefundMismatch
    /\ t \notin DOMAIN refunds                          \* the same refund again
    /\ \/ /\ recovered > 0
          /\ key \notin DOMAIN ledger                   \* transaction.create
          /\ ledger' = Create(ledger, key, -recovered)
          /\ wallets' = [wallets EXCEPT ![u] = Recovered(@, recovered)]
       \/ /\ recovered = 0
          /\ UNCHANGED <<ledger, wallets>>
    /\ refunds' = Create(refunds, t,
                    [userId |-> u, requested |-> requested,
                     recovered |-> recovered, reversed |-> 0])
    /\ UNCHANGED <<quotas, claims>>

(***************************************************************************)
(* Apple undid a refund.  Only what was recovered, and not yet given back, *)
(* returns; the record is its own idempotency key.                         *)
(***************************************************************************)
ReverseRefund(u, t) ==
    LET restorable == remaining(refunds[t])
        key == Key(u, "iap_refund_reversed", t)
    IN
    /\ t \in DOMAIN refunds                             \* RefundNotYetProcessed
    /\ refunds[t].userId = u                            \* RefundMismatch
    /\ restorable > 0
    /\ key \notin DOMAIN ledger                         \* transaction.create
    /\ ledger' = Create(ledger, key, restorable)
    /\ wallets' = [wallets EXCEPT ![u] = Restored(@, restorable)]
    /\ refunds' = [refunds EXCEPT ![t].reversed = @ + restorable]
    /\ UNCHANGED <<quotas, claims>>

\* Fault: the owner's entry is keyed without the guest, so a second guest's overwrites it.
GuestClaimKeyedByOwner(g, o) ==
    LET amount == wallets[g].balance
        out == Key(g, "guest_claim", o)
    IN
    /\ g # o
    /\ amount > 0
    /\ out \notin DOMAIN ledger
    /\ ledger' = Create(Create(ledger, out, -amount), Key(o, "guest_claim", o), amount)
    /\ wallets' = [wallets EXCEPT ![g] = Moved(@, -amount), ![o] = Moved(@, amount)]
    /\ UNCHANGED <<quotas, claims, refunds>>

(***************************************************************************)
(* An account takes over a guest's whole balance: two entries and two      *)
(* wallets in one transaction.  The pair moves once, whatever the guest    *)
(* earns afterwards.                                                       *)
(***************************************************************************)
GuestClaim(g, o) ==
    LET amount == wallets[g].balance
        out == Key(g, "guest_claim", o)
        in == Key(o, "guest_claim", g)
    IN
    /\ g # o
    /\ amount > 0
    /\ out \notin DOMAIN ledger                         \* already handed over
    /\ in \notin DOMAIN ledger                          \* GuestClaimBroken
    /\ ledger' = Create(Create(ledger, out, -amount), in, amount)
    /\ wallets' = [wallets EXCEPT ![g] = Moved(@, -amount), ![o] = Moved(@, amount)]
    /\ UNCHANGED <<quotas, claims, refunds>>

\* An event that is already in the ledger: applied = False, not even the quota moves.
Duplicate(k) ==
    /\ k \in DOMAIN ledger
    /\ UNCHANGED shards

Next ==
    \/ \E u \in Users, d \in Days : Attendance(u, d)
    \/ \E u \in Users, a \in Ads : RewardedAd(u, a)
    \/ \E u \in Users, t \in Txns : IapCredit(u, t)
    \/ \E u \in Users, o \in Orders, n \in Checked : Debit(u, o, n)
    \/ \E u \in Users, o \in Orders, n \in Checked : CreditBack(u, o, n)
    \/ \E u \in Users, t \in Txns, p \in Percentages : RefundIap(u, t, p)
    \/ \E u \in Users, t \in Txns : ReverseRefund(u, t)
    \/ \E g, o \in Users : GuestClaim(g, o)
    \/ \E k \in Keys : Duplicate(k)

Spec == Init /\ [][Next]_shards

----------------------------------------------------------------------------
(***************************************************************************)
(* Properties                                                              *)
(***************************************************************************)

\* Type invariant.  In particular no wallet ever goes below zero, although a refund
\* may ask for more than the user still has.
TypeOK ==
    /\ wallets \in [Users -> Wallet]
    /\ DOMAIN ledger \subseteq Keys
    /\ \A k \in DOMAIN ledger : ledger[k] \in Int
    /\ quotas \in [Users \X Days -> 0..DAILY_REWARD_LIMIT]
    /\ DOMAIN claims \subseteq Txns
    /\ \A t \in DOMAIN claims : claims[t] \in Claim
    /\ DOMAIN refunds \subseteq Txns
    /\ \A t \in DOMAIN refunds : refunds[t] \in Refund

\* An operator can check one wallet by itself, as app/shards/models.py says: the balance
\* is what was earned, less what was spent and recovered, plus what was given back.
WalletReconciles ==
    \A u \in Users :
        LET w == wallets[u] IN
        w.balance = w.earned - w.spent - w.refunded + w.reversed

EntriesOf(u) == {k \in DOMAIN ledger : k[1] = u}

\* The sum of the deltas of the entries in K.
Total(K) == MapThenSumSet(LAMBDA k : ledger[k], K)

\* The ledger is the truth the wallet projects: every balance is the sum of the user's
\* entries, and each lifetime total is the sum of the entries that feed it.
LedgerExplainsWallets ==
    \A u \in Users :
        LET E == EntriesOf(u)
            refund == {k \in E : k[2] = "iap_refund"}
            reversal == {k \in E : k[2] = "iap_refund_reversed"}
            ordinary == E \ (refund \cup reversal)
        IN
        /\ wallets[u].balance = Total(E)
        /\ wallets[u].earned = Total({k \in ordinary : ledger[k] > 0})
        /\ wallets[u].spent = -Total({k \in ordinary : ledger[k] < 0})
        /\ wallets[u].refunded = -Total(refund)
        /\ wallets[u].reversed = Total(reversal)

\* The day's counter is exactly the number of rewards paid for that day, so neither a
\* resent callback nor one that arrives a day late can spend or exceed the day's limit.
QuotaCountsRewards ==
    \A u \in Users, d \in Days :
        quotas[<<u, d>>] =
            Cardinality({a \in Ads : /\ RewardDay[a] = d
                                     /\ Key(u, "rewarded_ad", a) \in DOMAIN ledger})

\* A claim and the credit it stands for come and go together: an App Store transaction
\* pays exactly one user, for exactly the claimed amount.
ClaimsMatchCredits ==
    \A t \in Txns, u \in Users :
        /\ Key(u, "iap_purchase", t) \in DOMAIN ledger
             <=> (t \in DOMAIN claims /\ claims[t].userId = u)
        /\ Key(u, "iap_purchase", t) \in DOMAIN ledger =>
             ledger[Key(u, "iap_purchase", t)] = claims[t].amount

\* A refund takes at most what the purchase gave, a reversal gives back at most what the
\* refund took, and both are in the ledger exactly when the record says so.
RefundsMatchLedger ==
    \A t \in Txns, u \in Users :
        LET took == Key(u, "iap_refund", t)
            gave == Key(u, "iap_refund_reversed", t)
        IN
        /\ took \in DOMAIN ledger <=> /\ t \in DOMAIN refunds
                                      /\ refunds[t].userId = u
                                      /\ refunds[t].recovered > 0
        /\ gave \in DOMAIN ledger <=> /\ t \in DOMAIN refunds
                                      /\ refunds[t].userId = u
                                      /\ refunds[t].reversed > 0
        /\ took \in DOMAIN ledger => ledger[took] = -refunds[t].recovered
        /\ gave \in DOMAIN ledger => ledger[gave] = refunds[t].reversed

\* Nobody is asked for more than they bought, and nothing is given back twice.
RefundsWithinPurchase ==
    \A t \in DOMAIN refunds :
        /\ t \in DOMAIN claims
        /\ refunds[t].userId = claims[t].userId
        /\ refunds[t].requested \in 1..claims[t].amount
        /\ refunds[t].recovered <= refunds[t].requested
        /\ refunds[t].reversed \in {0, refunds[t].recovered}

\* The records of refunds, the purchases they take back and their ledger entries agree,
\* whatever was spent before and whatever is reversed after.
RefundsAgree == RefundsMatchLedger /\ RefundsWithinPurchase

\* The two entries of a guest takeover exist together and cancel out: no shard is made or
\* lost by it, and GuestClaimBroken is never raised.
GuestClaimsBalance ==
    \A g, o \in Users :
        LET out == Key(g, "guest_claim", o)
            in == Key(o, "guest_claim", g)
        IN
        out \in DOMAIN ledger =>
            /\ in \in DOMAIN ledger
            /\ ledger[out] = -ledger[in]

\* What a step leaves in place: the entries, the totals, the claims and the recoveries.
NothingTakenBack ==
    /\ \A k \in DOMAIN ledger : k \in DOMAIN ledger' /\ ledger'[k] = ledger[k]
    /\ \A u \in Users :
         /\ wallets'[u].earned >= wallets[u].earned
         /\ wallets'[u].spent >= wallets[u].spent
         /\ wallets'[u].refunded >= wallets[u].refunded
         /\ wallets'[u].reversed >= wallets[u].reversed
    /\ \A t \in DOMAIN claims : t \in DOMAIN claims' /\ claims'[t] = claims[t]
    /\ \A t \in DOMAIN refunds :
         /\ t \in DOMAIN refunds'
         /\ refunds'[t].recovered = refunds[t].recovered

\* The ledger only grows, no entry is ever rewritten, and no lifetime total, claim or
\* recorded recovery is ever taken back, by whatever action.
AppendOnly == [][NothingTakenBack]_shards

=============================================================================
