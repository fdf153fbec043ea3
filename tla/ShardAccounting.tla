-------------------------- MODULE ShardAccounting --------------------------
(***************************************************************************)
(* The arithmetic of the shard ledger: the documents it keeps, the key that*)
(* makes an event happen once, how a wallet projects a movement, a refund  *)
(* or a reversal, and how much a refund asks for                           *)
(* (app/shards/models.py, app/iap/refunds.py).  It has no state: the       *)
(* ledger's steps (ShardLedger) and the transactions that implement them   *)
(* (ShardTransactions) compute with the same operators.                    *)
(***************************************************************************)
EXTENDS Integers

CONSTANTS
    Users,          \* user ids: accounts and guests
    Days,           \* KST dates, the event id of an attendance and the quota period
    Ads,            \* AdMob transaction ids
    RewardDay,      \* the KST date of the signed timestamp of each ad
    Txns,           \* App Store transaction ids
    Amount,         \* the shards of each transaction's product (SHARD_PRODUCTS)
    Orders,         \* ids of the things users pay for (an AI generation, a template, ...)
    Percentages,    \* revocationPercentage values, in milliunits
    MAX_DELTA,
    DAILY_REWARD_LIMIT

ASSUME LimitsAssumption ==
    /\ MAX_DELTA \in Nat \ {0}
    /\ DAILY_REWARD_LIMIT \in Nat \ {0}

ASSUME CatalogAssumption ==
    /\ Amount \in [Txns -> 1..MAX_DELTA]
    /\ RewardDay \in [Ads -> Days]

\* 100% in Apple's milliunits.
MILLIUNITS_PER_UNIT == 100000

ASSUME PercentagesAssumption == Percentages \subseteq 1..MILLIUNITS_PER_UNIT

DAILY_REWARD == 1
REWARD_PER_AD == 1

\* Amounts the service lets through: positive and at most MAX_DELTA.
Checked == 1..MAX_DELTA

Reasons == {"daily_attendance", "rewarded_ad", "iap_purchase", "iap_refund",
            "iap_refund_reversed", "guest_claim", "debit", "refund"}

Events == Days \cup Ads \cup Txns \cup Orders \cup Users

(***************************************************************************)
(* The idempotency key of an event.  The code hashes the three parts with  *)
(* their lengths, so different parts never give the same document id.      *)
(***************************************************************************)
Key(u, reason, event) == <<u, reason, event>>

Keys == Users \X Reasons \X Events

Wallet == [balance: Nat, earned: Nat, spent: Nat, refunded: Nat, reversed: Nat]

EmptyWallet == [balance |-> 0, earned |-> 0, spent |-> 0, refunded |-> 0, reversed |-> 0]

Claim == [userId: Users, amount: 1..MAX_DELTA]

Refund == [userId: Users, requested: Nat, recovered: Nat, reversed: Nat]

Greater(a, b) == IF a >= b THEN a ELSE b

Lesser(a, b) == IF a <= b THEN a ELSE b

\* transaction.create: the collection with one document more.
Create(coll, id, doc) ==
    [k \in DOMAIN coll \cup {id} |-> IF k = id THEN doc ELSE coll[k]]

----------------------------------------------------------------------------
(***************************************************************************)
(* Projections                                                             *)
(***************************************************************************)

\* An ordinary movement: earned or spent grows, the refund totals are carried over.
Moved(w, delta) ==
    [balance  |-> w.balance + delta,
     earned   |-> w.earned + Greater(delta, 0),
     spent    |-> w.spent + Greater(-delta, 0),
     refunded |-> w.refunded,
     reversed |-> w.reversed]

\* Fault: a recovery counted as if the user had spent it.
RecoveredAsSpent(w, n) == [w EXCEPT !.balance = @ - n, !.spent = @ + n]

\* A refund recovers: neither earned nor spent changes.
Recovered(w, n) ==
    [balance  |-> w.balance - n,
     earned   |-> w.earned,
     spent    |-> w.spent,
     refunded |-> w.refunded + n,
     reversed |-> w.reversed]

\* Fault: the reversal is netted against the refund total.
RestoredByNetting(w, n) == [w EXCEPT !.balance = @ + n, !.refunded = @ - n]

\* A refund is undone: the gross total of refunds stays.
Restored(w, n) ==
    [balance  |-> w.balance + n,
     earned   |-> w.earned,
     spent    |-> w.spent,
     refunded |-> w.refunded,
     reversed |-> w.reversed + n]

\* Fault: a small prorated refund is rounded down to nothing.
requested_rounded_down(original, p) ==
    Lesser(original, (original * p) \div MILLIUNITS_PER_UNIT)

(***************************************************************************)
(* How much of a purchase Apple takes back.  A full refund is              *)
(* MILLIUNITS_PER_UNIT; a prorated one is rounded down but never to zero.  *)
(***************************************************************************)
requested_amount(original, p) ==
    Lesser(original, Greater(1, (original * p) \div MILLIUNITS_PER_UNIT))

\* Fault: the refund is taken whether or not the balance holds it.
recovered_in_full(balance, requested) == requested

\* What is actually taken: never more than the user still has.
recovered_amount(balance, requested) == Lesser(balance, requested)

\* What a reversal may still give back.
remaining(r) == Greater(0, r.recovered - r.reversed)

=============================================================================
