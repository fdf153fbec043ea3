------------------------- MODULE ShardLedgerProofs -------------------------
(***************************************************************************)
(* What ShardLedger guarantees for every set of users, days, ads,          *)
(* transactions and orders, and what the two components that live on its   *)
(* documents, AppStore and RewardedAds, add to that.                       *)
(*                                                                         *)
(* None of the ledger's invariants stands alone: that a claim matches its  *)
(* credit needs the types, that a refund stays within its purchase needs   *)
(* the claim, that a refund's entry is new needs the record.  IInv is      *)
(* their conjunction and is inductive; one lemma per action shows that the *)
(* action preserves it.  The sums of entries stand on top of it: BooksInv  *)
(* says what they come to, and that there are finitely many.               *)
(*                                                                         *)
(* AInv and AdsInv are the same for App Store purchases and for rewarded   *)
(* ads.  Both use the ledger's lemmas for the step that moves shards and   *)
(* show that no other step does.                                           *)
(***************************************************************************)
EXTENDS AppStore, RewardedAds, Tallies

IInv ==
    /\ TypeOK
    /\ WalletReconciles
    /\ ClaimsMatchCredits
    /\ RefundsMatchLedger
    /\ RefundsWithinPurchase
    /\ GuestClaimsBalance

----------------------------------------------------------------------------
(***************************************************************************)
(* Helpers                                                                 *)
(***************************************************************************)

\* Keys are equal only part by part, and a well-formed key is a key.
LEMMA KeyFacts ==
    /\ \A u, r, e, v, s, f :
         Key(u, r, e) = Key(v, s, f) <=> u = v /\ r = s /\ e = f
    /\ \A u \in Users, r \in Reasons, e \in Events : Key(u, r, e) \in Keys
  BY DEF Key, Keys

\* The wallet projections keep wallets well-formed when the balance suffices, and each
\* keeps balance = earned - spent - refunded + reversed.
LEMMA MovedFacts ==
    ASSUME NEW w \in Wallet, NEW delta \in Int, w.balance + delta >= 0
    PROVE  /\ Moved(w, delta) \in Wallet
           /\ w.balance = w.earned - w.spent - w.refunded + w.reversed =>
                Moved(w, delta).balance =
                    Moved(w, delta).earned - Moved(w, delta).spent
                    - Moved(w, delta).refunded + Moved(w, delta).reversed
  BY DEF Moved, Wallet, Greater

\* A refund of at most the balance leaves a well-formed wallet that still reconciles
\* (refund, firestore_store.py: balance and lifetimeRefunded move together).
LEMMA RecoveredFacts ==
    ASSUME NEW w \in Wallet, NEW n \in Nat, n <= w.balance
    PROVE  /\ Recovered(w, n) \in Wallet
           /\ w.balance = w.earned - w.spent - w.refunded + w.reversed =>
                Recovered(w, n).balance =
                    Recovered(w, n).earned - Recovered(w, n).spent
                    - Recovered(w, n).refunded + Recovered(w, n).reversed
  BY DEF Recovered, Wallet

\* Giving a refund back leaves a well-formed wallet that still reconciles
\* (reverse_refund: balance and lifetimeRefundReversed move together).
LEMMA RestoredFacts ==
    ASSUME NEW w \in Wallet, NEW n \in Nat
    PROVE  /\ Restored(w, n) \in Wallet
           /\ w.balance = w.earned - w.spent - w.refunded + w.reversed =>
                Restored(w, n).balance =
                    Restored(w, n).earned - Restored(w, n).spent
                    - Restored(w, n).refunded + Restored(w, n).reversed
  BY DEF Restored, Wallet

\* The unit is a number (cited by name, so that 1..MILLIUNITS_PER_UNIT stays unexpanded).
LEMMA UnitIsInt == MILLIUNITS_PER_UNIT \in Int
  BY DEF MILLIUNITS_PER_UNIT

\* A share of an amount is rounded to a whole number.
LEMMA ShareIsInt ==
    ASSUME NEW x \in Int
    PROVE  x \div MILLIUNITS_PER_UNIT \in Int
  BY DEF MILLIUNITS_PER_UNIT

\* Apple never asks for less than one shard nor for more than was bought, whatever the
\* percentage: the rounding of requested_amount is safe at both ends.
THEOREM RequestedAmountInRange ==
    ASSUME NEW n \in Nat \ {0}, NEW p \in 1..MILLIUNITS_PER_UNIT
    PROVE  requested_amount(n, p) \in 1..n
  <1>1. n * p \in Int
    BY UnitIsInt
  <1>2. (n * p) \div MILLIUNITS_PER_UNIT \in Int
    BY <1>1, ShareIsInt
  <1>. QED
    BY <1>2, UnitIsInt DEF requested_amount, Lesser, Greater

----------------------------------------------------------------------------
\* Empty collections satisfy the invariant.
LEMMA InitIInv == Init => IInv
  BY LimitsAssumption
  DEF Init, IInv, TypeOK, EmptyWallet, Wallet, WalletReconciles, ClaimsMatchCredits,
      RefundsMatchLedger, RefundsWithinPurchase, GuestClaimsBalance

\* What the shared tail of an ordinary movement does to the types and the wallets.
LEMMA ApplyFacts ==
    ASSUME TypeOK, WalletReconciles,
           NEW u \in Users, NEW delta \in Int, NEW r \in Reasons, NEW e \in Events,
           Apply(u, delta, r, e)
    PROVE  /\ wallets' \in [Users -> Wallet]
           /\ DOMAIN ledger' = DOMAIN ledger \cup {Key(u, r, e)}
           /\ DOMAIN ledger' \subseteq Keys
           /\ ledger'[Key(u, r, e)] = delta
           /\ \A k \in DOMAIN ledger : ledger'[k] = ledger[k]
           /\ \A k \in DOMAIN ledger' : ledger'[k] \in Int
           /\ WalletReconciles'
  <1>1. wallets[u] \in Wallet /\ wallets[u].balance + delta >= 0
    BY DEF TypeOK, Apply
  <1>2. Moved(wallets[u], delta) \in Wallet
    BY <1>1, MovedFacts
  <1>3. /\ wallets' \in [Users -> Wallet]
        /\ wallets'[u] = Moved(wallets[u], delta)
        /\ \A v \in Users : v # u => wallets'[v] = wallets[v]
    BY <1>2 DEF Apply, TypeOK
  <1>4. /\ DOMAIN ledger' = DOMAIN ledger \cup {Key(u, r, e)}
        /\ ledger'[Key(u, r, e)] = delta
        /\ \A k \in DOMAIN ledger : ledger'[k] = ledger[k]
    BY DEF Apply, Create
  <1>5. DOMAIN ledger' \subseteq Keys /\ \A k \in DOMAIN ledger' : ledger'[k] \in Int
    BY <1>4, KeyFacts DEF TypeOK
  <1>6. WalletReconciles'
    BY <1>1, <1>3, MovedFacts DEF WalletReconciles
  <1>. QED
    BY <1>3, <1>4, <1>5, <1>6


\* An ordinary movement touches no key of a purchase, a refund or a takeover.
LEMMA OrdinaryStep ==
    ASSUME IInv,
           NEW u \in Users, NEW delta \in Int, NEW e \in Events,
           NEW r \in {"daily_attendance", "rewarded_ad", "debit", "refund"},
           Apply(u, delta, r, e),
           quotas' \in [Users \X Days -> 0..DAILY_REWARD_LIMIT],
           UNCHANGED <<claims, refunds>>
    PROVE  IInv'
  <1>1. r \in Reasons
    BY DEF Reasons
  <1>2. /\ wallets' \in [Users -> Wallet]
        /\ DOMAIN ledger' = DOMAIN ledger \cup {Key(u, r, e)}
        /\ DOMAIN ledger' \subseteq Keys
        /\ \A k \in DOMAIN ledger : ledger'[k] = ledger[k]
        /\ \A k \in DOMAIN ledger' : ledger'[k] \in Int
        /\ WalletReconciles'
    BY <1>1, ApplyFacts DEF IInv
  <1>3. \A v, f : \A s \in {"iap_purchase", "iap_refund", "iap_refund_reversed", "guest_claim"} :
          /\ Key(v, s, f) \in DOMAIN ledger' <=> Key(v, s, f) \in DOMAIN ledger
          /\ Key(v, s, f) \in DOMAIN ledger =>
               ledger'[Key(v, s, f)] = ledger[Key(v, s, f)]
    BY <1>2, KeyFacts
  <1>4. TypeOK'
    BY <1>2 DEF IInv, TypeOK
  <1>5. ClaimsMatchCredits'
    BY <1>3 DEF IInv, ClaimsMatchCredits
  <1>6. RefundsMatchLedger'
    BY <1>3 DEF IInv, RefundsMatchLedger
  <1>7. RefundsWithinPurchase'
    BY DEF IInv, RefundsWithinPurchase
  <1>8. GuestClaimsBalance'
    BY <1>3 DEF IInv, GuestClaimsBalance
  <1>. QED
    BY <1>2, <1>4, <1>5, <1>6, <1>7, <1>8 DEF IInv

\* A purchase adds its claim and its entry together, and no other user holds an entry of
\* that transaction because none exists without a claim.
LEMMA IapCreditStep ==
    ASSUME IInv, NEW u \in Users, NEW t \in Txns, IapCredit(u, t)
    PROVE  IInv'
  <1>1. /\ Amount[t] \in Int
        /\ "iap_purchase" \in Reasons
        /\ t \in Events
    BY LimitsAssumption, CatalogAssumption DEF Reasons, Events
  <1>2. /\ wallets' \in [Users -> Wallet]
        /\ DOMAIN ledger' = DOMAIN ledger \cup {Key(u, "iap_purchase", t)}
        /\ DOMAIN ledger' \subseteq Keys
        /\ ledger'[Key(u, "iap_purchase", t)] = Amount[t]
        /\ \A k \in DOMAIN ledger : ledger'[k] = ledger[k]
        /\ \A k \in DOMAIN ledger' : ledger'[k] \in Int
        /\ WalletReconciles'
    BY <1>1, ApplyFacts DEF IInv, IapCredit
  <1>3. /\ t \notin DOMAIN claims
        /\ DOMAIN claims' = DOMAIN claims \cup {t}
        /\ claims'[t] = [userId |-> u, amount |-> Amount[t]]
        /\ \A s \in DOMAIN claims : claims'[s] = claims[s]
        /\ UNCHANGED <<quotas, refunds>>
    BY DEF IapCredit, Create
  <1>4. \A v, f : \A s \in {"iap_refund", "iap_refund_reversed", "guest_claim"} :
          /\ Key(v, s, f) \in DOMAIN ledger' <=> Key(v, s, f) \in DOMAIN ledger
          /\ Key(v, s, f) \in DOMAIN ledger =>
               ledger'[Key(v, s, f)] = ledger[Key(v, s, f)]
    BY <1>2, KeyFacts
  <1>5. TypeOK'
    BY <1>2, <1>3, CatalogAssumption DEF IInv, TypeOK, Claim
  <1>6. ClaimsMatchCredits'
    <2>. SUFFICES ASSUME NEW s \in Txns, NEW v \in Users
         PROVE  /\ Key(v, "iap_purchase", s) \in DOMAIN ledger'
                     <=> (s \in DOMAIN claims' /\ claims'[s].userId = v)
                /\ Key(v, "iap_purchase", s) \in DOMAIN ledger' =>
                     ledger'[Key(v, "iap_purchase", s)] = claims'[s].amount
      BY DEF ClaimsMatchCredits
    <2>1. CASE s = t
      <3>1. \A x \in Users : Key(x, "iap_purchase", t) \notin DOMAIN ledger
        BY <1>3 DEF IInv, ClaimsMatchCredits
      <3>2. Key(v, "iap_purchase", t) \in DOMAIN ledger' <=> v = u
        BY <1>2, <3>1, KeyFacts
      <3>. QED
        BY <2>1, <1>2, <1>3, <3>2
    <2>2. CASE s # t
      <3>1. /\ Key(v, "iap_purchase", s) \in DOMAIN ledger'
                 <=> Key(v, "iap_purchase", s) \in DOMAIN ledger
            /\ s \in DOMAIN claims' <=> s \in DOMAIN claims
        BY <2>2, <1>2, <1>3, KeyFacts
      <3>. QED
        BY <3>1, <1>2, <1>3 DEF IInv, ClaimsMatchCredits
    <2>. QED
      BY <2>1, <2>2
  <1>7. RefundsMatchLedger'
    BY <1>3, <1>4 DEF IInv, RefundsMatchLedger
  <1>8. RefundsWithinPurchase'
    BY <1>3 DEF IInv, RefundsWithinPurchase
  <1>9. GuestClaimsBalance'
    BY <1>4 DEF IInv, GuestClaimsBalance
  <1>. QED
    BY <1>2, <1>5, <1>6, <1>7, <1>8, <1>9 DEF IInv

\* The first refund of a transaction: no entry of it exists yet because the record does
\* not, and what is recovered is bounded by the balance and by the purchase.
LEMMA RefundIapStep ==
    ASSUME IInv, NEW u \in Users, NEW t \in Txns, NEW p \in Percentages,
           RefundIap(u, t, p)
    PROVE  IInv'
  <1>. DEFINE requested == requested_amount(claims[t].amount, p)
              recovered == recovered_amount(wallets[u].balance, requested)
              took == Key(u, "iap_refund", t)
  <1>1. /\ t \in DOMAIN claims
        /\ claims[t].userId = u
        /\ claims[t].amount \in 1..MAX_DELTA
        /\ t \notin DOMAIN refunds
        /\ wallets[u] \in Wallet
        /\ wallets[u].balance \in Nat
    BY DEF RefundIap, IInv, TypeOK, Claim, Wallet
  <1>2. requested \in 1..claims[t].amount
    BY <1>1, RequestedAmountInRange, LimitsAssumption, PercentagesAssumption
  <1>3. /\ recovered \in Nat
        /\ recovered <= requested
        /\ recovered <= wallets[u].balance
    BY <1>1, <1>2, LimitsAssumption DEF recovered_amount, Lesser
  <1>. HIDE DEF requested, recovered
  <1>4. /\ UNCHANGED <<quotas, claims>>
        /\ DOMAIN refunds' = DOMAIN refunds \cup {t}
        /\ refunds'[t] = [userId |-> u, requested |-> requested,
                          recovered |-> recovered, reversed |-> 0]
        /\ \A s \in DOMAIN refunds : refunds'[s] = refunds[s]
    BY <1>1 DEF RefundIap, Create, requested, recovered
  <1>5. \/ /\ recovered > 0
           /\ ledger' = Create(ledger, took, -recovered)
           /\ wallets' = [wallets EXCEPT ![u] = Recovered(@, recovered)]
        \/ /\ recovered = 0
           /\ UNCHANGED <<ledger, wallets>>
    BY DEF RefundIap, requested, recovered
  <1>6. /\ took \in Keys
        /\ \A v \in Users : Key(v, "iap_refund", t) \notin DOMAIN ledger
        /\ \A v \in Users : Key(v, "iap_refund_reversed", t) \notin DOMAIN ledger
    BY <1>1, KeyFacts DEF IInv, RefundsMatchLedger, Reasons, Events
  <1>7. /\ DOMAIN ledger' = IF recovered > 0 THEN DOMAIN ledger \cup {took} ELSE DOMAIN ledger
        /\ \A k \in DOMAIN ledger : ledger'[k] = ledger[k]
        /\ recovered > 0 => ledger'[took] = -recovered
    BY <1>3, <1>5, <1>6 DEF Create
  <1>8. wallets' \in [Users -> Wallet] /\ WalletReconciles'
    <2>1. CASE recovered > 0
      <3>1. Recovered(wallets[u], recovered) \in Wallet
        BY <1>1, <1>3, RecoveredFacts
      <3>2. /\ wallets' \in [Users -> Wallet]
            /\ wallets'[u] = Recovered(wallets[u], recovered)
            /\ \A v \in Users : v # u => wallets'[v] = wallets[v]
        BY <2>1, <1>5, <3>1 DEF IInv, TypeOK
      <3>. QED
        BY <3>2, <1>1, <1>3, RecoveredFacts DEF IInv, WalletReconciles
    <2>2. CASE ~(recovered > 0)
      BY <2>2, <1>3, <1>5 DEF IInv, TypeOK, WalletReconciles
    <2>. QED
      BY <2>1, <2>2
  <1>9. \A v, f : \A s \in {"iap_purchase", "iap_refund_reversed", "guest_claim"} :
          /\ Key(v, s, f) \in DOMAIN ledger' <=> Key(v, s, f) \in DOMAIN ledger
          /\ Key(v, s, f) \in DOMAIN ledger =>
               ledger'[Key(v, s, f)] = ledger[Key(v, s, f)]
    BY <1>7, KeyFacts
  <1>10. TypeOK'
    <2>1. refunds'[t] \in Refund
      BY <1>1, <1>2, <1>3, <1>4, LimitsAssumption DEF Refund
    <2>2. DOMAIN ledger' \subseteq Keys /\ \A k \in DOMAIN ledger' : ledger'[k] \in Int
      BY <1>3, <1>6, <1>7 DEF IInv, TypeOK
    <2>. QED
      BY <2>1, <2>2, <1>4, <1>8 DEF IInv, TypeOK
  <1>11. ClaimsMatchCredits'
    BY <1>4, <1>9 DEF IInv, ClaimsMatchCredits
  <1>12. RefundsMatchLedger'
    <2>. SUFFICES ASSUME NEW s \in Txns, NEW v \in Users
         PROVE  /\ Key(v, "iap_refund", s) \in DOMAIN ledger'
                     <=> /\ s \in DOMAIN refunds'
                         /\ refunds'[s].userId = v
                         /\ refunds'[s].recovered > 0
                /\ Key(v, "iap_refund_reversed", s) \in DOMAIN ledger'
                     <=> /\ s \in DOMAIN refunds'
                         /\ refunds'[s].userId = v
                         /\ refunds'[s].reversed > 0
                /\ Key(v, "iap_refund", s) \in DOMAIN ledger' =>
                     ledger'[Key(v, "iap_refund", s)] = -refunds'[s].recovered
                /\ Key(v, "iap_refund_reversed", s) \in DOMAIN ledger' =>
                     ledger'[Key(v, "iap_refund_reversed", s)] = refunds'[s].reversed
      BY DEF RefundsMatchLedger
    <2>1. CASE s = t
      <3>1. Key(v, "iap_refund", t) \in DOMAIN ledger' <=> v = u /\ recovered > 0
        BY <1>6, <1>7, KeyFacts
      <3>2. Key(v, "iap_refund_reversed", t) \notin DOMAIN ledger'
        BY <1>6, <1>9
      <3>. QED
        BY <2>1, <3>1, <3>2, <1>4, <1>7
    <2>2. CASE s # t
      <3>1. /\ Key(v, "iap_refund", s) \in DOMAIN ledger'
                 <=> Key(v, "iap_refund", s) \in DOMAIN ledger
            /\ s \in DOMAIN refunds' <=> s \in DOMAIN refunds
        BY <2>2, <1>4, <1>7, KeyFacts
      <3>. QED
        BY <3>1, <1>4, <1>7, <1>9 DEF IInv, RefundsMatchLedger
    <2>. QED
      BY <2>1, <2>2
  <1>13. RefundsWithinPurchase'
    BY <1>1, <1>2, <1>3, <1>4 DEF IInv, RefundsWithinPurchase
  <1>14. GuestClaimsBalance'
    BY <1>9 DEF IInv, GuestClaimsBalance
  <1>. QED
    BY <1>8, <1>10, <1>11, <1>12, <1>13, <1>14 DEF IInv

\* A reversal gives back exactly what was recovered: with the record still at zero
\* reversed there is no reversal entry, so nothing can be given back twice.
LEMMA ReverseRefundStep ==
    ASSUME IInv, NEW u \in Users, NEW t \in Txns, ReverseRefund(u, t)
    PROVE  IInv'
  <1>. DEFINE n == remaining(refunds[t])
              gave == Key(u, "iap_refund_reversed", t)
  <1>1. /\ t \in DOMAIN refunds
        /\ refunds[t] \in Refund
        /\ refunds[t].userId = u
        /\ refunds[t].recovered \in Nat
        /\ refunds[t].reversed \in Nat
        /\ wallets[u] \in Wallet
        /\ n > 0
        /\ gave \notin DOMAIN ledger
    BY DEF ReverseRefund, IInv, TypeOK, Refund
  \* The whole recovery is still to be given back: a reversal happens once.
  <1>2. /\ refunds[t].reversed = 0
        /\ n = refunds[t].recovered
        /\ n \in Nat
    BY <1>1 DEF IInv, RefundsWithinPurchase, remaining, Greater
  <1>. HIDE DEF n
  <1>3. /\ UNCHANGED <<quotas, claims>>
        /\ DOMAIN refunds' = DOMAIN refunds
        /\ \A s \in DOMAIN refunds : s # t => refunds'[s] = refunds[s]
        /\ refunds'[t] = [refunds[t] EXCEPT !.reversed = refunds[t].reversed + n]
    BY <1>1 DEF ReverseRefund, n
  <1>4. /\ refunds'[t] \in Refund
        /\ refunds'[t].userId = u
        /\ refunds'[t].requested = refunds[t].requested
        /\ refunds'[t].recovered = refunds[t].recovered
        /\ refunds'[t].reversed = n
    BY <1>1, <1>2, <1>3 DEF Refund
  <1>5. /\ DOMAIN ledger' = DOMAIN ledger \cup {gave}
        /\ ledger'[gave] = n
        /\ \A k \in DOMAIN ledger : ledger'[k] = ledger[k]
    BY <1>1 DEF ReverseRefund, Create, n
  <1>6. wallets' \in [Users -> Wallet] /\ WalletReconciles'
    <2>1. Restored(wallets[u], n) \in Wallet
      BY <1>1, <1>2, RestoredFacts
    <2>2. /\ wallets' \in [Users -> Wallet]
          /\ wallets'[u] = Restored(wallets[u], n)
          /\ \A v \in Users : v # u => wallets'[v] = wallets[v]
      BY <2>1 DEF ReverseRefund, IInv, TypeOK, n
    <2>. QED
      BY <2>2, <1>1, <1>2, RestoredFacts DEF IInv, WalletReconciles
  <1>7. \A v, f : \A s \in {"iap_purchase", "iap_refund", "guest_claim"} :
          /\ Key(v, s, f) \in DOMAIN ledger' <=> Key(v, s, f) \in DOMAIN ledger
          /\ Key(v, s, f) \in DOMAIN ledger =>
               ledger'[Key(v, s, f)] = ledger[Key(v, s, f)]
    BY <1>5, KeyFacts
  <1>8. TypeOK'
    <2>1. gave \in Keys
      BY KeyFacts DEF Reasons, Events
    <2>2. DOMAIN ledger' \subseteq Keys /\ \A k \in DOMAIN ledger' : ledger'[k] \in Int
      BY <2>1, <1>2, <1>5 DEF IInv, TypeOK
    <2>. QED
      BY <2>2, <1>3, <1>4, <1>6 DEF IInv, TypeOK
  <1>9. ClaimsMatchCredits'
    BY <1>3, <1>7 DEF IInv, ClaimsMatchCredits
  <1>10. RefundsMatchLedger'
    <2>. SUFFICES ASSUME NEW s \in Txns, NEW v \in Users
         PROVE  /\ Key(v, "iap_refund", s) \in DOMAIN ledger'
                     <=> /\ s \in DOMAIN refunds'
                         /\ refunds'[s].userId = v
                         /\ refunds'[s].recovered > 0
                /\ Key(v, "iap_refund_reversed", s) \in DOMAIN ledger'
                     <=> /\ s \in DOMAIN refunds'
                         /\ refunds'[s].userId = v
                         /\ refunds'[s].reversed > 0
                /\ Key(v, "iap_refund", s) \in DOMAIN ledger' =>
                     ledger'[Key(v, "iap_refund", s)] = -refunds'[s].recovered
                /\ Key(v, "iap_refund_reversed", s) \in DOMAIN ledger' =>
                     ledger'[Key(v, "iap_refund_reversed", s)] = refunds'[s].reversed
      BY DEF RefundsMatchLedger
    <2>1. CASE s = t
      <3>1. Key(v, "iap_refund_reversed", t) \in DOMAIN ledger' <=> v = u
        BY <1>1, <1>2, <1>5, KeyFacts DEF IInv, RefundsMatchLedger
      <3>2. /\ Key(v, "iap_refund", t) \in DOMAIN ledger'
                 <=> v = u /\ refunds[t].recovered > 0
            /\ Key(v, "iap_refund", t) \in DOMAIN ledger' =>
                 ledger'[Key(v, "iap_refund", t)] = -refunds[t].recovered
        BY <1>1, <1>7 DEF IInv, RefundsMatchLedger
      <3>. QED
        BY <2>1, <3>1, <3>2, <1>1, <1>3, <1>4, <1>5
    <2>2. CASE s # t
      <3>1. Key(v, "iap_refund_reversed", s) \in DOMAIN ledger'
              <=> Key(v, "iap_refund_reversed", s) \in DOMAIN ledger
        BY <2>2, <1>5, KeyFacts
      <3>. QED
        BY <2>2, <3>1, <1>3, <1>5, <1>7 DEF IInv, RefundsMatchLedger
    <2>. QED
      BY <2>1, <2>2
  <1>11. RefundsWithinPurchase'
    BY <1>1, <1>2, <1>3, <1>4 DEF IInv, RefundsWithinPurchase
  <1>12. GuestClaimsBalance'
    BY <1>7 DEF IInv, GuestClaimsBalance
  <1>. QED
    BY <1>6, <1>8, <1>9, <1>10, <1>11, <1>12 DEF IInv

\* A takeover writes its two entries with opposite amounts and touches no other key.
LEMMA GuestClaimStep ==
    ASSUME IInv, NEW g \in Users, NEW o \in Users, GuestClaim(g, o)
    PROVE  IInv'
  <1>. DEFINE n == wallets[g].balance
              out == Key(g, "guest_claim", o)
              in == Key(o, "guest_claim", g)
  <1>1. /\ g # o
        /\ n \in Nat
        /\ wallets[g] \in Wallet
        /\ wallets[o] \in Wallet
        /\ wallets[o].balance \in Nat
        /\ out \notin DOMAIN ledger
        /\ in \notin DOMAIN ledger
        /\ UNCHANGED <<quotas, claims, refunds>>
    BY DEF GuestClaim, IInv, TypeOK, Wallet
  <1>2. out # in /\ out \in Keys /\ in \in Keys
    BY <1>1, KeyFacts DEF Reasons, Events
  <1>3. /\ DOMAIN ledger' = DOMAIN ledger \cup {out, in}
        /\ ledger'[out] = -n
        /\ ledger'[in] = n
        /\ \A k \in DOMAIN ledger : ledger'[k] = ledger[k]
    BY <1>1, <1>2 DEF GuestClaim, Create
  <1>4. wallets' \in [Users -> Wallet] /\ WalletReconciles'
    <2>1. /\ Moved(wallets[g], -n) \in Wallet
          /\ Moved(wallets[o], n) \in Wallet
      BY <1>1, MovedFacts
    <2>2. /\ wallets' \in [Users -> Wallet]
          /\ wallets'[g] = Moved(wallets[g], -n)
          /\ wallets'[o] = Moved(wallets[o], n)
          /\ \A v \in Users : v # g /\ v # o => wallets'[v] = wallets[v]
      BY <2>1, <1>1 DEF GuestClaim, IInv, TypeOK
    <2>3. \A w \in Wallet : \A d \in Int :
            w.balance + d >= 0 /\ w.balance = w.earned - w.spent - w.refunded + w.reversed =>
                Moved(w, d).balance =
                    Moved(w, d).earned - Moved(w, d).spent
                    - Moved(w, d).refunded + Moved(w, d).reversed
      BY MovedFacts
    <2>4. /\ -n \in Int /\ n \in Int
          /\ wallets[g].balance + (-n) >= 0
          /\ wallets[o].balance + n >= 0
      BY <1>1
    <2>. QED
      BY <2>2, <2>3, <2>4, <1>1 DEF IInv, WalletReconciles
  <1>5. \A v, f : \A s \in {"iap_purchase", "iap_refund", "iap_refund_reversed"} :
          /\ Key(v, s, f) \in DOMAIN ledger' <=> Key(v, s, f) \in DOMAIN ledger
          /\ Key(v, s, f) \in DOMAIN ledger =>
               ledger'[Key(v, s, f)] = ledger[Key(v, s, f)]
    BY <1>3, KeyFacts
  <1>6. TypeOK'
    BY <1>1, <1>2, <1>3, <1>4 DEF IInv, TypeOK
  <1>7. ClaimsMatchCredits'
    BY <1>1, <1>5 DEF IInv, ClaimsMatchCredits
  <1>8. RefundsMatchLedger'
    BY <1>1, <1>5 DEF IInv, RefundsMatchLedger
  <1>9. RefundsWithinPurchase'
    BY <1>1 DEF IInv, RefundsWithinPurchase
  <1>10. GuestClaimsBalance'
    <2>. SUFFICES ASSUME NEW x \in Users, NEW y \in Users,
                         Key(x, "guest_claim", y) \in DOMAIN ledger'
         PROVE  /\ Key(y, "guest_claim", x) \in DOMAIN ledger'
                /\ ledger'[Key(x, "guest_claim", y)] = -ledger'[Key(y, "guest_claim", x)]
      BY DEF GuestClaimsBalance
    <2>1. CASE x = g /\ y = o
      BY <2>1, <1>1, <1>3
    <2>2. CASE x = o /\ y = g
      BY <2>2, <1>1, <1>3
    <2>3. CASE ~(x = g /\ y = o) /\ ~(x = o /\ y = g)
      <3>1. Key(x, "guest_claim", y) \in DOMAIN ledger
        BY <2>3, <1>3, KeyFacts
      <3>. QED
        BY <3>1, <1>3 DEF IInv, GuestClaimsBalance
    <2>. QED
      BY <2>1, <2>2, <2>3
  <1>. QED
    BY <1>4, <1>6, <1>7, <1>8, <1>9, <1>10 DEF IInv

\* Every step keeps the invariant: one case per action.
LEMMA NextIInv == IInv /\ [Next]_shards => IInv'
  <1>. SUFFICES ASSUME IInv, [Next]_shards
       PROVE  IInv'
    OBVIOUS
  <1>0. quotas \in [Users \X Days -> 0..DAILY_REWARD_LIMIT]
    BY DEF IInv, TypeOK
  <1>1. ASSUME NEW u \in Users, NEW d \in Days, Attendance(u, d)
        PROVE  IInv'
    BY <1>0, <1>1, OrdinaryStep DEF Attendance, DAILY_REWARD, Events
  <1>2. ASSUME NEW u \in Users, NEW a \in Ads, RewardedAd(u, a)
        PROVE  IInv'
    <2>1. quotas' \in [Users \X Days -> 0..DAILY_REWARD_LIMIT]
      <3>1. <<u, RewardDay[a]>> \in Users \X Days
        BY CatalogAssumption
      <3>2. quotas[<<u, RewardDay[a]>>] + 1 \in 0..DAILY_REWARD_LIMIT
        BY <1>0, <1>2, <3>1, LimitsAssumption DEF RewardedAd
      <3>. QED
        BY <1>0, <1>2, <3>2 DEF RewardedAd
    <2>. QED
      BY <1>2, <2>1, OrdinaryStep DEF RewardedAd, REWARD_PER_AD, Events
  <1>3. ASSUME NEW u \in Users, NEW o \in Orders, NEW n \in Checked, Debit(u, o, n)
        PROVE  IInv'
    <2>1. -n \in Int
      BY LimitsAssumption DEF Checked
    <2>. QED
      BY <1>0, <1>3, <2>1, OrdinaryStep DEF Debit, Events
  <1>4. ASSUME NEW u \in Users, NEW o \in Orders, NEW n \in Checked, CreditBack(u, o, n)
        PROVE  IInv'
    <2>1. n \in Int
      BY LimitsAssumption DEF Checked
    <2>. QED
      BY <1>0, <1>4, <2>1, OrdinaryStep DEF CreditBack, Events
  <1>5. CASE UNCHANGED shards
    BY <1>5 DEF shards, IInv, TypeOK, WalletReconciles, ClaimsMatchCredits,
                RefundsMatchLedger, RefundsWithinPurchase, GuestClaimsBalance
  <1>6. ASSUME NEW k \in Keys, Duplicate(k)
        PROVE  UNCHANGED shards
    BY <1>6 DEF Duplicate
  <1>. QED
    BY <1>1, <1>2, <1>3, <1>4, <1>5, <1>6,
       IapCreditStep, RefundIapStep, ReverseRefundStep, GuestClaimStep DEF Next

----------------------------------------------------------------------------
(***************************************************************************)
(* Theorems                                                                *)
(***************************************************************************)

\* The inductive invariant holds in every reachable state.
THEOREM SpecIInv == Spec => []IInv
  BY InitIInv, NextIInv, PTL DEF Spec

\* No wallet is ever negative and no day pays more than DAILY_REWARD_LIMIT ads, for any
\* number of users, purchases and refunds.
THEOREM SpecTypeOK == Spec => []TypeOK
  <1>1. IInv => TypeOK
    BY DEF IInv
  <1>. QED
    BY <1>1, SpecIInv, PTL

\* Every wallet can be checked by itself: the four lifetime totals give the balance.
THEOREM SpecWalletReconciles == Spec => []WalletReconciles
  <1>1. IInv => WalletReconciles
    BY DEF IInv
  <1>. QED
    BY <1>1, SpecIInv, PTL

\* An App Store transaction is credited to one user, once, for the claimed amount.
THEOREM SpecClaimsMatchCredits == Spec => []ClaimsMatchCredits
  <1>1. IInv => ClaimsMatchCredits
    BY DEF IInv
  <1>. QED
    BY <1>1, SpecIInv, PTL

\* A refund record and its ledger entries never disagree, a refund never exceeds its
\* purchase and a reversal never exceeds its refund.
THEOREM SpecRefunds == Spec => []RefundsAgree
  <1>1. IInv => RefundsAgree
    BY DEF IInv, RefundsAgree
  <1>. QED
    BY <1>1, SpecIInv, PTL

\* A guest takeover neither makes nor loses a shard.
THEOREM SpecGuestClaimsBalance == Spec => []GuestClaimsBalance
  <1>1. IInv => GuestClaimsBalance
    BY DEF IInv
  <1>. QED
    BY <1>1, SpecIInv, PTL

\* The lifetime totals of a wallet never shrink, whichever projection is applied.
LEMMA TotalsGrow ==
    ASSUME NEW w \in Wallet, NEW d \in Int, NEW n \in Nat,
           NEW x \in {w, Moved(w, d), Recovered(w, n), Restored(w, n)}
    PROVE  /\ x.earned >= w.earned
           /\ x.spent >= w.spent
           /\ x.refunded >= w.refunded
           /\ x.reversed >= w.reversed
  BY DEF Moved, Recovered, Restored, Wallet, Greater

\* A step creates documents and moves wallets by one of the three projections.
LEMMA StepShape ==
    ASSUME IInv, Next
    PROVE  /\ \A k \in DOMAIN ledger : k \in DOMAIN ledger' /\ ledger'[k] = ledger[k]
           /\ \A u \in Users : \E d \in Int, n \in Nat :
                wallets'[u] \in {wallets[u], Moved(wallets[u], d),
                                Recovered(wallets[u], n), Restored(wallets[u], n)}
           /\ \A t \in DOMAIN claims : t \in DOMAIN claims' /\ claims'[t] = claims[t]
           /\ \A t \in DOMAIN refunds :
                t \in DOMAIN refunds' /\ refunds'[t].recovered = refunds[t].recovered
  <1>. DEFINE Shape ==
         /\ \A k \in DOMAIN ledger : k \in DOMAIN ledger' /\ ledger'[k] = ledger[k]
         /\ \A u \in Users : \E d \in Int, n \in Nat :
              wallets'[u] \in {wallets[u], Moved(wallets[u], d),
                              Recovered(wallets[u], n), Restored(wallets[u], n)}
         /\ \A t \in DOMAIN claims : t \in DOMAIN claims' /\ claims'[t] = claims[t]
         /\ \A t \in DOMAIN refunds :
              t \in DOMAIN refunds' /\ refunds'[t].recovered = refunds[t].recovered
  <1>0. /\ wallets \in [Users -> Wallet]
        /\ 0 \in Nat /\ 0 \in Int
        /\ \A t \in DOMAIN refunds : refunds[t] \in Refund
    BY DEF IInv, TypeOK
  <1>1. ASSUME NEW u, NEW delta \in Int, NEW r, NEW e, Apply(u, delta, r, e),
               UNCHANGED <<claims, refunds>>
        PROVE  Shape
    <2>1. \A k \in DOMAIN ledger : k \in DOMAIN ledger' /\ ledger'[k] = ledger[k]
      BY <1>1 DEF Apply, Create
    <2>2. \A v \in Users : wallets'[v] \in {wallets[v], Moved(wallets[v], delta)}
      BY <1>0, <1>1 DEF Apply
    <2>. QED
      BY <1>0, <1>1, <2>1, <2>2
  <1>2. ASSUME NEW u \in Users, NEW d \in Days, Attendance(u, d)
        PROVE  Shape
    BY <1>1, <1>2 DEF Attendance, DAILY_REWARD
  <1>3. ASSUME NEW u \in Users, NEW a \in Ads, RewardedAd(u, a)
        PROVE  Shape
    BY <1>1, <1>3 DEF RewardedAd, REWARD_PER_AD
  <1>4. ASSUME NEW u \in Users, NEW o \in Orders, NEW n \in Checked,
               Debit(u, o, n) \/ CreditBack(u, o, n)
        PROVE  Shape
    <2>1. n \in Int /\ -n \in Int
      BY LimitsAssumption DEF Checked
    <2>. QED
      BY <1>1, <1>4, <2>1 DEF Debit, CreditBack
  <1>5. ASSUME NEW u \in Users, NEW t \in Txns, IapCredit(u, t)
        PROVE  Shape
    <2>1. Amount[t] \in Int
      BY CatalogAssumption, LimitsAssumption
    <2>2. \A k \in DOMAIN ledger : k \in DOMAIN ledger' /\ ledger'[k] = ledger[k]
      BY <1>5 DEF IapCredit, Apply, Create
    <2>3. \A v \in Users : wallets'[v] \in {wallets[v], Moved(wallets[v], Amount[t])}
      BY <1>0, <1>5 DEF IapCredit, Apply
    <2>4. \A s \in DOMAIN claims : s \in DOMAIN claims' /\ claims'[s] = claims[s]
      BY <1>5 DEF IapCredit, Create
    <2>5. refunds' = refunds
      BY <1>5 DEF IapCredit
    <2>. QED
      BY <1>0, <2>1, <2>2, <2>3, <2>4, <2>5
  <1>6. ASSUME NEW u \in Users, NEW t \in Txns, NEW p \in Percentages, RefundIap(u, t, p)
        PROVE  Shape
    <2>1. PICK n : /\ n = recovered_amount(wallets[u].balance,
                                          requested_amount(claims[t].amount, p))
      OBVIOUS
    <2>2. n \in Nat
      <3>1. claims[t].amount \in Nat \ {0} /\ wallets[u].balance \in Nat
        BY <1>0, <1>6, LimitsAssumption DEF RefundIap, IInv, TypeOK, Claim, Wallet
      <3>2. requested_amount(claims[t].amount, p) \in Nat
        BY <3>1, RequestedAmountInRange, PercentagesAssumption
      <3>. QED
        BY <2>1, <3>1, <3>2 DEF recovered_amount, Lesser
    <2>3. \A k \in DOMAIN ledger : k \in DOMAIN ledger' /\ ledger'[k] = ledger[k]
      BY <1>6 DEF RefundIap, Create
    <2>4. \A v \in Users : wallets'[v] \in {wallets[v], Recovered(wallets[v], n)}
      BY <1>0, <1>6, <2>1 DEF RefundIap
    <2>5. /\ claims' = claims
          /\ \A s \in DOMAIN refunds : s \in DOMAIN refunds' /\ refunds'[s] = refunds[s]
      BY <1>6 DEF RefundIap, Create
    <2>. QED
      BY <1>0, <2>2, <2>3, <2>4, <2>5
  <1>7. ASSUME NEW u \in Users, NEW t \in Txns, ReverseRefund(u, t)
        PROVE  Shape
    <2>1. remaining(refunds[t]) \in Nat
      BY <1>0, <1>7 DEF ReverseRefund, remaining, Greater, Refund
    <2>2. \A k \in DOMAIN ledger : k \in DOMAIN ledger' /\ ledger'[k] = ledger[k]
      BY <1>7 DEF ReverseRefund, Create
    <2>3. \A v \in Users :
            wallets'[v] \in {wallets[v], Restored(wallets[v], remaining(refunds[t]))}
      BY <1>0, <1>7 DEF ReverseRefund
    <2>4. /\ claims' = claims
          /\ \A s \in DOMAIN refunds :
               s \in DOMAIN refunds' /\ refunds'[s].recovered = refunds[s].recovered
      BY <1>0, <1>7 DEF ReverseRefund, Refund
    <2>. QED
      BY <1>0, <2>1, <2>2, <2>3, <2>4
  <1>8. ASSUME NEW g \in Users, NEW o \in Users, GuestClaim(g, o)
        PROVE  Shape
    <2>1. wallets[g].balance \in Int /\ -wallets[g].balance \in Int
      BY <1>0 DEF Wallet
    <2>2. \A k \in DOMAIN ledger : k \in DOMAIN ledger' /\ ledger'[k] = ledger[k]
      BY <1>8 DEF GuestClaim, Create
    <2>3. \A v \in Users :
            wallets'[v] \in {wallets[v], Moved(wallets[v], wallets[g].balance),
                            Moved(wallets[v], -wallets[g].balance)}
      BY <1>0, <1>8 DEF GuestClaim
    <2>4. claims' = claims /\ refunds' = refunds
      BY <1>8 DEF GuestClaim
    <2>. QED
      BY <1>0, <2>1, <2>2, <2>3, <2>4
  <1>9. ASSUME NEW k \in Keys, Duplicate(k)
        PROVE  Shape
    BY <1>0, <1>9 DEF Duplicate, shards
  <1>. QED
    BY <1>2, <1>3, <1>4, <1>5, <1>6, <1>7, <1>8, <1>9 DEF Next

\* Nothing the ledger records is ever taken back: entries, totals, claims, recoveries.
THEOREM SpecAppendOnly == Spec => AppendOnly
  <1>1. IInv /\ [Next]_shards => [NothingTakenBack]_shards
    <2>. SUFFICES ASSUME IInv, Next
         PROVE  NothingTakenBack
      OBVIOUS
    <2>1. \A u \in Users :
            /\ wallets'[u].earned >= wallets[u].earned
            /\ wallets'[u].spent >= wallets[u].spent
            /\ wallets'[u].refunded >= wallets[u].refunded
            /\ wallets'[u].reversed >= wallets[u].reversed
      <3>. TAKE u \in Users
      <3>1. wallets[u] \in Wallet
        BY DEF IInv, TypeOK
      <3>2. PICK d \in Int, n \in Nat :
              wallets'[u] \in {wallets[u], Moved(wallets[u], d),
                              Recovered(wallets[u], n), Restored(wallets[u], n)}
        BY StepShape
      <3>. QED
        BY <3>1, <3>2, TotalsGrow
    <2>. QED
      BY <2>1, StepShape DEF NothingTakenBack
  <1>. QED
    BY <1>1, SpecIInv, PTL DEF Spec, AppendOnly

----------------------------------------------------------------------------
(***************************************************************************)
(* The day's counter, for days of any number of ads.                       *)
(***************************************************************************)

\* The ads of a day that user u was paid for.
Rewarded(u, d) ==
    {a \in Ads : RewardDay[a] = d /\ Key(u, "rewarded_ad", a) \in DOMAIN ledger}

QuotaInv ==
    /\ QuotaCountsRewards
    /\ \A u \in Users, d \in Days : IsFiniteSet(Rewarded(u, d))

\* Entries of other reasons change no counter and no set of paid ads.
LEMMA OtherReasons ==
    ASSUME QuotaInv, quotas' = quotas,
           \A u \in Users, a \in Ads :
               Key(u, "rewarded_ad", a) \in DOMAIN ledger'
                   <=> Key(u, "rewarded_ad", a) \in DOMAIN ledger
    PROVE  QuotaInv'
  <1>1. \A u \in Users, d \in Days : Rewarded(u, d)' = Rewarded(u, d)
    BY DEF Rewarded
  <1>. QED
    BY <1>1 DEF QuotaInv, QuotaCountsRewards, Rewarded

\* One ad more is paid and one more is counted, on the day of the ad and no other.
LEMMA RewardCounted ==
    ASSUME IInv, QuotaInv, NEW u \in Users, NEW a \in Ads, RewardedAd(u, a)
    PROVE  QuotaInv'
  <1>. DEFINE d == RewardDay[a]
  <1>1. d \in Days
    BY CatalogAssumption
  <1>2. /\ quotas' = [quotas EXCEPT ![<<u, d>>] = @ + 1]
        /\ DOMAIN ledger' = DOMAIN ledger \cup {Key(u, "rewarded_ad", a)}
        /\ Key(u, "rewarded_ad", a) \notin DOMAIN ledger
    BY DEF RewardedAd, Apply, Create
  <1>3. \A v \in Users, b \in Ads :
           Key(v, "rewarded_ad", b) \in DOMAIN ledger'
               <=> Key(v, "rewarded_ad", b) \in DOMAIN ledger \/ (v = u /\ b = a)
    BY <1>2, KeyFacts
  <1>4. /\ Rewarded(u, d)' = Rewarded(u, d) \cup {a}
        /\ a \notin Rewarded(u, d)
        /\ \A v \in Users, e \in Days : <<v, e>> # <<u, d>> => Rewarded(v, e)' = Rewarded(v, e)
    BY <1>2, <1>3 DEF Rewarded
  <1>5. /\ IsFiniteSet(Rewarded(u, d)')
        /\ Cardinality(Rewarded(u, d)') = Cardinality(Rewarded(u, d)) + 1
    <2>1. IsFiniteSet(Rewarded(u, d))
      BY <1>1 DEF QuotaInv
    <2>. QED
      BY <1>4, <2>1, FS_AddElement
  <1>6. \A v \in Users, e \in Days : quotas[<<v, e>>] = Cardinality(Rewarded(v, e))
    BY DEF QuotaInv, QuotaCountsRewards, Rewarded
  <1>7. /\ quotas'[<<u, d>>] = quotas[<<u, d>>] + 1
        /\ \A v \in Users, e \in Days : <<v, e>> # <<u, d>> => quotas'[<<v, e>>] = quotas[<<v, e>>]
    BY <1>1, <1>2 DEF IInv, TypeOK
  <1>. HIDE DEF d
  <1>8. \A v \in Users, e \in Days :
           quotas'[<<v, e>>] = Cardinality(Rewarded(v, e)') /\ IsFiniteSet(Rewarded(v, e)')
    <2>. TAKE v \in Users, e \in Days
    <2>1. CASE <<v, e>> = <<u, d>>
      BY <1>1, <1>5, <1>6, <1>7, <2>1
    <2>2. CASE <<v, e>> # <<u, d>>
      BY <1>4, <1>6, <1>7, <2>2 DEF QuotaInv
    <2>. QED
      BY <2>1, <2>2
  <1>. QED
    BY <1>8 DEF QuotaInv, QuotaCountsRewards, Rewarded

LEMMA NextQuotaInv == IInv /\ QuotaInv /\ [Next]_shards => QuotaInv'
  <1>. SUFFICES ASSUME IInv, QuotaInv, [Next]_shards
       PROVE  QuotaInv'
    OBVIOUS
  <1>. DEFINE Same ==
         /\ quotas' = quotas
         /\ \A u \in Users, a \in Ads :
               Key(u, "rewarded_ad", a) \in DOMAIN ledger'
                   <=> Key(u, "rewarded_ad", a) \in DOMAIN ledger
  <1>1. ASSUME NEW u \in Users, NEW a \in Ads, RewardedAd(u, a)
        PROVE  QuotaInv'
    BY <1>1, RewardCounted
  <1>2. ASSUME NEW u, NEW n, NEW r, NEW e, Apply(u, n, r, e), r # "rewarded_ad", quotas' = quotas
        PROVE  Same
    BY <1>2, KeyFacts DEF Apply, Create
  <1>3. ASSUME NEW u \in Users, NEW d \in Days, Attendance(u, d)
        PROVE  Same
    BY <1>2, <1>3 DEF Attendance
  <1>4. ASSUME NEW u \in Users, NEW t \in Txns, IapCredit(u, t)
        PROVE  Same
    BY <1>2, <1>4 DEF IapCredit
  <1>5. ASSUME NEW u \in Users, NEW o \in Orders, NEW n \in Checked,
               Debit(u, o, n) \/ CreditBack(u, o, n)
        PROVE  Same
    BY <1>2, <1>5 DEF Debit, CreditBack
  <1>6. ASSUME NEW u \in Users, NEW t \in Txns, NEW p \in Percentages, RefundIap(u, t, p)
        PROVE  Same
    BY <1>6, KeyFacts DEF RefundIap, Create
  <1>7. ASSUME NEW u \in Users, NEW t \in Txns, ReverseRefund(u, t)
        PROVE  Same
    BY <1>7, KeyFacts DEF ReverseRefund, Create
  <1>8. ASSUME NEW g \in Users, NEW o \in Users, GuestClaim(g, o)
        PROVE  Same
    BY <1>8, KeyFacts DEF GuestClaim, Create
  <1>9. CASE UNCHANGED shards
    BY <1>9, OtherReasons DEF shards
  <1>10. ASSUME NEW k \in Keys, Duplicate(k)
         PROVE  UNCHANGED shards
    BY <1>10 DEF Duplicate
  <1>11. CASE Same
    BY <1>11, OtherReasons
  <1>. QED
    BY <1>1, <1>3, <1>4, <1>5, <1>6, <1>7, <1>8, <1>9, <1>10, <1>11 DEF Next

\* However many callbacks come, and whenever: the day's counter is the number of ads paid
\* for that day, and with SpecTypeOK that number never exceeds the limit.
THEOREM SpecQuotaCountsRewards == Spec => []QuotaCountsRewards
  <1>1. Init => QuotaInv
    BY FS_EmptySet DEF Init, QuotaInv, QuotaCountsRewards, Rewarded
  <1>2. QuotaInv => QuotaCountsRewards
    BY DEF QuotaInv
  <1>. QED
    BY <1>1, <1>2, NextQuotaInv, SpecIInv, PTL DEF Spec

----------------------------------------------------------------------------
(***************************************************************************)
(* The books: every wallet is the sum of its ledger entries.               *)
(***************************************************************************)

\* The entries of user u in the ledger c, and the four kinds a wallet adds up.
AllOf(c, u) == {k \in DOMAIN c : k[1] = u}

RefundedOf(c, u) == {k \in AllOf(c, u) : k[2] = "iap_refund"}

ReversedOf(c, u) == {k \in AllOf(c, u) : k[2] = "iap_refund_reversed"}

OrdinaryOf(c, u) == AllOf(c, u) \ (RefundedOf(c, u) \cup ReversedOf(c, u))

EarnedOf(c, u) == {k \in OrdinaryOf(c, u) : c[k] > 0}

SpentOf(c, u) == {k \in OrdinaryOf(c, u) : c[k] < 0}

Explains(c, u, w) ==
    /\ w.balance = SumOf(c, AllOf(c, u))
    /\ w.earned = SumOf(c, EarnedOf(c, u))
    /\ w.spent = -SumOf(c, SpentOf(c, u))
    /\ w.refunded = -SumOf(c, RefundedOf(c, u))
    /\ w.reversed = SumOf(c, ReversedOf(c, u))

BooksInv ==
    /\ IsFiniteSet(DOMAIN ledger)
    /\ \A u \in Users : Explains(ledger, u, wallets[u])

\* The model's sum is the one the lemmas are about.
LEMMA TotalIsSum == \A K : Total(K) = SumOf(ledger, K)
  BY DEF Total, SumOf, MapThenSumSet, MapThenFoldSet

LEMMA BooksExplain == BooksInv => LedgerExplainsWallets
  <1>. SUFFICES ASSUME BooksInv, NEW u \in Users
       PROVE  LET E == EntriesOf(u)
                  refund == {k \in E : k[2] = "iap_refund"}
                  reversal == {k \in E : k[2] = "iap_refund_reversed"}
                  ordinary == E \ (refund \cup reversal)
              IN
              /\ wallets[u].balance = Total(E)
              /\ wallets[u].earned = Total({k \in ordinary : ledger[k] > 0})
              /\ wallets[u].spent = -Total({k \in ordinary : ledger[k] < 0})
              /\ wallets[u].refunded = -Total(refund)
              /\ wallets[u].reversed = Total(reversal)
    BY DEF LedgerExplainsWallets
  <1>1. Explains(ledger, u, wallets[u])
    BY DEF BooksInv
  <1>. QED
    BY <1>1, TotalIsSum
    DEF Explains, EntriesOf, AllOf, EarnedOf, SpentOf, OrdinaryOf, RefundedOf, ReversedOf

\* transaction.create adds one entry.
LEMMA CreateAdds ==
    ASSUME NEW c, NEW k, NEW d
    PROVE  Create(c, k, d) = Added(c, k, d)
  BY DEF Create, Added

\* The wallet that moves with its new entry is explained again, whatever the kind of the
\* entry; everyone else's is explained as before.
LEMMA EntryExplained ==
    ASSUME NEW c, Summable(c), NEW k, k \notin DOMAIN c, NEW d \in Int,
           NEW u, NEW w \in Wallet, Explains(c, u, w)
    PROVE  /\ k[1] # u => Explains(Create(c, k, d), u, w)
           /\ k[1] = u /\ k[2] = "iap_refund" =>
                Explains(Create(c, k, d), u, Recovered(w, -d))
           /\ k[1] = u /\ k[2] = "iap_refund_reversed" =>
                Explains(Create(c, k, d), u, Restored(w, d))
           /\ k[1] = u /\ k[2] \notin {"iap_refund", "iap_refund_reversed"} =>
                Explains(Create(c, k, d), u, Moved(w, d))
  <1>. DEFINE n == Create(c, k, d)
  <1>1. /\ DOMAIN n = DOMAIN c \cup {k}
        /\ n[k] = d
        /\ \A x \in DOMAIN c : n[x] = c[x]
    BY DEF Create
  <1>2. \A K \in SUBSET DOMAIN c : /\ SumOf(c, K) \in Int
                                   /\ SumOf(n, K) = SumOf(c, K)
                                   /\ SumOf(n, K \cup {k}) = SumOf(c, K) + d
    BY SumOfAdded, CreateAdds
  <1>. HIDE DEF n
  <1>3. /\ AllOf(c, u) \in SUBSET DOMAIN c /\ EarnedOf(c, u) \in SUBSET DOMAIN c
        /\ SpentOf(c, u) \in SUBSET DOMAIN c /\ RefundedOf(c, u) \in SUBSET DOMAIN c
        /\ ReversedOf(c, u) \in SUBSET DOMAIN c
    BY DEF AllOf, EarnedOf, SpentOf, OrdinaryOf, RefundedOf, ReversedOf
  <1>4a. /\ SumOf(c, AllOf(c, u)) \in Int /\ SumOf(c, EarnedOf(c, u)) \in Int
         /\ SumOf(c, SpentOf(c, u)) \in Int /\ SumOf(c, RefundedOf(c, u)) \in Int
         /\ SumOf(c, ReversedOf(c, u)) \in Int
    BY <1>2, <1>3
  <1>4. CASE k[1] # u
    <2>1. /\ AllOf(n, u) = AllOf(c, u) /\ EarnedOf(n, u) = EarnedOf(c, u)
          /\ SpentOf(n, u) = SpentOf(c, u) /\ RefundedOf(n, u) = RefundedOf(c, u)
          /\ ReversedOf(n, u) = ReversedOf(c, u)
      BY <1>1, <1>4 DEF AllOf, EarnedOf, SpentOf, OrdinaryOf, RefundedOf, ReversedOf
    <2>. QED
      BY <1>2, <1>3, <1>4, <2>1 DEF Explains, n
  <1>5. CASE k[1] = u /\ k[2] = "iap_refund"
    <2>1. /\ AllOf(n, u) = AllOf(c, u) \cup {k} /\ EarnedOf(n, u) = EarnedOf(c, u)
          /\ SpentOf(n, u) = SpentOf(c, u) /\ RefundedOf(n, u) = RefundedOf(c, u) \cup {k}
          /\ ReversedOf(n, u) = ReversedOf(c, u)
      BY <1>1, <1>5 DEF AllOf, EarnedOf, SpentOf, OrdinaryOf, RefundedOf, ReversedOf
    <2>2. /\ SumOf(n, AllOf(n, u)) = SumOf(c, AllOf(c, u)) + d
          /\ SumOf(n, EarnedOf(n, u)) = SumOf(c, EarnedOf(c, u))
          /\ SumOf(n, SpentOf(n, u)) = SumOf(c, SpentOf(c, u))
          /\ SumOf(n, RefundedOf(n, u)) = SumOf(c, RefundedOf(c, u)) + d
          /\ SumOf(n, ReversedOf(n, u)) = SumOf(c, ReversedOf(c, u))
      BY <1>2, <1>3, <2>1
    <2>3. Explains(n, u, Recovered(w, -d))
      BY <1>4a, <2>2 DEF Explains, Recovered, Wallet
    <2>. QED
      BY <1>5, <2>3 DEF n
  <1>6. CASE k[1] = u /\ k[2] = "iap_refund_reversed"
    <2>1. /\ AllOf(n, u) = AllOf(c, u) \cup {k} /\ EarnedOf(n, u) = EarnedOf(c, u)
          /\ SpentOf(n, u) = SpentOf(c, u) /\ RefundedOf(n, u) = RefundedOf(c, u)
          /\ ReversedOf(n, u) = ReversedOf(c, u) \cup {k}
      BY <1>1, <1>6 DEF AllOf, EarnedOf, SpentOf, OrdinaryOf, RefundedOf, ReversedOf
    <2>2. /\ SumOf(n, AllOf(n, u)) = SumOf(c, AllOf(c, u)) + d
          /\ SumOf(n, EarnedOf(n, u)) = SumOf(c, EarnedOf(c, u))
          /\ SumOf(n, SpentOf(n, u)) = SumOf(c, SpentOf(c, u))
          /\ SumOf(n, RefundedOf(n, u)) = SumOf(c, RefundedOf(c, u))
          /\ SumOf(n, ReversedOf(n, u)) = SumOf(c, ReversedOf(c, u)) + d
      BY <1>2, <1>3, <2>1
    <2>3. Explains(n, u, Restored(w, d))
      BY <1>4a, <2>2 DEF Explains, Restored, Wallet
    <2>. QED
      BY <1>6, <2>3 DEF n
  <1>7. CASE k[1] = u /\ k[2] \notin {"iap_refund", "iap_refund_reversed"}
    <2>1. /\ AllOf(n, u) = AllOf(c, u) \cup {k} /\ RefundedOf(n, u) = RefundedOf(c, u)
          /\ ReversedOf(n, u) = ReversedOf(c, u)
      BY <1>1, <1>7 DEF AllOf, RefundedOf, ReversedOf
    <2>2. /\ EarnedOf(n, u) = IF d > 0 THEN EarnedOf(c, u) \cup {k} ELSE EarnedOf(c, u)
          /\ SpentOf(n, u) = IF d < 0 THEN SpentOf(c, u) \cup {k} ELSE SpentOf(c, u)
      BY <1>1, <1>7 DEF AllOf, EarnedOf, SpentOf, OrdinaryOf, RefundedOf, ReversedOf
    <2>3. /\ SumOf(n, AllOf(n, u)) = SumOf(c, AllOf(c, u)) + d
          /\ SumOf(n, RefundedOf(n, u)) = SumOf(c, RefundedOf(c, u))
          /\ SumOf(n, ReversedOf(n, u)) = SumOf(c, ReversedOf(c, u))
          /\ SumOf(n, EarnedOf(n, u)) =
                IF d > 0 THEN SumOf(c, EarnedOf(c, u)) + d ELSE SumOf(c, EarnedOf(c, u))
          /\ SumOf(n, SpentOf(n, u)) =
                IF d < 0 THEN SumOf(c, SpentOf(c, u)) + d ELSE SumOf(c, SpentOf(c, u))
      BY <1>2, <1>3, <2>1, <2>2
    <2>4. Explains(n, u, Moved(w, d))
      BY <1>4a, <2>3 DEF Explains, Moved, Wallet, Greater
    <2>. QED
      BY <1>7, <2>4 DEF n
  <1>. QED
    BY <1>4, <1>5, <1>6, <1>7 DEF n

\* One entry and the movement of one wallet keep the books.
LEMMA EntryBooked ==
    ASSUME TypeOK, BooksInv, NEW k, k \notin DOMAIN ledger, NEW d \in Int,
           NEW w, ledger' = Create(ledger, k, d),
           wallets' = [wallets EXCEPT ![k[1]] = w],
           \/ k[2] = "iap_refund" /\ w = Recovered(wallets[k[1]], -d)
           \/ k[2] = "iap_refund_reversed" /\ w = Restored(wallets[k[1]], d)
           \/ k[2] \notin {"iap_refund", "iap_refund_reversed"} /\ w = Moved(wallets[k[1]], d)
    PROVE  BooksInv'
  <1>1. Summable(ledger)
    BY DEF Summable, BooksInv, TypeOK
  <1>2. Summable(ledger')
    BY <1>1, SumOfAdded, CreateAdds
  <1>3. ASSUME NEW u \in Users
        PROVE  Explains(ledger', u, wallets'[u])
    <2>1. wallets[u] \in Wallet /\ Explains(ledger, u, wallets[u])
      BY DEF TypeOK, BooksInv
    <2>2. wallets'[u] = IF k[1] = u THEN w ELSE wallets[u]
      BY DEF TypeOK
    <2>3. /\ k[1] # u => Explains(ledger', u, wallets[u])
          /\ k[1] = u /\ k[2] = "iap_refund" => Explains(ledger', u, Recovered(wallets[u], -d))
          /\ k[1] = u /\ k[2] = "iap_refund_reversed" =>
               Explains(ledger', u, Restored(wallets[u], d))
          /\ k[1] = u /\ k[2] \notin {"iap_refund", "iap_refund_reversed"} =>
               Explains(ledger', u, Moved(wallets[u], d))
      BY <1>1, <2>1, EntryExplained
    <2>. QED
      BY <2>2, <2>3
  <1>. QED
    BY <1>2, <1>3 DEF BooksInv, Summable

\* An ordinary movement is one entry of an ordinary reason.
LEMMA ApplyBooked ==
    ASSUME TypeOK, BooksInv, NEW u, NEW d \in Int, NEW r, NEW e,
           r \notin {"iap_refund", "iap_refund_reversed"}, Apply(u, d, r, e)
    PROVE  BooksInv'
  <1>. DEFINE k == Key(u, r, e)
  <1>1. k[1] = u /\ k[2] = r
    BY DEF Key
  <1>2. /\ k \notin DOMAIN ledger
        /\ ledger' = Create(ledger, k, d)
        /\ wallets' = [wallets EXCEPT ![u] = Moved(wallets[u], d)]
    BY DEF Apply
  <1>. HIDE DEF k
  <1>. QED
    BY <1>1, <1>2, EntryBooked

\* A takeover writes two entries and moves two wallets.
LEMMA GuestClaimBooked ==
    ASSUME TypeOK, BooksInv, NEW g \in Users, NEW o \in Users, GuestClaim(g, o)
    PROVE  BooksInv'
  <1>. DEFINE n == wallets[g].balance
              out == Key(g, "guest_claim", o)
              in == Key(o, "guest_claim", g)
              half == Create(ledger, out, -n)
  <1>1. n \in Int /\ -n \in Int
    BY DEF TypeOK, Wallet
  <1>2. /\ g # o
        /\ out \notin DOMAIN ledger /\ in \notin DOMAIN ledger
        /\ ledger' = Create(half, in, n)
        /\ wallets' = [wallets EXCEPT ![g] = Moved(@, -n), ![o] = Moved(@, n)]
    BY DEF GuestClaim
  <1>3. /\ out[1] = g /\ out[2] = "guest_claim" /\ in[1] = o /\ in[2] = "guest_claim"
        /\ out # in
    BY <1>2 DEF Key
  <1>4. DOMAIN half = DOMAIN ledger \cup {out}
    BY DEF Create
  <1>5. Summable(ledger)
    BY DEF Summable, BooksInv, TypeOK
  <1>6. Summable(half)
    BY <1>1, <1>2, <1>5, SumOfAdded, CreateAdds
  <1>. HIDE DEF out, in
  <1>7. in \notin DOMAIN half
    BY <1>2, <1>3, <1>4
  <1>8. Summable(ledger')
    <2>. HIDE DEF half, n
    <2>. QED
      BY <1>1, <1>2, <1>6, <1>7, SumOfAdded, CreateAdds
  <1>9. ASSUME NEW u \in Users
        PROVE  Explains(ledger', u, wallets'[u])
    <2>1. wallets[u] \in Wallet /\ Explains(ledger, u, wallets[u])
      BY DEF TypeOK, BooksInv
    <2>. DEFINE w == IF u = g THEN Moved(wallets[u], -n) ELSE wallets[u]
    <2>2. Explains(half, u, w)
      BY <1>1, <1>2, <1>3, <1>5, <2>1, EntryExplained
    <2>3. w \in Wallet
      BY <2>1, <1>1, MovedFacts DEF TypeOK, Wallet
    <2>4. wallets'[u] = IF u = o THEN Moved(w, n) ELSE w
      BY <1>2 DEF TypeOK
    <2>. HIDE DEF half, n, w
    <2>5. Explains(Create(half, in, n), u, IF u = o THEN Moved(w, n) ELSE w)
      BY <1>1, <1>3, <1>6, <1>7, <2>2, <2>3, EntryExplained
    <2>. QED
      BY <1>2, <2>4, <2>5
  <1>. QED
    BY <1>8, <1>9 DEF BooksInv, Summable

\* One lemma per shape of step: every entry is booked with its wallet.
LEMMA NextBooksInv == IInv /\ BooksInv /\ [Next]_shards => BooksInv'
  <1>. SUFFICES ASSUME IInv, BooksInv, [Next]_shards
       PROVE  BooksInv'
    OBVIOUS
  <1>0. TypeOK
    BY DEF IInv
  <1>1. ASSUME NEW u \in Users, NEW d \in Days, Attendance(u, d)
        PROVE  BooksInv'
    BY <1>0, <1>1, ApplyBooked DEF Attendance, DAILY_REWARD
  <1>2. ASSUME NEW u \in Users, NEW a \in Ads, RewardedAd(u, a)
        PROVE  BooksInv'
    BY <1>0, <1>2, ApplyBooked DEF RewardedAd, REWARD_PER_AD
  <1>3. ASSUME NEW u \in Users, NEW t \in Txns, IapCredit(u, t)
        PROVE  BooksInv'
    <2>1. Amount[t] \in Int
      BY CatalogAssumption, LimitsAssumption
    <2>. QED
      BY <1>0, <1>3, <2>1, ApplyBooked DEF IapCredit
  <1>4. ASSUME NEW u \in Users, NEW o \in Orders, NEW n \in Checked,
               Debit(u, o, n) \/ CreditBack(u, o, n)
        PROVE  BooksInv'
    <2>1. n \in Int /\ -n \in Int
      BY LimitsAssumption DEF Checked
    <2>2. CASE Debit(u, o, n)
      BY <1>0, <2>1, <2>2, ApplyBooked DEF Debit
    <2>3. CASE CreditBack(u, o, n)
      BY <1>0, <2>1, <2>3, ApplyBooked DEF CreditBack
    <2>. QED
      BY <1>4, <2>2, <2>3
  <1>5. CASE UNCHANGED shards
    BY <1>5 DEF shards, BooksInv
  <1>6. ASSUME NEW u \in Users, NEW t \in Txns, NEW p \in Percentages, RefundIap(u, t, p)
        PROVE  BooksInv'
    <2>. DEFINE n == recovered_amount(wallets[u].balance,
                                      requested_amount(claims[t].amount, p))
                k == Key(u, "iap_refund", t)
    <2>1. \/ /\ k \notin DOMAIN ledger
             /\ ledger' = Create(ledger, k, -n)
             /\ wallets' = [wallets EXCEPT ![u] = Recovered(wallets[u], n)]
          \/ UNCHANGED <<ledger, wallets>>
      BY <1>6 DEF RefundIap
    <2>2. n \in Int /\ -n \in Int /\ -(-n) = n
      <3>1. claims[t].amount \in Nat \ {0} /\ wallets[u].balance \in Nat
        BY <1>0, <1>6, LimitsAssumption DEF RefundIap, TypeOK, Claim, Wallet
      <3>2. requested_amount(claims[t].amount, p) \in Nat
        BY <3>1, RequestedAmountInRange, PercentagesAssumption
      <3>. QED
        BY <3>1, <3>2 DEF recovered_amount, Lesser
    <2>3. k[1] = u /\ k[2] = "iap_refund"
      BY DEF Key
    <2>. HIDE DEF k, n
    <2>4. CASE UNCHANGED <<ledger, wallets>>
      BY <2>4 DEF BooksInv
    <2>5. CASE ~ UNCHANGED <<ledger, wallets>>
      BY <1>0, <2>1, <2>2, <2>3, <2>5, EntryBooked
    <2>. QED
      BY <2>4, <2>5
  <1>7. ASSUME NEW u \in Users, NEW t \in Txns, ReverseRefund(u, t)
        PROVE  BooksInv'
    <2>. DEFINE n == remaining(refunds[t])
                k == Key(u, "iap_refund_reversed", t)
    <2>1. /\ k \notin DOMAIN ledger
          /\ ledger' = Create(ledger, k, n)
          /\ wallets' = [wallets EXCEPT ![u] = Restored(wallets[u], n)]
      BY <1>7 DEF ReverseRefund
    <2>2. n \in Int
      BY <1>0, <1>7 DEF ReverseRefund, TypeOK, remaining, Greater, Refund
    <2>3. k[1] = u /\ k[2] = "iap_refund_reversed"
      BY DEF Key
    <2>. HIDE DEF k, n
    <2>. QED
      BY <1>0, <2>1, <2>2, <2>3, EntryBooked
  <1>8. ASSUME NEW g \in Users, NEW o \in Users, GuestClaim(g, o)
        PROVE  BooksInv'
    BY <1>0, <1>8, GuestClaimBooked
  <1>9. ASSUME NEW k \in Keys, Duplicate(k)
        PROVE  BooksInv'
    BY <1>5, <1>9 DEF Duplicate
  <1>. QED
    BY <1>1, <1>2, <1>3, <1>4, <1>5, <1>6, <1>7, <1>8, <1>9 DEF Next

\* The ledger is the truth that every wallet projects, for ledgers of any length: the
\* balance and each of the four lifetime totals is the sum of the entries that feed it.
THEOREM SpecLedgerExplainsWallets == Spec => []LedgerExplainsWallets
  <1>1. Init => BooksInv
    <2>0. Init => IsFiniteSet(DOMAIN ledger)
      BY FS_EmptySet DEF Init
    <2>. SUFFICES ASSUME Init, NEW u \in Users
         PROVE  Explains(ledger, u, wallets[u])
      BY <2>0 DEF BooksInv
    <2>1. DOMAIN ledger = {} /\ wallets[u] = EmptyWallet
      BY DEF Init
    <2>2. /\ AllOf(ledger, u) = {} /\ EarnedOf(ledger, u) = {} /\ SpentOf(ledger, u) = {}
          /\ RefundedOf(ledger, u) = {} /\ ReversedOf(ledger, u) = {}
      BY <2>1 DEF AllOf, EarnedOf, SpentOf, OrdinaryOf, RefundedOf, ReversedOf
    <2>. QED
      BY <2>1, <2>2, SumEmpty DEF Explains, EmptyWallet
  <1>. QED
    BY <1>1, NextBooksInv, BooksExplain, SpecIInv, PTL DEF Spec

----------------------------------------------------------------------------
(***************************************************************************)
(* The App Store side.                                                     *)
(***************************************************************************)

\* The amounts the handlers calculate with are numbers.
Numbers ==
    /\ DOMAIN wallets = Users
    /\ \A u \in Users : wallets[u].balance \in Int
    /\ \A t \in DOMAIN claims : claims[t].amount \in Nat \ {0}
    /\ \A t \in DOMAIN refunds :
          refunds[t] \in [userId: Users, requested: Int, recovered: Int, reversed: Int]

\* A refund that is on its way is one that Apple may have signed.
Signed ==
    \A n \in DOMAIN answers :
        n.txn \in Txns /\ n.kind = "REFUND" => n.revocation \in Revocations[n.txn]

\* Shards are taken back only from whom the purchase names, and only if that is who was paid.
RefundsHaveClaims ==
    \A t \in DOMAIN refunds :
        t \in DOMAIN claims /\ claims[t].userId = Token[t] /\ refunds[t].userId = Token[t]

AInv ==
    /\ Numbers
    /\ Signed
    /\ RefundsHaveClaims
    /\ AcknowledgedIsDone
    /\ RefusedIsFinal
    /\ MovedAsAppleSaid

\* What a request may do to the ledger's documents.
LedgerStep == Next \/ UNCHANGED shards

\* What no step takes back.
ClaimsKept == \A t \in DOMAIN claims : t \in DOMAIN claims' /\ claims'[t] = claims[t]

RefundsKept ==
    \A t \in DOMAIN refunds :
        /\ t \in DOMAIN refunds'
        /\ refunds'[t].requested = refunds[t].requested
        /\ remaining(refunds[t]) = 0 => remaining(refunds'[t]) = 0

\* A message has done what it asks for.
Done(n) ==
    /\ n.kind = "REFUND" /\ recoverable(n.revocation) => n.txn \in DOMAIN refunds
    /\ n.kind = "REFUND_REVERSED"
         => n.txn \in DOMAIN refunds /\ remaining(refunds[n.txn]) = 0

\* Apple writes a message about purchase t.
Sends(t, n) ==
    /\ Tell(t, n) /\ n.txn = t
    /\ n.kind = "REFUND" => n.revocation \in Revocations[t]

\* A refund takes what the message said.
AsSaid(t, n) ==
    refunds[t].requested =
        IF n.revocation.type = "REFUND_FULL" THEN claims[t].amount
        ELSE requested_amount(claims[t].amount, n.revocation.percentage)

----------------------------------------------------------------------------
(***************************************************************************)
(* The ledger's steps                                                      *)
(***************************************************************************)

\* A full refund asks for the whole purchase.
LEMMA FullIsAll ==
    ASSUME NEW n \in Nat \ {0}
    PROVE  requested_amount(n, MILLIUNITS_PER_UNIT) = n
  <1>1. (n * 100000) \div 100000 = n
    OBVIOUS
  <1>. QED
    BY <1>1 DEF requested_amount, Lesser, Greater, MILLIUNITS_PER_UNIT

\* A purchase is credited: the claim is new, no refund changes.
LEMMA CreditMoves ==
    ASSUME Numbers, NEW u \in Users, NEW t \in Txns, IapCredit(u, t)
    PROVE  Numbers' /\ ClaimsKept /\ refunds' = refunds
  <1>1. Amount[t] \in Nat \ {0}
    BY CatalogAssumption, LimitsAssumption
  <1>2. DOMAIN wallets' = Users /\ \A v \in Users : wallets'[v].balance \in Int
    BY <1>1 DEF Numbers, IapCredit, Apply, Moved
  <1>3. \A s \in DOMAIN claims' : claims'[s].amount \in Nat \ {0}
    BY <1>1 DEF Numbers, IapCredit, Create
  <1>4. ClaimsKept /\ refunds' = refunds
    BY DEF ClaimsKept, IapCredit, Create
  <1>. QED
    BY <1>2, <1>3, <1>4 DEF Numbers

\* A payment and a takeover change wallets only.
LEMMA DebitMoves ==
    ASSUME Numbers, NEW u \in Users, NEW o \in Orders, NEW n \in Checked,
           Debit(u, o, n)
    PROVE  Numbers' /\ ClaimsKept /\ refunds' = refunds
  <1>1. n \in Nat
    BY LimitsAssumption DEF Checked
  <1>2. DOMAIN wallets' = Users /\ \A v \in Users : wallets'[v].balance \in Int
    BY <1>1 DEF Numbers, Debit, Apply, Moved
  <1>. QED
    BY <1>2 DEF Numbers, ClaimsKept, Debit

LEMMA TakeoverMoves ==
    ASSUME Numbers, NEW g \in Users, NEW o \in Users, GuestClaim(g, o)
    PROVE  Numbers' /\ ClaimsKept /\ refunds' = refunds
  <1>1. DOMAIN wallets' = Users /\ \A v \in Users : wallets'[v].balance \in Int
    BY DEF Numbers, GuestClaim, Moved
  <1>. QED
    BY <1>1 DEF Numbers, ClaimsKept, GuestClaim

\* A refund adds its record, which asks for what its message says.
LEMMA RefundMoves ==
    ASSUME Numbers, NEW u \in Users, NEW t \in Txns, NEW p \in Percentages,
           RefundIap(u, t, p)
    PROVE  /\ Numbers' /\ claims' = claims /\ t \in DOMAIN claims
           /\ t \notin DOMAIN refunds /\ DOMAIN refunds' = DOMAIN refunds \cup {t}
           /\ \A s \in DOMAIN refunds : refunds'[s] = refunds[s]
           /\ refunds'[t].requested = requested_amount(claims[t].amount, p)
           /\ refunds'[t].reversed = 0 /\ refunds'[t].userId = u
  <1>. DEFINE requested == requested_amount(claims[t].amount, p)
              recovered == recovered_amount(wallets[u].balance, requested)
  <1>1. /\ claims' = claims /\ t \in DOMAIN claims
        /\ t \notin DOMAIN refunds /\ DOMAIN refunds' = DOMAIN refunds \cup {t}
        /\ \A s \in DOMAIN refunds : refunds'[s] = refunds[s]
        /\ refunds'[t] = [userId |-> u, requested |-> requested,
                          recovered |-> recovered, reversed |-> 0]
    BY DEF RefundIap, Create, requested_amount, requested_amount,
           recovered_amount, recovered_amount, Lesser, Lesser,
           Greater, Greater, MILLIUNITS_PER_UNIT, MILLIUNITS_PER_UNIT
  <1>2. requested \in Int
    <2>1. claims[t].amount \in Int /\ p \in Int
      <3>1. p \in Int
        BY PercentagesAssumption, UnitIsInt
      <3>. QED
        BY <1>1, <3>1 DEF Numbers
    <2>2. claims[t].amount * p \in Int
      BY <2>1
    <2>3. (claims[t].amount * p) \div MILLIUNITS_PER_UNIT \in Int
      BY <2>2, ShareIsInt
    <2>. QED
      BY <2>1, <2>3 DEF requested_amount, Lesser, Greater
  <1>3. recovered \in Int
    BY <1>2 DEF Numbers, recovered_amount, Lesser
  <1>4. DOMAIN wallets' = Users /\ \A v \in Users : wallets'[v].balance \in Int
    <2>1. wallets' = wallets \/ wallets' = [wallets EXCEPT ![u] = Recovered(@, recovered)]
      BY DEF RefundIap, requested_amount, requested_amount,
             recovered_amount, recovered_amount, Lesser, Lesser,
             Greater, Greater, MILLIUNITS_PER_UNIT, MILLIUNITS_PER_UNIT,
             Recovered, Recovered
    <2>. HIDE DEF recovered
    <2>. QED
      BY <1>3, <2>1 DEF Numbers, Recovered
  <1>. HIDE DEF requested, recovered
  <1>5. Numbers'
    BY <1>1, <1>2, <1>3, <1>4 DEF Numbers
  <1>. QED
    BY <1>1, <1>5 DEF requested

\* A reversal gives back all that is left to give.
LEMMA ReversalMoves ==
    ASSUME Numbers, NEW u \in Users, NEW t \in Txns, ReverseRefund(u, t)
    PROVE  /\ Numbers' /\ claims' = claims
           /\ t \in DOMAIN refunds /\ DOMAIN refunds' = DOMAIN refunds
           /\ \A s \in DOMAIN refunds : s # t => refunds'[s] = refunds[s]
           /\ refunds'[t].requested = refunds[t].requested
           /\ refunds'[t].userId = refunds[t].userId
           /\ remaining(refunds'[t]) = 0
  <1>. DEFINE restorable == remaining(refunds[t])
  <1>1. restorable \in Int
    BY DEF Numbers, remaining, Greater, ReverseRefund
  <1>2. /\ claims' = claims /\ t \in DOMAIN refunds
        /\ refunds' = [refunds EXCEPT ![t].reversed = @ + restorable]
        /\ wallets' = [wallets EXCEPT ![u] = Restored(@, restorable)]
    BY DEF ReverseRefund, remaining, remaining, Greater, Greater,
           Restored, Restored
  <1>3. remaining(refunds'[t]) = 0
    <2>1. /\ refunds'[t].recovered = refunds[t].recovered
          /\ refunds'[t].reversed = refunds[t].reversed + restorable
          /\ refunds[t].recovered \in Int /\ refunds[t].reversed \in Int
      BY <1>2 DEF Numbers
    <2>. QED
      BY <2>1 DEF remaining, Greater
  <1>. HIDE DEF restorable
  <1>4. DOMAIN wallets' = Users /\ \A v \in Users : wallets'[v].balance \in Int
    BY <1>1, <1>2 DEF Numbers, Restored
  <1>5. \A s \in DOMAIN refunds' :
          refunds'[s] \in [userId: Users, requested: Int, recovered: Int, reversed: Int]
    BY <1>1, <1>2 DEF Numbers
  <1>6. refunds'[t].requested = refunds[t].requested /\ refunds'[t].userId = refunds[t].userId
    BY <1>2 DEF Numbers
  <1>. QED
    BY <1>2, <1>3, <1>4, <1>5, <1>6 DEF Numbers

----------------------------------------------------------------------------
(***************************************************************************)
(* One message                                                             *)
(***************************************************************************)

\* What a message about a purchase of ours may do, whether its answer is heard or not.
Routed(n, answer) ==
    /\ LedgerStep
    /\ Numbers' /\ RefundsHaveClaims' /\ ClaimsKept /\ RefundsKept
    /\ \A t \in DOMAIN refunds' :
          \/ /\ t \in DOMAIN refunds
             /\ refunds'[t].reversed > 0 =>
                   refunds[t].reversed > 0 \/ (n.kind = "REFUND_REVERSED" /\ n.txn = t)
          \/ /\ n.kind = "REFUND" /\ n.txn = t
             /\ AsSaid(t, n)' /\ ~(refunds'[t].reversed > 0)
    /\ n.txn \in Txns /\ Token[n.txn] # NoUser /\ answer = "acknowledged" => Done(n)'
    /\ answer = "invalid" => Refused(n)'

\* A message that moves nothing says "acknowledged" only of what is done, and "invalid" only
\* of what cannot be.
LEMMA NothingMoves ==
    ASSUME AInv, NEW n, NEW answer, UNCHANGED shards,
           n.txn \in Txns /\ Token[n.txn] # NoUser /\ answer = "acknowledged" => Done(n),
           answer = "invalid" => Refused(n)
    PROVE  Routed(n, answer)
  <1>1. UNCHANGED <<wallets, claims, refunds>>
    BY DEF shards
  <1>2. Numbers' /\ RefundsHaveClaims' /\ ClaimsKept /\ RefundsKept
    BY <1>1 DEF AInv, Numbers, RefundsHaveClaims, ClaimsKept, RefundsKept
  <1>3. Done(n) => Done(n)'
    BY <1>1 DEF Done, recoverable
  <1>4. LedgerStep
    BY DEF LedgerStep
  <1>5. \A t \in DOMAIN refunds' :
          /\ t \in DOMAIN refunds
          /\ refunds'[t].reversed > 0 => refunds[t].reversed > 0
    BY <1>1
  <1>6. n.txn \in Txns /\ Token[n.txn] # NoUser /\ answer = "acknowledged" => Done(n)'
    BY <1>3
  <1>7. Refused(n) => Refused(n)'
    BY <1>1 DEF Refused, recoverable, usable, percentage
  <1>. QED
    BY <1>2, <1>4, <1>5, <1>6, <1>7 DEF Routed, Done, AsSaid

\* What is answered 400 to a refund.
LEMMA InvalidRefund ==
    ASSUME AInv, NEW n, n.kind = "REFUND",
           NEW answer, handle_refund(n, answer), answer = "invalid"
    PROVE  Refused(n)
  <1>. answer # "acknowledged" /\ answer # "skipped"
    OBVIOUS
  <1>1. /\ recoverable(n.revocation) /\ n.txn \in DOMAIN claims
        /\ claims[n.txn].userId # Token[n.txn] \/ ~usable(n.revocation)
    BY Zenon DEF handle_refund, unknown_purchase, Ends
  <1>2. claims[n.txn].userId # Token[n.txn] => n.txn \notin DOMAIN refunds
    BY DEF AInv, RefundsHaveClaims
  <1>. QED
    BY <1>1, <1>2 DEF Refused

LEMMA RefundRouted ==
    ASSUME AInv, NEW n \in DOMAIN answers, n.txn \in Ours, n.kind = "REFUND",
           NEW answer, handle_refund(n, answer)
    PROVE  Routed(n, answer)
  <1>1. n.txn \in Txns
    BY AppStoreAssumption
  <1>. DEFINE t == n.txn
              p == percentage(n.revocation)
  <1>2. CASE UNCHANGED shards
    <2>1. Token[t] # NoUser /\ answer = "acknowledged" => Done(n)
      <3>1. AcknowledgedIsDone
        BY DEF AInv
      <3>. QED
        BY <1>2 DEF handle_refund, unknown_purchase, Ends, Done, RefundIap, shards,
                    Create
    <2>2. answer = "invalid" => Refused(n)
      BY <1>2, InvalidRefund
    <2>. QED
      BY <1>2, <2>1, <2>2, NothingMoves
  <1>3. CASE recoverable(n.revocation) /\ usable(n.revocation) /\ Token[t] # NoUser
             /\ RefundIap(Token[t], t, p)
             /\ claims[t].userId = Token[t] /\ answer = "acknowledged"
    <2>1. Token[t] \in Users
      BY <1>1, <1>3, AppStoreAssumption
    <2>2. p \in Percentages
      BY <1>1, <1>3, RevocationsAssumption DEF AInv, Signed
    <2>3. Numbers
      BY DEF AInv
    <2>4. /\ Numbers' /\ claims' = claims /\ t \in DOMAIN claims
          /\ t \notin DOMAIN refunds /\ DOMAIN refunds' = DOMAIN refunds \cup {t}
          /\ \A s \in DOMAIN refunds : refunds'[s] = refunds[s]
          /\ refunds'[t].requested = requested_amount(claims[t].amount, p)
          /\ refunds'[t].reversed = 0 /\ refunds'[t].userId = Token[t]
      BY <1>1, <1>3, <2>1, <2>2, <2>3, RefundMoves
    <2>5. AsSaid(t, n)'
      <3>1. claims[t].amount \in Nat \ {0}
        BY <2>3, <2>4 DEF Numbers
      <3>. QED
        BY <2>4, <3>1, FullIsAll DEF AsSaid, percentage
    <2>6. LedgerStep
      BY <1>1, <1>3, <2>1, <2>2 DEF LedgerStep, Next
    <2>7. Done(n)'
      BY <2>4 DEF Done
    <2>8. RefundsHaveClaims' /\ ClaimsKept /\ RefundsKept
      BY <1>3, <2>4 DEF AInv, RefundsHaveClaims, ClaimsKept, RefundsKept
    <2>. HIDE DEF p
    <2>. QED
      BY <1>3, <2>4, <2>5, <2>6, <2>7, <2>8 DEF Routed, Done, AsSaid
  <1>. QED
    BY <1>2, <1>3 DEF handle_refund, unknown_purchase, Ends

LEMMA ReversalRouted ==
    ASSUME AInv, NEW n \in DOMAIN answers, n.txn \in Ours, n.kind = "REFUND_REVERSED",
           NEW answer, handle_reversal(n, answer)
    PROVE  Routed(n, answer)
  <1>1. n.txn \in Txns
    BY AppStoreAssumption
  <1>. DEFINE t == n.txn
  <1>2. CASE /\ UNCHANGED shards /\ answer # "invalid"
             /\ Token[t] # NoUser /\ answer = "acknowledged" => Done(n)
    BY <1>2, NothingMoves
  <1>4. ~(t \in DOMAIN refunds /\ refunds[t].userId # Token[t])
    BY DEF AInv, RefundsHaveClaims
  <1>3. CASE Token[t] # NoUser /\ ReverseRefund(Token[t], t)
    <2>1. Token[t] \in Users
      BY <1>1, <1>3, AppStoreAssumption
    <2>2. /\ Numbers' /\ claims' = claims
          /\ t \in DOMAIN refunds /\ DOMAIN refunds' = DOMAIN refunds
          /\ \A s \in DOMAIN refunds : s # t => refunds'[s] = refunds[s]
          /\ refunds'[t].requested = refunds[t].requested
          /\ refunds'[t].userId = refunds[t].userId
          /\ remaining(refunds'[t]) = 0
      BY <1>1, <1>3, <2>1, ReversalMoves DEF AInv
    <2>3. LedgerStep
      BY <1>1, <1>3, <2>1 DEF LedgerStep, Next
    <2>4. Done(n)'
      BY <2>2 DEF Done
    <2>5. RefundsHaveClaims' /\ ClaimsKept /\ RefundsKept
      BY <2>2 DEF AInv, RefundsHaveClaims, ClaimsKept, RefundsKept
    <2>6. answer # "invalid"
      BY <1>3, <2>2, <1>4 DEF handle_reversal, RefundNotYetProcessed, Ends
    <2>. QED
      BY <2>2, <2>3, <2>4, <2>5, <2>6 DEF Routed, Done, AsSaid
  <1>. QED
    BY <1>2, <1>3, <1>4 DEF handle_reversal, RefundNotYetProcessed, Ends, Done

LEMMA RouteStep ==
    ASSUME AInv, NEW n \in DOMAIN answers, NEW answer, route(n, answer)
    PROVE  Routed(n, answer)
  <1>1. CASE n.txn \in Ours /\ n.kind = "REFUND" /\ handle_refund(n, answer)
    BY <1>1, RefundRouted
  <1>2. CASE n.txn \in Ours /\ n.kind = "REFUND_REVERSED" /\ handle_reversal(n, answer)
    BY <1>2, ReversalRouted
  <1>3. CASE /\ UNCHANGED shards /\ (n.txn = NoTxn \/ answer # "acknowledged")
             /\ answer = "invalid" => n.txn \notin Ours
    BY <1>3, AppStoreAssumption, NothingMoves DEF Refused
  <1>. QED
    BY <1>1, <1>2, <1>3 DEF route, Ends

----------------------------------------------------------------------------
(***************************************************************************)
(* Steps                                                                   *)
(***************************************************************************)

\* No document is there at first and no message about a purchase was sent.
LEMMA InitAInv == AppStoreInit => AInv
  <1>. SUFFICES ASSUME AppStoreInit
       PROVE  AInv
    OBVIOUS
  <1>1. Numbers /\ RefundsHaveClaims /\ MovedAsAppleSaid
    BY DEF AppStoreInit, Init, EmptyWallet, Numbers, RefundsHaveClaims, MovedAsAppleSaid
  <1>2. \A n \in DOMAIN answers : n.txn = NoTxn /\ answers[n] = "deferred"
    BY DEF AppStoreInit, Notice
  <1>. QED
    BY <1>1, <1>2, AppStoreAssumption DEF AInv, Signed, AcknowledgedIsDone, RefusedIsFinal

\* What is done stays done, what is refused stays refused and what was told stays told, as
\* long as nothing is taken back.
LEMMA Stays ==
    ASSUME AInv, ClaimsKept, RefundsKept, RefundsHaveClaims'
    PROVE  /\ \A n : Refused(n) => Refused(n)'
           /\ \A n : Done(n) => Done(n)'
           /\ \A n : \A t \in DOMAIN refunds : AsSaid(t, n) => AsSaid(t, n)'
  <1>1. \A n : Done(n) => Done(n)'
    BY DEF Done, RefundsKept
  <1>2. \A t \in DOMAIN refunds : t \in DOMAIN claims
    BY DEF AInv, RefundsHaveClaims
  <1>3. ASSUME NEW n, Refused(n)
        PROVE  Refused(n)'
    <2>1. CASE n.txn \in DOMAIN claims \ DOMAIN refunds /\ claims[n.txn].userId # Token[n.txn]
      BY <2>1 DEF ClaimsKept, RefundsHaveClaims, Refused
    <2>2. CASE n.kind = "REFUND" /\ recoverable(n.revocation) /\ ~usable(n.revocation)
      BY <2>2 DEF Refused, recoverable, usable, percentage
    <2>. QED
      BY <1>3, <2>1, <2>2 DEF Refused
  <1>. QED
    BY <1>1, <1>2, <1>3 DEF AsSaid, RefundsKept, ClaimsKept

\* The devices' requests never touch a refund, and no message is in them.
LEMMA DeviceStep ==
    ASSUME AInv, Device
    PROVE  LedgerStep /\ AInv'
  <1>. DEFINE Quiet == LedgerStep /\ Numbers' /\ ClaimsKept /\ refunds' = refunds
  <1>1. ASSUME UNCHANGED shards
        PROVE  Quiet
    BY <1>1 DEF AInv, LedgerStep, Numbers, ClaimsKept, shards
  <1>2. ASSUME NEW u \in Users, NEW t \in Txns, Submit(u, t) \/ Credit(u, t) \/ CreditFails(u, t)
        PROVE  Quiet
    <2>1. CASE IapCredit(u, t)
      BY <2>1, CreditMoves DEF AInv, LedgerStep, Next
    <2>2. CASE UNCHANGED shards
      BY <1>1, <2>2
    <2>. QED
      BY <1>2, <2>1, <2>2 DEF Submit, Credit, CreditFails, shards
  <1>3. ASSUME NEW u \in Users, NEW o \in Orders, NEW n \in Checked, Spend(u, o, n)
        PROVE  Quiet
    <2>1. Debit(u, o, n)
      BY <1>3 DEF Spend
    <2>2. Next
      BY <2>1 DEF Next, Checked
    <2>. QED
      BY <2>1, <2>2, DebitMoves DEF AInv, LedgerStep
  <1>4. ASSUME NEW g \in Guests, NEW o \in Users, MoveWallet(g, o) \/ mark_guest_claimed(g, o)
        PROVE  Quiet
    <2>1. CASE GuestClaim(g, o)
      <3>1. g \in Users
        BY AppStoreAssumption
      <3>. QED
        BY <2>1, <3>1, TakeoverMoves DEF AInv, LedgerStep, Next
    <2>2. CASE UNCHANGED shards
      BY <1>1, <2>2
    <2>. QED
      BY <1>4, <2>1, <2>2 DEF MoveWallet, mark_guest_claimed, shards
  <1>5. Quiet
    BY <1>2, <1>3, <1>4 DEF Device
  <1>6. answers' = answers
    BY DEF Device, Submit, Credit, CreditFails, Spend, MoveWallet, mark_guest_claimed, people
  <1>7. RefundsKept
    BY <1>5 DEF RefundsKept
  <1>8. Signed' /\ RefundsHaveClaims'
    BY <1>5, <1>6 DEF AInv, Signed, RefundsHaveClaims, ClaimsKept
  <1>9. AcknowledgedIsDone'
    BY <1>5, <1>6 DEF AInv, AcknowledgedIsDone
  <1>11. RefusedIsFinal'
    BY <1>5, <1>6, <1>7, <1>8, Stays DEF AInv, RefusedIsFinal
  <1>10. MovedAsAppleSaid'
    <2>1. \A t \in DOMAIN refunds : claims'[t] = claims[t]
      BY <1>5 DEF AInv, RefundsHaveClaims, ClaimsKept
    <2>. QED
      BY <1>5, <1>6, <2>1 DEF AInv, MovedAsAppleSaid, Told
  <1>. QED
    BY <1>5, <1>8, <1>9, <1>10, <1>11 DEF AInv

\* Apple writes a message that nobody has answered yet.
LEMMA AppleStep ==
    ASSUME AInv, Apple
    PROVE  LedgerStep /\ AInv'
  <1>1. PICK t \in Txns : \E n : Sends(t, n)
    <2>1. ASSUME NEW t \in Txns, NEW r \in Revocations[t], AppleRefunds(t, r)
          PROVE  \E n : Sends(t, n)
      BY <2>1 DEF AppleRefunds, Sends
    <2>2. ASSUME NEW t \in Txns, AppleReverses(t)
          PROVE  \E n : Sends(t, n)
      BY <2>2 DEF AppleReverses, Sends
    <2>. QED
      BY <2>1, <2>2 DEF Apple
  <1>. PICK n : Sends(t, n)
    BY <1>1
  <1>2. /\ UNCHANGED <<wallets, claims, refunds, shards>>
        /\ DOMAIN answers' = DOMAIN answers \cup {n}
        /\ answers'[n] = "deferred"
        /\ \A m \in DOMAIN answers : m # n => answers'[m] = answers[m]
    BY DEF Sends, Tell, Create, shards
  <1>3. Numbers' /\ RefundsHaveClaims'
    BY <1>2 DEF AInv, Numbers, RefundsHaveClaims
  <1>4. Signed'
    BY <1>2 DEF Sends, AInv, Signed
  <1>5. AcknowledgedIsDone'
    BY <1>2 DEF AInv, AcknowledgedIsDone
  <1>7. RefusedIsFinal'
    BY <1>2 DEF AInv, RefusedIsFinal, Refused, recoverable, usable, percentage
  <1>6. MovedAsAppleSaid'
    <2>1. \A t1 : \A k : Told(t1, k) \subseteq Told(t1, k)'
      BY <1>2 DEF Told
    <2>. QED
      BY <1>2, <2>1 DEF AInv, MovedAsAppleSaid
  <1>. QED
    BY <1>2, <1>3, <1>4, <1>5, <1>6, <1>7 DEF AInv, LedgerStep

\* A message is handled, and Apple hears the answer, hears another or hears none.
LEMMA ServerStep ==
    ASSUME AInv, Server
    PROVE  LedgerStep /\ AInv'
  <1>1. PICK n \in DOMAIN answers :
           receive_notification(n) \/ receive_unheard(n) \/ receive_unavailable(n)
    BY DEF Server
  <1>2. PICK answer :
           /\ Routed(n, answer)
           /\ \/ answers' = answers
              \/ answers' = [answers EXCEPT ![n] = IF @ \in OK THEN @ ELSE answer]
    <2>1. CASE receive_notification(n) \/ receive_unheard(n)
      BY <1>1, <2>1, RouteStep DEF receive_notification, receive_unheard, Hears
    <2>2. CASE receive_unavailable(n)
      <3>1. Routed(n, "deferred")
        BY <2>2, NothingMoves DEF receive_unavailable
      <3>. QED
        BY <2>2, <3>1 DEF receive_unavailable, Hears
    <2>. QED
      BY <1>1, <2>1, <2>2
  <1>3. /\ DOMAIN answers' = DOMAIN answers
        /\ \A m \in DOMAIN answers : answers'[m] = answers[m] \/ (m = n /\ answers'[m] = answer)
    BY <1>2
  <1>4. LedgerStep /\ Numbers' /\ RefundsHaveClaims' /\ ClaimsKept /\ RefundsKept
    BY <1>2 DEF Routed
  <1>5. Signed'
    BY <1>3 DEF AInv, Signed
  <1>6. AcknowledgedIsDone'
    <2>. SUFFICES ASSUME NEW m \in DOMAIN answers, m.txn \in Txns, Token[m.txn] # NoUser,
                         answers'[m] = "acknowledged"
         PROVE  Done(m)'
      BY <1>3 DEF AcknowledgedIsDone, Done
    <2>1. CASE answers[m] = "acknowledged"
      <3>1. Done(m)
        BY <2>1 DEF AInv, AcknowledgedIsDone, Done
      <3>. QED
        BY <1>4, <3>1, Stays
    <2>2. CASE m = n /\ answer = "acknowledged"
      BY <1>2, <2>2 DEF Routed
    <2>. QED
      BY <1>3, <2>1, <2>2
  <1>8. RefusedIsFinal'
    <2>. SUFFICES ASSUME NEW m \in DOMAIN answers, answers'[m] = "invalid"
         PROVE  Refused(m)'
      BY <1>3 DEF RefusedIsFinal
    <2>1. CASE answers[m] = "invalid"
      <3>1. Refused(m)
        BY <2>1 DEF AInv, RefusedIsFinal
      <3>. QED
        BY <1>4, <3>1, Stays
    <2>2. CASE m = n /\ answer = "invalid"
      BY <1>2, <2>2 DEF Routed
    <2>. QED
      BY <1>3, <2>1, <2>2
  <1>7. MovedAsAppleSaid'
    <2>1. \A t : \A k : Told(t, k)' = Told(t, k)
      BY <1>3 DEF Told
    <2>. SUFFICES ASSUME NEW t \in DOMAIN refunds'
         PROVE  /\ \E m \in Told(t, "REFUND") : AsSaid(t, m)'
                /\ refunds'[t].reversed > 0 => Told(t, "REFUND_REVERSED") # {}
      BY <2>1 DEF MovedAsAppleSaid, AsSaid
    <2>2. CASE /\ t \in DOMAIN refunds
               /\ refunds'[t].reversed > 0 =>
                     refunds[t].reversed > 0 \/ (n.kind = "REFUND_REVERSED" /\ n.txn = t)
      <3>1. \E m \in Told(t, "REFUND") : AsSaid(t, m)
        BY <2>2 DEF AInv, MovedAsAppleSaid, AsSaid
      <3>2. \E m \in Told(t, "REFUND") : AsSaid(t, m)'
        BY <1>4, <2>2, <3>1, Stays
      <3>3. refunds'[t].reversed > 0 => Told(t, "REFUND_REVERSED") # {}
        BY <1>1, <2>2 DEF AInv, MovedAsAppleSaid, Told
      <3>. QED
        BY <3>2, <3>3
    <2>3. CASE /\ n.kind = "REFUND" /\ n.txn = t
               /\ AsSaid(t, n)' /\ ~(refunds'[t].reversed > 0)
      BY <1>1, <2>3 DEF Told
    <2>. QED
      BY <1>2, <2>2, <2>3 DEF Routed, AsSaid
  <1>. QED
    BY <1>4, <1>5, <1>6, <1>7, <1>8 DEF AInv

LEMMA NextAInv ==
    ASSUME AInv, [AppStoreNext]_appStoreVars
    PROVE  AInv' /\ [Next]_shards
  <1>1. CASE AppStoreNext
    <2>1. LedgerStep /\ AInv'
      BY <1>1, DeviceStep, AppleStep, ServerStep DEF AppStoreNext
    <2>. QED
      BY <2>1 DEF LedgerStep, shards
  <1>2. CASE UNCHANGED appStoreVars
    BY <1>2 DEF appStoreVars, shards, AInv, Numbers, Signed, RefundsHaveClaims,
                AcknowledgedIsDone, RefusedIsFinal, Refused, MovedAsAppleSaid, Told
  <1>. QED
    BY <1>1, <1>2

----------------------------------------------------------------------------
(***************************************************************************)
(* Theorems                                                                *)
(***************************************************************************)

\* The inductive invariant holds in every reachable state.
THEOREM SpecAInv == AppStoreSpec => []AInv
  <1>1. AInv /\ [AppStoreNext]_appStoreVars => AInv'
    BY NextAInv
  <1>. QED
    BY <1>1, InitAInv, PTL DEF AppStoreSpec

\* The handlers were written with the ledger's steps, so that what holds of those holds here.
LEMMA AppStoreIsLedger == AppStoreSpec => Spec
  <1>1. AppStoreInit => Init
    BY DEF AppStoreInit
  <1>2. AInv /\ [AppStoreNext]_appStoreVars => [Next]_shards
    BY NextAInv
  <1>. QED
    BY <1>1, <1>2, SpecAInv, PTL DEF AppStoreSpec, Spec

\* A refund or a reversal that was answered 200, and so never comes again, has been done,
\* whatever came before and after it.
THEOREM SpecAcknowledgedIsDone == AppStoreSpec => []AcknowledgedIsDone
  <1>1. AInv => AcknowledgedIsDone
    BY DEF AInv
  <1>. QED
    BY <1>1, SpecAInv, PTL

\* A message that was answered 400 could not be followed later either: an early one is never
\* told that it is refused for good.
THEOREM SpecRefusedIsFinal == AppStoreSpec => []RefusedIsFinal
  <1>1. AInv => RefusedIsFinal
    BY DEF AInv
  <1>. QED
    BY <1>1, SpecAInv, PTL

\* No refund asks for more or less than one of Apple's messages about that purchase, and
\* nothing is given back that Apple did not reverse.
THEOREM SpecMovedAsAppleSaid == AppStoreSpec => []MovedAsAppleSaid
  <1>1. AInv => MovedAsAppleSaid
    BY DEF AInv
  <1>. QED
    BY <1>1, SpecAInv, PTL
----------------------------------------------------------------------------
(***************************************************************************)
(* The types of the App Store side; those of the ledger hold as its steps  *)
(* are the only ones that move shards.                                     *)
(***************************************************************************)

PeopleTyped ==
    /\ claimedBy \in [Guests -> (Users \ Guests) \cup {NoUser}]
    /\ signIns \subseteq Guests \X (Users \ Guests)
    /\ submissions \subseteq Users \X (Ours \cap Sold)

\* Apple's messages on a purchase are a sequence, so that the next one has a turn.
MessagesTyped ==
    /\ apple \in [Txns -> Seq(Message)]
    /\ \A t \in Txns : \A i \in DOMAIN apple[t] : apple[t][i] \in DOMAIN answers
    /\ DOMAIN answers \subseteq Message
    /\ \A n \in DOMAIN answers : answers[n] \in Answers

LEMMA PeopleStep == PeopleTyped /\ [AppStoreNext]_appStoreVars => PeopleTyped'
  <1>. SUFFICES ASSUME PeopleTyped, [AppStoreNext]_appStoreVars
       PROVE  PeopleTyped'
    OBVIOUS
  <1>1. ASSUME NEW u \in Users, NEW t \in Txns, Submit(u, t) \/ Credit(u, t) \/ CreditFails(u, t)
        PROVE  PeopleTyped'
    <2>1. UNCHANGED <<claimedBy, signIns>>
      BY <1>1 DEF Submit, Credit, CreditFails
    <2>2. submissions' \subseteq Users \X (Ours \cap Sold)
      BY <1>1 DEF PeopleTyped, Submit, Credit, CreditFails
    <2>. QED
      BY <2>1, <2>2 DEF PeopleTyped
  <1>2. ASSUME NEW g \in Guests, NEW o \in Users, MoveWallet(g, o) \/ mark_guest_claimed(g, o)
        PROVE  PeopleTyped'
    <2>1. submissions' = submissions
      BY <1>2 DEF MoveWallet, mark_guest_claimed
    <2>2. signIns' \subseteq Guests \X (Users \ Guests)
      BY <1>2 DEF PeopleTyped, MoveWallet, mark_guest_claimed
    <2>3. claimedBy' \in [Guests -> (Users \ Guests) \cup {NoUser}]
      BY <1>2 DEF PeopleTyped, MoveWallet, mark_guest_claimed
    <2>. QED
      BY <2>1, <2>2, <2>3 DEF PeopleTyped
  <1>3. CASE UNCHANGED people
    BY <1>3 DEF people, PeopleTyped
  <1>. QED
    BY <1>1, <1>2, <1>3 DEF AppStoreNext, appStoreVars, Device, Spend, Apple, AppleRefunds,
       AppleReverses, Tell, Server, receive_notification, receive_unheard, receive_unavailable

\* Refunds and reversals take turns.
LEMMA TurnsAlternate ==
    ASSUME NEW k \in Nat
    PROVE  (k % 2 = 1 /\ (k + 1) % 2 = 0) \/ (~(k % 2 = 1) /\ (k + 1) % 2 = 1)
  <1>1. CASE k % 2 = 1
    BY <1>1
  <1>2. CASE ~(k % 2 = 1)
    BY <1>2
  <1>. QED
    BY <1>1, <1>2

\* The message of Apple's next turn is one of those it may send about that purchase.
LEMMA NextMessage ==
    ASSUME MessagesTyped, NEW t \in Txns
    PROVE  /\ \A r \in Revocations[t] : AppleRefunds(t, r) => \E n \in Message : Tell(t, n)
           /\ AppleReverses(t) => \E n \in Message : Tell(t, n)
  <1>. PICK k : k = Len(apple[t])
    OBVIOUS
  <1>1. k \in Nat /\ Turns[t] \in Nat
    BY AppStoreAssumption DEF MessagesTyped
  <1>2. k < Turns[t] => k + 1 \in 1..Turns[t]
    BY <1>1
  <1>3. /\ ~(k % 2 = 1) => (k + 1) % 2 = 1
        /\ k % 2 = 1 => (k + 1) % 2 = 0
    BY <1>1, TurnsAlternate
  <1>4. ASSUME NEW r \in Revocations[t], AppleRefunds(t, r)
        PROVE  \E n \in Message : Tell(t, n)
    <2>. PICK n : n = [kind |-> "REFUND", txn |-> t, turn |-> k + 1, revocation |-> r]
      OBVIOUS
    <2>1. n \in RefundsOf(t)
      BY <1>2, <1>3, <1>4 DEF RefundsOf, AppleRefunds, refunded
    <2>2. Tell(t, n)
      BY <1>4 DEF AppleRefunds
    <2>. QED
      BY <2>1, <2>2 DEF Message
  <1>5. ASSUME AppleReverses(t)
        PROVE  \E n \in Message : Tell(t, n)
    <2>. PICK n : n = [kind |-> "REFUND_REVERSED", txn |-> t, turn |-> k + 1,
                       revocation |-> NoRevocation]
      OBVIOUS
    <2>1. n \in ReversalsOf(t)
      BY <1>2, <1>3, <1>5 DEF ReversalsOf, AppleReverses, refunded
    <2>2. Tell(t, n)
      BY <1>5 DEF AppleReverses
    <2>. QED
      BY <2>1, <2>2 DEF Message
  <1>. QED
    BY <1>4, <1>5

LEMMA MessagesStep == MessagesTyped /\ [AppStoreNext]_appStoreVars => MessagesTyped'
  <1>. SUFFICES ASSUME MessagesTyped, [AppStoreNext]_appStoreVars
       PROVE  MessagesTyped'
    OBVIOUS
  <1>1. ASSUME NEW t \in Txns, NEW n \in Message, Tell(t, n)
        PROVE  MessagesTyped'
    <2>1. apple' = [apple EXCEPT ![t] = Append(@, n)]
      BY <1>1 DEF Tell
    <2>2. /\ DOMAIN answers' = DOMAIN answers \cup {n}
          /\ \A m \in DOMAIN answers' : answers'[m] \in Answers
      BY <1>1 DEF Tell, Create, MessagesTyped, Answers
    <2>3. apple' \in [Txns -> Seq(Message)]
      BY <2>1 DEF MessagesTyped
    <2>4. ASSUME NEW s \in Txns, NEW i \in DOMAIN apple'[s]
          PROVE  apple'[s][i] \in DOMAIN answers'
      <3>1. CASE s = t
        <4>1. apple'[s] = Append(apple[t], n) /\ apple[t] \in Seq(Message)
          BY <2>1, <3>1 DEF MessagesTyped
        <4>2. i \in 1..Len(apple[t]) => i \in DOMAIN apple[t] /\ apple'[s][i] = apple[t][i]
          BY <4>1
        <4>3. i \in 1..Len(apple[t]) \/ apple'[s][i] = n
          BY <4>1
        <4>. QED
          BY <2>2, <4>2, <4>3 DEF MessagesTyped
      <3>2. CASE s # t
        BY <2>1, <2>2, <3>2 DEF MessagesTyped
      <3>. QED
        BY <3>1, <3>2
    <2>. QED
      BY <2>2, <2>3, <2>4 DEF MessagesTyped
  <1>2. CASE Apple
    BY <1>1, <1>2, NextMessage DEF Apple
  <1>3. ASSUME NEW n \in DOMAIN answers, NEW answer \in Answers, Hears(n, answer),
               UNCHANGED apple
        PROVE  MessagesTyped'
    BY <1>3 DEF Hears, MessagesTyped
  <1>4. CASE UNCHANGED <<apple, answers>>
    BY <1>4 DEF MessagesTyped
  <1>5. CASE Server
    <2>1. "deferred" \in Answers
      BY DEF Answers
    <2>. QED
      BY <1>3, <1>4, <1>5, <2>1 DEF Server, receive_notification, receive_unheard,
         receive_unavailable
  <1>6. CASE Device
    BY <1>4, <1>6 DEF Device, Submit, Credit, CreditFails, Spend, MoveWallet,
       mark_guest_claimed
  <1>. QED
    BY <1>2, <1>4, <1>5, <1>6 DEF AppStoreNext, appStoreVars

\* Only guests are taken over, and only by accounts; submissions are of our own products; and
\* Apple hears answers to messages it has sent, each of which belongs to a turn of a purchase.
THEOREM SpecAppStoreTypeOK == AppStoreSpec => []AppStoreTypeOK
  <1>1. AppStoreInit => PeopleTyped /\ MessagesTyped
    <2>. SUFFICES ASSUME AppStoreInit
         PROVE  PeopleTyped /\ MessagesTyped
      OBVIOUS
    <2>1. PeopleTyped
      BY DEF AppStoreInit, PeopleTyped
    <2>2. apple = [t \in Txns |-> <<>>] /\ \A t \in Txns : DOMAIN apple[t] = {}
      BY DEF AppStoreInit
    <2>3. /\ DOMAIN answers \subseteq Message
          /\ \A n \in DOMAIN answers : answers[n] \in Answers
      BY DEF AppStoreInit, Message, Answers
    <2>. QED
      BY <2>1, <2>2, <2>3 DEF MessagesTyped
  <1>2. TypeOK /\ PeopleTyped /\ MessagesTyped => AppStoreTypeOK
    BY DEF PeopleTyped, MessagesTyped, AppStoreTypeOK
  <1>. QED
    BY <1>1, <1>2, PeopleStep, MessagesStep, AppStoreIsLedger, SpecTypeOK, PTL
       DEF AppStoreSpec


----------------------------------------------------------------------------
(***************************************************************************)
(* Rewarded ads.  A 200 stays true because what it was decided by is       *)
(* settled too: a context is never taken out of an ad nor put into one     *)
(* that was watched, an ad is paid to its viewer only, and the counter of  *)
(* a day that is used up is the number of ads paid, for good.              *)
(***************************************************************************)

Paid(a) == Key(Viewer[a], "rewarded_ad", a) \in DOMAIN ledger

\* The ad was not paid and its day is used up.
DayUsedUp(a) == ~Paid(a) /\ quotas[<<Viewer[a], RewardDay[a]>>] = DAILY_REWARD_LIMIT

\* An ad is paid to nobody but its viewer, here only with a context, and once watched.
PaidAsShown ==
    \A a \in Ads :
        /\ \A u \in Users : Key(u, "rewarded_ad", a) \in DOMAIN ledger => u = Viewer[a]
        /\ Paid(a) => a \in Elsewhere \/ (a \in Expected /\ contexts[a] # Absent)

\* Where a handler stands, and what it has found out about its ad by then.
Stands(h, l) ==
    /\ h.at # "idle" => h.ad \in DOMAIN signed
    /\ h.at \in {"context", "grant"} => h.ad \in Expected /\ contexts[h.ad] # Absent
    /\ l.at # "idle" => h.at = "key"

HandlersFit == \A r \in Threads : Stands(handlers[r], lookups[r])

\* What an answer says of its ad.
Fits(a, why) ==
    /\ why # "unsettled" => a \in DOMAIN signed
    /\ why \in {"granted", "duplicate"} => Paid(a)
    /\ why = "limit_reached" => DayUsedUp(a)
    /\ why = "unexpected" => a \notin Expected /\ ~Paid(a)
    /\ why = "missing_context" => contexts[a] = Absent /\ ~Paid(a)
    /\ why = "expired_context" => contexts[a] = CONTEXT_LIFETIME

StatusesFit == \A a \in Ads : Fits(a, statuses[a])

SignedHere == DOMAIN signed \cap Elsewhere = {}

AdsInv ==
    /\ AdsTypeOK
    /\ IInv
    /\ QuotaInv
    /\ PaidAsShown
    /\ HandlersFit
    /\ StatusesFit
    /\ SignedHere

\* An ad is paid once more by nobody, or by the one payment of the step.
Pays(b) ==
    /\ RewardedAd(Viewer[b], b)
    /\ b \in Elsewhere \/ (b \in Expected /\ contexts[b] # Absent)

\* What an ad's context may do while the ad is on its way.
ContextsKept ==
    \A a \in Ads :
        /\ contexts[a] # Absent => contexts'[a] # Absent
        /\ a \in DOMAIN signed /\ contexts[a] = Absent => contexts'[a] = Absent
        /\ contexts[a] = CONTEXT_LIFETIME => contexts'[a] = CONTEXT_LIFETIME

\* The ledger's step of a handler, and what it leaves as it was.
LEMMA LedgerPays ==
    ASSUME AdsInv, NEW b \in Ads, Pays(b), ContextsKept
    PROVE  /\ IInv' /\ QuotaInv' /\ PaidAsShown'
           /\ Paid(b)'
           /\ \A a \in Ads : Paid(a) => Paid(a)'
           /\ \A a \in Ads : Paid(a)' => Paid(a) \/ a = b
           /\ \A a \in Ads : DayUsedUp(a) => DayUsedUp(a)'
  <1>. PICK u \in Users : u = Viewer[b]
    BY RewardedAdsAssumption
  <1>1. RewardedAd(u, b)
    BY DEF Pays
  <1>2. Next
    BY <1>1 DEF Next
  <1>3. IInv' /\ QuotaInv'
    BY <1>2, NextIInv, NextQuotaInv DEF AdsInv
  <1>4. RewardDay \in [Ads -> Days] /\ Viewer \in [Ads -> Users]
    BY CatalogAssumption, RewardedAdsAssumption
  <1>5. /\ quotas[<<u, RewardDay[b]>>] < DAILY_REWARD_LIMIT
        /\ quotas' = [quotas EXCEPT ![<<u, RewardDay[b]>>] = @ + 1]
        /\ DOMAIN ledger' = DOMAIN ledger \cup {Key(u, "rewarded_ad", b)}
    BY <1>1 DEF RewardedAd, Apply, Create
  <1>6. \A v, a : Key(v, "rewarded_ad", a) \in DOMAIN ledger'
                     <=> Key(v, "rewarded_ad", a) \in DOMAIN ledger \/ (v = u /\ a = b)
    BY <1>5, KeyFacts
  <1>7. Paid(b)' /\ \A a \in Ads : (Paid(a) => Paid(a)') /\ (Paid(a)' => Paid(a) \/ a = b)
    BY <1>6 DEF Paid
  <1>8. PaidAsShown'
    <2>1. \A a \in Ads, v \in Users :
             Key(v, "rewarded_ad", a) \in DOMAIN ledger' => v = Viewer[a]
      BY <1>6 DEF AdsInv, PaidAsShown
    <2>2. \A a \in Ads : Paid(a)' => a \in Elsewhere \/ (a \in Expected /\ contexts'[a] # Absent)
      BY <1>7 DEF Pays, AdsInv, PaidAsShown, ContextsKept
    <2>. QED
      BY <2>1, <2>2 DEF PaidAsShown
  <1>9. ASSUME NEW a \in Ads, DayUsedUp(a)
        PROVE  DayUsedUp(a)'
    <2>1. quotas \in [Users \X Days -> 0..DAILY_REWARD_LIMIT]
      BY DEF AdsInv, IInv, TypeOK
    <2>2. <<Viewer[a], RewardDay[a]>> # <<u, RewardDay[b]>>
      BY <1>5, <1>9, LimitsAssumption DEF DayUsedUp
    <2>3. quotas'[<<Viewer[a], RewardDay[a]>>] = quotas[<<Viewer[a], RewardDay[a]>>]
      BY <1>4, <1>5, <2>1, <2>2
    <2>4. a # b
      BY <2>2
    <2>. QED
      BY <1>7, <1>9, <2>3, <2>4 DEF DayUsedUp
  <1>. QED
    BY <1>3, <1>7, <1>8, <1>9

\* No ledger's step, no change.
LEMMA LedgerStays ==
    ASSUME AdsInv, UNCHANGED shards, ContextsKept
    PROVE  /\ IInv' /\ QuotaInv' /\ PaidAsShown'
           /\ \A a \in Ads : Paid(a)' <=> Paid(a)
           /\ \A a \in Ads : DayUsedUp(a) => DayUsedUp(a)'
  <1>1. IInv' /\ QuotaInv'
    BY NextIInv, NextQuotaInv DEF AdsInv
  <1>2. ledger' = ledger /\ quotas' = quotas
    BY DEF shards
  <1>. QED
    BY <1>1, <1>2 DEF AdsInv, PaidAsShown, Paid, DayUsedUp, ContextsKept

\* A 200 that was true of an ad that was watched stays true: what pays an ad is another
\* process, or a handler that found its context.
LEMMA FitsStays ==
    ASSUME AdsInv, NEW a \in Ads, NEW why, Fits(a, why), DOMAIN signed \subseteq DOMAIN signed',
           ContextsKept, UNCHANGED shards \/ \E b \in Ads : Pays(b)
    PROVE  Fits(a, why)'
  <1>1. /\ Paid(a) => Paid(a)'
        /\ DayUsedUp(a) => DayUsedUp(a)'
        /\ Paid(a)' => Paid(a) \/ a \in Elsewhere \/ (a \in Expected /\ contexts[a] # Absent)
    <2>1. CASE UNCHANGED shards
      BY <2>1, LedgerStays
    <2>2. CASE \E b \in Ads : Pays(b)
      <3>. PICK b \in Ads : Pays(b)
        BY <2>2
      <3>. QED
        BY LedgerPays DEF Pays
    <2>. QED
      BY <2>1, <2>2
  <1>2. CASE why = "unsettled"
    BY <1>2 DEF Fits
  <1>3. CASE why # "unsettled"
    <2>1. a \in DOMAIN signed /\ a \notin Elsewhere
      BY <1>3 DEF Fits, AdsInv, SignedHere
    <2>. QED
      BY <1>1, <2>1 DEF Fits, ContextsKept
  <1>. QED
    BY <1>2, <1>3

LEMMA StatusesStay ==
    ASSUME AdsInv, UNCHANGED statuses, DOMAIN signed \subseteq DOMAIN signed',
           ContextsKept, UNCHANGED shards \/ \E b \in Ads : Pays(b)
    PROVE  StatusesFit'
  <1>1. ASSUME NEW a \in Ads
        PROVE  Fits(a, statuses[a])'
    <2>. PICK why : why = statuses[a]
      OBVIOUS
    <2>1. Fits(a, why)
      BY DEF AdsInv, StatusesFit
    <2>2. Fits(a, why)'
      BY <2>1, FitsStays
    <2>. QED
      BY <2>2 DEF Fits
  <1>. QED
    BY <1>1 DEF StatusesFit

\* An answer that is true of its ad, heard or not.
LEMMA AnswerFits ==
    ASSUME AdsInv, NEW r \in Threads, NEW why \in Settled \cup {"unsettled"}, Answer(r, why),
           handlers[r].at # "idle", NEW a, a = handlers[r].ad, Fits(a, why)',
           UNCHANGED shards \/ \E b \in Ads : Pays(b)
    PROVE  /\ StatusesFit'
           /\ statuses' \in [Ads -> Settled \cup {"unsettled"}]
           /\ handlers' = [handlers EXCEPT ![r] = NoCallback]
           /\ UNCHANGED <<contexts, signed, restarts>>
           /\ ContextsKept
  <1>1. /\ handlers' = [handlers EXCEPT ![r] = NoCallback]
        /\ UNCHANGED <<contexts, signed, restarts>>
    BY DEF Answer
  <1>2. ContextsKept
    BY <1>1 DEF ContextsKept
  <1>3. statuses \in [Ads -> Settled \cup {"unsettled"}]
    BY DEF AdsInv, AdsTypeOK
  <1>4. a \in Ads
    BY DEF AdsInv, AdsTypeOK, NoCallback
  <1>5. CASE UNCHANGED statuses
    BY <1>1, <1>2, <1>3, <1>5, StatusesStay
  <1>6. CASE statuses' = [statuses EXCEPT ![a] = IF @ \in Settled THEN @ ELSE why]
    <2>1. statuses' \in [Ads -> Settled \cup {"unsettled"}]
      BY <1>3, <1>6
    <2>2. ASSUME NEW b \in Ads
          PROVE  Fits(b, statuses[b])'
      <3>. PICK old, new : old = statuses[b] /\ new = statuses'[b]
        OBVIOUS
      <3>1. CASE new = old
        <4>1. Fits(b, old)
          BY DEF AdsInv, StatusesFit
        <4>2. Fits(b, old)'
          BY <1>1, <1>2, <4>1, FitsStays
        <4>. QED
          BY <3>1, <4>2 DEF Fits
      <3>2. CASE b = a /\ new = why
        BY <3>2 DEF Fits
      <3>. QED
        BY <1>3, <1>6, <3>1, <3>2
    <2>. QED
      BY <1>1, <1>2, <2>1, <2>2 DEF StatusesFit
  <1>. QED
    BY <1>5, <1>6 DEF Answer

----------------------------------------------------------------------------
(***************************************************************************)
(* The key cache.                                                          *)
(***************************************************************************)

\* A lookup of one thread keeps the copy well-formed, and only that thread's lookup moves.
LEMMA LookupMoves ==
    ASSUME Cache!CacheTypeOK, NEW r \in Threads,
           \/ Cache!Lookup(r)
           \/ \E k \in KeyIds : Cache!Ask(r, k)
           \/ \E answer : Cache!Taken(r, answer)
    PROVE  /\ Cache!CacheTypeOK'
           /\ \A s \in Threads \ {r} : lookups'[s] = lookups[s]
  <1>1. /\ TTL \in Nat /\ MIN_REFRESH \in Nat /\ 0 \in 0..TTL /\ 0 \in 0..MIN_REFRESH
    BY RewardedAdsAssumption
  <1>2. lookups \in [Threads -> [at: Cache!Places, key: KeyIds \cup {0}, response: SUBSET KeyIds]]
    BY DEF Cache!CacheTypeOK
  <1>. DEFINE Typed(l) == l \in [at: Cache!Places, key: KeyIds \cup {0}, response: SUBSET KeyIds]
  <1>3. ASSUME NEW l, lookups' = [lookups EXCEPT ![r] = l], Typed(l)
        PROVE  /\ \A s \in Threads \ {r} : lookups'[s] = lookups[s]
               /\ \A s \in Threads : Typed(lookups'[s])
               /\ DOMAIN lookups' = Threads
               /\ lookups' = [s \in Threads |-> lookups'[s]]
    BY <1>2, <1>3
  <1>4. \E l : lookups' = [lookups EXCEPT ![r] = l] /\ Typed(l)
    <2>. PICK was : was = lookups[r]
      OBVIOUS
    <2>1. Typed(was)
      BY <1>2
    <2>2. \A p \in Cache!Places : Typed([was EXCEPT !.at = p])
      BY <2>1
    <2>3. ASSUME NEW p \in Cache!Places, Cache!Goes(r, p)
          PROVE  \E l : lookups' = [lookups EXCEPT ![r] = l] /\ Typed(l)
      <3>1. lookups' = [lookups EXCEPT ![r] = [was EXCEPT !.at = p]]
        BY <1>2, <2>3 DEF Cache!Goes
      <3>. QED
        BY <2>2, <3>1
    <2>4. CASE Cache!Look(r) \/ Cache!LookAgain(r) \/ Cache!FetchFails(r)
      <3>1. \/ Cache!Goes(r, "found") \/ Cache!Goes(r, "checking")
            \/ Cache!Goes(r, "UNKNOWN_KEY_ID") \/ Cache!Goes(r, "KEYS_UNAVAILABLE")
            \/ Cache!Goes(r, "look") \/ Cache!Goes(r, "look again")
        <4>1. CASE Cache!Look(r)
          BY <4>1 DEF Cache!Look
        <4>2. CASE Cache!LookAgain(r)
          BY <4>2 DEF Cache!LookAgain
        <4>3. CASE Cache!FetchFails(r)
          BY <4>3 DEF Cache!FetchFails, Cache!After
        <4>. QED
          BY <2>4, <4>1, <4>2, <4>3
      <3>2. {"found", "checking", "UNKNOWN_KEY_ID", "KEYS_UNAVAILABLE", "look", "look again"}
               \subseteq Cache!Places
        BY DEF Cache!Places
      <3>. QED
        BY <2>3, <3>1, <3>2
    <2>5. CASE Cache!Responds(r)
      <3>. PICK l : l = [was EXCEPT !.at = IF @ = "refreshing" THEN "refreshed" ELSE "checked",
                                    !.response = published]
        OBVIOUS
      <3>1. lookups' = [lookups EXCEPT ![r] = l]
        BY <1>2, <2>5 DEF Cache!Responds
      <3>2. Typed(l)
        BY <2>1 DEF Cache!Places, Cache!CacheTypeOK
      <3>. QED
        BY <3>1, <3>2
    <2>6. CASE Cache!Store(r)
      <3>. PICK l : l = [was EXCEPT !.at = Cache!After(r), !.response = {}]
        OBVIOUS
      <3>1. lookups' = [lookups EXCEPT ![r] = l]
        BY <1>2, <2>6 DEF Cache!Store
      <3>2. Cache!After(r) \in Cache!Places
        BY DEF Cache!After, Cache!Places
      <3>3. Typed(l)
        BY <2>1, <3>2
      <3>. QED
        BY <3>1, <3>3
    <2>7. ASSUME NEW k \in KeyIds, Cache!Ask(r, k)
          PROVE  \E l : lookups' = [lookups EXCEPT ![r] = l] /\ Typed(l)
      <3>1. PICK p \in {"refreshing", "look"} :
               lookups' = [lookups EXCEPT ![r].at = p, ![r].key = k]
        BY <2>7 DEF Cache!Ask
      <3>. PICK l : l = [was EXCEPT !.at = p, !.key = k]
        OBVIOUS
      <3>2. lookups' = [lookups EXCEPT ![r] = l]
        BY <1>2, <3>1
      <3>3. Typed(l)
        BY <2>1 DEF Cache!Places
      <3>. QED
        BY <3>2, <3>3
    <2>8. CASE \E answer : Cache!Taken(r, answer)
      <3>1. lookups' = [lookups EXCEPT ![r] = Cache!Idle]
        BY <2>8 DEF Cache!Taken
      <3>2. Typed(Cache!Idle)
        BY DEF Cache!Idle, Cache!Places
      <3>. QED
        BY <3>1, <3>2
    <2>. QED
      BY <2>4, <2>5, <2>6, <2>7, <2>8 DEF Cache!Lookup
  <1>5. /\ \A s \in Threads \ {r} : lookups'[s] = lookups[s]
        /\ lookups' \in [Threads -> [at: Cache!Places, key: KeyIds \cup {0},
                                     response: SUBSET KeyIds]]
    BY <1>3, <1>4
  <1>6. lookups[r].response \subseteq KeyIds
    BY <1>2
  <1>7. published' = published
    BY DEF Cache!Lookup, Cache!Look, Cache!LookAgain, Cache!Responds, Cache!Store,
           Cache!FetchFails, Cache!Ask, Cache!Taken, Cache!Unstored
  <1>8. keys' \subseteq KeyIds /\ loadedAge' \in 0..TTL
    BY <1>1, <1>6 DEF Cache!CacheTypeOK, Cache!Lookup, Cache!Look, Cache!LookAgain,
       Cache!Responds, Cache!Store, Cache!FetchFails, Cache!Ask, Cache!Taken, Cache!Unstored
  <1>9. attemptedAge' \in 0..MIN_REFRESH /\ rotationAge' \in 0..MIN_REFRESH
    BY <1>1 DEF Cache!CacheTypeOK, Cache!Lookup, Cache!Look, Cache!LookAgain,
       Cache!Responds, Cache!Store, Cache!FetchFails, Cache!Ask, Cache!Taken
  <1>. QED
    BY <1>5, <1>7, <1>8, <1>9 DEF Cache!CacheTypeOK

\* Time and the signer keep it well-formed too, and so does a new process.
LEMMA CacheMoves ==
    ASSUME Cache!CacheTypeOK,
           \/ Cache!Ages \/ Cache!Restart
           \/ \E k \in KeyIds : Cache!Publish(k) \/ Cache!Withdraw(k)
    PROVE  Cache!CacheTypeOK'
  <1>1. TTL \in Nat /\ MIN_REFRESH \in Nat
    BY RewardedAdsAssumption
  <1>2. \A n \in Nat : \A age \in 0..n : Cache!Older(age, n) \in 0..n
    BY DEF Cache!Older
  <1>3. CASE Cache!Ages
    <2>1. /\ loadedAge' \in 0..TTL
          /\ attemptedAge' \in 0..MIN_REFRESH /\ rotationAge' \in 0..MIN_REFRESH
      BY <1>1, <1>2, <1>3 DEF Cache!Ages, Cache!CacheTypeOK
    <2>. QED
      BY <1>3, <2>1 DEF Cache!Ages, Cache!CacheTypeOK
  <1>4. CASE Cache!Restart
    <2>1. Cache!Idle \in [at: Cache!Places, key: KeyIds \cup {0}, response: SUBSET KeyIds]
      BY DEF Cache!Idle, Cache!Places
    <2>. QED
      BY <1>1, <1>4, <2>1 DEF Cache!Restart, Cache!CacheTypeOK
  <1>5. CASE \E k \in KeyIds : Cache!Publish(k) \/ Cache!Withdraw(k)
    BY <1>5 DEF Cache!Publish, Cache!Withdraw, Cache!CacheTypeOK
  <1>. QED
    BY <1>3, <1>4, <1>5

----------------------------------------------------------------------------
(***************************************************************************)
(* The steps.  One shape is a handler's, which moves itself and its        *)
(* lookup, the other is everybody else's, which leaves the handlers alone. *)
(***************************************************************************)

Callback == [at: {"key", "context", "grant"}, ad: Ads] \cup {NoCallback}

\* The ledger is left alone or pays one ad that is due.
LedgerFits == UNCHANGED shards \/ \E b \in Ads : Pays(b)

LEMMA HandlerStep ==
    ASSUME AdsInv, LedgerFits, UNCHANGED <<contexts, signed, restarts>>,
           Cache!CacheTypeOK', NEW r \in Threads,
           \A s \in Threads \ {r} : lookups'[s] = lookups[s],
           NEW h \in Callback, handlers' = [handlers EXCEPT ![r] = h],
           NEW l, l = lookups'[r], Stands(h, l),
           StatusesFit', statuses' \in [Ads -> Settled \cup {"unsettled"}]
    PROVE  AdsInv'
  <1>1. IInv' /\ QuotaInv' /\ PaidAsShown'
    <2>1. ContextsKept
      BY DEF ContextsKept
    <2>2. CASE UNCHANGED shards
      BY <2>1, <2>2, LedgerStays
    <2>3. CASE \E b \in Ads : Pays(b)
      BY <2>1, <2>3, LedgerPays
    <2>. QED
      BY <2>2, <2>3 DEF LedgerFits
  <1>2. handlers \in [Threads -> Callback]
    BY DEF AdsInv, AdsTypeOK, Callback
  <1>3. handlers' \in [Threads -> Callback]
    BY <1>2
  <1>4. HandlersFit'
    <2>1. ASSUME NEW s \in Threads
          PROVE  Stands(handlers[s], lookups[s])'
      <3>. PICK g, m : g = handlers'[s] /\ m = lookups'[s]
        OBVIOUS
      <3>1. Stands(g, m)
        BY <1>2 DEF AdsInv, HandlersFit
      <3>. QED
        BY <3>1 DEF Stands
    <2>. QED
      BY <2>1 DEF HandlersFit
  <1>5. AdsTypeOK'
    BY <1>1, <1>3 DEF AdsInv, AdsTypeOK, IInv, Callback
  <1>6. SignedHere'
    BY DEF AdsInv, SignedHere
  <1>. QED
    BY <1>1, <1>4, <1>5, <1>6 DEF AdsInv

LEMMA OtherStep ==
    ASSUME AdsInv, LedgerFits, ContextsKept,
           UNCHANGED <<handlers, statuses, restarts, lookups>>, Cache!CacheTypeOK',
           contexts' \in [Ads -> 0..CONTEXT_LIFETIME \cup {Absent}],
           DOMAIN signed \subseteq DOMAIN signed', DOMAIN signed' \subseteq Ads,
           \A a \in DOMAIN signed' : signed'[a] \in KeyIds /\ a \notin Elsewhere
    PROVE  AdsInv'
  <1>1. IInv' /\ QuotaInv' /\ PaidAsShown'
    <2>1. CASE UNCHANGED shards
      BY <2>1, LedgerStays
    <2>2. CASE \E b \in Ads : Pays(b)
      BY <2>2, LedgerPays
    <2>. QED
      BY <2>1, <2>2 DEF LedgerFits
  <1>2. StatusesFit'
    BY StatusesStay DEF LedgerFits
  <1>3. HandlersFit'
    <2>1. ASSUME NEW s \in Threads
          PROVE  Stands(handlers[s], lookups[s])'
      <3>. PICK h, l : h = handlers[s] /\ l = lookups[s]
        OBVIOUS
      <3>1. Stands(h, l) /\ h \in Callback
        BY DEF AdsInv, AdsTypeOK, HandlersFit, Callback
      <3>2. Stands(h, l)'
        BY <3>1 DEF Stands, ContextsKept, Callback, NoCallback
      <3>. QED
        BY <3>2 DEF Stands
    <2>. QED
      BY <2>1 DEF HandlersFit
  <1>4. AdsTypeOK'
    BY <1>1 DEF AdsInv, AdsTypeOK, IInv
  <1>5. SignedHere'
    BY DEF SignedHere
  <1>. QED
    BY <1>1, <1>2, <1>3, <1>4, <1>5 DEF AdsInv

LEMMA CacheStays ==
    Cache!CacheTypeOK /\ UNCHANGED cache => Cache!CacheTypeOK' /\ lookups' = lookups
  BY DEF cache, Cache!CacheTypeOK

LEMMA OthersSteps ==
    ASSUME AdsInv,
           \/ \E a \in Ads : issue_context(a) \/ Watch(a) \/ PaidElsewhere(a)
           \/ Rotate \/ Tick
    PROVE  AdsInv'
  <1>. DEFINE Contexts == [Ads -> 0..CONTEXT_LIFETIME \cup {Absent}]
  <1>1. /\ Cache!CacheTypeOK
        /\ contexts \in Contexts
        /\ DOMAIN signed \subseteq Ads
        /\ \A a \in DOMAIN signed : signed[a] \in KeyIds /\ a \notin Elsewhere
    BY DEF AdsInv, AdsTypeOK, SignedHere
  <1>2. /\ CONTEXT_LIFETIME \in Nat \ {0} /\ 0 \in 0..CONTEXT_LIFETIME
        /\ CONTEXT_LIFETIME \in 0..CONTEXT_LIFETIME /\ Absent \notin 0..CONTEXT_LIFETIME
    BY RewardedAdsAssumption
  <1>3. ASSUME NEW a \in Ads, issue_context(a)
        PROVE  AdsInv'
    <2>1. contexts' = [contexts EXCEPT ![a] = 0]
      BY <1>3 DEF issue_context
    <2>2. contexts' \in Contexts
      BY <1>1, <1>2, <2>1
    <2>3. ContextsKept
      BY <1>1, <1>2, <1>3, <2>1 DEF ContextsKept, issue_context
    <2>4. Cache!CacheTypeOK' /\ lookups' = lookups
      BY <1>1, <1>3, CacheStays DEF issue_context
    <2>. QED
      BY <1>1, <1>3, <2>2, <2>3, <2>4, OtherStep DEF issue_context, LedgerFits
  <1>4. ASSUME NEW a \in Ads, Watch(a)
        PROVE  AdsInv'
    <2>1. PICK k \in published : signed' = Create(signed, a, k)
      BY <1>4 DEF Watch
    <2>2. k \in KeyIds
      BY <1>1 DEF Cache!CacheTypeOK
    <2>3. /\ DOMAIN signed' = DOMAIN signed \cup {a}
          /\ \A b \in DOMAIN signed' : signed'[b] \in KeyIds /\ b \notin Elsewhere
      BY <1>1, <1>4, <2>1, <2>2 DEF Create, Watch
    <2>4. Cache!CacheTypeOK' /\ lookups' = lookups
      BY <1>1, <1>4, CacheStays DEF Watch
    <2>5. ContextsKept
      BY <1>4 DEF ContextsKept, Watch
    <2>. QED
      BY <1>1, <1>4, <2>3, <2>4, <2>5, OtherStep DEF Watch, LedgerFits
  <1>5. ASSUME NEW a \in Ads, PaidElsewhere(a)
        PROVE  AdsInv'
    <2>1. Pays(a)
      BY <1>5 DEF Pays, PaidElsewhere
    <2>2. Cache!CacheTypeOK' /\ lookups' = lookups
      BY <1>1, <1>5, CacheStays DEF PaidElsewhere
    <2>3. ContextsKept
      BY <1>5 DEF ContextsKept, PaidElsewhere
    <2>. QED
      BY <1>1, <1>5, <2>1, <2>2, <2>3, OtherStep DEF PaidElsewhere, LedgerFits
  <1>6. CASE Rotate
    <2>1. \E k \in KeyIds : Cache!Publish(k) \/ Cache!Withdraw(k)
      BY <1>6 DEF Rotate
    <2>2. Cache!CacheTypeOK'
      BY <1>1, <2>1, CacheMoves
    <2>3. lookups' = lookups
      BY <2>1 DEF Cache!Publish, Cache!Withdraw
    <2>4. ContextsKept
      BY <1>6 DEF ContextsKept, Rotate
    <2>. QED
      BY <1>1, <1>6, <2>2, <2>3, <2>4, OtherStep DEF Rotate, LedgerFits
  <1>7. CASE Tick
    <2>1. Cache!CacheTypeOK' /\ lookups' = lookups
      BY <1>1, <1>7, CacheMoves DEF Tick, Cache!Ages
    <2>2. contexts' = [a \in Ads |-> IF contexts[a] = Absent THEN Absent
                                     ELSE Cache!Older(contexts[a], CONTEXT_LIFETIME)]
      BY <1>7 DEF Tick
    <2>3. \A age \in 0..CONTEXT_LIFETIME :
             /\ Cache!Older(age, CONTEXT_LIFETIME) \in 0..CONTEXT_LIFETIME
             /\ Cache!Older(CONTEXT_LIFETIME, CONTEXT_LIFETIME) = CONTEXT_LIFETIME
      BY <1>2 DEF Cache!Older
    <2>4. contexts' \in Contexts
      BY <1>1, <2>2, <2>3
    <2>5. ContextsKept
      BY <1>1, <1>2, <2>2, <2>3 DEF ContextsKept
    <2>. QED
      BY <1>1, <1>7, <2>1, <2>4, <2>5, OtherStep DEF Tick, LedgerFits
  <1>. QED
    BY <1>3, <1>4, <1>5, <1>6, <1>7

\* A thread whose lookup is under way is asking for the key, and what it asks is not lost.
LEMMA LookupSteps ==
    ASSUME AdsInv, NEW r \in Threads,
           \/ \E a \in Ads : rewarded_ssv(r, a)
           \/ key_for(r) \/ KeyMissing(r)
    PROVE  AdsInv'
  <1>1. Cache!CacheTypeOK /\ handlers \in [Threads -> Callback] /\ DOMAIN signed \subseteq Ads
    BY DEF AdsInv, AdsTypeOK, Callback
  <1>2. \A a \in DOMAIN signed : signed[a] \in KeyIds
    BY DEF AdsInv, AdsTypeOK
  <1>3. statuses \in [Ads -> Settled \cup {"unsettled"}]
    BY DEF AdsInv, AdsTypeOK
  <1>4. ASSUME UNCHANGED <<shards, contexts, signed, statuses>>
        PROVE  StatusesFit' /\ LedgerFits
    <2>1. ContextsKept
      BY <1>4 DEF ContextsKept
    <2>. QED
      BY <1>4, <2>1, StatusesStay DEF LedgerFits
  <1>. PICK l : l = lookups'[r]
    OBVIOUS
  <1>5. ASSUME NEW a \in Ads, rewarded_ssv(r, a)
        PROVE  AdsInv'
    <2>. PICK h : h = [at |-> "key", ad |-> a]
      OBVIOUS
    <2>. PICK k : k = signed[a]
      OBVIOUS
    <2>1. k \in KeyIds /\ Cache!Ask(r, k)
      BY <1>2, <1>5 DEF rewarded_ssv
    <2>2. Cache!CacheTypeOK' /\ \A s \in Threads \ {r} : lookups'[s] = lookups[s]
      BY <1>1, <2>1, LookupMoves
    <2>3. h \in Callback /\ Stands(h, l) /\ handlers' = [handlers EXCEPT ![r] = h]
      BY <1>5 DEF Callback, Stands, rewarded_ssv
    <2>4. UNCHANGED <<shards, contexts, signed, statuses, restarts>>
      BY <1>5 DEF rewarded_ssv
    <2>. QED
      BY <1>3, <1>4, <2>2, <2>3, <2>4, HandlerStep
  <1>6. CASE key_for(r)
    <2>. PICK h : h = handlers[r]
      OBVIOUS
    <2>1. Cache!CacheTypeOK' /\ \A s \in Threads \ {r} : lookups'[s] = lookups[s]
      BY <1>1, <1>6, LookupMoves DEF key_for
    <2>2. lookups[r].at # "idle"
      BY <1>6 DEF key_for, Cache!Lookup, Cache!Look, Cache!LookAgain, Cache!Responds,
         Cache!Store, Cache!FetchFails, Cache!Fetching, Cache!At
    <2>3. Stands(h, l)
      BY <2>2 DEF AdsInv, HandlersFit, Stands
    <2>4. h \in Callback /\ handlers' = [handlers EXCEPT ![r] = h]
      BY <1>1, <1>6 DEF key_for
    <2>5. UNCHANGED <<shards, contexts, signed, statuses, restarts>>
      BY <1>6 DEF key_for
    <2>. QED
      BY <1>3, <1>4, <2>1, <2>3, <2>4, <2>5, HandlerStep
  <1>7. CASE KeyMissing(r)
    <2>1. PICK answer \in {"UNKNOWN_KEY_ID", "KEYS_UNAVAILABLE"} : Cache!Taken(r, answer)
      BY <1>7 DEF KeyMissing
    <2>2. Cache!CacheTypeOK' /\ \A s \in Threads \ {r} : lookups'[s] = lookups[s]
      BY <1>1, <2>1, LookupMoves
    <2>3. handlers[r].at # "idle"
      BY <2>1 DEF Cache!Taken, Cache!At, AdsInv, HandlersFit, Stands
    <2>4. Answer(r, "unsettled") /\ UNCHANGED shards
      BY <1>7 DEF KeyMissing
    <2>. PICK a : a = handlers[r].ad
      OBVIOUS
    <2>5. Fits(a, "unsettled")'
      BY DEF Fits
    <2>6. /\ StatusesFit'
          /\ statuses' \in [Ads -> Settled \cup {"unsettled"}]
          /\ handlers' = [handlers EXCEPT ![r] = NoCallback]
          /\ UNCHANGED <<contexts, signed, restarts>>
      BY <2>3, <2>4, <2>5, AnswerFits
    <2>7. l = Cache!Idle
      BY <1>1, <2>1 DEF Cache!Taken, Cache!CacheTypeOK
    <2>8. Stands(NoCallback, l) /\ NoCallback \in Callback
      BY <2>7 DEF Stands, NoCallback, Callback, Cache!Idle
    <2>. QED
      BY <2>2, <2>4, <2>6, <2>8, HandlerStep DEF LedgerFits
  <1>. QED
    BY <1>5, <1>6, <1>7

\* A handler that answers, with its lookup over: nothing is left of the two.
LEMMA AnswerStep ==
    ASSUME AdsInv, NEW r \in Threads, NEW why \in Settled, Answer(r, why),
           handlers[r].at # "idle", NEW a, a = handlers[r].ad, Fits(a, why)', LedgerFits,
           Cache!CacheTypeOK', \A s \in Threads \ {r} : lookups'[s] = lookups[s],
           lookups'[r].at = "idle"
    PROVE  AdsInv'
  <1>1. /\ StatusesFit'
        /\ statuses' \in [Ads -> Settled \cup {"unsettled"}]
        /\ handlers' = [handlers EXCEPT ![r] = NoCallback]
        /\ UNCHANGED <<contexts, signed, restarts>>
    BY AnswerFits DEF LedgerFits
  <1>. PICK l : l = lookups'[r]
    OBVIOUS
  <1>2. Stands(NoCallback, l) /\ NoCallback \in Callback
    BY DEF Stands, NoCallback, Callback
  <1>. QED
    BY <1>1, <1>2, HandlerStep

\* The ad of a handler on its way: watched, in this process, and paid only with a context.
LEMMA OnItsWay ==
    ASSUME AdsInv, NEW r \in Threads, handlers[r].at # "idle", NEW a, a = handlers[r].ad
    PROVE  /\ a \in Ads /\ a \in DOMAIN signed /\ a \notin Elsewhere
           /\ Paid(a) => a \in Expected /\ contexts[a] # Absent
  <1>1. Stands(handlers[r], lookups[r]) /\ handlers[r] \in Callback
    BY DEF AdsInv, AdsTypeOK, HandlersFit, Callback
  <1>2. a \in DOMAIN signed /\ a \in Ads
    BY <1>1 DEF Stands, Callback, NoCallback
  <1>. QED
    BY <1>2 DEF AdsInv, SignedHere, PaidAsShown

\* A handler that goes on with its ad, and has found a context in it.
LEMMA GoesOn ==
    ASSUME AdsInv, NEW r \in Threads, handlers[r].at # "idle",
           NEW p \in {"context", "grant"}, Goes(r, p),
           handlers[r].ad \in Expected, contexts[handlers[r].ad] # Absent,
           UNCHANGED shards, UNCHANGED <<contexts, signed, statuses, restarts>>,
           Cache!CacheTypeOK', \A s \in Threads \ {r} : lookups'[s] = lookups[s],
           lookups'[r].at = "idle"
    PROVE  AdsInv'
  <1>1. handlers \in [Threads -> Callback]
    BY DEF AdsInv, AdsTypeOK, Callback
  <1>. PICK h, l : h = [handlers[r] EXCEPT !.at = p] /\ l = lookups'[r]
    OBVIOUS
  <1>2. handlers' = [handlers EXCEPT ![r] = h]
    BY <1>1 DEF Goes
  <1>3. handlers[r] \in [at: {"key", "context", "grant"}, ad: Ads]
    BY <1>1 DEF Callback, NoCallback
  <1>4. h \in Callback /\ h.ad = handlers[r].ad
    BY <1>3 DEF Callback
  <1>5. handlers[r].ad \in DOMAIN signed
    BY OnItsWay
  <1>6. Stands(h, l)
    BY <1>4, <1>5 DEF Stands
  <1>7. StatusesFit' /\ LedgerFits /\ statuses' \in [Ads -> Settled \cup {"unsettled"}]
    <2>1. ContextsKept
      BY DEF ContextsKept
    <2>. QED
      BY <2>1, StatusesStay DEF LedgerFits, AdsInv, AdsTypeOK
  <1>. QED
    BY <1>2, <1>4, <1>6, <1>7, HandlerStep

LEMMA VerifiedStep ==
    ASSUME AdsInv, NEW r \in Threads, Verified(r)
    PROVE  AdsInv'
  <1>. PICK a : a = handlers[r].ad
    OBVIOUS
  <1>1. Cache!Taken(r, "found") /\ UNCHANGED shards
    BY DEF Verified
  <1>2. Cache!CacheTypeOK' /\ \A s \in Threads \ {r} : lookups'[s] = lookups[s]
    BY <1>1, LookupMoves DEF AdsInv, AdsTypeOK
  <1>3. lookups'[r].at = "idle"
    BY <1>1 DEF Cache!Taken, Cache!Idle, AdsInv, AdsTypeOK, Cache!CacheTypeOK
  <1>4. handlers[r].at # "idle"
    BY <1>1 DEF Cache!Taken, Cache!At, AdsInv, HandlersFit, Stands
  <1>5. a \in DOMAIN signed /\ (Paid(a) => a \in Expected /\ contexts[a] # Absent)
    BY <1>4, OnItsWay
  <1>6. LedgerFits
    BY <1>1 DEF LedgerFits
  <1>7. CASE a \notin Expected /\ Answer(r, "unexpected")
    <2>1. Fits(a, "unexpected")'
      BY <1>1, <1>5, <1>7 DEF Fits, Answer, Paid, shards
    <2>2. "unexpected" \in Settled
      BY DEF Settled
    <2>. QED
      BY <1>2, <1>3, <1>4, <1>6, <1>7, <2>1, <2>2, AnswerStep
  <1>8. CASE contexts[a] = Absent /\ Answer(r, "missing_context")
    <2>1. Fits(a, "missing_context")'
      BY <1>1, <1>5, <1>8 DEF Fits, Answer, Paid, shards
    <2>2. "missing_context" \in Settled
      BY DEF Settled
    <2>. QED
      BY <1>2, <1>3, <1>4, <1>6, <1>8, <2>1, <2>2, AnswerStep
  <1>9. CASE /\ a \in Expected /\ contexts[a] # Absent
             /\ Goes(r, "context")
             /\ UNCHANGED <<contexts, signed, statuses, restarts>>
    BY <1>1, <1>2, <1>3, <1>4, <1>9, GoesOn
  <1>. QED
    BY <1>7, <1>8, <1>9 DEF Verified

\* Behind the signature: the cache stands still, the lookup is over.
LEMMA StoreSteps ==
    ASSUME AdsInv, NEW r \in Threads, resolve_user(r) \/ grant(r) \/ StoreFails(r)
    PROVE  AdsInv'
  <1>. PICK a : a = handlers[r].ad
    OBVIOUS
  <1>1. UNCHANGED cache /\ handlers[r].at \in {"context", "grant"}
    BY DEF resolve_user, grant, StoreFails, Handles
  <1>2. Cache!CacheTypeOK' /\ lookups' = lookups
    BY <1>1, CacheStays DEF AdsInv, AdsTypeOK
  <1>3. lookups'[r].at = "idle" /\ a \in Expected /\ contexts[a] # Absent
    BY <1>1, <1>2 DEF AdsInv, HandlersFit, Stands
  <1>4. a \in Ads /\ a \in DOMAIN signed
    BY <1>1, OnItsWay
  <1>5. {"granted", "duplicate", "limit_reached", "expired_context"} \subseteq Settled
    BY DEF Settled
  <1>6. CASE resolve_user(r)
    <2>1. UNCHANGED shards /\ LedgerFits
      BY <1>6 DEF resolve_user, LedgerFits
    <2>2. CASE contexts[a] = CONTEXT_LIFETIME /\ Answer(r, "expired_context")
      <3>1. Fits(a, "expired_context")'
        BY <1>4, <2>2 DEF Fits, Answer
      <3>. QED
        BY <1>1, <1>2, <1>3, <1>5, <2>1, <2>2, <3>1, AnswerStep
    <2>3. CASE Goes(r, "grant") /\ UNCHANGED <<contexts, signed, statuses, restarts>>
      BY <1>1, <1>2, <1>3, <2>1, <2>3, GoesOn
    <2>. QED
      BY <1>6, <2>2, <2>3 DEF resolve_user
  <1>7. CASE grant(r)
    <2>1. CASE RewardedAd(Viewer[a], a) /\ Answer(r, "granted")
      <3>1. Pays(a)
        BY <1>3, <2>1 DEF Pays
      <3>2. ContextsKept /\ signed' = signed
        BY <2>1 DEF ContextsKept, Answer
      <3>3. Paid(a)' /\ LedgerFits
        BY <1>4, <3>1, <3>2, LedgerPays DEF LedgerFits
      <3>4. Fits(a, "granted")'
        BY <1>4, <3>2, <3>3 DEF Fits
      <3>. QED
        BY <1>1, <1>2, <1>3, <1>5, <2>1, <3>3, <3>4, AnswerStep
    <2>2. CASE Paid(a) /\ Answer(r, "duplicate") /\ UNCHANGED shards
      <3>1. Fits(a, "duplicate")'
        BY <1>4, <2>2 DEF Fits, Answer, Paid, shards
      <3>2. LedgerFits
        BY <2>2 DEF LedgerFits
      <3>. QED
        BY <1>1, <1>2, <1>3, <1>5, <2>2, <3>1, <3>2, AnswerStep
    <2>3. CASE /\ ~Paid(a) /\ quotas[<<Viewer[a], RewardDay[a]>>] >= DAILY_REWARD_LIMIT
               /\ Answer(r, "limit_reached") /\ UNCHANGED shards
      <3>1. quotas[<<Viewer[a], RewardDay[a]>>] \in 0..DAILY_REWARD_LIMIT
        <4>1. quotas \in [Users \X Days -> 0..DAILY_REWARD_LIMIT]
          BY DEF AdsInv, IInv, TypeOK
        <4>2. Viewer[a] \in Users /\ RewardDay[a] \in Days
          BY <1>4, CatalogAssumption, RewardedAdsAssumption
        <4>. QED
          BY <4>1, <4>2
      <3>2. DayUsedUp(a)
        BY <2>3, <3>1, LimitsAssumption DEF DayUsedUp
      <3>3. Fits(a, "limit_reached")'
        BY <1>4, <2>3, <3>2 DEF Fits, Answer, DayUsedUp, Paid, shards
      <3>4. LedgerFits
        BY <2>3 DEF LedgerFits
      <3>. QED
        BY <1>1, <1>2, <1>3, <1>5, <2>3, <3>3, <3>4, AnswerStep
    <2>. QED
      BY <1>7, <2>1, <2>2, <2>3 DEF grant, Paid
  <1>8. CASE StoreFails(r)
    <2>. PICK l : l = lookups'[r]
      OBVIOUS
    <2>1. UNCHANGED <<shards, contexts, signed, statuses, restarts>>
      BY <1>8 DEF StoreFails
    <2>2. StatusesFit' /\ LedgerFits /\ statuses' \in [Ads -> Settled \cup {"unsettled"}]
      <3>1. ContextsKept
        BY <2>1 DEF ContextsKept
      <3>. QED
        BY <2>1, <3>1, StatusesStay DEF LedgerFits, AdsInv, AdsTypeOK
    <2>3. Stands(NoCallback, l) /\ NoCallback \in Callback
      BY <1>3 DEF Stands, NoCallback, Callback
    <2>. QED
      BY <1>2, <1>8, <2>1, <2>2, <2>3, HandlerStep DEF StoreFails
  <1>. QED
    BY <1>6, <1>7, <1>8

\* A new process knows no callback and has no keys; contexts and ads outlive it.
LEMMA RestartStep == AdsInv /\ Restart => AdsInv'
  <1>. SUFFICES ASSUME AdsInv, Restart
       PROVE  AdsInv'
    OBVIOUS
  <1>1. UNCHANGED <<shards, contexts, signed, statuses>>
    BY DEF Restart
  <1>2. ContextsKept
    BY <1>1 DEF ContextsKept
  <1>3. IInv' /\ QuotaInv' /\ PaidAsShown'
    BY <1>1, <1>2, LedgerStays
  <1>4. StatusesFit'
    BY <1>1, <1>2, StatusesStay
  <1>5. Cache!CacheTypeOK'
    BY CacheMoves DEF Restart, AdsInv, AdsTypeOK
  <1>6. /\ handlers' = [r \in Threads |-> NoCallback]
        /\ lookups' = [r \in Threads |-> Cache!Idle]
    BY DEF Restart, Cache!Restart
  <1>7. HandlersFit'
    <2>1. \A h, l : h = NoCallback /\ l = Cache!Idle => Stands(h, l)'
      BY DEF Stands, NoCallback, Cache!Idle
    <2>. QED
      BY <1>6 DEF HandlersFit, Stands, NoCallback, Cache!Idle
  <1>8. AdsTypeOK'
    <2>1. restarts' \in 0..MaxRestarts
      BY RewardedAdsAssumption DEF Restart, AdsInv, AdsTypeOK
    <2>. QED
      BY <1>1, <1>3, <1>5, <1>6, <2>1 DEF AdsInv, AdsTypeOK, IInv
  <1>9. SignedHere'
    BY <1>1 DEF AdsInv, SignedHere
  <1>. QED
    BY <1>3, <1>4, <1>7, <1>8, <1>9 DEF AdsInv

LEMMA InitAdsInv == AdsInit => AdsInv
  <1>. SUFFICES ASSUME AdsInit
       PROVE  AdsInv
    OBVIOUS
  <1>1. IInv /\ TypeOK
    BY InitIInv DEF AdsInit, IInv
  <1>2. QuotaInv
    BY FS_EmptySet DEF AdsInit, Init, QuotaInv, QuotaCountsRewards, Rewarded
  <1>3. ledger = [k \in {} |-> 0]
    BY DEF AdsInit, Init
  <1>4. Cache!CacheTypeOK
    <2>1. /\ TTL \in Nat \ {0} /\ MIN_REFRESH \in 1..TTL /\ MIN_REFRESH \in 0..MIN_REFRESH
          /\ TTL \in 0..TTL /\ MIN_REFRESH..TTL \subseteq 0..TTL
      BY RewardedAdsAssumption
    <2>2. published \subseteq KeyIds
      BY DEF AdsInit, Cache!CacheInit
    <2>3. /\ keys \subseteq KeyIds
          /\ loadedAge \in 0..TTL
          /\ attemptedAge \in 0..MIN_REFRESH /\ rotationAge \in 0..MIN_REFRESH
      BY <2>1, <2>2 DEF AdsInit, Cache!CacheInit, Cache!Empty, Cache!Running
    <2>4. Cache!Idle \in [at: Cache!Places, key: KeyIds \cup {0}, response: SUBSET KeyIds]
      BY DEF Cache!Idle, Cache!Places
    <2>5. lookups = [r \in Threads |-> Cache!Idle]
      BY DEF AdsInit, Cache!CacheInit, Cache!Empty, Cache!Running
    <2>. QED
      BY <2>2, <2>3, <2>4, <2>5 DEF Cache!CacheTypeOK
  <1>5. AdsTypeOK
    BY <1>1, <1>4, RewardedAdsAssumption DEF AdsInit, AdsTypeOK
  <1>6. PaidAsShown
    BY <1>3 DEF PaidAsShown, Paid
  <1>7. HandlersFit
    BY DEF HandlersFit, Stands, AdsInit, NoCallback, Cache!CacheInit, Cache!Empty,
       Cache!Running, Cache!Idle
  <1>8. StatusesFit
    BY DEF StatusesFit, Fits, AdsInit
  <1>9. SignedHere
    BY DEF SignedHere, AdsInit
  <1>. QED
    BY <1>1, <1>2, <1>5, <1>6, <1>7, <1>8, <1>9 DEF AdsInv

LEMMA NextAdsInv == AdsInv /\ [AdsNext]_adsVars => AdsInv'
  <1>. SUFFICES ASSUME AdsInv, [AdsNext]_adsVars
       PROVE  AdsInv'
    OBVIOUS
  <1>1. CASE \/ \E a \in Ads : issue_context(a) \/ Watch(a) \/ PaidElsewhere(a)
             \/ Rotate \/ Tick
    BY <1>1, OthersSteps
  <1>2. ASSUME NEW r \in Threads, Handler(r)
        PROVE  AdsInv'
    BY <1>2, LookupSteps, VerifiedStep, StoreSteps DEF Handler
  <1>3. CASE Restart
    BY <1>3, RestartStep
  <1>4. CASE UNCHANGED adsVars
    <2>1. /\ UNCHANGED <<shards, handlers, statuses, restarts, contexts, signed>>
          /\ UNCHANGED cache
      BY <1>4 DEF adsVars
    <2>2. Cache!CacheTypeOK' /\ lookups' = lookups
      BY <2>1, CacheStays DEF AdsInv, AdsTypeOK
    <2>3. ContextsKept /\ LedgerFits
      BY <2>1 DEF ContextsKept, LedgerFits
    <2>. QED
      BY <2>1, <2>2, <2>3, OtherStep DEF AdsInv, AdsTypeOK, SignedHere
  <1>. QED
    BY <1>1, <1>2, <1>3, <1>4 DEF AdsNext

\* The strengthening is an invariant of the rewarded ads.
THEOREM SpecAdsInv == AdsSpec => []AdsInv
  <1>. QED
    BY InitAdsInv, NextAdsInv, PTL DEF AdsSpec

\* What 200 tells Google is true for good: paid, the day used up by other ads, or not to
\* be paid at all.
THEOREM SpecSettledIsFair == AdsSpec => []SettledIsFair
  <1>1. AdsInv => SettledIsFair
    <2>. SUFFICES ASSUME AdsInv, NEW a \in Ads
         PROVE  /\ statuses[a] \in {"granted", "duplicate"} => Paid(a)
                /\ statuses[a] = "limit_reached" =>
                      /\ ~Paid(a)
                      /\ Cardinality({b \in Ads :
                              /\ Viewer[b] = Viewer[a] /\ RewardDay[b] = RewardDay[a]
                              /\ Key(Viewer[a], "rewarded_ad", b) \in DOMAIN ledger})
                            = DAILY_REWARD_LIMIT
                /\ statuses[a] = "unexpected" => a \notin Expected /\ ~Paid(a)
                /\ statuses[a] = "missing_context" => contexts[a] = Absent /\ ~Paid(a)
                /\ statuses[a] = "expired_context" => contexts[a] = CONTEXT_LIFETIME
      BY DEF SettledIsFair, Paid
    <2>. PICK u, d : u = Viewer[a] /\ d = RewardDay[a]
      OBVIOUS
    <2>1. Fits(a, statuses[a])
      BY DEF AdsInv, StatusesFit
    <2>2. u \in Users /\ d \in Days
      BY CatalogAssumption, RewardedAdsAssumption
    <2>3. quotas[<<u, d>>] = Cardinality(Rewarded(u, d))
      BY <2>2 DEF AdsInv, QuotaInv, QuotaCountsRewards, Rewarded
    <2>4. {b \in Ads : /\ Viewer[b] = u /\ RewardDay[b] = d
                       /\ Key(u, "rewarded_ad", b) \in DOMAIN ledger} = Rewarded(u, d)
      BY <2>2 DEF Rewarded, AdsInv, PaidAsShown
    <2>. QED
      BY <2>1, <2>3, <2>4 DEF Fits, DayUsedUp
  <1>. QED
    BY <1>1, SpecAdsInv, PTL

\* Whatever the handlers, the devices, Google and other processes do, and whenever the process
\* is replaced, the ledger, the key cache and what is on its way keep their shapes.
THEOREM SpecAdsTypeOK == AdsSpec => []AdsTypeOK
  <1>1. AdsInv => AdsTypeOK
    BY DEF AdsInv
  <1>. QED
    BY <1>1, SpecAdsInv, PTL

=============================================================================
