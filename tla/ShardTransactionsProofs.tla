---------------------- MODULE ShardTransactionsProofs ----------------------
(***************************************************************************)
(* Concurrent transactions implement the atomic steps of ShardLedger, for  *)
(* any number of handlers, requests and attempts, and what their callers   *)
(* are told is true.                                                       *)
(*                                                                         *)
(* A commit that Firestore accepts decides from a snapshot that is still   *)
(* true of everything the attempt read; since a decision rests on nothing  *)
(* else (ReadsSuffice), it is the decision the database itself would have  *)
(* given, and its writes are one step of the ledger.  What the attempt     *)
(* does not read but creates (the entries of a refund and of a reversal,   *)
(* the claim behind a duplicate) is covered by IInv: those documents come  *)
(* and go together with ones it did read.                                  *)
(***************************************************************************)
EXTENDS ShardTransactions, TLAPS

----------------------------------------------------------------------------
(***************************************************************************)
(* The documents, as collections                                           *)
(***************************************************************************)
IdsIn(d, collection) == {r[2] : r \in {x \in DOMAIN d : x[1] = collection}}

Wallets(d) == [u \in Users |-> WalletIn(d, u)]
Ledger(d) == [k \in IdsIn(d, "shardLedger") |-> d[LedgerRef(k)].delta]
Quotas(d) == [p \in Users \X Days |-> CountIn(d, p[1], p[2])]
Claims(d) == [t \in IdsIn(d, "iapTransactions") |-> d[ClaimRef(t)]]
Refunds(d) == [t \in IdsIn(d, "iapRefunds") |-> d[RefundRef(t)]]

\* A document of one of the collections.
IsDoc(r, doc) ==
    \/ \E u \in Users : r = WalletRef(u) /\ doc \in Wallet
    \/ \E k \in Keys : r = LedgerRef(k) /\ doc.delta \in Int
    \/ \E u \in Users, d \in Days : r = QuotaRef(u, d) /\ doc.count \in 0..DAILY_REWARD_LIMIT
    \/ \E t \in Txns : r = ClaimRef(t) /\ doc \in Claim
    \/ \E t \in Txns : r = RefundRef(t) /\ doc \in Refund

Documents(d) == \A r \in DOMAIN d : IsDoc(r, d[r])

\* Documents of different collections, and of different ids, have different references.
LEMMA RefFacts ==
    /\ \A x, y : /\ WalletRef(x) = WalletRef(y) <=> x = y
                 /\ LedgerRef(x) = LedgerRef(y) <=> x = y
                 /\ ClaimRef(x) = ClaimRef(y) <=> x = y
                 /\ RefundRef(x) = RefundRef(y) <=> x = y
                 /\ WalletRef(x) # LedgerRef(y)
                 /\ WalletRef(x) # ClaimRef(y)
                 /\ WalletRef(x) # RefundRef(y)
                 /\ LedgerRef(x) # ClaimRef(y)
                 /\ LedgerRef(x) # RefundRef(y)
                 /\ ClaimRef(x) # RefundRef(y)
    /\ \A u, d, v, e : QuotaRef(u, d) = QuotaRef(v, e) <=> u = v /\ d = e
    /\ \A u, d, x : /\ QuotaRef(u, d) # WalletRef(x)
                    /\ QuotaRef(u, d) # LedgerRef(x)
                    /\ QuotaRef(u, d) # ClaimRef(x)
                    /\ QuotaRef(u, d) # RefundRef(x)
  BY DEF WalletRef, LedgerRef, ClaimRef, RefundRef, QuotaRef

\* Keys are equal only part by part, and a well-formed key is a key.
LEMMA KeyFacts ==
    /\ \A u, r, e, v, s, f :
         Key(u, r, e) = Key(v, s, f) <=> u = v /\ r = s /\ e = f
    /\ \A u \in Users, r \in Reasons, e \in Events : Key(u, r, e) \in Keys
  BY DEF Key, Keys

\* A collection holds the ids of the documents it has references to.
LEMMA IdsFacts ==
    ASSUME NEW d, Documents(d)
    PROVE  /\ \A k : k \in IdsIn(d, "shardLedger") <=> LedgerRef(k) \in DOMAIN d
           /\ \A t : t \in IdsIn(d, "iapTransactions") <=> ClaimRef(t) \in DOMAIN d
           /\ \A t : t \in IdsIn(d, "iapRefunds") <=> RefundRef(t) \in DOMAIN d
<1>1. \A r \in DOMAIN d : r = <<r[1], r[2]>>
  BY DEF Documents, IsDoc, WalletRef, LedgerRef, ClaimRef, RefundRef, QuotaRef
<1> QED
  BY <1>1 DEF IdsIn, LedgerRef, ClaimRef, RefundRef

\* What kind of document a reference leads to.
LEMMA DocFacts ==
    ASSUME NEW d, Documents(d)
    PROVE  /\ \A u : WalletRef(u) \in DOMAIN d => u \in Users /\ d[WalletRef(u)] \in Wallet
           /\ \A k : LedgerRef(k) \in DOMAIN d => k \in Keys /\ d[LedgerRef(k)].delta \in Int
           /\ \A u, p : QuotaRef(u, p) \in DOMAIN d =>
                d[QuotaRef(u, p)].count \in 0..DAILY_REWARD_LIMIT
           /\ \A t : ClaimRef(t) \in DOMAIN d => t \in Txns /\ d[ClaimRef(t)] \in Claim
           /\ \A t : RefundRef(t) \in DOMAIN d => t \in Txns /\ d[RefundRef(t)] \in Refund
<1>1. ASSUME NEW u, WalletRef(u) \in DOMAIN d
      PROVE  u \in Users /\ d[WalletRef(u)] \in Wallet
  <2>1. IsDoc(WalletRef(u), d[WalletRef(u)])
    BY <1>1 DEF Documents
  <2> QED
    BY <2>1, RefFacts DEF IsDoc
<1>2. ASSUME NEW k, LedgerRef(k) \in DOMAIN d
      PROVE  k \in Keys /\ d[LedgerRef(k)].delta \in Int
  <2>1. IsDoc(LedgerRef(k), d[LedgerRef(k)])
    BY <1>2 DEF Documents
  <2> QED
    BY <2>1, RefFacts DEF IsDoc
<1>3. ASSUME NEW u, NEW p, QuotaRef(u, p) \in DOMAIN d
      PROVE  d[QuotaRef(u, p)].count \in 0..DAILY_REWARD_LIMIT
  <2>1. IsDoc(QuotaRef(u, p), d[QuotaRef(u, p)])
    BY <1>3 DEF Documents
  <2> QED
    BY <2>1, RefFacts DEF IsDoc
<1>4. ASSUME NEW t, ClaimRef(t) \in DOMAIN d
      PROVE  t \in Txns /\ d[ClaimRef(t)] \in Claim
  <2>1. IsDoc(ClaimRef(t), d[ClaimRef(t)])
    BY <1>4 DEF Documents
  <2> QED
    BY <2>1, RefFacts DEF IsDoc
<1>5. ASSUME NEW t, RefundRef(t) \in DOMAIN d
      PROVE  t \in Txns /\ d[RefundRef(t)] \in Refund
  <2>1. IsDoc(RefundRef(t), d[RefundRef(t)])
    BY <1>5 DEF Documents
  <2> QED
    BY <2>1, RefFacts DEF IsDoc
<1> QED
  BY <1>1, <1>2, <1>3, <1>4, <1>5

\* One more document of a kind.
LEMMA PutDocuments ==
    ASSUME NEW d, Documents(d), NEW ref, NEW doc, IsDoc(ref, doc)
    PROVE  Documents(Put(d, ref, doc))
<1> DEFINE e == Put(d, ref, doc)
<1>1. /\ DOMAIN e = DOMAIN d \cup {ref}
      /\ e[ref] = doc
      /\ \A r \in DOMAIN d : r # ref => e[r] = d[r]
  BY DEF Put
<1> HIDE DEF e
<1>2. Documents(e)
  BY <1>1 DEF Documents
<1> QED
  BY <1>2 DEF e

\* The wallets are what they were if their documents are.
LEMMA WalletsKept ==
    ASSUME NEW d, NEW e,
           \A u \in Users : /\ WalletRef(u) \in DOMAIN e <=> WalletRef(u) \in DOMAIN d
                            /\ WalletRef(u) \in DOMAIN d => e[WalletRef(u)] = d[WalletRef(u)]
    PROVE  Wallets(e) = Wallets(d)
<1>1. \A u \in Users : WalletIn(e, u) = WalletIn(d, u)
  BY DEF WalletIn
<1> QED
  BY <1>1 DEF Wallets

\* The counts are what they were if their documents are.
LEMMA QuotasKept ==
    ASSUME NEW d, NEW e,
           \A u \in Users, p \in Days :
              /\ QuotaRef(u, p) \in DOMAIN e <=> QuotaRef(u, p) \in DOMAIN d
              /\ QuotaRef(u, p) \in DOMAIN d => e[QuotaRef(u, p)] = d[QuotaRef(u, p)]
    PROVE  Quotas(e) = Quotas(d)
<1>1. \A u \in Users, p \in Days : CountIn(e, u, p) = CountIn(d, u, p)
  BY DEF CountIn
<1>2. \A x \in Users \X Days : CountIn(e, x[1], x[2]) = CountIn(d, x[1], x[2])
  BY <1>1
<1> QED
  BY <1>2 DEF Quotas

\* So are the entries,
LEMMA LedgerKept ==
    ASSUME NEW d, Documents(d), NEW e, Documents(e),
           \A k : /\ LedgerRef(k) \in DOMAIN e <=> LedgerRef(k) \in DOMAIN d
                  /\ LedgerRef(k) \in DOMAIN d => e[LedgerRef(k)] = d[LedgerRef(k)]
    PROVE  Ledger(e) = Ledger(d)
<1>1. \A k : /\ k \in IdsIn(d, "shardLedger") <=> LedgerRef(k) \in DOMAIN d
             /\ k \in IdsIn(e, "shardLedger") <=> LedgerRef(k) \in DOMAIN e
  BY IdsFacts
<1>2. IdsIn(e, "shardLedger") = IdsIn(d, "shardLedger")
  BY <1>1
<1>3. \A k \in IdsIn(d, "shardLedger") : e[LedgerRef(k)].delta = d[LedgerRef(k)].delta
  BY <1>1
<1> QED
  BY <1>2, <1>3 DEF Ledger

\* the claims,
LEMMA ClaimsKept ==
    ASSUME NEW d, Documents(d), NEW e, Documents(e),
           \A t : /\ ClaimRef(t) \in DOMAIN e <=> ClaimRef(t) \in DOMAIN d
                  /\ ClaimRef(t) \in DOMAIN d => e[ClaimRef(t)] = d[ClaimRef(t)]
    PROVE  Claims(e) = Claims(d)
<1>1. \A t : /\ t \in IdsIn(d, "iapTransactions") <=> ClaimRef(t) \in DOMAIN d
             /\ t \in IdsIn(e, "iapTransactions") <=> ClaimRef(t) \in DOMAIN e
  BY IdsFacts
<1>2. IdsIn(e, "iapTransactions") = IdsIn(d, "iapTransactions")
  BY <1>1
<1>3. \A t \in IdsIn(d, "iapTransactions") : e[ClaimRef(t)] = d[ClaimRef(t)]
  BY <1>1
<1> QED
  BY <1>2, <1>3 DEF Claims

\* and the records of refunds.
LEMMA RefundsKept ==
    ASSUME NEW d, Documents(d), NEW e, Documents(e),
           \A t : /\ RefundRef(t) \in DOMAIN e <=> RefundRef(t) \in DOMAIN d
                  /\ RefundRef(t) \in DOMAIN d => e[RefundRef(t)] = d[RefundRef(t)]
    PROVE  Refunds(e) = Refunds(d)
<1>1. \A t : /\ t \in IdsIn(d, "iapRefunds") <=> RefundRef(t) \in DOMAIN d
             /\ t \in IdsIn(e, "iapRefunds") <=> RefundRef(t) \in DOMAIN e
  BY IdsFacts
<1>2. IdsIn(e, "iapRefunds") = IdsIn(d, "iapRefunds")
  BY <1>1
<1>3. \A t \in IdsIn(d, "iapRefunds") : e[RefundRef(t)] = d[RefundRef(t)]
  BY <1>1
<1> QED
  BY <1>2, <1>3 DEF Refunds

(***************************************************************************)
(* What writing one document does to the collections.                      *)
(***************************************************************************)

\* A wallet is written.
LEMMA PutWallet ==
    ASSUME NEW d, Documents(d), NEW u \in Users, NEW w \in Wallet
    PROVE  LET e == Put(d, WalletRef(u), w) IN
           /\ Documents(e)
           /\ Wallets(e) = [Wallets(d) EXCEPT ![u] = w]
           /\ Ledger(e) = Ledger(d)
           /\ Quotas(e) = Quotas(d)
           /\ Claims(e) = Claims(d)
           /\ Refunds(e) = Refunds(d)
<1> DEFINE e == Put(d, WalletRef(u), w)
<1>1. Documents(e)
  <2>1. IsDoc(WalletRef(u), w)
    BY DEF IsDoc
  <2> QED
    BY <2>1, PutDocuments
<1>2. /\ DOMAIN e = DOMAIN d \cup {WalletRef(u)}
      /\ e[WalletRef(u)] = w
      /\ \A r \in DOMAIN d : r # WalletRef(u) => e[r] = d[r]
  BY DEF Put
<1> HIDE DEF e
<1>3. Wallets(e) = [Wallets(d) EXCEPT ![u] = w]
  <2>1. \A v \in Users : WalletIn(e, v) = IF v = u THEN w ELSE WalletIn(d, v)
    BY <1>2, RefFacts DEF WalletIn
  <2> QED
    BY <2>1 DEF Wallets
<1>4. Ledger(e) = Ledger(d)
  <2>1. \A x : LedgerRef(x) # WalletRef(u)
    BY RefFacts
  <2> QED
    BY <1>1, <1>2, <2>1, LedgerKept
<1>5. Quotas(e) = Quotas(d)
  <2>1. \A v \in Users, p \in Days : QuotaRef(v, p) # WalletRef(u)
    BY RefFacts
  <2> QED
    BY <1>1, <1>2, <2>1, QuotasKept
<1>6. Claims(e) = Claims(d)
  <2>1. \A x : ClaimRef(x) # WalletRef(u)
    BY RefFacts
  <2> QED
    BY <1>1, <1>2, <2>1, ClaimsKept
<1>7. Refunds(e) = Refunds(d)
  <2>1. \A x : RefundRef(x) # WalletRef(u)
    BY RefFacts
  <2> QED
    BY <1>1, <1>2, <2>1, RefundsKept
<1> QED
  BY <1>1, <1>3, <1>4, <1>5, <1>6, <1>7 DEF e

\* An entry is written.
LEMMA PutEntry ==
    ASSUME NEW d, Documents(d), NEW k \in Keys, NEW n \in Int
    PROVE  LET e == Put(d, LedgerRef(k), Entry(n)) IN
           /\ Documents(e)
           /\ Wallets(e) = Wallets(d)
           /\ Ledger(e) = Create(Ledger(d), k, n)
           /\ Quotas(e) = Quotas(d)
           /\ Claims(e) = Claims(d)
           /\ Refunds(e) = Refunds(d)
<1> DEFINE e == Put(d, LedgerRef(k), Entry(n))
<1>1. Documents(e)
  <2>1. IsDoc(LedgerRef(k), Entry(n))
    BY DEF IsDoc, Entry
  <2> QED
    BY <2>1, PutDocuments
<1>2. /\ DOMAIN e = DOMAIN d \cup {LedgerRef(k)}
      /\ e[LedgerRef(k)] = Entry(n)
      /\ \A r \in DOMAIN d : r # LedgerRef(k) => e[r] = d[r]
  BY DEF Put
<1> HIDE DEF e
<1>3. Wallets(e) = Wallets(d)
  <2>1. \A v \in Users : WalletRef(v) # LedgerRef(k)
    BY RefFacts
  <2> QED
    BY <1>1, <1>2, <2>1, WalletsKept
<1>4. Ledger(e) = Create(Ledger(d), k, n)
  <2>1. /\ \A x : x \in IdsIn(e, "shardLedger") <=> LedgerRef(x) \in DOMAIN e
        /\ \A x : x \in IdsIn(d, "shardLedger") <=> LedgerRef(x) \in DOMAIN d
    BY <1>1, IdsFacts
  <2>2. \A x : LedgerRef(x) \in DOMAIN e <=> x = k \/ LedgerRef(x) \in DOMAIN d
    BY <1>2, RefFacts
  <2>3. IdsIn(e, "shardLedger") = IdsIn(d, "shardLedger") \cup {k}
    BY <2>1, <2>2
  <2>4. e[LedgerRef(k)].delta = n
    BY <1>2 DEF Entry
  <2>5. \A x \in IdsIn(d, "shardLedger") :
          x # k => e[LedgerRef(x)].delta = d[LedgerRef(x)].delta
    BY <1>2, <2>1, RefFacts
  <2> QED
    BY <2>3, <2>4, <2>5 DEF Ledger, Create
<1>5. Quotas(e) = Quotas(d)
  <2>1. \A v \in Users, p \in Days : QuotaRef(v, p) # LedgerRef(k)
    BY RefFacts
  <2> QED
    BY <1>1, <1>2, <2>1, QuotasKept
<1>6. Claims(e) = Claims(d)
  <2>1. \A x : ClaimRef(x) # LedgerRef(k)
    BY RefFacts
  <2> QED
    BY <1>1, <1>2, <2>1, ClaimsKept
<1>7. Refunds(e) = Refunds(d)
  <2>1. \A x : RefundRef(x) # LedgerRef(k)
    BY RefFacts
  <2> QED
    BY <1>1, <1>2, <2>1, RefundsKept
<1> QED
  BY <1>1, <1>3, <1>4, <1>5, <1>6, <1>7 DEF e

\* A day's count is written.
LEMMA PutQuota ==
    ASSUME NEW d, Documents(d), NEW u \in Users, NEW day \in Days, NEW n,
           IsDoc(QuotaRef(u, day), [count |-> n])
    PROVE  LET e == Put(d, QuotaRef(u, day), [count |-> n]) IN
           /\ Documents(e)
           /\ Wallets(e) = Wallets(d)
           /\ Ledger(e) = Ledger(d)
           /\ Quotas(e) = [Quotas(d) EXCEPT ![<<u, day>>] = n]
           /\ Claims(e) = Claims(d)
           /\ Refunds(e) = Refunds(d)
<1> DEFINE e == Put(d, QuotaRef(u, day), [count |-> n])
<1>1. Documents(e)
  BY PutDocuments
<1>2. /\ DOMAIN e = DOMAIN d \cup {QuotaRef(u, day)}
      /\ e[QuotaRef(u, day)] = [count |-> n]
      /\ \A r \in DOMAIN d : r # QuotaRef(u, day) => e[r] = d[r]
  BY DEF Put
<1> HIDE DEF e
<1>3. Wallets(e) = Wallets(d)
  <2>1. \A v \in Users : WalletRef(v) # QuotaRef(u, day)
    BY RefFacts
  <2> QED
    BY <1>1, <1>2, <2>1, WalletsKept
<1>4. Ledger(e) = Ledger(d)
  <2>1. \A x : LedgerRef(x) # QuotaRef(u, day)
    BY RefFacts
  <2> QED
    BY <1>1, <1>2, <2>1, LedgerKept
<1>5. Quotas(e) = [Quotas(d) EXCEPT ![<<u, day>>] = n]
  <2>1. \A v \in Users, p \in Days :
          v # u \/ p # day => CountIn(e, v, p) = CountIn(d, v, p)
    <3>1. \A v \in Users, p \in Days :
            v # u \/ p # day => QuotaRef(v, p) # QuotaRef(u, day)
      BY RefFacts
    <3> QED
      BY <1>2, <3>1 DEF CountIn
  <2>2. CountIn(e, u, day) = n
    BY <1>2 DEF CountIn
  <2>3. \A x \in Users \X Days :
          x # <<u, day>> => CountIn(e, x[1], x[2]) = CountIn(d, x[1], x[2])
    BY <2>1
  <2> DEFINE new == [Quotas(d) EXCEPT ![<<u, day>>] = n]
  <2>4. /\ DOMAIN new = Users \X Days
        /\ new[<<u, day>>] = n
        /\ \A x \in Users \X Days : x # <<u, day>> => new[x] = CountIn(d, x[1], x[2])
    BY DEF Quotas
  <2>5. \A x \in Users \X Days : new[x] = CountIn(e, x[1], x[2])
    BY <2>2, <2>3, <2>4
  <2>6. new = [x \in DOMAIN new |-> new[x]]
    BY DEF Quotas
  <2> HIDE DEF new
  <2>7. Quotas(e) = new
    BY <2>4, <2>5, <2>6 DEF Quotas
  <2> QED
    BY <2>7 DEF new
<1>6. Claims(e) = Claims(d)
  <2>1. \A x : ClaimRef(x) # QuotaRef(u, day)
    BY RefFacts
  <2> QED
    BY <1>1, <1>2, <2>1, ClaimsKept
<1>7. Refunds(e) = Refunds(d)
  <2>1. \A x : RefundRef(x) # QuotaRef(u, day)
    BY RefFacts
  <2> QED
    BY <1>1, <1>2, <2>1, RefundsKept
<1> QED
  BY <1>1, <1>3, <1>4, <1>5, <1>6, <1>7 DEF e

\* A claim is written.
LEMMA PutClaim ==
    ASSUME NEW d, Documents(d), NEW t \in Txns, NEW doc \in Claim
    PROVE  LET e == Put(d, ClaimRef(t), doc) IN
           /\ Documents(e)
           /\ Wallets(e) = Wallets(d)
           /\ Ledger(e) = Ledger(d)
           /\ Quotas(e) = Quotas(d)
           /\ Claims(e) = Create(Claims(d), t, doc)
           /\ Refunds(e) = Refunds(d)
<1> DEFINE e == Put(d, ClaimRef(t), doc)
<1>1. Documents(e)
  <2>1. IsDoc(ClaimRef(t), doc)
    BY DEF IsDoc
  <2> QED
    BY <2>1, PutDocuments
<1>2. /\ DOMAIN e = DOMAIN d \cup {ClaimRef(t)}
      /\ e[ClaimRef(t)] = doc
      /\ \A r \in DOMAIN d : r # ClaimRef(t) => e[r] = d[r]
  BY DEF Put
<1> HIDE DEF e
<1>3. Wallets(e) = Wallets(d)
  <2>1. \A v \in Users : WalletRef(v) # ClaimRef(t)
    BY RefFacts
  <2> QED
    BY <1>1, <1>2, <2>1, WalletsKept
<1>4. Ledger(e) = Ledger(d)
  <2>1. \A x : LedgerRef(x) # ClaimRef(t)
    BY RefFacts
  <2> QED
    BY <1>1, <1>2, <2>1, LedgerKept
<1>5. Quotas(e) = Quotas(d)
  <2>1. \A v \in Users, p \in Days : QuotaRef(v, p) # ClaimRef(t)
    BY RefFacts
  <2> QED
    BY <1>1, <1>2, <2>1, QuotasKept
<1>6. Claims(e) = Create(Claims(d), t, doc)
  <2>1. /\ \A x : x \in IdsIn(e, "iapTransactions") <=> ClaimRef(x) \in DOMAIN e
        /\ \A x : x \in IdsIn(d, "iapTransactions") <=> ClaimRef(x) \in DOMAIN d
    BY <1>1, IdsFacts
  <2>2. \A x : ClaimRef(x) \in DOMAIN e <=> x = t \/ ClaimRef(x) \in DOMAIN d
    BY <1>2, RefFacts
  <2>3. IdsIn(e, "iapTransactions") = IdsIn(d, "iapTransactions") \cup {t}
    BY <2>1, <2>2
  <2>4. \A x \in IdsIn(d, "iapTransactions") : x # t => e[ClaimRef(x)] = d[ClaimRef(x)]
    BY <1>2, <2>1, RefFacts
  <2> QED
    BY <1>2, <2>3, <2>4 DEF Claims, Create
<1>7. Refunds(e) = Refunds(d)
  <2>1. \A x : RefundRef(x) # ClaimRef(t)
    BY RefFacts
  <2> QED
    BY <1>1, <1>2, <2>1, RefundsKept
<1> QED
  BY <1>1, <1>3, <1>4, <1>5, <1>6, <1>7 DEF e

\* The record of a refund is written.
LEMMA PutRefund ==
    ASSUME NEW d, Documents(d), NEW t \in Txns, NEW doc \in Refund
    PROVE  LET e == Put(d, RefundRef(t), doc) IN
           /\ Documents(e)
           /\ Wallets(e) = Wallets(d)
           /\ Ledger(e) = Ledger(d)
           /\ Quotas(e) = Quotas(d)
           /\ Claims(e) = Claims(d)
           /\ Refunds(e) = Create(Refunds(d), t, doc)
<1> DEFINE e == Put(d, RefundRef(t), doc)
<1>1. Documents(e)
  <2>1. IsDoc(RefundRef(t), doc)
    BY DEF IsDoc
  <2> QED
    BY <2>1, PutDocuments
<1>2. /\ DOMAIN e = DOMAIN d \cup {RefundRef(t)}
      /\ e[RefundRef(t)] = doc
      /\ \A r \in DOMAIN d : r # RefundRef(t) => e[r] = d[r]
  BY DEF Put
<1> HIDE DEF e
<1>3. Wallets(e) = Wallets(d)
  <2>1. \A v \in Users : WalletRef(v) # RefundRef(t)
    BY RefFacts
  <2> QED
    BY <1>1, <1>2, <2>1, WalletsKept
<1>4. Ledger(e) = Ledger(d)
  <2>1. \A x : LedgerRef(x) # RefundRef(t)
    BY RefFacts
  <2> QED
    BY <1>1, <1>2, <2>1, LedgerKept
<1>5. Quotas(e) = Quotas(d)
  <2>1. \A v \in Users, p \in Days : QuotaRef(v, p) # RefundRef(t)
    BY RefFacts
  <2> QED
    BY <1>1, <1>2, <2>1, QuotasKept
<1>6. Claims(e) = Claims(d)
  <2>1. \A x : ClaimRef(x) # RefundRef(t)
    BY RefFacts
  <2> QED
    BY <1>1, <1>2, <2>1, ClaimsKept
<1>7. Refunds(e) = Create(Refunds(d), t, doc)
  <2>1. /\ \A x : x \in IdsIn(e, "iapRefunds") <=> RefundRef(x) \in DOMAIN e
        /\ \A x : x \in IdsIn(d, "iapRefunds") <=> RefundRef(x) \in DOMAIN d
    BY <1>1, IdsFacts
  <2>2. \A x : RefundRef(x) \in DOMAIN e <=> x = t \/ RefundRef(x) \in DOMAIN d
    BY <1>2, RefFacts
  <2>3. IdsIn(e, "iapRefunds") = IdsIn(d, "iapRefunds") \cup {t}
    BY <2>1, <2>2
  <2>4. \A x \in IdsIn(d, "iapRefunds") : x # t => e[RefundRef(x)] = d[RefundRef(x)]
    BY <1>2, <2>1, RefFacts
  <2> QED
    BY <1>2, <2>3, <2>4 DEF Refunds, Create
<1> QED
  BY <1>1, <1>3, <1>4, <1>5, <1>6, <1>7 DEF e

----------------------------------------------------------------------------
(***************************************************************************)
(* The atomic steps                                                        *)
(***************************************************************************)

\* The instance computes with the same operators.
LEMMA SameOperators ==
    /\ \A u, r, e : L!Key(u, r, e) = Key(u, r, e)
    /\ \A w, n : /\ L!Moved(w, n) = Moved(w, n)
                 /\ L!Recovered(w, n) = Recovered(w, n)
                 /\ L!Restored(w, n) = Restored(w, n)
    /\ \A c, i, doc : L!Create(c, i, doc) = Create(c, i, doc)
    /\ \A n, p : L!requested_amount(n, p) = requested_amount(n, p)
    /\ \A n, p : L!recovered_amount(n, p) = recovered_amount(n, p)
    /\ \A r : L!remaining(r) = remaining(r)
    /\ L!DAILY_REWARD = DAILY_REWARD /\ L!REWARD_PER_AD = REWARD_PER_AD
    /\ L!Checked = Checked
  BY DEF L!Key, Key, L!Moved, Moved, L!Recovered, Recovered, L!Restored, Restored,
         L!Greater, Greater, L!Lesser, Lesser, L!Create, Create, L!requested_amount,
         requested_amount, L!recovered_amount, recovered_amount, L!remaining, remaining,
         L!MILLIUNITS_PER_UNIT, MILLIUNITS_PER_UNIT, L!DAILY_REWARD, DAILY_REWARD,
         L!REWARD_PER_AD, REWARD_PER_AD, L!Checked, Checked

\* What the collections hold, in terms of the documents.
LEMMA CollectionFacts ==
    ASSUME NEW d, Documents(d)
    PROVE  /\ \A k : k \in DOMAIN Ledger(d) <=> LedgerRef(k) \in DOMAIN d
           /\ \A t : t \in DOMAIN Claims(d) <=> ClaimRef(t) \in DOMAIN d
           /\ \A t \in DOMAIN Claims(d) : Claims(d)[t] = d[ClaimRef(t)] /\ Claims(d)[t] \in Claim
           /\ \A t : t \in DOMAIN Refunds(d) <=> RefundRef(t) \in DOMAIN d
           /\ \A t \in DOMAIN Refunds(d) :
                Refunds(d)[t] = d[RefundRef(t)] /\ Refunds(d)[t] \in Refund
<1>1. /\ \A k : k \in DOMAIN Ledger(d) <=> LedgerRef(k) \in DOMAIN d
      /\ \A t : t \in DOMAIN Claims(d) <=> ClaimRef(t) \in DOMAIN d
      /\ \A t : t \in DOMAIN Refunds(d) <=> RefundRef(t) \in DOMAIN d
  BY IdsFacts DEF Ledger, Claims, Refunds
<1>2. \A t \in DOMAIN Claims(d) : Claims(d)[t] = d[ClaimRef(t)]
  BY DEF Claims
<1>3. \A t \in DOMAIN Refunds(d) : Refunds(d)[t] = d[RefundRef(t)]
  BY DEF Refunds
<1>4. /\ \A t : ClaimRef(t) \in DOMAIN d => d[ClaimRef(t)] \in Claim
      /\ \A t : RefundRef(t) \in DOMAIN d => d[RefundRef(t)] \in Refund
  BY DocFacts
<1> QED
  BY <1>1, <1>2, <1>3, <1>4

\* A wallet that was never written, and a day without a count, read as nothing.
LEMMA ReadFacts ==
    ASSUME NEW d, Documents(d), NEW u \in Users
    PROVE  /\ WalletIn(d, u) \in Wallet
           /\ Wallets(d)[u] = WalletIn(d, u)
           /\ \A p \in Days : /\ CountIn(d, u, p) \in 0..DAILY_REWARD_LIMIT
                              /\ Quotas(d)[<<u, p>>] = CountIn(d, u, p)
<1>1. EmptyWallet \in Wallet
  BY DEF EmptyWallet, Wallet
<1>2. WalletIn(d, u) \in Wallet
  BY <1>1, DocFacts DEF WalletIn
<1>3. \A p \in Days : CountIn(d, u, p) \in 0..DAILY_REWARD_LIMIT
  <2>1. 0 \in 0..DAILY_REWARD_LIMIT
    BY LimitsAssumption
  <2>2. \A p : QuotaRef(u, p) \in DOMAIN d =>
           d[QuotaRef(u, p)].count \in 0..DAILY_REWARD_LIMIT
    BY DocFacts
  <2> QED
    BY <2>1, <2>2 DEF CountIn
<1>4. Wallets(d)[u] = WalletIn(d, u)
  BY DEF Wallets
<1>5. \A p \in Days : Quotas(d)[<<u, p>>] = CountIn(d, u, p)
  BY DEF Quotas
<1> QED
  BY <1>2, <1>3, <1>4, <1>5

\* A movement the balance allows leaves a well-formed wallet.
LEMMA MovedIsWallet ==
    ASSUME NEW w \in Wallet, NEW n \in Int, w.balance + n >= 0
    PROVE  Moved(w, n) \in Wallet
  BY DEF Moved, Wallet, Greater

\* The two writes every ordinary movement shares.
LEMMA ApplyWritten ==
    ASSUME NEW d, Documents(d), NEW u \in Users, NEW n \in Int,
           NEW reason \in Reasons, NEW event \in Events,
           WalletIn(d, u).balance + n >= 0
    PROVE  LET k == Key(u, reason, event)
               e == Put(Put(d, LedgerRef(k), Entry(n)), WalletRef(u), Moved(WalletIn(d, u), n))
           IN
           /\ Documents(e)
           /\ Wallets(e) = [Wallets(d) EXCEPT ![u] = Moved(Wallets(d)[u], n)]
           /\ Ledger(e) = Create(Ledger(d), k, n)
           /\ Quotas(e) = Quotas(d)
           /\ Claims(e) = Claims(d)
           /\ Refunds(e) = Refunds(d)
<1> DEFINE k == Key(u, reason, event)
           w == Moved(WalletIn(d, u), n)
           b == Put(d, LedgerRef(k), Entry(n))
           e == Put(b, WalletRef(u), w)
<1>1. k \in Keys
  BY KeyFacts
<1>2. w \in Wallet
  BY ReadFacts, MovedIsWallet
<1>3. Wallets(d)[u] = WalletIn(d, u)
  BY ReadFacts
<1> HIDE DEF k
<1>4. /\ Documents(b)
      /\ Wallets(b) = Wallets(d)
      /\ Ledger(b) = Create(Ledger(d), k, n)
      /\ Quotas(b) = Quotas(d)
      /\ Claims(b) = Claims(d)
      /\ Refunds(b) = Refunds(d)
  BY <1>1, PutEntry
<1> HIDE DEF b, w
<1>5. /\ Documents(e)
      /\ Wallets(e) = [Wallets(b) EXCEPT ![u] = w]
      /\ Ledger(e) = Ledger(b)
      /\ Quotas(e) = Quotas(b)
      /\ Claims(e) = Claims(b)
      /\ Refunds(e) = Refunds(b)
  BY <1>2, <1>4, PutWallet
<1> HIDE DEF e
<1>6. Wallets(e) = [Wallets(d) EXCEPT ![u] = Moved(Wallets(d)[u], n)]
  BY <1>3, <1>4, <1>5 DEF w
<1>7. /\ Documents(e)
      /\ Ledger(e) = Create(Ledger(d), k, n)
      /\ Quotas(e) = Quotas(d)
      /\ Claims(e) = Claims(d)
      /\ Refunds(e) = Refunds(d)
  BY <1>4, <1>5
<1> QED
  BY <1>6, <1>7 DEF e, b, w, k

(***************************************************************************)
(* What the documents that an attempt does not read have to do with those  *)
(* it reads: a claim has its credit, the entry of a refund its record, and *)
(* the entry of a reversal a record with nothing left to give back.        *)
(***************************************************************************)
ClaimsCredited(d) ==
    \A t \in DOMAIN Claims(d) :
        Key(Claims(d)[t].userId, "iap_purchase", t) \in DOMAIN Ledger(d)

RefundsRecorded(d) ==
    \A u \in Users, t \in Txns :
        Key(u, "iap_refund", t) \in DOMAIN Ledger(d) => t \in DOMAIN Refunds(d)

ReversalsRecorded(d) ==
    \A u \in Users, t \in Txns :
        Key(u, "iap_refund_reversed", t) \in DOMAIN Ledger(d) =>
            t \in DOMAIN Refunds(d) /\ remaining(Refunds(d)[t]) = 0

DbInv(d) ==
    /\ Documents(d)
    /\ ClaimsCredited(d)
    /\ RefundsRecorded(d)
    /\ ReversalsRecorded(d)

\* One more entry of another kind disturbs none of it.
LEMMA EntryKeepsDbInv ==
    ASSUME NEW d, DbInv(d), NEW e, Documents(e), NEW u, NEW reason, NEW event, NEW n,
           reason \notin {"iap_refund", "iap_refund_reversed"},
           Ledger(e) = Create(Ledger(d), Key(u, reason, event), n),
           Claims(e) = Claims(d), Refunds(e) = Refunds(d)
    PROVE  DbInv(e)
<1>1. DOMAIN Ledger(e) = DOMAIN Ledger(d) \cup {Key(u, reason, event)}
  BY DEF Create
<1>2. ClaimsCredited(e)
  BY <1>1 DEF DbInv, ClaimsCredited
<1>3. RefundsRecorded(e)
  BY <1>1, KeyFacts DEF DbInv, RefundsRecorded
<1>4. ReversalsRecorded(e)
  BY <1>1, KeyFacts DEF DbInv, ReversalsRecorded
<1> QED
  BY <1>2, <1>3, <1>4 DEF DbInv

\* What the requests are about.
LEMMA RequestFacts ==
    ASSUME NEW q \in Requests
    PROVE  /\ q.user \in Users
           /\ q.event \in Events
           /\ q.op = "attendance" => q.event \in Days
           /\ q.op = "ad" => q.event \in Ads
           /\ q.op \in {"iap", "refund", "reverse"} => q.event \in Txns
           /\ q.op \in {"debit", "credit_back"} => q.event \in Orders /\ q.amount \in Checked
           /\ q.op = "refund" => q.amount \in Percentages
           /\ q.op = "guest_claim" => q.event \in Users
           /\ q.op \in {"attendance", "ad", "iap", "debit", "credit_back", "refund",
                        "reverse", "guest_claim"}
  BY RequestsAssumption DEF Request, Events

(***************************************************************************)
(* Applied(q): what a request that decides from the database itself does.  *)
(***************************************************************************)
Applied(q) == Answer(q, db) = "applied" /\ db' = Writes(q, db, db)

\* An ordinary movement: what attendance, ads, purchases, debits and credits share.
LEMMA MovementStep ==
    ASSUME DbInv(db), NEW q \in Requests, Applied(q),
           q.op \in {"attendance", "ad", "iap", "debit", "credit_back"}
    PROVE  LET e == apply_writes(q, db, db) IN
           /\ Documents(e)
           /\ Delta(q) \in Int
           /\ Reason[q.op] \in Reasons
           /\ Key(q.user, Reason[q.op], q.event) \notin DOMAIN Ledger(db)
           /\ Wallets(db)[q.user].balance + Delta(q) >= 0
           /\ Wallets(e) =
                [Wallets(db) EXCEPT ![q.user] = Moved(Wallets(db)[q.user], Delta(q))]
           /\ Ledger(e) = Create(Ledger(db), Key(q.user, Reason[q.op], q.event), Delta(q))
           /\ Quotas(e) = Quotas(db)
           /\ Claims(e) = Claims(db)
           /\ Refunds(e) = Refunds(db)
<1>1. q.user \in Users /\ q.event \in Events
  BY RequestFacts
<1>2. /\ Reason[q.op] \in Reasons
      /\ q.op = "attendance" => Reason[q.op] = "daily_attendance"
      /\ q.op = "ad" => Reason[q.op] = "rewarded_ad"
      /\ q.op = "iap" => Reason[q.op] = "iap_purchase"
      /\ q.op = "debit" => Reason[q.op] = "debit"
      /\ q.op = "credit_back" => Reason[q.op] = "refund"
  BY DEF Reason, Reasons
<1>3. /\ Delta(q) \in Int
      /\ q.op # "debit" => Delta(q) >= 0
      /\ q.op = "debit" => Delta(q) = -q.amount /\ q.amount \in Nat
  <2>1. q.op = "iap" => Amount[q.event] \in Nat
    BY RequestFacts, CatalogAssumption, LimitsAssumption
  <2>2. q.op \in {"debit", "credit_back"} => q.amount \in Nat
    BY RequestFacts, LimitsAssumption DEF Checked
  <2> QED
    BY <2>1, <2>2 DEF Delta, DAILY_REWARD, REWARD_PER_AD
<1>4. ~Known(q, db) /\ ~Refused(q, db)
  BY DEF Applied, Answer
<1>5. EntryRef(q) \notin DOMAIN db
  BY <1>4 DEF Known
<1>6. Key(q.user, Reason[q.op], q.event) \notin DOMAIN Ledger(db)
  BY <1>5, CollectionFacts DEF EntryRef, DbInv
<1>7. WalletIn(db, q.user) \in Wallet /\ Wallets(db)[q.user] = WalletIn(db, q.user)
  BY <1>1, ReadFacts DEF DbInv
<1>8. WalletIn(db, q.user).balance \in Nat
  BY <1>7 DEF Wallet
<1>9. WalletIn(db, q.user).balance + Delta(q) >= 0
  <2>1. CASE q.op = "debit"
    <3>1. ~(WalletIn(db, q.user).balance < q.amount)
      BY <1>4, <2>1 DEF Refused
    <3> QED
      BY <1>3, <1>8, <2>1, <3>1
  <2>2. CASE q.op # "debit"
    BY <1>3, <1>8, <2>2
  <2> QED
    BY <2>1, <2>2
<1> DEFINE e == apply_writes(q, db, db)
<1>10. /\ Documents(e)
       /\ Wallets(e) =
            [Wallets(db) EXCEPT ![q.user] = Moved(Wallets(db)[q.user], Delta(q))]
       /\ Ledger(e) = Create(Ledger(db), Key(q.user, Reason[q.op], q.event), Delta(q))
       /\ Quotas(e) = Quotas(db)
       /\ Claims(e) = Claims(db)
       /\ Refunds(e) = Refunds(db)
  BY <1>1, <1>2, <1>3, <1>9, ApplyWritten DEF apply_writes, EntryRef, DbInv
<1> QED
  BY <1>2, <1>3, <1>6, <1>7, <1>9, <1>10
\* A step of the ledger that moves one wallet.
LEMMA ApplyIs ==
    ASSUME NEW u \in Users, NEW n \in Int, NEW reason, NEW event,
           Key(u, reason, event) \notin DOMAIN Ledger(db),
           Wallets(db)[u].balance + n >= 0,
           Ledger(db') = Create(Ledger(db), Key(u, reason, event), n),
           Wallets(db') = [Wallets(db) EXCEPT ![u] = Moved(Wallets(db)[u], n)]
    PROVE  L!Apply(u, n, reason, event)
  BY SameOperators DEF L!Apply, Wallets, Ledger, IdsIn, IdsOf

\* An attendance is paid: one entry and the wallet.
LEMMA AttendanceStep ==
    ASSUME DbInv(db), NEW q \in Requests, Applied(q), q.op = "attendance"
    PROVE  L!Next /\ DbInv(db')
<1>1. db' = apply_writes(q, db, db)
  BY DEF Applied, Writes
<1>2. Reason[q.op] = "daily_attendance" /\ Delta(q) = DAILY_REWARD
  BY DEF Reason, Delta
<1>3. q.user \in Users /\ q.event \in Days
  BY RequestFacts
<1>4. /\ Documents(db')
      /\ DAILY_REWARD \in Int
      /\ Key(q.user, "daily_attendance", q.event) \notin DOMAIN Ledger(db)
      /\ Wallets(db)[q.user].balance + DAILY_REWARD >= 0
      /\ Wallets(db') =
           [Wallets(db) EXCEPT ![q.user] = Moved(Wallets(db)[q.user], DAILY_REWARD)]
      /\ Ledger(db') =
           Create(Ledger(db), Key(q.user, "daily_attendance", q.event), DAILY_REWARD)
      /\ Quotas(db') = Quotas(db)
      /\ Claims(db') = Claims(db)
      /\ Refunds(db') = Refunds(db)
  BY <1>1, <1>2, MovementStep
<1>5. L!Apply(q.user, DAILY_REWARD, "daily_attendance", q.event)
  BY <1>3, <1>4, ApplyIs
<1>6. L!Attendance(q.user, q.event)
  BY <1>4, <1>5, SameOperators
  DEF L!Attendance, Quotas, Claims, Refunds, IdsIn, IdsOf
<1>7. DbInv(db')
  BY <1>4, EntryKeepsDbInv
<1> QED
  BY <1>3, <1>6, <1>7 DEF L!Next

\* A rewarded ad is paid and counted in one commit.
LEMMA AdStep ==
    ASSUME DbInv(db), NEW q \in Requests, Applied(q), q.op = "ad"
    PROVE  L!Next /\ DbInv(db')
<1> DEFINE e == apply_writes(q, db, db)
           day == RewardDay[q.event]
           n == CountIn(db, q.user, day)
<1>1. db' = Put(e, QuotaRef(q.user, day), [count |-> n + 1])
  BY DEF Applied, Writes, quota_writes
<1>2. Reason[q.op] = "rewarded_ad" /\ Delta(q) = REWARD_PER_AD
  BY DEF Reason, Delta
<1>3. q.user \in Users /\ q.event \in Ads /\ day \in Days
  BY RequestFacts, CatalogAssumption
<1>4. /\ Documents(e)
      /\ REWARD_PER_AD \in Int
      /\ Key(q.user, "rewarded_ad", q.event) \notin DOMAIN Ledger(db)
      /\ Wallets(db)[q.user].balance + REWARD_PER_AD >= 0
      /\ Wallets(e) =
           [Wallets(db) EXCEPT ![q.user] = Moved(Wallets(db)[q.user], REWARD_PER_AD)]
      /\ Ledger(e) =
           Create(Ledger(db), Key(q.user, "rewarded_ad", q.event), REWARD_PER_AD)
      /\ Quotas(e) = Quotas(db)
      /\ Claims(e) = Claims(db)
      /\ Refunds(e) = Refunds(db)
  BY <1>2, MovementStep
<1>5. /\ n \in 0..DAILY_REWARD_LIMIT
      /\ Quotas(db)[<<q.user, day>>] = n
  BY <1>3, ReadFacts DEF DbInv
<1>6. n < DAILY_REWARD_LIMIT
  <2>1. ~(n >= DAILY_REWARD_LIMIT)
    BY DEF Applied, Answer, Refused
  <2> QED
    BY <1>5, <2>1, LimitsAssumption
<1>7. IsDoc(QuotaRef(q.user, day), [count |-> n + 1])
  <2>1. n + 1 \in 0..DAILY_REWARD_LIMIT
    BY <1>5, <1>6, LimitsAssumption
  <2> QED
    BY <1>3, <2>1 DEF IsDoc
<1> HIDE DEF e, n, day
<1>8. /\ Documents(db')
      /\ Quotas(db') = [Quotas(e) EXCEPT ![<<q.user, day>>] = n + 1]
      /\ Wallets(db') = Wallets(e)
      /\ Ledger(db') = Ledger(e)
      /\ Claims(db') = Claims(e)
      /\ Refunds(db') = Refunds(e)
  <2> DEFINE m == n + 1
  <2>1. Documents(e)
    BY <1>4
  <2>2. IsDoc(QuotaRef(q.user, day), [count |-> m])
    BY <1>7
  <2> HIDE DEF m
  <2>3. LET w == Put(e, QuotaRef(q.user, day), [count |-> m]) IN
        /\ Documents(w)
        /\ Wallets(w) = Wallets(e)
        /\ Ledger(w) = Ledger(e)
        /\ Quotas(w) = [Quotas(e) EXCEPT ![<<q.user, day>>] = m]
        /\ Claims(w) = Claims(e)
        /\ Refunds(w) = Refunds(e)
    BY <1>3, <2>1, <2>2, PutQuota
  <2> QED
    BY <1>1, <2>3 DEF m
<1>9. L!Apply(q.user, REWARD_PER_AD, "rewarded_ad", q.event)
  BY <1>3, <1>4, <1>8, ApplyIs
<1>10. /\ Quotas(db)[<<q.user, day>>] < DAILY_REWARD_LIMIT
       /\ Quotas(db') = [Quotas(db) EXCEPT ![<<q.user, day>>] = Quotas(db)[<<q.user, day>>] + 1]
       /\ Claims(db') = Claims(db)
       /\ Refunds(db') = Refunds(db)
  BY <1>4, <1>5, <1>6, <1>8
<1>11. L!RewardedAd(q.user, q.event)
  BY <1>9, <1>10, SameOperators
  DEF L!RewardedAd, Quotas, Claims, Refunds, IdsIn, IdsOf, day
<1>12. DbInv(db')
  BY <1>4, <1>8, EntryKeepsDbInv
<1> QED
  BY <1>3, <1>11, <1>12 DEF L!Next

\* A purchase is credited: no claim without its credit, so the claim is new.
LEMMA IapStep ==
    ASSUME DbInv(db), NEW q \in Requests, Applied(q), q.op = "iap"
    PROVE  L!Next /\ DbInv(db')
<1> DEFINE e == apply_writes(q, db, db)
           n == Amount[q.event]
           claim == [userId |-> q.user, amount |-> n]
           k == Key(q.user, "iap_purchase", q.event)
<1>1. db' = Put(e, ClaimRef(q.event), claim)
  BY DEF Applied, Writes, claim_writes
<1>2. Reason[q.op] = "iap_purchase" /\ Delta(q) = n
  BY DEF Reason, Delta
<1>3. q.user \in Users /\ q.event \in Txns /\ claim \in Claim
  BY RequestFacts, CatalogAssumption DEF Claim
<1>4. /\ Documents(e)
      /\ n \in Int
      /\ k \notin DOMAIN Ledger(db)
      /\ Wallets(db)[q.user].balance + n >= 0
      /\ Wallets(e) = [Wallets(db) EXCEPT ![q.user] = Moved(Wallets(db)[q.user], n)]
      /\ Ledger(e) = Create(Ledger(db), k, n)
      /\ Quotas(e) = Quotas(db)
      /\ Claims(e) = Claims(db)
      /\ Refunds(e) = Refunds(db)
  BY <1>2, MovementStep
<1>5. q.event \notin DOMAIN Claims(db)
  <2>1. ~NotTheirs(q, db)
    BY DEF Applied, Answer
  <2>2. q.event \in DOMAIN Claims(db) => Claims(db)[q.event].userId = q.user
    BY <2>1, CollectionFacts DEF NotTheirs, DbInv
  <2> QED
    BY <1>4, <2>2 DEF DbInv, ClaimsCredited
<1> HIDE DEF e, n, claim
<1>6. /\ Documents(db')
      /\ Claims(db') = Create(Claims(e), q.event, claim)
      /\ Wallets(db') = Wallets(e)
      /\ Ledger(db') = Ledger(e)
      /\ Quotas(db') = Quotas(e)
      /\ Refunds(db') = Refunds(e)
  BY <1>1, <1>3, <1>4, PutClaim
<1>7. L!Apply(q.user, n, "iap_purchase", q.event)
  BY <1>3, <1>4, <1>6, ApplyIs
<1>8. /\ Claims(db') = Create(Claims(db), q.event, claim)
      /\ Quotas(db') = Quotas(db)
      /\ Refunds(db') = Refunds(db)
  BY <1>4, <1>6
<1>9. L!IapCredit(q.user, q.event)
  BY <1>5, <1>7, <1>8, SameOperators
  DEF L!IapCredit, Quotas, Claims, Refunds, IdsIn, IdsOf, claim, n
<1>10. DbInv(db')
  <2>1. /\ DOMAIN Ledger(db') = DOMAIN Ledger(db) \cup {k}
        /\ DOMAIN Claims(db') = DOMAIN Claims(db) \cup {q.event}
        /\ Claims(db')[q.event].userId = q.user
        /\ \A t \in DOMAIN Claims(db) : t # q.event => Claims(db')[t] = Claims(db)[t]
    BY <1>4, <1>6, <1>8 DEF Create, claim
  <2>2. ClaimsCredited(db')
    BY <2>1 DEF DbInv, ClaimsCredited
  <2>3. RefundsRecorded(db')
    BY <1>8, <2>1, KeyFacts DEF DbInv, RefundsRecorded
  <2>4. ReversalsRecorded(db')
    BY <1>8, <2>1, KeyFacts DEF DbInv, ReversalsRecorded
  <2> QED
    BY <1>6, <2>2, <2>3, <2>4 DEF DbInv
<1> QED
  BY <1>3, <1>9, <1>10 DEF L!Next

\* A debit the balance covers, or a price given back.
LEMMA DebitStep ==
    ASSUME DbInv(db), NEW q \in Requests, Applied(q), q.op \in {"debit", "credit_back"}
    PROVE  L!Next /\ DbInv(db')
<1>1. db' = apply_writes(q, db, db)
  BY DEF Applied, Writes
<1>2. /\ q.op = "debit" => Reason[q.op] = "debit" /\ Delta(q) = -q.amount
      /\ q.op = "credit_back" => Reason[q.op] = "refund" /\ Delta(q) = q.amount
  BY DEF Reason, Delta
<1>3. q.user \in Users /\ q.event \in Orders /\ q.amount \in Checked
  BY RequestFacts
<1>4. /\ Documents(db')
      /\ Delta(q) \in Int
      /\ Key(q.user, Reason[q.op], q.event) \notin DOMAIN Ledger(db)
      /\ Wallets(db)[q.user].balance + Delta(q) >= 0
      /\ Wallets(db') =
           [Wallets(db) EXCEPT ![q.user] = Moved(Wallets(db)[q.user], Delta(q))]
      /\ Ledger(db') = Create(Ledger(db), Key(q.user, Reason[q.op], q.event), Delta(q))
      /\ Quotas(db') = Quotas(db)
      /\ Claims(db') = Claims(db)
      /\ Refunds(db') = Refunds(db)
  BY <1>1, MovementStep
<1>5. L!Apply(q.user, Delta(q), Reason[q.op], q.event)
  BY <1>3, <1>4, ApplyIs
<1>6. CASE q.op = "debit"
  <2>1. L!Apply(q.user, -q.amount, "debit", q.event)
    BY <1>2, <1>5, <1>6
  <2>2. L!Debit(q.user, q.event, q.amount)
    BY <1>4, <2>1 DEF L!Debit, Quotas, Claims, Refunds, IdsIn, IdsOf
  <2> QED
    BY <1>2, <1>3, <1>4, <1>6, <2>2, EntryKeepsDbInv, SameOperators DEF L!Next
<1>7. CASE q.op = "credit_back"
  <2>1. L!Apply(q.user, q.amount, "refund", q.event)
    BY <1>2, <1>5, <1>7
  <2>2. L!CreditBack(q.user, q.event, q.amount)
    BY <1>4, <2>1 DEF L!CreditBack, Quotas, Claims, Refunds, IdsIn, IdsOf
  <2> QED
    BY <1>2, <1>3, <1>4, <1>7, <2>2, EntryKeepsDbInv, SameOperators DEF L!Next
<1> QED
  BY <1>6, <1>7
\* What a refund asks for and what it takes are amounts, and it takes what is there.
LEMMA RefundAmounts ==
    ASSUME NEW original \in 1..MAX_DELTA, NEW p \in Percentages, NEW balance \in Nat
    PROVE  LET requested == requested_amount(original, p)
               recovered == recovered_amount(balance, requested)
           IN  requested \in Nat /\ recovered \in Nat /\ recovered <= balance
<1> DEFINE requested == requested_amount(original, p)
<1>1. original \in Nat /\ p \in Int
  <2>1. MILLIUNITS_PER_UNIT \in Int
    BY DEF MILLIUNITS_PER_UNIT
  <2> QED
    BY <2>1, LimitsAssumption, PercentagesAssumption
<1>2. original * p \in Int
  BY <1>1
<1>3. \A x \in Int : x \div MILLIUNITS_PER_UNIT \in Int
  BY DEF MILLIUNITS_PER_UNIT
<1>4. (original * p) \div MILLIUNITS_PER_UNIT \in Int
  BY <1>2, <1>3
<1>5. requested \in Nat
  BY <1>1, <1>4 DEF requested_amount, Lesser, Greater
<1> HIDE DEF requested
<1>6. /\ recovered_amount(balance, requested) \in Nat
      /\ recovered_amount(balance, requested) <= balance
  BY <1>5 DEF recovered_amount, Lesser
<1> QED
  BY <1>5, <1>6 DEF requested

\* A refund: no entry without its record, so the entry it creates is new.
LEMMA RefundStep ==
    ASSUME DbInv(db), NEW q \in Requests, Applied(q), q.op = "refund"
    PROVE  L!Next /\ DbInv(db')
<1> DEFINE u == q.user
           t == q.event
           w == WalletIn(db, u)
           requested == requested_amount(Claims(db)[t].amount, q.amount)
           recovered == recovered_amount(w.balance, requested)
           record == [userId |-> u, requested |-> requested,
                      recovered |-> recovered, reversed |-> 0]
           k == Key(u, "iap_refund", t)
           recorded == Put(db, RefundRef(t), record)
           entered == Put(recorded, LedgerRef(k), Entry(-recovered))
           taken == Put(entered, WalletRef(u), Recovered(w, recovered))
<1>1. u \in Users /\ t \in Txns /\ q.amount \in Percentages
  BY RequestFacts
<1>2. t \in DOMAIN Claims(db) /\ Claims(db)[t].userId = u /\ Claims(db)[t] = db[ClaimRef(t)]
  <2>1. ~NotTheirs(q, db)
    BY DEF Applied, Answer
  <2> QED
    BY <2>1, CollectionFacts DEF NotTheirs, DbInv
<1>3. t \notin DOMAIN Refunds(db)
  <2>1. ~Known(q, db)
    BY DEF Applied, Answer
  <2> QED
    BY <2>1, CollectionFacts DEF Known, DbInv
<1>4. w \in Wallet /\ Wallets(db)[u] = w
  BY <1>1, ReadFacts DEF DbInv
<1>5. requested \in Nat /\ recovered \in Nat /\ recovered <= w.balance
  <2>1. Claims(db)[t].amount \in 1..MAX_DELTA
    BY <1>2, CollectionFacts DEF Claim, DbInv
  <2>2. w.balance \in Nat
    BY <1>4 DEF Wallet
  <2> QED
    BY <1>1, <2>1, <2>2, RefundAmounts
<1>6. db' = IF recovered > 0 THEN taken ELSE recorded
  <2>1. EntryRef(q) = LedgerRef(k)
    BY DEF EntryRef, Reason
  <2>2. db' = refund_writes(q, db, db)
    BY DEF Applied, Writes
  <2>3. db[ClaimRef(q.event)] = Claims(db)[t]
    BY <1>2
  <2> QED
    BY <2>1, <2>2, <2>3 DEF refund_writes
<1>7. k \notin DOMAIN Ledger(db) /\ k \in Keys
  <2>1. k \notin DOMAIN Ledger(db)
    BY <1>1, <1>3 DEF DbInv, RefundsRecorded
  <2>2. "iap_refund" \in Reasons /\ t \in Events
    BY <1>1 DEF Reasons, Events
  <2> QED
    BY <1>1, <2>1, <2>2, KeyFacts
<1>8. record \in Refund
  BY <1>1, <1>5 DEF Refund
<1>9. Recovered(w, recovered) \in Wallet
  BY <1>4, <1>5 DEF Recovered, Wallet
<1>10. /\ record.recovered = recovered
       /\ record.reversed = 0
  OBVIOUS
<1> HIDE DEF w, requested, recovered, record, k, recorded, entered, taken
<1>11. /\ Documents(recorded)
       /\ Refunds(recorded) = Create(Refunds(db), t, record)
       /\ Wallets(recorded) = Wallets(db)
       /\ Ledger(recorded) = Ledger(db)
       /\ Quotas(recorded) = Quotas(db)
       /\ Claims(recorded) = Claims(db)
  BY <1>1, <1>8, PutRefund DEF recorded, DbInv
<1>12. /\ Documents(entered)
       /\ Ledger(entered) = Create(Ledger(recorded), k, -recovered)
       /\ Wallets(entered) = Wallets(recorded)
       /\ Quotas(entered) = Quotas(recorded)
       /\ Claims(entered) = Claims(recorded)
       /\ Refunds(entered) = Refunds(recorded)
  <2>1. -recovered \in Int
    BY <1>5
  <2> QED
    BY <1>7, <1>11, <2>1, PutEntry DEF entered
<1>13. /\ Documents(taken)
       /\ Wallets(taken) = [Wallets(entered) EXCEPT ![u] = Recovered(w, recovered)]
       /\ Ledger(taken) = Ledger(entered)
       /\ Quotas(taken) = Quotas(entered)
       /\ Claims(taken) = Claims(entered)
       /\ Refunds(taken) = Refunds(entered)
  BY <1>1, <1>9, <1>12, PutWallet DEF taken
<1>14. /\ Documents(db')
       /\ Refunds(db') = Create(Refunds(db), t, record)
       /\ Quotas(db') = Quotas(db)
       /\ Claims(db') = Claims(db)
       /\ \/ /\ recovered > 0
             /\ Ledger(db') = Create(Ledger(db), k, -recovered)
             /\ Wallets(db') = [Wallets(db) EXCEPT ![u] = Recovered(Wallets(db)[u], recovered)]
          \/ /\ recovered = 0
             /\ Ledger(db') = Ledger(db)
             /\ Wallets(db') = Wallets(db)
  <2>1. CASE recovered > 0
    BY <1>4, <1>6, <1>11, <1>12, <1>13, <2>1
  <2>2. CASE ~(recovered > 0)
    <3>1. recovered = 0
      BY <1>5, <2>2
    <3> QED
      BY <1>6, <1>11, <2>2, <3>1
  <2> QED
    BY <2>1, <2>2
<1>15. L!RefundIap(u, t, q.amount)
  BY <1>2, <1>3, <1>4, <1>7, <1>14, SameOperators
  DEF L!RefundIap, Wallets, Ledger, Quotas, Claims, Refunds, IdsIn, IdsOf,
      requested, recovered, record, k
<1>16. DbInv(db')
  <2>1. /\ DOMAIN Ledger(db') \subseteq DOMAIN Ledger(db) \cup {k}
        /\ DOMAIN Ledger(db) \subseteq DOMAIN Ledger(db')
        /\ DOMAIN Refunds(db') = DOMAIN Refunds(db) \cup {t}
        /\ \A x \in DOMAIN Refunds(db) : Refunds(db')[x] = Refunds(db)[x]
    BY <1>3, <1>14 DEF Create
  <2>2. ClaimsCredited(db')
    BY <1>14, <2>1 DEF DbInv, ClaimsCredited
  <2>3. RefundsRecorded(db')
    BY <2>1, KeyFacts DEF DbInv, RefundsRecorded, k
  <2>4. ReversalsRecorded(db')
    BY <2>1, KeyFacts DEF DbInv, ReversalsRecorded, k
  <2> QED
    BY <1>14, <2>2, <2>3, <2>4 DEF DbInv
<1>17. L!Next
  BY <1>1, <1>15 DEF L!Next
<1> QED
  BY <1>16, <1>17

\* A reversal: an entry leaves nothing to give back, so the one it creates is new.
LEMMA ReverseStep ==
    ASSUME DbInv(db), NEW q \in Requests, Applied(q), q.op = "reverse"
    PROVE  L!Next /\ DbInv(db')
<1> DEFINE u == q.user
           t == q.event
           w == WalletIn(db, u)
           record == Refunds(db)[t]
           n == remaining(record)
           after == [record EXCEPT !.reversed = @ + n]
           k == Key(u, "iap_refund_reversed", t)
           entered == Put(db, LedgerRef(k), Entry(n))
           given == Put(entered, WalletRef(u), Restored(w, n))
<1>1. u \in Users /\ t \in Txns
  BY RequestFacts
<1>2. /\ t \in DOMAIN Refunds(db)
      /\ record.userId = u
      /\ record = db[RefundRef(t)]
      /\ record \in Refund
  <2>1. ~NotTheirs(q, db)
    BY DEF Applied, Answer
  <2> QED
    BY <2>1, CollectionFacts DEF NotTheirs, DbInv
<1>3. n # 0
  <2>1. ~Known(q, db)
    BY DEF Applied, Answer
  <2> QED
    BY <1>2, <2>1 DEF Known
<1>4. n \in Nat /\ n > 0
  <2>1. n \in Nat
    BY <1>2 DEF remaining, Greater, Refund
  <2> QED
    BY <1>3, <2>1
<1>5. w \in Wallet /\ Wallets(db)[u] = w
  BY <1>1, ReadFacts DEF DbInv
<1>6. db' = Put(given, RefundRef(t), after)
  <2>1. EntryRef(q) = LedgerRef(k)
    BY DEF EntryRef, Reason
  <2>2. db' = reverse_writes(q, db, db)
    BY DEF Applied, Writes
  <2>3. db[RefundRef(q.event)] = record
    BY <1>2
  <2> QED
    BY <2>1, <2>2, <2>3 DEF reverse_writes
<1>7. k \notin DOMAIN Ledger(db) /\ k \in Keys
  <2>1. k \notin DOMAIN Ledger(db)
    BY <1>1, <1>3 DEF DbInv, ReversalsRecorded
  <2>2. "iap_refund_reversed" \in Reasons /\ t \in Events
    BY <1>1 DEF Reasons, Events
  <2> QED
    BY <1>1, <2>1, <2>2, KeyFacts
<1>8. after \in Refund /\ remaining(after) = 0
  BY <1>2, <1>4 DEF Refund, remaining, Greater
<1>9. Restored(w, n) \in Wallet
  BY <1>4, <1>5 DEF Restored, Wallet
<1> HIDE DEF w, record, n, after, k, entered, given
<1>10. /\ Documents(entered)
       /\ Ledger(entered) = Create(Ledger(db), k, n)
       /\ Wallets(entered) = Wallets(db)
       /\ Quotas(entered) = Quotas(db)
       /\ Claims(entered) = Claims(db)
       /\ Refunds(entered) = Refunds(db)
  BY <1>4, <1>7, PutEntry DEF entered, DbInv
<1>11. /\ Documents(given)
       /\ Wallets(given) = [Wallets(entered) EXCEPT ![u] = Restored(w, n)]
       /\ Ledger(given) = Ledger(entered)
       /\ Quotas(given) = Quotas(entered)
       /\ Claims(given) = Claims(entered)
       /\ Refunds(given) = Refunds(entered)
  BY <1>1, <1>9, <1>10, PutWallet DEF given
<1>12. /\ Documents(db')
       /\ Refunds(db') = Create(Refunds(given), t, after)
       /\ Wallets(db') = Wallets(given)
       /\ Ledger(db') = Ledger(given)
       /\ Quotas(db') = Quotas(given)
       /\ Claims(db') = Claims(given)
  BY <1>1, <1>6, <1>8, <1>11, PutRefund
<1>13. /\ Wallets(db') = [Wallets(db) EXCEPT ![u] = Restored(Wallets(db)[u], n)]
       /\ Ledger(db') = Create(Ledger(db), k, n)
       /\ Quotas(db') = Quotas(db)
       /\ Claims(db') = Claims(db)
       /\ Refunds(db') = Create(Refunds(db), t, after)
  BY <1>5, <1>10, <1>11, <1>12
<1>14. Refunds(db') = [Refunds(db) EXCEPT ![t].reversed = Refunds(db)[t].reversed + n]
  <2>1. after = [Refunds(db)[t] EXCEPT !.reversed = Refunds(db)[t].reversed + n]
    BY DEF after, record
  <2>2. Refunds(db) = [x \in DOMAIN Refunds(db) |-> Refunds(db)[x]]
    BY DEF Refunds
  <2> QED
    BY <1>2, <1>13, <2>1, <2>2 DEF Create
<1>15. L!ReverseRefund(u, t)
  BY <1>2, <1>4, <1>7, <1>13, <1>14, SameOperators
  DEF L!ReverseRefund, Wallets, Ledger, Quotas, Claims, Refunds, IdsIn, IdsOf, record, n, k
<1>16. DbInv(db')
  <2>1. /\ DOMAIN Ledger(db') = DOMAIN Ledger(db) \cup {k}
        /\ DOMAIN Refunds(db') = DOMAIN Refunds(db)
        /\ Refunds(db')[t] = after
        /\ \A x \in DOMAIN Refunds(db) : x # t => Refunds(db')[x] = Refunds(db)[x]
    BY <1>2, <1>13 DEF Create
  <2>2. ClaimsCredited(db')
    BY <1>13, <2>1 DEF DbInv, ClaimsCredited
  <2>3. RefundsRecorded(db')
    BY <2>1, KeyFacts DEF DbInv, RefundsRecorded, k
  <2>4. ReversalsRecorded(db')
    BY <1>2, <1>8, <2>1, KeyFacts DEF DbInv, ReversalsRecorded, k
  <2> QED
    BY <1>12, <2>2, <2>3, <2>4 DEF DbInv
<1>17. L!Next
  BY <1>1, <1>15 DEF L!Next
<1> QED
  BY <1>16, <1>17

\* A takeover: two entries and two wallets in one commit.
LEMMA GuestClaimStep ==
    ASSUME DbInv(db), NEW q \in Requests, Applied(q), q.op = "guest_claim"
    PROVE  L!Next /\ DbInv(db')
<1> DEFINE g == q.user
           o == q.event
           n == WalletIn(db, g).balance
           out == Key(g, "guest_claim", o)
           in == Key(o, "guest_claim", g)
           left == Put(db, LedgerRef(out), Entry(-n))
           came == Put(left, LedgerRef(in), Entry(n))
           given == Put(came, WalletRef(g), Moved(WalletIn(db, g), -n))
<1>1. g \in Users /\ o \in Users
  BY RequestFacts
<1>2. /\ g # o
      /\ n # 0
      /\ out \notin DOMAIN Ledger(db)
      /\ in \notin DOMAIN Ledger(db)
  <2>1. EntryRef(q) = LedgerRef(out) /\ TakeoverRef(q) = LedgerRef(in)
    BY DEF EntryRef, TakeoverRef, Reason
  <2>2. ~Known(q, db) /\ ~Refused(q, db)
    BY DEF Applied, Answer
  <2> QED
    BY <2>1, <2>2, CollectionFacts DEF Known, Refused, DbInv
<1>3. /\ WalletIn(db, g) \in Wallet /\ Wallets(db)[g] = WalletIn(db, g)
      /\ WalletIn(db, o) \in Wallet /\ Wallets(db)[o] = WalletIn(db, o)
  BY <1>1, ReadFacts DEF DbInv
<1>4. n \in Nat /\ n > 0
  <2>1. n \in Nat
    BY <1>3 DEF Wallet
  <2> QED
    BY <1>2, <2>1
<1>5. db' = Put(given, WalletRef(o), Moved(WalletIn(db, o), n))
  <2>1. EntryRef(q) = LedgerRef(out) /\ TakeoverRef(q) = LedgerRef(in)
    BY DEF EntryRef, TakeoverRef, Reason
  <2> QED
    BY <2>1 DEF Applied, Writes, guest_writes
<1>6. out \in Keys /\ in \in Keys
  <2>1. "guest_claim" \in Reasons /\ g \in Events /\ o \in Events
    BY <1>1 DEF Reasons, Events
  <2> QED
    BY <1>1, <2>1, KeyFacts
<1>7. Moved(WalletIn(db, g), -n) \in Wallet /\ Moved(WalletIn(db, o), n) \in Wallet
  <2>1. -n \in Int /\ n \in Int /\ WalletIn(db, g).balance + (-n) >= 0
    BY <1>4
  <2>2. WalletIn(db, o).balance + n >= 0
    BY <1>3, <1>4 DEF Wallet
  <2> QED
    BY <1>3, <2>1, <2>2, MovedIsWallet
<1> HIDE DEF n, out, in, left, came, given
<1>8. /\ Documents(left)
      /\ Ledger(left) = Create(Ledger(db), out, -n)
      /\ Wallets(left) = Wallets(db)
      /\ Quotas(left) = Quotas(db)
      /\ Claims(left) = Claims(db)
      /\ Refunds(left) = Refunds(db)
  <2>1. -n \in Int
    BY <1>4
  <2> QED
    BY <1>6, <2>1, PutEntry DEF left, DbInv
<1>9. /\ Documents(came)
      /\ Ledger(came) = Create(Ledger(left), in, n)
      /\ Wallets(came) = Wallets(left)
      /\ Quotas(came) = Quotas(left)
      /\ Claims(came) = Claims(left)
      /\ Refunds(came) = Refunds(left)
  BY <1>4, <1>6, <1>8, PutEntry DEF came
<1>10. /\ Documents(given)
       /\ Wallets(given) = [Wallets(came) EXCEPT ![g] = Moved(WalletIn(db, g), -n)]
       /\ Ledger(given) = Ledger(came)
       /\ Quotas(given) = Quotas(came)
       /\ Claims(given) = Claims(came)
       /\ Refunds(given) = Refunds(came)
  BY <1>1, <1>7, <1>9, PutWallet DEF given
<1>11. /\ Documents(db')
       /\ Wallets(db') = [Wallets(given) EXCEPT ![o] = Moved(WalletIn(db, o), n)]
       /\ Ledger(db') = Ledger(given)
       /\ Quotas(db') = Quotas(given)
       /\ Claims(db') = Claims(given)
       /\ Refunds(db') = Refunds(given)
  <2> DEFINE w == Moved(WalletIn(db, o), n)
             last == Put(given, WalletRef(o), w)
  <2>1. w \in Wallet /\ db' = last
    BY <1>5, <1>7
  <2> HIDE DEF w
  <2>2. /\ Documents(last)
        /\ Wallets(last) = [Wallets(given) EXCEPT ![o] = w]
        /\ Ledger(last) = Ledger(given)
        /\ Quotas(last) = Quotas(given)
        /\ Claims(last) = Claims(given)
        /\ Refunds(last) = Refunds(given)
    BY <1>1, <1>10, <2>1, PutWallet
  <2> HIDE DEF last
  <2> QED
    BY <2>1, <2>2 DEF w
<1>12. /\ Wallets(db') = [Wallets(db) EXCEPT ![g] = Moved(Wallets(db)[g], -n),
                                             ![o] = Moved(Wallets(db)[o], n)]
       /\ Ledger(db') = Create(Create(Ledger(db), out, -n), in, n)
       /\ Quotas(db') = Quotas(db)
       /\ Claims(db') = Claims(db)
       /\ Refunds(db') = Refunds(db)
  BY <1>2, <1>3, <1>8, <1>9, <1>10, <1>11
<1>13. n = Wallets(db)[g].balance
  BY <1>3 DEF n
<1>14. Wallets(db') = [Wallets(db) EXCEPT ![g] = Moved(@, -n), ![o] = Moved(@, n)]
  BY <1>2, <1>12
<1>15. L!GuestClaim(g, o)
  <2>1. [u \in Users |-> WalletIn(db, u)][g].balance = n
    BY <1>1, <1>13 DEF Wallets
  <2>2. /\ g # o
        /\ n > 0
        /\ out \notin DOMAIN Ledger(db)
        /\ in \notin DOMAIN Ledger(db)
        /\ Ledger(db') = Create(Create(Ledger(db), out, -n), in, n)
        /\ Wallets(db') = [Wallets(db) EXCEPT ![g] = Moved(@, -n), ![o] = Moved(@, n)]
        /\ Quotas(db') = Quotas(db)
        /\ Claims(db') = Claims(db)
        /\ Refunds(db') = Refunds(db)
    BY <1>2, <1>4, <1>12, <1>14
  <2> QED
    BY <2>1, <2>2, SameOperators
    DEF L!GuestClaim, Wallets, Ledger, Quotas, Claims, Refunds, IdsIn, IdsOf, out, in
<1>16. DbInv(db')
  <2>1. DOMAIN Ledger(db') = DOMAIN Ledger(db) \cup {out, in}
    BY <1>12 DEF Create
  <2>2. ClaimsCredited(db')
    BY <1>12, <2>1 DEF DbInv, ClaimsCredited
  <2>3. RefundsRecorded(db')
    BY <1>12, <2>1, KeyFacts DEF DbInv, RefundsRecorded, out, in
  <2>4. ReversalsRecorded(db')
    BY <1>12, <2>1, KeyFacts DEF DbInv, ReversalsRecorded, out, in
  <2> QED
    BY <1>11, <2>2, <2>3, <2>4 DEF DbInv
<1>17. L!Next
  BY <1>1, <1>15 DEF L!Next
<1> QED
  BY <1>16, <1>17

(***************************************************************************)
(* Decisions rest on what was read: an attempt whose snapshot is still     *)
(* true gives the answer, and stages the writes, that the database itself  *)
(* would have given.                                                       *)
(***************************************************************************)
LEMMA ReadsSuffice ==
    ASSUME NEW q \in Requests, NEW s,
           \A r \in Reads(q) : /\ r \in DOMAIN s <=> r \in DOMAIN db
                               /\ r \in DOMAIN s => s[r] = db[r]
    PROVE  /\ Answer(q, s) = Answer(q, db)
           /\ Answer(q, db) = "applied" => Writes(q, s, db) = Writes(q, db, db)
<1>1. CASE q.op \in {"attendance", "debit", "credit_back"}
  <2>1. \A r \in {EntryRef(q), WalletRef(q.user)} :
           /\ r \in DOMAIN s <=> r \in DOMAIN db
           /\ r \in DOMAIN s => s[r] = db[r]
    BY <1>1 DEF Reads
  <2>2. WalletIn(s, q.user) = WalletIn(db, q.user)
    BY <2>1 DEF WalletIn
  <2>3. EntryRef(q) \in DOMAIN s <=> EntryRef(q) \in DOMAIN db
    BY <2>1
  <2>4. Answer(q, s) = Answer(q, db)
    BY <1>1, <2>2, <2>3 DEF Answer, NotTheirs, Known, Refused
  <2>5. Writes(q, s, db) = Writes(q, db, db)
    BY <1>1, <2>2 DEF Writes, apply_writes
  <2> QED
    BY <2>4, <2>5
<1>2. CASE q.op = "ad"
  <2>1. \A r \in {EntryRef(q), QuotaRef(q.user, RewardDay[q.event]), WalletRef(q.user)} :
           /\ r \in DOMAIN s <=> r \in DOMAIN db
           /\ r \in DOMAIN s => s[r] = db[r]
    BY <1>2 DEF Reads
  <2>2. WalletIn(s, q.user) = WalletIn(db, q.user)
    BY <2>1 DEF WalletIn
  <2>3. CountIn(s, q.user, RewardDay[q.event]) = CountIn(db, q.user, RewardDay[q.event])
    BY <2>1 DEF CountIn
  <2>4. EntryRef(q) \in DOMAIN s <=> EntryRef(q) \in DOMAIN db
    BY <2>1
  <2>5. Answer(q, s) = Answer(q, db)
    BY <1>2, <2>3, <2>4 DEF Answer, NotTheirs, Known, Refused
  <2>6. Writes(q, s, db) = Writes(q, db, db)
    BY <1>2, <2>2, <2>3 DEF Writes, apply_writes, quota_writes
  <2> QED
    BY <2>5, <2>6
<1>3. CASE q.op = "iap"
  <2>1. \A r \in {ClaimRef(q.event), EntryRef(q), WalletRef(q.user)} :
           /\ r \in DOMAIN s <=> r \in DOMAIN db
           /\ r \in DOMAIN s => s[r] = db[r]
    BY <1>3 DEF Reads
  <2>2. WalletIn(s, q.user) = WalletIn(db, q.user)
    BY <2>1 DEF WalletIn
  <2>3. EntryRef(q) \in DOMAIN s <=> EntryRef(q) \in DOMAIN db
    BY <2>1
  <2>4. NotTheirs(q, s) <=> NotTheirs(q, db)
    BY <1>3, <2>1 DEF NotTheirs
  <2>5. Answer(q, s) = Answer(q, db)
    BY <1>3, <2>3, <2>4 DEF Answer, Known, Refused
  <2>6. Writes(q, s, db) = Writes(q, db, db)
    BY <1>3, <2>2 DEF Writes, apply_writes, claim_writes
  <2> QED
    BY <2>5, <2>6
<1>4. CASE q.op = "refund"
  <2>1. \A r \in {ClaimRef(q.event), RefundRef(q.event), WalletRef(q.user)} :
           /\ r \in DOMAIN s <=> r \in DOMAIN db
           /\ r \in DOMAIN s => s[r] = db[r]
    BY <1>4 DEF Reads
  <2>2. WalletIn(s, q.user) = WalletIn(db, q.user)
    BY <2>1 DEF WalletIn
  <2>3. NotTheirs(q, s) <=> NotTheirs(q, db)
    BY <1>4, <2>1 DEF NotTheirs
  <2>4. Known(q, s) <=> Known(q, db)
    BY <1>4, <2>1 DEF Known
  <2>5. Answer(q, s) = Answer(q, db)
    BY <1>4, <2>3, <2>4 DEF Answer, Refused
  <2>6. ASSUME Answer(q, db) = "applied"
        PROVE  Writes(q, s, db) = Writes(q, db, db)
    <3>1. ClaimRef(q.event) \in DOMAIN db
      BY <1>4, <2>6 DEF Answer, NotTheirs
    <3>2. s[ClaimRef(q.event)] = db[ClaimRef(q.event)]
      BY <2>1, <3>1
    <3> QED
      BY <1>4, <2>2, <3>2 DEF Writes, refund_writes
  <2> QED
    BY <2>5, <2>6
<1>5. CASE q.op = "reverse"
  <2>1. \A r \in {RefundRef(q.event), WalletRef(q.user)} :
           /\ r \in DOMAIN s <=> r \in DOMAIN db
           /\ r \in DOMAIN s => s[r] = db[r]
    BY <1>5 DEF Reads
  <2>2. WalletIn(s, q.user) = WalletIn(db, q.user)
    BY <2>1 DEF WalletIn
  <2>3. NotTheirs(q, s) <=> NotTheirs(q, db)
    BY <1>5, <2>1 DEF NotTheirs
  <2>4. ~NotTheirs(q, db) => s[RefundRef(q.event)] = db[RefundRef(q.event)]
    BY <1>5, <2>1 DEF NotTheirs
  <2>5. Answer(q, s) = Answer(q, db)
    BY <1>5, <2>3, <2>4 DEF Answer, Known, Refused
  <2>6. ASSUME Answer(q, db) = "applied"
        PROVE  Writes(q, s, db) = Writes(q, db, db)
    <3>1. s[RefundRef(q.event)] = db[RefundRef(q.event)]
      BY <2>4, <2>6 DEF Answer
    <3> QED
      BY <1>5, <2>2, <3>1 DEF Writes, reverse_writes
  <2> QED
    BY <2>5, <2>6
<1>6. CASE q.op = "guest_claim"
  <2>1. \A r \in {EntryRef(q), TakeoverRef(q), WalletRef(q.user), WalletRef(q.event)} :
           /\ r \in DOMAIN s <=> r \in DOMAIN db
           /\ r \in DOMAIN s => s[r] = db[r]
    BY <1>6 DEF Reads
  <2>2. /\ WalletIn(s, q.user) = WalletIn(db, q.user)
        /\ WalletIn(s, q.event) = WalletIn(db, q.event)
    BY <2>1 DEF WalletIn
  <2>3. /\ EntryRef(q) \in DOMAIN s <=> EntryRef(q) \in DOMAIN db
        /\ TakeoverRef(q) \in DOMAIN s <=> TakeoverRef(q) \in DOMAIN db
    BY <2>1
  <2>4. Answer(q, s) = Answer(q, db)
    BY <1>6, <2>2, <2>3 DEF Answer, NotTheirs, Known, Refused
  <2>5. Writes(q, s, db) = Writes(q, db, db)
    BY <1>6, <2>2 DEF Writes, guest_writes
  <2> QED
    BY <2>4, <2>5
<1> QED
  BY <1>1, <1>2, <1>3, <1>4, <1>5, <1>6, RequestFacts

\* What a handler that commits was told by the snapshot it read.
HandlersInv ==
    /\ DOMAIN handlers = Handlers
    /\ \A h \in Handlers :
         \/ handlers[h] \in HandlerState
         \/ /\ handlers[h].pc = "committing"
            /\ handlers[h].q \in Requests
            /\ handlers[h].attempt \in 1..MaxAttempts
            /\ handlers[h].again \in BOOLEAN
            /\ DOMAIN handlers[h].seen \subseteq Reads(handlers[h].q)
            /\ Answer(handlers[h].q, handlers[h].seen) = "applied"

\* The document that says that the event of a request happened.
DoneRef(q) == IF q.op = "refund" THEN RefundRef(q.event) ELSE EntryRef(q)

\* Whoever was told that it paid left that document, and was the only one.
Told ==
    /\ AppliedOnce
    /\ \A h \in Handlers :
         /\ Answers(h, "applied") => DoneRef(handlers[h].q) \in DOMAIN db
         /\ Answers(h, "duplicate") =>
              IF handlers[h].q.op \in {"refund", "reverse"}
              THEN RefundRef(handlers[h].q.event) \in DOMAIN db
              ELSE EntryRef(handlers[h].q) \in DOMAIN db

IInv == DbInv(db) /\ HandlersInv /\ Told

\* Documents are never deleted, and an applied request leaves the one that says so.
LEMMA WritesStay ==
    ASSUME NEW q \in Requests, NEW s, NEW d, Answer(q, s) = "applied"
    PROVE  /\ DOMAIN d \subseteq DOMAIN Writes(q, s, d)
           /\ DoneRef(q) \in DOMAIN Writes(q, s, d)
<1>1. CASE q.op \in {"attendance", "debit", "credit_back"}
  <2>1. Writes(q, s, d) = apply_writes(q, s, d)
    BY <1>1 DEF Writes
  <2> QED
    BY <1>1, <2>1 DEF apply_writes, DoneRef, Put
<1>2. CASE q.op = "ad"
  <2>1. Writes(q, s, d) = quota_writes(q, s, apply_writes(q, s, d))
    BY <1>2 DEF Writes
  <2>2. DOMAIN apply_writes(q, s, d) = DOMAIN d \cup {EntryRef(q), WalletRef(q.user)}
    BY DEF apply_writes, Put
  <2>3. DOMAIN apply_writes(q, s, d) \subseteq DOMAIN Writes(q, s, d)
    BY <2>1 DEF quota_writes, Put
  <2> QED
    BY <1>2, <2>2, <2>3 DEF DoneRef
<1>3. CASE q.op = "iap"
  <2>1. Writes(q, s, d) = claim_writes(q, apply_writes(q, s, d))
    BY <1>3 DEF Writes
  <2>2. DOMAIN apply_writes(q, s, d) = DOMAIN d \cup {EntryRef(q), WalletRef(q.user)}
    BY DEF apply_writes, Put
  <2>3. DOMAIN apply_writes(q, s, d) \subseteq DOMAIN Writes(q, s, d)
    BY <2>1 DEF claim_writes, Put
  <2> QED
    BY <1>3, <2>2, <2>3 DEF DoneRef
<1>4. CASE q.op = "refund"
  <2>1. Writes(q, s, d) = refund_writes(q, s, d)
    BY <1>4 DEF Writes
  <2>2. DOMAIN d \cup {RefundRef(q.event)} \subseteq DOMAIN refund_writes(q, s, d)
    BY DEF refund_writes, Put
  <2> QED
    BY <1>4, <2>1, <2>2 DEF DoneRef
<1>5. CASE q.op = "reverse"
  <2>1. Writes(q, s, d) = reverse_writes(q, s, d)
    BY <1>5 DEF Writes
  <2>2. DOMAIN d \cup {EntryRef(q)} \subseteq DOMAIN reverse_writes(q, s, d)
    BY DEF reverse_writes, Put
  <2> QED
    BY <1>5, <2>1, <2>2 DEF DoneRef
<1>6. CASE q.op = "guest_claim"
  <2>1. Writes(q, s, d) = guest_writes(q, s, d)
    BY <1>6 DEF Writes
  <2>2. DOMAIN d \cup {EntryRef(q)} \subseteq DOMAIN guest_writes(q, s, d)
    BY DEF guest_writes, Put
  <2> QED
    BY <1>6, <2>1, <2>2 DEF DoneRef
<1> QED
  BY <1>1, <1>2, <1>3, <1>4, <1>5, <1>6, RequestFacts

\* A request that is applied is about something that did not happen before.
LEMMA AppliedIsNew ==
    ASSUME DbInv(db), NEW q \in Requests, Answer(q, db) = "applied"
    PROVE  DoneRef(q) \notin DOMAIN db
<1>1. ~Known(q, db)
  BY DEF Answer
<1>2. CASE q.op = "refund"
  BY <1>1, <1>2 DEF Known, DoneRef
<1>3. CASE q.op = "reverse"
  <2>1. q.user \in Users /\ q.event \in Txns
    BY <1>3, RequestFacts
  <2>2. EntryRef(q) = LedgerRef(Key(q.user, "iap_refund_reversed", q.event))
    BY <1>3 DEF EntryRef, Reason
  <2>3. ~NotTheirs(q, db)
    BY DEF Answer
  <2>4. q.event \in DOMAIN Refunds(db) /\ Refunds(db)[q.event] = db[RefundRef(q.event)]
    BY <1>3, <2>3, CollectionFacts DEF NotTheirs, DbInv
  <2>5. remaining(Refunds(db)[q.event]) # 0
    BY <1>1, <1>3, <2>4 DEF Known
  <2>6. Key(q.user, "iap_refund_reversed", q.event) \notin DOMAIN Ledger(db)
    BY <2>1, <2>5 DEF DbInv, ReversalsRecorded
  <2> QED
    BY <1>3, <2>2, <2>6, CollectionFacts DEF DoneRef, DbInv
<1>4. CASE q.op \notin {"refund", "reverse"}
  BY <1>1, <1>4, RequestFacts DEF Known, DoneRef
<1> QED
  BY <1>2, <1>3, <1>4

\* A snapshot says of what was read what the database says.
LEMMA SnapshotFacts ==
    ASSUME NEW S
    PROVE  /\ DOMAIN Snapshot(S) \subseteq S
           /\ \A r \in S : /\ r \in DOMAIN Snapshot(S) <=> r \in DOMAIN db
                           /\ r \in DOMAIN Snapshot(S) => Snapshot(S)[r] = db[r]
  BY DEF Snapshot, Restrict

\* A commit that Firestore accepts is one step of the ledger.
LEMMA CommitStep ==
    ASSUME IInv, NEW h \in Handlers, Commit(h)
    PROVE  /\ handlers[h].q \in Requests
           /\ DoneRef(handlers[h].q) \notin DOMAIN db
           /\ DOMAIN db \subseteq DOMAIN db'
           /\ DoneRef(handlers[h].q) \in DOMAIN db'
           /\ L!Next
           /\ DbInv(db')
<1> DEFINE q == handlers[h].q
           s == handlers[h].seen
<1>1. q \in Requests /\ Answer(q, s) = "applied"
  BY DEF Commit, IInv, HandlersInv, HandlerState
<1>2. \A r \in Reads(q) : /\ r \in DOMAIN s <=> r \in DOMAIN db
                          /\ r \in DOMAIN s => s[r] = db[r]
  <2>1. s = Snapshot(Reads(q))
    BY DEF Commit, Fresh
  <2> QED
    BY <2>1, SnapshotFacts
<1>3. db' = Writes(q, s, db)
  BY DEF Commit
<1> HIDE DEF q, s
<1>4. /\ Answer(q, s) = Answer(q, db)
      /\ Answer(q, db) = "applied" => Writes(q, s, db) = Writes(q, db, db)
  BY <1>1, <1>2, ReadsSuffice
<1>5. Applied(q) /\ DbInv(db)
  BY <1>1, <1>3, <1>4 DEF Applied, IInv
<1>6. L!Next /\ DbInv(db')
  <2>1. q.op \in {"attendance", "ad", "iap", "debit", "credit_back", "refund",
                  "reverse", "guest_claim"}
    BY <1>1, RequestFacts
  <2> QED
    BY <1>1, <1>5, <2>1, AttendanceStep, AdStep, IapStep, DebitStep, RefundStep, ReverseStep,
       GuestClaimStep
<1>7. DoneRef(q) \notin DOMAIN db
  BY <1>1, <1>5, AppliedIsNew DEF Applied
<1>8. DOMAIN db \subseteq DOMAIN db' /\ DoneRef(q) \in DOMAIN db'
  BY <1>1, <1>3, WritesStay
<1> QED
  BY <1>1, <1>6, <1>7, <1>8 DEF q

\* Every other step leaves the documents, and what one of them holds is for the handlers.
LEMMA HandlersStep ==
    ASSUME IInv, [Next]_vars
    PROVE  HandlersInv'
<1>1. CASE UNCHANGED vars
  BY <1>1 DEF vars, IInv, HandlersInv, HandlerState
<1>2. ASSUME NEW h \in Handlers, NEW state, handlers' = [handlers EXCEPT ![h] = state],
             \/ state \in HandlerState
             \/ /\ state.pc = "committing"
                /\ state.q \in Requests
                /\ state.attempt \in 1..MaxAttempts
                /\ state.again \in BOOLEAN
                /\ DOMAIN state.seen \subseteq Reads(state.q)
                /\ Answer(state.q, state.seen) = "applied"
      PROVE  HandlersInv'
  <2>1. /\ DOMAIN handlers' = Handlers
        /\ handlers'[h] = state
        /\ \A g \in Handlers : g # h => handlers'[g] = handlers[g]
    BY <1>2 DEF IInv, HandlersInv
  <2>2. \A g \in Handlers :
         \/ handlers'[g] \in HandlerState
         \/ /\ handlers'[g].pc = "committing"
            /\ handlers'[g].q \in Requests
            /\ handlers'[g].attempt \in 1..MaxAttempts
            /\ handlers'[g].again \in BOOLEAN
            /\ DOMAIN handlers'[g].seen \subseteq Reads(handlers'[g].q)
            /\ Answer(handlers'[g].q, handlers'[g].seen) = "applied"
    BY <1>2, <2>1 DEF IInv, HandlersInv
  <2> QED
    BY <2>1, <2>2 DEF HandlersInv, HandlerState
<1>3. \A q \in Requests, answer \in {"applied", "duplicate", "refused", "unavailable"} :
        Answered(q, answer) \in HandlerState
  BY DEF Answered, HandlerState
<1>4. \A q \in Requests, attempt \in 1..MaxAttempts, again \in BOOLEAN :
        Reading(q, attempt, again) \in HandlerState
  BY DEF Reading, HandlerState
<1>5. 1 \in 1..MaxAttempts
  BY RequestsAssumption
<1>6. ASSUME NEW h \in Handlers, NEW q \in Requests, Receive(h, q)
      PROVE  HandlersInv'
  BY <1>2, <1>4, <1>5, <1>6 DEF Receive
<1>7. ASSUME NEW h \in Handlers, handlers[h].pc \in {"reading", "committing"}
      PROVE  /\ handlers[h].q \in Requests
             /\ handlers[h].attempt \in 1..MaxAttempts
             /\ handlers[h].again \in BOOLEAN
  BY <1>7 DEF IInv, HandlersInv, HandlerState
<1>8. ASSUME NEW h \in Handlers, Read(h)
      PROVE  HandlersInv'
  <2> DEFINE q == handlers[h].q
             s == Snapshot(Reads(q))
  <2>1. /\ q \in Requests
        /\ handlers[h].attempt \in 1..MaxAttempts
        /\ handlers[h].again \in BOOLEAN
    BY <1>7, <1>8 DEF Read
  <2>2. CASE Answer(q, s) = "applied"
    <3>1. handlers' = [handlers EXCEPT ![h] = Committing(handlers[h], s)]
      BY <1>8, <2>2 DEF Read
    <3>2. DOMAIN s \subseteq Reads(q)
      BY SnapshotFacts
    <3>3. /\ Committing(handlers[h], s).pc = "committing"
          /\ Committing(handlers[h], s).q = q
          /\ Committing(handlers[h], s).attempt = handlers[h].attempt
          /\ Committing(handlers[h], s).again = handlers[h].again
          /\ Committing(handlers[h], s).seen = s
      BY DEF Committing
    <3> HIDE DEF q, s
    <3> QED
      BY <1>2, <2>1, <2>2, <3>1, <3>2, <3>3
  <2>3. CASE Answer(q, s) # "applied"
    <3>1. handlers' = [handlers EXCEPT ![h] = Answered(q, Answer(q, s))]
      BY <1>8, <2>3 DEF Read
    <3>2. Answer(q, s) \in {"duplicate", "refused"}
      BY <2>3 DEF Answer
    <3> HIDE DEF q, s
    <3> QED
      BY <1>2, <1>3, <2>1, <3>1, <3>2
  <2> QED
    BY <2>2, <2>3
<1>9. ASSUME NEW h \in Handlers, Commit(h)
      PROVE  HandlersInv'
  <2>1. handlers[h].q \in Requests
    BY <1>7, <1>9 DEF Commit
  <2>2. PICK answer \in {"applied", "unavailable"} :
           handlers' = [handlers EXCEPT ![h] = Answered(handlers[h].q, answer)]
    BY <1>9 DEF Commit
  <2> QED
    BY <1>2, <1>3, <2>1, <2>2
<1>10. ASSUME NEW h \in Handlers, Aborted(h)
       PROVE  HandlersInv'
  <2>1. /\ handlers[h].q \in Requests
        /\ handlers[h].attempt \in 1..MaxAttempts
        /\ handlers[h].again \in BOOLEAN
    BY <1>7, <1>10 DEF Aborted
  <2>2. CASE handlers[h].attempt < MaxAttempts
    <3>1. handlers[h].attempt + 1 \in 1..MaxAttempts
      BY <2>1, <2>2, RequestsAssumption
    <3>2. handlers' = [handlers EXCEPT ![h] =
                         Reading(handlers[h].q, handlers[h].attempt + 1, handlers[h].again)]
      BY <1>10, <2>2 DEF Aborted
    <3> DEFINE n == handlers[h].attempt + 1
    <3> HIDE DEF n
    <3>3. Reading(handlers[h].q, n, handlers[h].again) \in HandlerState
      BY <1>4, <2>1, <3>1 DEF n
    <3> QED
      BY <1>2, <3>2, <3>3 DEF n
  <2>3. CASE ~(handlers[h].attempt < MaxAttempts)
    BY <1>2, <1>3, <1>10, <2>1, <2>3 DEF Aborted
  <2> QED
    BY <2>2, <2>3
<1>11. ASSUME NEW h \in Handlers, AlreadyExists(h)
       PROVE  HandlersInv'
  <2>1. handlers[h].q \in Requests
    BY <1>7, <1>11 DEF AlreadyExists
  <2>2. \/ handlers' = [handlers EXCEPT ![h] = Answered(handlers[h].q, "unavailable")]
        \/ handlers' = [handlers EXCEPT ![h] = Reading(handlers[h].q, 1, TRUE)]
    BY <1>11 DEF AlreadyExists
  <2> QED
    BY <1>2, <1>3, <1>4, <1>5, <2>1, <2>2
<1>12. ASSUME NEW h \in Handlers, Unavailable(h)
       PROVE  HandlersInv'
  <2>1. handlers[h].q \in Requests
    BY <1>7, <1>12 DEF Unavailable
  <2> QED
    BY <1>2, <1>3, <1>12, <2>1 DEF Unavailable
<1> QED
  BY <1>1, <1>6, <1>8, <1>9, <1>10, <1>11, <1>12 DEF Next

\* Requests for the same event leave the same document.
LEMMA SameDone ==
    ASSUME NEW q, NEW r, SameEvent(q, r)
    PROVE  DoneRef(q) = DoneRef(r)
  BY DEF SameEvent, DoneRef, EntryRef

\* A step that tells nobody anything leaves what was told true.
LEMMA NothingTold ==
    ASSUME IInv, UNCHANGED db, NEW h \in Handlers,
           \A g \in Handlers : g # h => handlers'[g] = handlers[g],
           handlers'[h].pc = "answered" => handlers'[h].answer \in {"refused", "unavailable"}
    PROVE  Told'
<1>1. ASSUME NEW g \in Handlers, NEW answer \in {"applied", "duplicate"}, Answers(g, answer)'
      PROVE  g # h /\ Answers(g, answer)
  BY <1>1 DEF Answers
<1>2. AppliedOnce'
  BY <1>1 DEF IInv, Told, AppliedOnce
<1>3. \A g \in Handlers : Answers(g, "applied")' => DoneRef(handlers'[g].q) \in DOMAIN db'
  BY <1>1 DEF IInv, Told
<1>4. \A g \in Handlers : Answers(g, "duplicate")' =>
        IF handlers'[g].q.op \in {"refund", "reverse"}
        THEN RefundRef(handlers'[g].q.event) \in DOMAIN db'
        ELSE EntryRef(handlers'[g].q) \in DOMAIN db'
  BY <1>1 DEF IInv, Told
<1> QED
  BY <1>2, <1>3, <1>4 DEF Told, DoneRef, EntryRef

\* Whoever is told that the event already happened read that it did.
LEMMA DuplicateIsTrue ==
    ASSUME NEW q \in Requests, NEW s, DOMAIN s \subseteq DOMAIN db,
           Answer(q, s) = "duplicate"
    PROVE  IF q.op \in {"refund", "reverse"}
           THEN RefundRef(q.event) \in DOMAIN db
           ELSE EntryRef(q) \in DOMAIN db
<1>1. Known(q, s) /\ ~NotTheirs(q, s)
  BY DEF Answer
<1>2. CASE q.op = "refund"
  BY <1>1, <1>2 DEF Known
<1>3. CASE q.op = "reverse"
  BY <1>1, <1>3 DEF NotTheirs
<1>4. CASE q.op \notin {"refund", "reverse"}
  BY <1>1, <1>4, RequestFacts DEF Known
<1> QED
  BY <1>2, <1>3, <1>4

\* An attempt that decides without a commit tells the truth.
LEMMA ReadTold ==
    ASSUME IInv, NEW h \in Handlers, Read(h)
    PROVE  Told'
<1> DEFINE q == handlers[h].q
           s == Snapshot(Reads(q))
<1>1. /\ UNCHANGED db
      /\ q \in Requests
      /\ \A g \in Handlers : g # h => handlers'[g] = handlers[g]
  BY DEF Read, IInv, HandlersInv, HandlerState
<1>2. handlers'[h] = IF Answer(q, s) = "applied" THEN Committing(handlers[h], s)
                                                ELSE Answered(q, Answer(q, s))
  BY DEF Read, IInv, HandlersInv
<1>3. Answer(q, s) \in {"applied", "duplicate", "refused"}
  BY DEF Answer
<1>4. DOMAIN s \subseteq DOMAIN db
  BY DEF Snapshot, Restrict
<1> HIDE DEF q, s
<1>5. CASE Answer(q, s) = "duplicate"
  <2>1. /\ handlers'[h].pc = "answered"
        /\ handlers'[h].q = q
        /\ handlers'[h].answer = "duplicate"
    BY <1>2, <1>5 DEF Answered
  <2>2. IF q.op \in {"refund", "reverse"}
        THEN RefundRef(q.event) \in DOMAIN db
        ELSE EntryRef(q) \in DOMAIN db
    BY <1>1, <1>4, <1>5, DuplicateIsTrue
  <2>3. \A g \in Handlers : Answers(g, "applied")' => g # h /\ Answers(g, "applied")
    BY <1>1, <2>1 DEF Answers
  <2>4. \A g \in Handlers : Answers(g, "duplicate")' => g = h \/ Answers(g, "duplicate")
    BY <1>1 DEF Answers
  <2>5. AppliedOnce'
    BY <1>1, <2>3 DEF IInv, Told, AppliedOnce
  <2>6. \A g \in Handlers : Answers(g, "applied")' => DoneRef(handlers'[g].q) \in DOMAIN db'
    BY <1>1, <2>3 DEF IInv, Told
  <2>7. \A g \in Handlers : Answers(g, "duplicate")' =>
          IF handlers'[g].q.op \in {"refund", "reverse"}
          THEN RefundRef(handlers'[g].q.event) \in DOMAIN db'
          ELSE EntryRef(handlers'[g].q) \in DOMAIN db'
    BY <1>1, <2>1, <2>2, <2>4 DEF IInv, Told
  <2> QED
    BY <2>5, <2>6, <2>7 DEF Told, DoneRef, EntryRef
<1>6. CASE Answer(q, s) = "applied"
  <2>1. handlers'[h].pc = "committing"
    BY <1>2, <1>6 DEF Committing
  <2> QED
    BY <1>1, <2>1, NothingTold
<1>7. CASE Answer(q, s) = "refused"
  <2>1. handlers'[h].answer = "refused"
    BY <1>2, <1>7 DEF Answered
  <2> QED
    BY <1>1, <2>1, NothingTold
<1> QED
  BY <1>3, <1>5, <1>6, <1>7

\* Only the commit that left the document tells that it paid.
LEMMA CommitTold ==
    ASSUME IInv, NEW h \in Handlers, Commit(h)
    PROVE  Told'
<1> DEFINE q == handlers[h].q
<1>1. /\ DoneRef(q) \notin DOMAIN db
      /\ DOMAIN db \subseteq DOMAIN db'
      /\ DoneRef(q) \in DOMAIN db'
  BY CommitStep
<1>2. /\ \A g \in Handlers : g # h => handlers'[g] = handlers[g]
      /\ handlers'[h].pc = "answered"
      /\ handlers'[h].q = q
      /\ handlers'[h].answer \in {"applied", "unavailable"}
  BY DEF Commit, Answered, IInv, HandlersInv
<1>3. \A g \in Handlers : g # h => (Answers(g, "applied")' <=> Answers(g, "applied"))
  BY <1>2 DEF Answers
<1>4. \A g \in Handlers : Answers(g, "duplicate")' => g # h /\ Answers(g, "duplicate")
  BY <1>2 DEF Answers
<1>5. \A g \in Handlers : Answers(g, "applied") => DoneRef(handlers[g].q) \in DOMAIN db
  BY DEF IInv, Told
<1>6. \A g \in Handlers :
        g # h /\ Answers(g, "applied")' => /\ ~SameEvent(handlers'[g].q, q)
                                           /\ ~SameEvent(q, handlers'[g].q)
  BY <1>1, <1>2, <1>3, <1>5, SameDone
<1>7. AppliedOnce'
  <2>1. ASSUME NEW f \in Handlers, NEW g \in Handlers,
               Answers(f, "applied")', Answers(g, "applied")',
               SameEvent(handlers'[f].q, handlers'[g].q)
        PROVE  f = g
    <3>1. CASE f = h
      BY <1>2, <1>6, <2>1, <3>1
    <3>2. CASE g = h
      BY <1>2, <1>6, <2>1, <3>2
    <3>3. CASE f # h /\ g # h
      BY <1>2, <1>3, <2>1, <3>3 DEF IInv, Told, AppliedOnce
    <3> QED
      BY <3>1, <3>2, <3>3
  <2> QED
    BY <2>1 DEF AppliedOnce, SameEvent
<1>8. \A g \in Handlers : Answers(g, "applied")' => DoneRef(handlers'[g].q) \in DOMAIN db'
  BY <1>1, <1>2, <1>3, <1>5
<1>9. \A g \in Handlers : Answers(g, "duplicate")' =>
        IF handlers'[g].q.op \in {"refund", "reverse"}
        THEN RefundRef(handlers'[g].q.event) \in DOMAIN db'
        ELSE EntryRef(handlers'[g].q) \in DOMAIN db'
  BY <1>1, <1>2, <1>4 DEF IInv, Told
<1> QED
  BY <1>7, <1>8, <1>9 DEF Told, DoneRef, EntryRef

\* What the callers were told stays true.
LEMMA ToldStep ==
    ASSUME IInv, [Next]_vars
    PROVE  Told'
<1>1. CASE UNCHANGED vars
  BY <1>1 DEF vars, IInv, Told, AppliedOnce, Answers
<1>2. ASSUME NEW h \in Handlers, NEW q \in Requests, Receive(h, q)
      PROVE  Told'
  <2>1. /\ UNCHANGED db
        /\ handlers'[h].pc = "reading"
        /\ \A g \in Handlers : g # h => handlers'[g] = handlers[g]
    BY <1>2 DEF Receive, Reading, IInv, HandlersInv
  <2> QED
    BY <2>1, NothingTold
<1>3. ASSUME NEW h \in Handlers, Aborted(h) \/ AlreadyExists(h) \/ Unavailable(h)
      PROVE  Told'
  <2>1. /\ UNCHANGED db
        /\ \A g \in Handlers : g # h => handlers'[g] = handlers[g]
    BY <1>3 DEF Aborted, AlreadyExists, Unavailable, IInv, HandlersInv
  <2>2. handlers'[h].pc = "answered" => handlers'[h].answer = "unavailable"
    BY <1>3 DEF Aborted, AlreadyExists, Unavailable, Reading, Answered, IInv, HandlersInv
  <2> QED
    BY <2>1, <2>2, NothingTold
<1> QED
  BY <1>1, <1>2, <1>3, ReadTold, CommitTold DEF Next

\* Nothing is stored and nobody was told anything.
LEMMA InitIInv == Init => IInv
<1> SUFFICES ASSUME Init PROVE IInv
  OBVIOUS
<1>1. DOMAIN db = {}
  BY DEF Init, NoDocs
<1>2. DbInv(db)
  <2>1. Documents(db)
    BY <1>1 DEF Documents
  <2>2. \A x : x \notin DOMAIN Ledger(db) /\ x \notin DOMAIN Claims(db)
    BY <1>1, <2>1, CollectionFacts
  <2> QED
    BY <2>1, <2>2 DEF DbInv, ClaimsCredited, RefundsRecorded, ReversalsRecorded
<1>3. HandlersInv
  BY DEF Init, HandlersInv, HandlerState
<1>4. Told
  BY DEF Init, Told, AppliedOnce, Answers
<1> QED
  BY <1>2, <1>3, <1>4 DEF IInv

\* Only a commit writes documents.
LEMMA NextIsCommitOrQuiet ==
    [Next]_vars => (\E h \in Handlers : Commit(h)) \/ UNCHANGED db
  BY DEF Next, vars, Receive, Read, Aborted, AlreadyExists, Unavailable

\* IInv is inductive.
LEMMA NextIInv == IInv /\ [Next]_vars => IInv'
<1> SUFFICES ASSUME IInv, [Next]_vars PROVE IInv'
  OBVIOUS
<1>1. (\E h \in Handlers : Commit(h)) \/ UNCHANGED db
  BY NextIsCommitOrQuiet
<1>2. DbInv(db)'
  <2>1. CASE UNCHANGED db
    BY <2>1 DEF IInv, DbInv, Documents, ClaimsCredited, RefundsRecorded, ReversalsRecorded,
                Claims, Ledger, Refunds, IdsIn
  <2>2. CASE \E h \in Handlers : Commit(h)
    BY <2>2, CommitStep
  <2> QED
    BY <1>1, <2>1, <2>2
<1> QED
  BY <1>2, HandlersStep, ToldStep DEF IInv

\* So it always holds.
LEMMA SpecIInv == Spec => []IInv
  BY InitIInv, NextIInv, PTL DEF Spec

----------------------------------------------------------------------------
(***************************************************************************)
(* The theorems                                                            *)
(***************************************************************************)

\* Type correctness: documents stay of their kind, no day is counted beyond its limit, and
\* a snapshot holds only what its request reads.
THEOREM SpecTypeOK == Spec => []TypeOK
<1>1. IInv => TypeOK
  <2> SUFFICES ASSUME IInv PROVE TypeOK
    OBVIOUS
  <2>1. \A r \in DOMAIN db : IsDoc(r, db[r])
    BY DEF IInv, DbInv, Documents
  <2>2. \A r \in DOMAIN db :
         \/ r[1] = "shardWallets" /\ db[r] \in Wallet
         \/ r[1] = "shardLedger" /\ db[r].delta \in Int
         \/ r[1] = "shardQuotas" /\ db[r].count \in 0..DAILY_REWARD_LIMIT
         \/ r[1] = "iapTransactions" /\ db[r] \in Claim
         \/ r[1] = "iapRefunds" /\ db[r] \in Refund
    BY <2>1 DEF IsDoc, WalletRef, LedgerRef, QuotaRef, ClaimRef, RefundRef
  <2> QED
    BY <2>2 DEF IInv, HandlersInv, TypeOK
<1> QED
  BY <1>1, SpecIInv, PTL

\* Callers are told the truth, however requests for one event race, retry and lose their
\* answers: at most one is told that it paid, and nobody that something happened which
\* did not.
THEOREM SpecAnswersAreTrue == Spec => []AnswersAreTrue
<1>1. IInv => AnswersAreTrue
  <2> SUFFICES ASSUME IInv PROVE AnswersAreTrue
    OBVIOUS
  <2>1. ASSUME NEW h \in Handlers, Answers(h, "applied")
        PROVE  LET q == handlers[h].q IN
               IF q.op \in {"refund", "reverse"}
               THEN RefundRef(q.event) \in DOMAIN db
               ELSE EntryRef(q) \in DOMAIN db
    <3> DEFINE q == handlers[h].q
    <3>1. q \in Requests
      BY <2>1 DEF Answers, IInv, HandlersInv, HandlerState
    <3>2. DoneRef(q) \in DOMAIN db
      BY <2>1 DEF IInv, Told
    <3> HIDE DEF q
    <3>3. CASE q.op = "reverse"
      <4>1. q.user \in Users /\ q.event \in Txns
        BY <3>1, <3>3, RequestFacts
      <4>2. EntryRef(q) = LedgerRef(Key(q.user, "iap_refund_reversed", q.event))
        BY <3>3 DEF EntryRef, Reason
      <4>3. Key(q.user, "iap_refund_reversed", q.event) \in DOMAIN Ledger(db)
        BY <3>2, <3>3, <4>2, CollectionFacts DEF DoneRef, IInv, DbInv
      <4>4. q.event \in DOMAIN Refunds(db)
        BY <4>1, <4>3 DEF IInv, DbInv, ReversalsRecorded
      <4>5. RefundRef(q.event) \in DOMAIN db
        BY <4>4, CollectionFacts DEF IInv, DbInv
      <4> QED
        BY <3>3, <4>5 DEF q
    <3>4. CASE q.op # "reverse"
      BY <3>2, <3>4 DEF DoneRef, q
    <3> QED
      BY <3>3, <3>4
  <2>2. AppliedOnce
    BY DEF IInv, Told
  <2>3. \A h \in Handlers : Answers(h, "duplicate") =>
          IF handlers[h].q.op \in {"refund", "reverse"}
          THEN RefundRef(handlers[h].q.event) \in DOMAIN db
          ELSE EntryRef(handlers[h].q) \in DOMAIN db
    BY DEF IInv, Told
  <2> QED
    BY <2>1, <2>2, <2>3 DEF AnswersAreTrue
<1> QED
  BY <1>1, SpecIInv, PTL

\* Empty collections are the ledger's initial state.
LEMMA InitLedger == Init => L!Init
  BY DEF Init, L!Init, NoDocs, IdsOf, WalletIn, CountIn, L!EmptyWallet, EmptyWallet

\* Every step is a step of the ledger or leaves it.
LEMMA NextLedger == IInv /\ [Next]_vars => [L!Next]_(L!shards)
<1> SUFFICES ASSUME IInv, [Next]_vars PROVE L!Next \/ UNCHANGED L!shards
  OBVIOUS
<1>1. CASE UNCHANGED db
  BY <1>1 DEF L!shards, IdsOf, WalletIn, CountIn
<1>2. CASE \E h \in Handlers : Commit(h)
  BY <1>2, CommitStep
<1> QED
  BY <1>1, <1>2, NextIsCommitOrQuiet

\* Refinement: concurrent, aborted, repeated and half-answered transactions amount to the
\* atomic steps of the ledger.
THEOREM SpecImplementsLedger == Spec => ImplementsLedger
<1>1. Spec => []IInv
  BY SpecIInv
<1> QED
  BY <1>1, InitLedger, NextLedger, PTL DEF Spec, ImplementsLedger, L!Spec

=============================================================================
