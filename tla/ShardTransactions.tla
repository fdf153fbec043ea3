------------------------- MODULE ShardTransactions -------------------------
(***************************************************************************)
(* How requests that run at the same time move shards: the Firestore store *)
(* of app/shards/firestore_store.py, attempt by attempt.                   *)
(*                                                                         *)
(* A handler reads a snapshot of the documents its request concerns,       *)
(* decides from the snapshot alone, and commits what it decided to write.  *)
(* Between the two, other handlers commit.  Firestore accepts a commit only*)
(* if nothing the attempt read has changed; otherwise it reports ABORTED   *)
(* (the client library runs the attempt again, MaxAttempts times in all) or*)
(* ALREADY_EXISTS (the store runs the whole transaction once more).  Any   *)
(* call may fail, and a commit may land although its answer is lost.  The  *)
(* same request may be sent again, at the same time or later: that is      *)
(* another handler with the same request.                                  *)
(*                                                                         *)
(* ImplementsLedger says that all of this looks like the atomic steps of   *)
(* ShardLedger.                                                            *)
(***************************************************************************)
EXTENDS ShardAccounting, FiniteSets, Functions

CONSTANTS
    Handlers,       \* invocations of the store, including re-sent requests
    Requests,       \* the requests that may be sent
    MaxAttempts     \* attempts of one transaction before the client library gives up

VARIABLES
    db,         \* document reference -> document, for the documents that exist
    handlers    \* handler -> where its request stands

vars == <<db, handlers>>

\* The requests the service lets through to the store: each names an event of its kind,
\* and an amount (or a percentage) within its bounds where it has one.
Request ==
    [op: {"attendance"}, user: Users, event: Days, amount: {0}]
    \cup [op: {"ad"}, user: Users, event: Ads, amount: {0}]
    \cup [op: {"iap", "reverse"}, user: Users, event: Txns, amount: {0}]
    \cup [op: {"debit", "credit_back"}, user: Users, event: Orders, amount: Checked]
    \cup [op: {"refund"}, user: Users, event: Txns, amount: Percentages]
    \cup [op: {"guest_claim"}, user: Users, event: Users, amount: {0}]

ASSUME RequestsAssumption ==
    /\ Requests \subseteq Request
    /\ MaxAttempts \in Nat \ {0}

\* Document references.
WalletRef(u) == <<"shardWallets", u>>
LedgerRef(k) == <<"shardLedger", k>>
QuotaRef(u, d) == <<"shardQuotas", <<u, d>>>>
ClaimRef(t) == <<"iapTransactions", t>>
RefundRef(t) == <<"iapRefunds", t>>

\* The ledger reason of each kind of request.
Reason ==
    [attendance |-> "daily_attendance", ad |-> "rewarded_ad", iap |-> "iap_purchase",
     debit |-> "debit", credit_back |-> "refund", refund |-> "iap_refund",
     reverse |-> "iap_refund_reversed", guest_claim |-> "guest_claim"]

EntryRef(q) == LedgerRef(Key(q.user, Reason[q.op], q.event))

\* The other half of a guest takeover.
TakeoverRef(q) == LedgerRef(Key(q.event, "guest_claim", q.user))

\* The movement an ordinary request asks for.
Delta(q) ==
    CASE q.op = "attendance" -> DAILY_REWARD
      [] q.op = "ad" -> REWARD_PER_AD
      [] q.op = "iap" -> Amount[q.event]
      [] q.op = "debit" -> -q.amount
      [] q.op = "credit_back" -> q.amount

----------------------------------------------------------------------------
(***************************************************************************)
(* What one attempt decides from the snapshot s it read.                   *)
(***************************************************************************)

\* The documents the attempt reads.
Reads(q) ==
    CASE q.op \in {"attendance", "debit", "credit_back"} -> {EntryRef(q), WalletRef(q.user)}
      [] q.op = "ad" ->
           {EntryRef(q), QuotaRef(q.user, RewardDay[q.event]), WalletRef(q.user)}
      [] q.op = "iap" -> {ClaimRef(q.event), EntryRef(q), WalletRef(q.user)}
      [] q.op = "refund" -> {ClaimRef(q.event), RefundRef(q.event), WalletRef(q.user)}
      [] q.op = "reverse" -> {RefundRef(q.event), WalletRef(q.user)}
      [] q.op = "guest_claim" ->
           {EntryRef(q), TakeoverRef(q), WalletRef(q.user), WalletRef(q.event)}

\* A wallet that was never written reads as all zero.
WalletIn(s, u) == IF WalletRef(u) \in DOMAIN s THEN s[WalletRef(u)] ELSE EmptyWallet

CountIn(s, u, d) == IF QuotaRef(u, d) \in DOMAIN s THEN s[QuotaRef(u, d)].count ELSE 0

\* The purchase, or the refund record, that a refund or a reversal is about is someone
\* else's, or is missing.
NotTheirs(q, s) ==
    CASE q.op = "iap" -> ClaimRef(q.event) \in DOMAIN s /\ s[ClaimRef(q.event)].userId # q.user
      [] q.op = "refund" ->
           \/ ClaimRef(q.event) \notin DOMAIN s
           \/ s[ClaimRef(q.event)].userId # q.user
      [] q.op = "reverse" ->
           \/ RefundRef(q.event) \notin DOMAIN s
           \/ s[RefundRef(q.event)].userId # q.user
      [] OTHER -> FALSE

\* The event already happened.
Known(q, s) ==
    CASE q.op = "refund" -> RefundRef(q.event) \in DOMAIN s
      [] q.op = "reverse" -> remaining(s[RefundRef(q.event)]) = 0
      [] OTHER -> EntryRef(q) \in DOMAIN s

\* The request cannot be met: the day is full, the balance does not suffice, there is
\* nothing to take over, or half of the takeover is there already.
Refused(q, s) ==
    CASE q.op = "ad" -> CountIn(s, q.user, RewardDay[q.event]) >= DAILY_REWARD_LIMIT
      [] q.op = "debit" -> WalletIn(s, q.user).balance < q.amount
      [] q.op = "guest_claim" ->
           \/ q.user = q.event
           \/ WalletIn(s, q.user).balance = 0
           \/ TakeoverRef(q) \in DOMAIN s
      [] OTHER -> FALSE

\* The answer of the attempt, in the order of the code's early returns.
Answer(q, s) ==
    IF NotTheirs(q, s) THEN "refused"
    ELSE IF Known(q, s) THEN "duplicate"
    ELSE IF Refused(q, s) THEN "refused"
    ELSE "applied"

Entry(delta) == [delta |-> delta]

\* The documents d with one written, over the one it replaces if there is one.
Put(d, ref, doc) == [r \in DOMAIN d \cup {ref} |-> IF r = ref THEN doc ELSE d[r]]

(***************************************************************************)
(* The documents d after those that an applied request has staged, with    *)
(* transaction.create and set, from what it saw.                           *)
(***************************************************************************)
apply_writes(q, s, d) ==
    Put(Put(d, EntryRef(q), Entry(Delta(q))),
        WalletRef(q.user), Moved(WalletIn(s, q.user), Delta(q)))

quota_writes(q, s, d) ==
    LET day == RewardDay[q.event] IN
    Put(d, QuotaRef(q.user, day), [count |-> CountIn(s, q.user, day) + 1])

claim_writes(q, d) ==
    Put(d, ClaimRef(q.event), [userId |-> q.user, amount |-> Amount[q.event]])

refund_writes(q, s, d) ==
    LET w == WalletIn(s, q.user)
        requested == requested_amount(s[ClaimRef(q.event)].amount, q.amount)
        recovered == recovered_amount(w.balance, requested)
        recorded == Put(d, RefundRef(q.event),
                        [userId |-> q.user, requested |-> requested,
                         recovered |-> recovered, reversed |-> 0])
    IN
    IF recovered > 0
    THEN Put(Put(recorded, EntryRef(q), Entry(-recovered)),
             WalletRef(q.user), Recovered(w, recovered))
    ELSE recorded

reverse_writes(q, s, d) ==
    LET record == s[RefundRef(q.event)]
        n == remaining(record)
    IN
    Put(Put(Put(d, EntryRef(q), Entry(n)),
            WalletRef(q.user), Restored(WalletIn(s, q.user), n)),
        RefundRef(q.event), [record EXCEPT !.reversed = @ + n])

guest_writes(q, s, d) ==
    LET n == WalletIn(s, q.user).balance IN
    Put(Put(Put(Put(d, EntryRef(q), Entry(-n)),
                TakeoverRef(q), Entry(n)),
            WalletRef(q.user), Moved(WalletIn(s, q.user), -n)),
        WalletRef(q.event), Moved(WalletIn(s, q.event), n))

Writes(q, s, d) ==
    CASE q.op = "ad" -> quota_writes(q, s, apply_writes(q, s, d))
      [] q.op = "iap" -> claim_writes(q, apply_writes(q, s, d))
      [] q.op = "refund" -> refund_writes(q, s, d)
      [] q.op = "reverse" -> reverse_writes(q, s, d)
      [] q.op = "guest_claim" -> guest_writes(q, s, d)
      [] OTHER -> apply_writes(q, s, d)

\* The documents written with transaction.create: a commit fails if one exists already.
Creates(q) ==
    {EntryRef(q)}
    \cup (IF q.op = "iap" THEN {ClaimRef(q.event)} ELSE {})
    \cup (IF q.op = "refund" THEN {RefundRef(q.event)} ELSE {})
    \cup (IF q.op = "guest_claim" THEN {TakeoverRef(q)} ELSE {})

----------------------------------------------------------------------------
(***************************************************************************)
(* Handlers                                                                *)
(***************************************************************************)

\* Firestore's answer to the reads of a transaction: one consistent snapshot.
Snapshot(refs) == Restrict(db, refs \cap DOMAIN db)

NoDocs == [r \in {} |-> r]

Init ==
    /\ db = NoDocs
    /\ handlers = [h \in Handlers |-> [pc |-> "idle"]]

\* A handler that is reading, or reading again: the attempts used and whether the
\* transaction is the second run after ALREADY_EXISTS.
Reading(q, attempt, again) ==
    [pc |-> "reading", q |-> q, attempt |-> attempt, again |-> again]

Committing(h, s) ==
    [pc |-> "committing", q |-> h.q, attempt |-> h.attempt, again |-> h.again, seen |-> s]

Answered(q, answer) == [pc |-> "answered", q |-> q, answer |-> answer]

\* A request arrives.
Receive(h, q) ==
    /\ handlers[h].pc = "idle"
    /\ handlers' = [handlers EXCEPT ![h] = Reading(q, 1, FALSE)]
    /\ UNCHANGED db

\* The attempt reads and decides.  A duplicate or a refusal writes nothing and is
\* answered at once; anything else goes on to commit.
Read(h) ==
    LET q == handlers[h].q
        s == Snapshot(Reads(q))
    IN
    /\ handlers[h].pc = "reading"
    /\ handlers' = [handlers EXCEPT ![h] =
                      IF Answer(q, s) = "applied"
                      THEN Committing(@, s)
                      ELSE Answered(q, Answer(q, s))]
    /\ UNCHANGED db

\* Fault: Firestore commits although a document the attempt read has changed, as if the
\* balance had been read outside the transaction.
FreshUnlessCreated(h) == Creates(handlers[h].q) \cap DOMAIN db = {}

\* Nothing the attempt read has changed since.
Fresh(h) == Snapshot(Reads(handlers[h].q)) = handlers[h].seen

\* The commit lands.  The handler answers that it wrote, unless the answer of Firestore
\* was lost on the way: then the request fails although it took effect.
Commit(h) ==
    /\ handlers[h].pc = "committing"
    /\ Fresh(h)
    /\ db' = Writes(handlers[h].q, handlers[h].seen, db)
    /\ \E answer \in {"applied", "unavailable"} :
         handlers' = [handlers EXCEPT ![h] = Answered(@.q, answer)]

\* ABORTED: the client library runs the attempt again, with nothing kept from the last.
Aborted(h) ==
    /\ handlers[h].pc = "committing"
    /\ ~Fresh(h)
    /\ handlers' = [handlers EXCEPT ![h] =
                      IF @.attempt < MaxAttempts
                      THEN Reading(@.q, @.attempt + 1, @.again)
                      ELSE Answered(@.q, "unavailable")]
    /\ UNCHANGED db

\* Fault: losing the race for the document is taken for having won it.
AlreadyExistsIsSuccess(h) ==
    /\ handlers[h].pc = "committing"
    /\ Creates(handlers[h].q) \cap DOMAIN db # {}
    /\ handlers' = [handlers EXCEPT ![h] = Answered(@.q, "applied")]
    /\ UNCHANGED db

\* ALREADY_EXISTS: another request created the document first.  apply, refund and
\* reverse_refund run the transaction once more; claim_guest_wallet gives up.
AlreadyExists(h) ==
    /\ handlers[h].pc = "committing"
    /\ Creates(handlers[h].q) \cap DOMAIN db # {}
    /\ handlers' = [handlers EXCEPT ![h] =
                      IF @.again \/ @.q.op = "guest_claim"
                      THEN Answered(@.q, "unavailable")
                      ELSE Reading(@.q, 1, TRUE)]
    /\ UNCHANGED db

\* Any call to Firestore may fail without having done anything.
Unavailable(h) ==
    /\ handlers[h].pc \in {"reading", "committing"}
    /\ handlers' = [handlers EXCEPT ![h] = Answered(@.q, "unavailable")]
    /\ UNCHANGED db

Next ==
    \E h \in Handlers :
        \/ \E q \in Requests : Receive(h, q)
        \/ Read(h)
        \/ Commit(h)
        \/ Aborted(h)
        \/ AlreadyExists(h)
        \/ Unavailable(h)

Spec == Init /\ [][Next]_vars

----------------------------------------------------------------------------
(***************************************************************************)
(* Properties                                                              *)
(***************************************************************************)

HandlerState ==
    [pc: {"idle"}]
    \cup [pc: {"reading"}, q: Requests, attempt: 1..MaxAttempts, again: BOOLEAN]
    \cup [pc: {"answered"}, q: Requests,
          answer: {"applied", "duplicate", "refused", "unavailable"}]

\* Type invariant.  A snapshot holds only documents the request reads.
TypeOK ==
    /\ \A r \in DOMAIN db :
         \/ r[1] = "shardWallets" /\ db[r] \in Wallet
         \/ r[1] = "shardLedger" /\ db[r].delta \in Int
         \/ r[1] = "shardQuotas" /\ db[r].count \in 0..DAILY_REWARD_LIMIT
         \/ r[1] = "iapTransactions" /\ db[r] \in Claim
         \/ r[1] = "iapRefunds" /\ db[r] \in Refund
    /\ \A h \in Handlers :
         \/ handlers[h] \in HandlerState
         \/ /\ handlers[h].pc = "committing"
            /\ DOMAIN handlers[h].seen \subseteq Reads(handlers[h].q)

Answers(h, answer) == handlers[h].pc = "answered" /\ handlers[h].answer = answer

\* The same event, whatever amount the requests name.
SameEvent(q, r) == q.op = r.op /\ q.user = r.user /\ q.event = r.event

\* However often a request is sent, at most one handler answers that it was the one that
\* paid (applied = True is the writer of the entry, firestore_store.py 108-112).
AppliedOnce ==
    \A g, h \in Handlers :
        Answers(g, "applied") /\ Answers(h, "applied") /\ SameEvent(handlers[g].q, handlers[h].q)
            => g = h

\* What callers are told is true: at most one of them that it paid, and nobody that an event
\* happened which did not. An applied or a duplicate answer leaves its trace for good, the
\* entry or, for a refund of nothing, the record.
AnswersAreTrue ==
    /\ AppliedOnce
    /\ \A h \in Handlers :
          Answers(h, "applied") \/ Answers(h, "duplicate") =>
              LET q == handlers[h].q IN
              IF q.op \in {"refund", "reverse"}
              THEN RefundRef(q.event) \in DOMAIN db
              ELSE EntryRef(q) \in DOMAIN db

(***************************************************************************)
(* The documents, seen as the state of ShardLedger.                        *)
(***************************************************************************)
IdsOf(collection) == {r[2] : r \in {x \in DOMAIN db : x[1] = collection}}

L == INSTANCE ShardLedger WITH
       wallets <- [u \in Users |-> WalletIn(db, u)],
       ledger <- [k \in IdsOf("shardLedger") |-> db[LedgerRef(k)].delta],
       quotas <- [p \in Users \X Days |-> CountIn(db, p[1], p[2])],
       claims <- [t \in IdsOf("iapTransactions") |-> db[ClaimRef(t)]],
       refunds <- [t \in IdsOf("iapRefunds") |-> db[RefundRef(t)]]

\* Concurrent, aborted, repeated and half-answered transactions amount to the atomic
\* steps of the ledger: none is lost, none is applied to a stale balance.
ImplementsLedger == L!Spec

=============================================================================
