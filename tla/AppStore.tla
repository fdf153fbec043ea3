------------------------------ MODULE AppStore ------------------------------
(***************************************************************************)
(* App Store purchases and App Store Server Notifications                  *)
(* (app/iap, app/api/iap.py, app/api/app_store.py).                        *)
(*                                                                         *)
(* Apple charges, refunds and reverses refunds, and tells the server of    *)
(* each in a message that it sends again until it hears 200; messages are  *)
(* not ordered, and one may come again after it was answered.  The device  *)
(* submits its purchase itself, when it gets to it.  The handlers share    *)
(* the documents of ShardLedger and move shards only by its steps.         *)
(***************************************************************************)
EXTENDS ShardLedger, Sequences

CONSTANTS
    Guests,         \* the users without an identity
    Token,          \* transaction -> appAccountToken: a user id or NoUser
    Ours,           \* transactions of this bundle and of an allowed environment
    Sold,           \* transactions of a consumable of the catalog
    Revocations,    \* transaction -> what Apple may sign about its refund: [type, percentage]
    Notices,        \* types of the messages that carry no transaction
    NoUser,
    NoTxn,
    Turns           \* bound: transaction -> how often Apple refunds or reverses it

ASSUME AppStoreAssumption ==
    /\ Guests \subseteq Users
    /\ NoUser \notin Users
    /\ Token \in [Txns -> Users \cup {NoUser}]
    /\ Ours \subseteq Txns /\ Sold \subseteq Txns
    /\ NoTxn \notin Txns
    /\ Turns \in [Txns -> Nat]

\* No revocationPercentage came along.
Missing == -1

NoRevocation == [type |-> "none", percentage |-> Missing]

\* A revocation of which the code knows what to take.
recoverable(r) ==
    \/ r.type = "REFUND_FULL"
    \/ r.type = "REFUND_PRORATED" /\ r.percentage # Missing

\* Fault: a percentage counts, whatever the type.
percentage_first(r) == IF r.percentage = Missing THEN MILLIUNITS_PER_UNIT ELSE r.percentage

\* How much of the purchase; a full refund is all of it, whatever percentage comes along.
percentage(r) == IF r.type = "REFUND_FULL" THEN MILLIUNITS_PER_UNIT ELSE r.percentage

\* InvalidTransaction: a percentage out of range.
usable(r) == percentage(r) \in 1..MILLIUNITS_PER_UNIT

ASSUME RevocationsAssumption ==
    /\ Revocations \in [Txns -> SUBSET
          [type: {"REFUND_FULL", "REFUND_PRORATED", "FAMILY_REVOKE", "other"}, percentage: Int]]
    /\ \A t \in Txns : \A r \in Revocations[t] :
          recoverable(r) /\ usable(r) => percentage(r) \in Percentages

VARIABLES
    claimedBy,      \* guest -> the account that took it over, or NoUser
    signIns,        \* <<guest, account>>: a sign-in between its wallet and its mark
    submissions,    \* <<user, transaction>>: requests whose owner is checked
    apple,          \* transaction -> the messages about it, in Apple's order
    answers         \* message -> the last answer Apple heard, for the messages sent

people == <<claimedBy, signIns, submissions>>

appStoreVars == <<shards, people, apple, answers>>

ACKNOWLEDGED_NOTIFICATIONS ==
    {"TEST", "CONSUMPTION_REQUEST", "REFUND_DECLINED", "ONE_TIME_CHARGE"}

Notice(kind) == [kind |-> kind, txn |-> NoTxn, turn |-> 0, revocation |-> NoRevocation]

\* Apple refunds at every odd turn of a purchase and reverses at every even one.
RefundsOf(t) == [kind: {"REFUND"}, txn: {t}, turn: {i \in 1..Turns[t] : i % 2 = 1},
                 revocation: Revocations[t]]

ReversalsOf(t) == [kind: {"REFUND_REVERSED"}, txn: {t}, turn: {i \in 1..Turns[t] : i % 2 = 0},
                   revocation: {NoRevocation}]

Message == {Notice(k) : k \in Notices} \cup UNION {RefundsOf(t) \cup ReversalsOf(t) : t \in Txns}

\* 200, as done or as nothing to do; 400; 503 or no answer yet.
Answers == {"acknowledged", "skipped", "invalid", "deferred"}

OK == {"acknowledged", "skipped"}

AppStoreTypeOK ==
    /\ TypeOK
    /\ claimedBy \in [Guests -> (Users \ Guests) \cup {NoUser}]
    /\ signIns \subseteq Guests \X (Users \ Guests)
    /\ submissions \subseteq Users \X (Ours \cap Sold)
    /\ DOMAIN apple = Txns
    /\ \A t \in Txns : \A i \in DOMAIN apple[t] : apple[t][i] \in DOMAIN answers
    /\ DOMAIN answers \subseteq Message
    /\ \A n \in DOMAIN answers : answers[n] \in Answers

AppStoreInit ==
    /\ Init
    /\ claimedBy = [g \in Guests |-> NoUser]
    /\ signIns = {} /\ submissions = {}
    /\ apple = [t \in Txns |-> <<>>]
    /\ answers = [n \in {Notice(k) : k \in Notices} |-> "deferred"]

----------------------------------------------------------------------------
(***************************************************************************)
(* Purchases                                                               *)
(***************************************************************************)

\* The purchase is the user's own, or that of a guest the user has taken over.
check_owner(u, t) ==
    \/ Token[t] = u
    \/ Token[t] \in Guests /\ claimedBy[Token[t]] = u

\* POST /users/me/iap/shards: everything that is checked before the ledger is asked.
Submit(u, t) ==
    /\ t \in Ours \cap Sold
    /\ check_owner(u, t)
    /\ submissions' = submissions \cup {<<u, t>>}
    /\ UNCHANGED <<shards, claimedBy, signIns, apple, answers>>

\* The ledger's answer: credited, credited before, or another's (409).
Credit(u, t) ==
    /\ <<u, t>> \in submissions
    /\ \/ IapCredit(u, t)
       \/ t \in DOMAIN claims /\ UNCHANGED shards
    /\ submissions' = submissions \ {<<u, t>>}
    /\ UNCHANGED <<claimedBy, signIns, apple, answers>>

\* The store fails or the instance goes away; the device may submit again.
CreditFails(u, t) ==
    /\ <<u, t>> \in submissions
    /\ submissions' = submissions \ {<<u, t>>}
    /\ UNCHANGED <<shards, claimedBy, signIns, apple, answers>>

\* The user pays for something.
Spend(u, o, n) ==
    /\ Debit(u, o, n)
    /\ UNCHANGED <<people, apple, answers>>

\* A guest signs in to account o: first the wallet, then the note that sends late
\* payments to the account.
MoveWallet(g, o) ==
    /\ g \in Guests /\ o \notin Guests
    /\ \/ GuestClaim(g, o)
       \/ /\ wallets[g].balance = 0 \/ Key(g, "guest_claim", o) \in DOMAIN ledger
          /\ UNCHANGED shards
    /\ signIns' = signIns \cup {<<g, o>>}
    /\ UNCHANGED <<claimedBy, submissions, apple, answers>>

mark_guest_claimed(g, o) ==
    /\ <<g, o>> \in signIns
    /\ signIns' = signIns \ {<<g, o>>}
    /\ claimedBy' = [claimedBy EXCEPT ![g] = IF @ = NoUser THEN o ELSE @]
    /\ UNCHANGED <<shards, submissions, apple, answers>>

----------------------------------------------------------------------------
(***************************************************************************)
(* Apple                                                                   *)
(***************************************************************************)

Tell(t, n) ==
    /\ apple' = [apple EXCEPT ![t] = Append(@, n)]
    /\ answers' = Create(answers, n, "deferred")
    /\ UNCHANGED <<shards, people>>

refunded(t) == Len(apple[t]) % 2 = 1

AppleRefunds(t, r) ==
    /\ ~refunded(t) /\ Len(apple[t]) < Turns[t]
    /\ Tell(t, [kind |-> "REFUND", txn |-> t, turn |-> Len(apple[t]) + 1, revocation |-> r])

AppleReverses(t) ==
    /\ refunded(t) /\ Len(apple[t]) < Turns[t]
    /\ Tell(t, [kind |-> "REFUND_REVERSED", txn |-> t, turn |-> Len(apple[t]) + 1,
                revocation |-> NoRevocation])

----------------------------------------------------------------------------
(***************************************************************************)
(* Notifications: what the handler does, and what it answers               *)
(***************************************************************************)

\* The outcome of a message whose signature is good: the answer and the ledger's step.
Ends(answer, outcome) == answer = outcome /\ UNCHANGED shards

\* A purchase the server never paid for: nothing to take back.
unknown_purchase(answer) == Ends(answer, "skipped")

\* IAPRefundService.handle and _recover: the claim says whose wallet and how much.
handle_refund(n, answer) ==
    LET t == n.txn  u == Token[t] IN
    \/ /\ ~recoverable(n.revocation) \/ u = NoUser
       /\ Ends(answer, "acknowledged")
    \/ /\ recoverable(n.revocation) /\ u # NoUser
       /\ \/ t \notin DOMAIN claims /\ unknown_purchase(answer)
          \/ /\ t \in DOMAIN claims
             /\ claims[t].userId # u \/ ~usable(n.revocation)
             /\ Ends(answer, "invalid")
          \/ /\ t \in DOMAIN claims
             /\ claims[t].userId = u /\ usable(n.revocation)
             /\ \/ t \in DOMAIN refunds /\ Ends(answer, "acknowledged")
                \/ /\ RefundIap(u, t, percentage(n.revocation))
                   /\ answer = "acknowledged"

\* Fault: a reversal without a refund record is nothing to do.
reversal_swallowed(answer) == Ends(answer, "acknowledged")

\* Fault: a reversal without a refund record does not match its purchase.
reversal_refused(answer) == Ends(answer, "invalid")

\* The refund may only be late: the answer is 503, and Apple sends the reversal again.
RefundNotYetProcessed(answer) == Ends(answer, "deferred")

\* IAPRefundService.handle_reversal: the record says how much.
handle_reversal(n, answer) ==
    LET t == n.txn  u == Token[t] IN
    \/ u = NoUser /\ Ends(answer, "acknowledged")
    \/ /\ u # NoUser /\ t \notin DOMAIN refunds
       /\ \/ t \notin DOMAIN claims /\ Ends(answer, "skipped")
          \/ t \in DOMAIN claims /\ RefundNotYetProcessed(answer)
    \/ /\ u # NoUser /\ t \in DOMAIN refunds
       /\ \/ refunds[t].userId # u /\ Ends(answer, "invalid")
          \/ /\ refunds[t].userId = u /\ remaining(refunds[t]) = 0
             /\ Ends(answer, "acknowledged")
          \/ ReverseRefund(u, t) /\ answer = "acknowledged"

\* _check, then _route: a message without a transaction moves nothing, and one of a type
\* that is not known to be harmless is not swallowed.
route(n, answer) ==
    \/ n.txn = NoTxn /\ n.kind \in ACKNOWLEDGED_NOTIFICATIONS /\ Ends(answer, "acknowledged")
    \/ n.txn = NoTxn /\ n.kind \in {"REFUND", "REFUND_REVERSED"} /\ Ends(answer, "acknowledged")
    \/ /\ n.txn = NoTxn
       /\ n.kind \notin ACKNOWLEDGED_NOTIFICATIONS \cup {"REFUND", "REFUND_REVERSED"}
       /\ Ends(answer, "deferred")
    \/ n.txn \in Txns \ Ours /\ Ends(answer, "invalid")
    \/ n.txn \in Ours /\ n.kind = "REFUND" /\ handle_refund(n, answer)
    \/ n.txn \in Ours /\ n.kind = "REFUND_REVERSED" /\ handle_reversal(n, answer)

\* Apple stops at the first 200 it hears; a copy on its way changes nothing for it.
Hears(n, answer) ==
    answers' = [answers EXCEPT ![n] = IF @ \in OK THEN @ ELSE answer]

\* POST /app-store/notifications/v2: sent the first time, again, or twice.
receive_notification(n) ==
    /\ n \in DOMAIN answers
    /\ \E answer \in Answers : route(n, answer) /\ Hears(n, answer)
    /\ UNCHANGED <<people, apple>>

\* The same, and the answer is lost: a commit answered by 503, a timeout, a crash.
receive_unheard(n) ==
    /\ n \in DOMAIN answers
    /\ \E answer \in Answers : route(n, answer)
    /\ UNCHANGED <<people, apple, answers>>

\* The verifier is not configured or cannot fetch a certificate, or the store is down.
receive_unavailable(n) ==
    /\ n \in DOMAIN answers
    /\ Hears(n, "deferred")
    /\ UNCHANGED <<shards, people, apple>>

----------------------------------------------------------------------------
Device ==
    \/ \E u \in Users, t \in Txns : Submit(u, t) \/ Credit(u, t) \/ CreditFails(u, t)
    \/ \E u \in Users, o \in Orders, n \in Checked : Spend(u, o, n)
    \/ \E g \in Guests, o \in Users : MoveWallet(g, o) \/ mark_guest_claimed(g, o)

Apple ==
    \/ \E t \in Txns : \E r \in Revocations[t] : AppleRefunds(t, r)
    \/ \E t \in Txns : AppleReverses(t)

Server ==
    \E n \in DOMAIN answers :
        receive_notification(n) \/ receive_unheard(n) \/ receive_unavailable(n)

AppStoreNext == Device \/ Apple \/ Server

AppStoreSpec == AppStoreInit /\ [][AppStoreNext]_appStoreVars

\* Apple sends a message again until it hears 200, and the server is not down for good.
Resent ==
    \A t \in Ours : \A n \in RefundsOf(t) \cup ReversalsOf(t) :
        WF_appStoreVars(n \in DOMAIN answers /\ answers[n] \notin OK /\ receive_notification(n))

AppStoreFairSpec == AppStoreSpec /\ Resent

----------------------------------------------------------------------------
(***************************************************************************)
(* Properties                                                              *)
(***************************************************************************)

Told(t, kind) == {n \in DOMAIN answers : n.txn = t /\ n.kind = kind}

\* What 200 tells Apple, which then never sends the message again: a refund of shards that
\* were paid has been recorded, a reversal has given everything back that was taken.
\* Unless the message was skipped, because there was no purchase when it came.
AcknowledgedIsDone ==
    \A n \in DOMAIN answers :
        /\ n.txn \in Txns /\ Token[n.txn] # NoUser
        /\ answers[n] = "acknowledged"
        => /\ n.kind = "REFUND" /\ recoverable(n.revocation)
                => n.txn \in DOMAIN refunds
           /\ n.kind = "REFUND_REVERSED"
                => /\ n.txn \in DOMAIN refunds
                   /\ remaining(refunds[n.txn]) = 0

\* No later step makes the server follow message n: it is about another bundle, its
\* percentage is out of range, or whoever was credited is not whom the purchase names, and
\* then nothing was or will be taken that a reversal could give back.
Refused(n) ==
    \/ n.txn \notin Ours
    \/ n.kind = "REFUND" /\ recoverable(n.revocation) /\ ~usable(n.revocation)
    \/ /\ n.txn \in DOMAIN claims \ DOMAIN refunds
       /\ claims[n.txn].userId # Token[n.txn]

\* What 400 tells Apple (api/app_store.py: the same if it is tried again): the message could
\* never be followed, whatever came or comes before its next try. A message that is only
\* early, before the purchase or the refund it needs, gets 200 or 503.
RefusedIsFinal ==
    \A n \in DOMAIN answers : answers[n] = "invalid" => Refused(n)

\* A refund takes what one of Apple's refunds of that purchase asks for, all of it if the
\* refund is full, and gives back only if Apple reversed one.
MovedAsAppleSaid ==
    \A t \in DOMAIN refunds :
        /\ \E n \in Told(t, "REFUND") :
              refunds[t].requested =
                  IF n.revocation.type = "REFUND_FULL" THEN claims[t].amount
                  ELSE requested_amount(claims[t].amount, n.revocation.percentage)
        /\ refunds[t].reversed > 0 => Told(t, "REFUND_REVERSED") # {}

\* A message that was sent and not skipped.
Open(n) == n \in DOMAIN answers /\ answers[n] # "skipped"

\* A refund of a purchase that was credited to its buyer is recorded, and what a refund
\* took is given back when Apple reverses it: messages that are late, lost or out of order
\* come to the same end, if the server had the purchase when it first answered 200.
NoticesAreFollowed ==
    \A t \in Ours :
        /\ \A n \in {n \in RefundsOf(t) : recoverable(n.revocation) /\ usable(n.revocation)} :
              (Open(n) /\ t \in DOMAIN claims /\ claims[t].userId = Token[t])
                ~> t \in DOMAIN refunds
        /\ \A n \in ReversalsOf(t) :
              (Open(n) /\ t \in DOMAIN refunds)
                ~> (t \in DOMAIN refunds /\ remaining(refunds[t]) = 0)

\* What app/iap/refunds.py says of a refund it skips: the answer would be the same if it
\* came again, because the server never pays for that purchase.
SkippedIsNeverPaid ==
    \A n \in DOMAIN answers :
        answers[n] = "skipped" => n.txn \notin DOMAIN claims

=============================================================================
