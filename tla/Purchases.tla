----------------------------- MODULE Purchases -----------------------------
(***************************************************************************)
(* Templates of the catalog and slots for mirrors, paid with shards        *)
(* (app/catalog/, app/capacity/), next to the deletion of the buyer's      *)
(* account.  What a handler reads before its transaction (the price table  *)
(* of its version, the templates already owned) is a step of its own; each *)
(* transaction of the two stores is one action.                            *)
(***************************************************************************)
EXTENDS Naturals, FiniteSets, Functions

CONSTANTS
    Users, Templates, Operations,
    Prices,         \* what a deployment may ask for a template, 0 for free
    Cost, Delta,    \* the pack of slots: cost_shards and slot_delta
    StartBalance,
    Requests,       \* handlers that can be under way at once
    MaxRequests,    \* bound: requests received
    MaxDeployments, \* bound: changes of the price table
    MaxDeletions,   \* bound: users who delete their account
    None

ASSUME PurchasesAssumption ==
    /\ Prices \subseteq Nat
    /\ Cost \in Nat \ {0} /\ Delta \in Nat \ {0}
    /\ StartBalance \in Nat /\ MaxRequests \in Nat /\ MaxDeployments \in Nat
    /\ MaxDeletions \in Nat
    /\ "deleted-account" \notin Users

VARIABLES
    users,          \* users that have a document
    slots,          \* purchasedMirrorSlots of that document
    signedIn,       \* users with a session
    balance,
    ledger,         \* idempotency key -> delta
    acquisitions,   \* <<user, template>> -> pricePaid
    counts,         \* template -> downloadCount
    operations,     \* <<user, operation>> -> userId of the record
    price,          \* template -> price in the version that answers now
    requests,       \* what a handler has read, and the store call it makes next
    deletion,       \* user -> what the deletion of the account does next
    received, deployed,
    granted,        \* history: <<user, operation>> -> how often it gave slots
    wasFree,        \* history: templates that some version gave away
    firsts          \* history: template -> users it was acquired by

shop == <<acquisitions, counts, operations, granted, firsts>>
money == <<balance, ledger>>
account == <<users, slots, signedIn>>
version == <<price, deployed, wasFree>>
vars == <<shop, money, account, version, requests, received, deletion>>

DELETED_OWNER == "deleted-account"

\* The ledger's keys: a template is paid once per user, a pack once per intention.
TemplateKey(u, t) == <<u, "catalog_template_purchase", t>>
SlotsKey(u, o) == <<u, "mirror_capacity_purchase", o>>

Keys == {TemplateKey(u, t) : u \in Users, t \in Templates}
        \cup {SlotsKey(u, o) : u \in Users, o \in Operations}

Request == [call: {"none", "acquire", "purchase", "purchase_slots"},
            user: Users \cup {None}, templates: SUBSET Templates,
            price: Prices \cup {0}, operation: Operations \cup {None}]

NoRequest == [call |-> "none", user |-> None, templates |-> {}, price |-> 0, operation |-> None]

Steps == {"anonymize_claims", "delete_user", "delete_wallet", "delete_sessions",
          "delete_ledger", "delete_acquisitions", "failed", "done"}

TypeOK ==
    /\ users \subseteq Users /\ slots \in [Users -> Nat] /\ signedIn \subseteq Users
    /\ balance \in [Users -> Nat]
    /\ DOMAIN ledger \subseteq Keys /\ ledger \in [DOMAIN ledger -> Nat]
    /\ DOMAIN acquisitions \subseteq Users \X Templates
    /\ acquisitions \in [DOMAIN acquisitions -> Prices \cup {0}]
    /\ counts \in [Templates -> Nat]
    /\ DOMAIN operations \subseteq Users \X Operations
    /\ operations \in [DOMAIN operations -> Users \cup {DELETED_OWNER}]
    /\ price \in [Templates -> Prices]
    /\ requests \in [Requests -> Request]
    /\ DOMAIN deletion \subseteq Users /\ deletion \in [DOMAIN deletion -> Steps]
    /\ received \in 0..MaxRequests /\ deployed \in 0..MaxDeployments
    /\ granted \in [Users \X Operations -> Nat]
    /\ wasFree \subseteq Templates /\ firsts \in [Templates -> SUBSET Users]

Init ==
    /\ users = Users /\ signedIn = Users
    /\ slots = [u \in Users |-> 0]
    /\ balance = [u \in Users |-> StartBalance]
    /\ ledger = <<>> /\ acquisitions = <<>> /\ operations = <<>> /\ deletion = <<>>
    /\ counts = [t \in Templates |-> 0]
    /\ price \in [Templates -> Prices]
    /\ wasFree = {t \in Templates : price[t] = 0}
    /\ requests = [r \in Requests |-> NoRequest]
    /\ received = 0 /\ deployed = 0
    /\ granted = [k \in Users \X Operations |-> 0]
    /\ firsts = [t \in Templates |-> {}]

Put(coll, id, doc) == [k \in DOMAIN coll \cup {id} |-> IF k = id THEN doc ELSE coll[k]]

WithoutUser(coll, u) == Restrict(coll, {k \in DOMAIN coll : k[1] # u})

----------------------------------------------------------------------------
(***************************************************************************)
(* Requests                                                                *)
(***************************************************************************)

current_user(u) == u \in signedIn /\ u \in users

Receive(r, req) ==
    /\ current_user(req.user)
    /\ requests[r] = NoRequest
    /\ received < MaxRequests
    /\ received' = received + 1
    /\ requests' = [requests EXCEPT ![r] = req]
    /\ UNCHANGED <<shop, money, account, version, deletion>>

\* The store fails, the instance crashes, or the transaction refuses (InsufficientShards):
\* nothing more is written.
fails(r) ==
    /\ requests[r] # NoRequest
    /\ requests' = [requests EXCEPT ![r] = NoRequest]
    /\ UNCHANGED <<shop, money, account, version, received, deletion>>

is_free(t) == price[t] = 0

acquired_template_ids(u) == {t \in Templates : <<u, t>> \in DOMAIN acquisitions}

\* Fault: the client's word that it owns a template is enough.
open_to_all(u, asked) == asked

\* What the old free path may record: what costs nothing, or is owned already.
obtainable(u, asked) == {t \in asked : is_free(t) \/ t \in acquired_template_ids(u)}

\* POST /catalog/templates/{id}/acquire; a template to be paid for ends the request (402).
acquire(r, u, t) ==
    /\ obtainable(u, {t}) # {}
    /\ Receive(r, [NoRequest EXCEPT !.call = "acquire", !.user = u,
                                    !.templates = obtainable(u, {t})])

\* POST /catalog/templates/reconcile: one transaction for each, in any order.
reconcile(r, u, asked) ==
    /\ obtainable(u, asked) # {}
    /\ Receive(r, [NoRequest EXCEPT !.call = "acquire", !.user = u,
                                    !.templates = obtainable(u, asked)])

\* POST /catalog/templates/{id}/purchases, at the price of the version that answers.
purchase(r, u, t) ==
    Receive(r, [NoRequest EXCEPT !.call = "purchase", !.user = u,
                                 !.templates = {t}, !.price = price[t]])

\* POST /users/me/mirror-capacity/purchases, and again with the same operationId.
purchase_slots(r, u, o) ==
    Receive(r, [NoRequest EXCEPT !.call = "purchase_slots", !.user = u, !.operation = o])

----------------------------------------------------------------------------
(***************************************************************************)
(* The stores' transactions                                                *)
(***************************************************************************)

covers(u, amount) == balance[u] >= amount

\* apply_in_transaction and flush: an event that is in the ledger moves nothing again.
Charge(u, key, amount) ==
    \/ /\ key \in DOMAIN ledger
       /\ UNCHANGED money
    \/ /\ key \notin DOMAIN ledger
       /\ covers(u, amount)
       /\ balance' = [balance EXCEPT ![u] = @ - amount]
       /\ ledger' = Put(ledger, key, amount)

\* Fault: every request counts, not only the first of a user.
counted_each_time(u, t) == [counts EXCEPT ![t] = @ + 1]

counted(u, t) ==
    IF <<u, t>> \in DOMAIN acquisitions THEN counts ELSE [counts EXCEPT ![t] = @ + 1]

\* Who has the template already keeps the record, and what was paid for it.
Record(u, t, paid) ==
    /\ acquisitions' = IF <<u, t>> \in DOMAIN acquisitions THEN acquisitions
                       ELSE Put(acquisitions, <<u, t>>, paid)
    /\ counts' = counted(u, t)
    /\ firsts' = [firsts EXCEPT ![t] = @ \cup {u}]

store_acquire(r) ==
    LET req == requests[r] IN
    /\ req.call = "acquire"
    /\ \E t \in req.templates :
          /\ Record(req.user, t, 0)
          /\ requests' = [requests EXCEPT ![r] =
                            IF req.templates = {t} THEN NoRequest
                            ELSE [req EXCEPT !.templates = @ \ {t}]]
    /\ UNCHANGED <<money, account, version, operations, granted, received, deletion>>

\* Who has the template already pays nothing, whatever its price is now.
store_purchase(r) ==
    LET req == requests[r]  u == req.user IN
    /\ req.call = "purchase"
    /\ \E t \in req.templates :
          /\ IF <<u, t>> \notin DOMAIN acquisitions /\ req.price > 0
             THEN Charge(u, TemplateKey(u, t), req.price)
             ELSE UNCHANGED money
          /\ Record(u, t, req.price)
    /\ requests' = [requests EXCEPT ![r] = NoRequest]
    /\ UNCHANGED <<account, version, operations, granted, received, deletion>>

\* Fault: the record of the operation is not looked for.
unknown_always(u, o) == TRUE

unknown(u, o) == <<u, o>> \notin DOMAIN operations

\* The record of the operation decides; slots are set with merge, so that a user document
\* that is gone is made again.
store_purchase_slots(r) ==
    LET req == requests[r]  u == req.user  o == req.operation IN
    /\ req.call = "purchase_slots"
    /\ \/ /\ ~unknown(u, o)
          /\ UNCHANGED <<money, account, operations, granted>>
       \/ /\ unknown(u, o)
          /\ Charge(u, SlotsKey(u, o), Cost)
          /\ slots' = [slots EXCEPT ![u] = @ + Delta]
          /\ users' = users \cup {u}
          /\ operations' = Put(operations, <<u, o>>, u)
          /\ granted' = [granted EXCEPT ![<<u, o>>] = @ + 1]
          /\ UNCHANGED signedIn
    /\ requests' = [requests EXCEPT ![r] = NoRequest]
    /\ UNCHANGED <<version, acquisitions, counts, firsts, received, deletion>>

\* A version with another price table goes live; handlers of the old one go on.
deploy(t, p) ==
    /\ deployed < MaxDeployments
    /\ p # price[t]
    /\ price' = [price EXCEPT ![t] = p]
    /\ wasFree' = IF p = 0 THEN wasFree \cup {t} ELSE wasFree
    /\ deployed' = deployed + 1
    /\ UNCHANGED <<shop, money, account, requests, received, deletion>>

----------------------------------------------------------------------------
(***************************************************************************)
(* Deleting the account, collection by collection                          *)
(***************************************************************************)

At(u, step) == u \in DOMAIN deletion /\ deletion[u] = step

Then(u, step) == deletion' = Put(deletion, u, step)

delete_account(u) ==
    /\ current_user(u)
    /\ u \in DOMAIN deletion => deletion[u] = "failed"
    /\ Cardinality(DOMAIN deletion \cup {u}) <= MaxDeletions
    /\ Then(u, "anonymize_claims")
    /\ UNCHANGED <<shop, money, account, version, requests, received>>

\* Fault: the records of operations go with the user.
operations_deleted(u) == WithoutUser(operations, u)

operations_anonymized(u) ==
    [k \in DOMAIN operations |-> IF operations[k] = u THEN DELETED_OWNER ELSE operations[k]]

anonymize_claims(u) ==
    /\ At(u, "anonymize_claims")
    /\ operations' = operations_anonymized(u)
    /\ Then(u, "delete_user")
    /\ UNCHANGED <<acquisitions, counts, granted, firsts, money, account, version, requests, received>>

delete_user(u) ==
    /\ At(u, "delete_user")
    /\ users' = users \ {u}
    /\ slots' = [slots EXCEPT ![u] = 0]
    /\ Then(u, "delete_wallet")
    /\ UNCHANGED <<shop, money, signedIn, version, requests, received>>

delete_wallet(u) ==
    /\ At(u, "delete_wallet")
    /\ balance' = [balance EXCEPT ![u] = 0]
    /\ Then(u, "delete_sessions")
    /\ UNCHANGED <<shop, ledger, account, version, requests, received>>

sessions_deleted(u) == signedIn \ {u}

delete_sessions(u) ==
    /\ At(u, "delete_sessions")
    /\ signedIn' = sessions_deleted(u)
    /\ Then(u, "delete_ledger")
    /\ UNCHANGED <<shop, money, users, slots, version, requests, received>>

delete_ledger(u) ==
    /\ At(u, "delete_ledger")
    /\ ledger' = WithoutUser(ledger, u)
    /\ Then(u, "delete_acquisitions")
    /\ UNCHANGED <<shop, balance, account, version, requests, received>>

\* The records go; what they were counted for stays counted.
delete_acquisitions(u) ==
    /\ At(u, "delete_acquisitions")
    /\ acquisitions' = WithoutUser(acquisitions, u)
    /\ Then(u, "done")
    /\ UNCHANGED <<counts, operations, granted, firsts, money, account, version, requests, received>>

deletion_fails(u) ==
    /\ u \in DOMAIN deletion
    /\ deletion[u] \notin {"failed", "done"}
    /\ Then(u, "failed")
    /\ UNCHANGED <<shop, money, account, version, requests, received>>

Deletes(u) ==
    \/ delete_account(u) \/ anonymize_claims(u) \/ delete_user(u) \/ delete_wallet(u)
    \/ delete_sessions(u) \/ delete_ledger(u) \/ delete_acquisitions(u) \/ deletion_fails(u)

Arrives(r, u) ==
    \/ \E t \in Templates : acquire(r, u, t) \/ purchase(r, u, t)
    \/ \E asked \in SUBSET Templates : reconcile(r, u, asked)
    \/ \E o \in Operations : purchase_slots(r, u, o)

Next ==
    \/ \E r \in Requests, u \in Users : Arrives(r, u)
    \/ \E r \in Requests :
          store_acquire(r) \/ store_purchase(r) \/ store_purchase_slots(r) \/ fails(r)
    \/ \E t \in Templates, p \in Prices : deploy(t, p)
    \/ \E u \in Users : Deletes(u)

Spec == Init /\ [][Next]_vars

----------------------------------------------------------------------------
(***************************************************************************)
(* Properties                                                              *)
(***************************************************************************)

Stays(u) == u \notin DOMAIN deletion

\* A template costs its recorded price once, out of what the user has: the record and the
\* ledger name the same amount, nothing is charged without a record, and what was never
\* given away by any version is not had for nothing, whatever version or retry got there
\* first.
TemplatesArePaid ==
    \A u \in Users, t \in Templates : Stays(u) =>
        LET key == TemplateKey(u, t)  had == <<u, t>> \in DOMAIN acquisitions IN
        /\ balance[u] >= 0
        /\ key \in DOMAIN ledger => had /\ acquisitions[<<u, t>>] = ledger[key]
        /\ had /\ key \notin DOMAIN ledger => acquisitions[<<u, t>>] = 0 /\ t \in wasFree

\* The public count of a template is the number of its users who stay, and never less
\* than the records there are.
CountsAreFirstAcquisitions ==
    \A t \in Templates :
        LET had == {u \in Users : <<u, t>> \in DOMAIN acquisitions} IN
        /\ counts[t] >= Cardinality(had)
        /\ (\A u \in firsts[t] : Stays(u)) => counts[t] = Cardinality(firsts[t])

\* The slots of a user who stays are those of the recorded operations, each paid once; and
\* an operation gives slots once for good, even while the deletion of the account takes
\* away the ledger entry that would say so (deletion.py: the record of an operation must
\* not be free again).
SlotsArePaid ==
    /\ \A u \in Users : Stays(u) =>
          LET done == {o \in Operations : <<u, o>> \in DOMAIN operations} IN
          /\ slots[u] = Delta * Cardinality(done)
          /\ \A o \in Operations : o \in done <=> SlotsKey(u, o) \in DOMAIN ledger
    /\ \A k \in Users \X Operations : granted[k] <= 1

=============================================================================
