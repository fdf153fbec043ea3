------------------------------ MODULE Accounts ------------------------------
(***************************************************************************)
(* Users, Apple identities, guests, sessions and display names             *)
(* (app/auth, app/api/auth.py, app/api/deps.py), the payments a guest      *)
(* makes before signing in (app/iap/service.py), and the purchase of slots *)
(* (app/capacity), which writes to the user's document as well.            *)
(*                                                                         *)
(* A request is a sequence of store calls, each of them one transaction or *)
(* one document.  Requests interleave between the calls, and any call may  *)
(* be the last one of its request: the store fails, the instance goes away *)
(* or the call refuses.                                                    *)
(***************************************************************************)
EXTENDS Integers, FiniteSets, Functions

CONSTANTS
    Users,          \* the ids uuid4 may give
    Subjects,       \* Apple identities
    Sessions,       \* access tokens
    Names,          \* keys of display names
    Txns,           \* App Store transactions
    Amount,         \* shards of a transaction
    SlotCost,       \* shards a pack of slots costs
    Registered,     \* subject -> user id, for the accounts there are at the start
    Guests,         \* the guests there are at the start
    Held,           \* token -> user id, for the sessions there are at the start
    Requests,       \* handlers that run at the same time
    None,           \* no value
    MaxRequests     \* bound: requests received

ASSUME NoneAssumption ==
    None \notin Users \cup Subjects \cup Sessions \cup Names \cup Txns

ASSUME AmountAssumption == Amount \in Nat \ {0} /\ SlotCost \in Nat \ {0}

ASSUME BoundAssumption == MaxRequests \in Nat

ASSUME PopulationAssumption ==
    /\ DOMAIN Registered \subseteq Subjects
    /\ \A s, t \in DOMAIN Registered : Registered[s] = Registered[t] => s = t
    /\ Guests \subseteq Users
    /\ Range(Registered) \subseteq Users \ Guests
    /\ DOMAIN Held \subseteq Sessions
    /\ Range(Held) \subseteq Guests \cup Range(Registered)

VARIABLES
    users,          \* user id -> document
    identities,     \* subject -> user id
    sessions,       \* token -> [user, valid], for the tokens issued
    nameClaims,     \* name -> the user who holds it
    balance,        \* user id -> balance of the wallet, 0 without a wallet
    ledger,         \* keys of the ledger's entries of takeovers and payments
    claims,         \* transaction -> its owner
    payer,          \* transaction -> appAccountToken, for the transactions bought
    requests,       \* handler -> what it is about to call
    received,       \* history: requests received
    minted,         \* history: user ids given
    credited,       \* history: <<transaction, user>> for every payment credited
    takenOver,      \* history: guests whose session a sign-in has revoked
    remade          \* history: users whose deleted document a purchase of slots made again

vars == <<users, identities, sessions, nameClaims, balance, ledger, claims, payer,
          requests, received, minted, credited, takenOver, remade>>

\* What account deletion leaves instead of the owner of a payment.
DELETED_OWNER == "deleted-account"

User == [guest: BOOLEAN, claimedBy: Users \cup {None},
         name: Names \cup {None}, cooldown: BOOLEAN]

NewUser(guest) == [guest |-> guest, claimedBy |-> None, name |-> None, cooldown |-> FALSE]

Calls == {"none", "create_guest_user", "user_for_identity", "link_identity",
          "claim_guest_wallet", "mark_guest_claimed", "seed_display_name",
          "create_session", "revoke_session", "set_display_name", "apply", "purchase_slots"}

\* A handler's local variables, and the store call it makes next.
Request == [call: Calls, subject: Subjects \cup {None}, token: Sessions \cup {None},
            guest: Users \cup {None}, user: Users \cup {None},
            name: Names \cup {None}, txn: Txns \cup {None}]

NoRequest == [call |-> "none", subject |-> None, token |-> None, guest |-> None,
              user |-> None, name |-> None, txn |-> None]

Put(coll, id, doc) == [k \in DOMAIN coll \cup {id} |-> IF k = id THEN doc ELSE coll[k]]

Without(coll, gone) == Restrict(coll, DOMAIN coll \ gone)

\* The key of a ledger entry (idempotency_hash).
Key(u, reason, event) == <<u, reason, event>>

Keys == Users \X {"guest_claim"} \X Users \cup Users \X {"iap_purchase"} \X Txns

TypeOK ==
    /\ DOMAIN users \subseteq minted /\ Range(users) \subseteq User
    /\ DOMAIN identities \subseteq Subjects /\ Range(identities) \subseteq minted
    /\ DOMAIN sessions \subseteq Sessions
    /\ Range(sessions) \subseteq [user: minted, valid: BOOLEAN]
    /\ DOMAIN nameClaims \subseteq Names /\ Range(nameClaims) \subseteq minted
    /\ balance \in [Users -> Nat]
    /\ ledger \subseteq Keys
    /\ DOMAIN claims \subseteq DOMAIN payer /\ Range(claims) \subseteq minted \cup {DELETED_OWNER}
    /\ DOMAIN payer \subseteq Txns /\ Range(payer) \subseteq minted
    /\ requests \in [Requests -> Request]
    /\ received \in 0..MaxRequests
    /\ minted \subseteq Users
    /\ credited \subseteq (DOMAIN claims) \X minted
    /\ takenOver \subseteq minted
    /\ remade \subseteq minted

Init ==
    /\ users = [u \in Guests \cup Range(Registered) |-> NewUser(u \in Guests)]
    /\ identities = Registered
    /\ sessions = [id \in DOMAIN Held |-> [user |-> Held[id], valid |-> TRUE]]
    /\ nameClaims = <<>>
    /\ balance = [u \in Users |-> 0]
    /\ ledger = {} /\ claims = <<>> /\ payer = <<>>
    /\ requests = [r \in Requests |-> NoRequest]
    /\ received = 0
    /\ minted = Guests \cup Range(Registered)
    /\ credited = {} /\ takenOver = {} /\ remade = {}

----------------------------------------------------------------------------
(***************************************************************************)
(* Who is asking                                                           *)
(***************************************************************************)

\* The user of a session that is neither expired nor revoked.
current_user(token) ==
    IF /\ token \in DOMAIN sessions
       /\ sessions[token].valid
       /\ sessions[token].user \in DOMAIN users
    THEN sessions[token].user
    ELSE None

\* A missing token, a token that is over and an account's token are all "no guest".
guest_for(token) ==
    LET u == current_user(token) IN
    IF u # None /\ users[u].guest THEN u ELSE None

\* A request arrives; what it reads before its first write is req.
Receive(r, req) ==
    /\ requests[r] = NoRequest
    /\ received < MaxRequests
    /\ received' = received + 1
    /\ requests' = [requests EXCEPT ![r] = req]
    /\ UNCHANGED <<users, identities, sessions, nameClaims, balance, ledger, claims, payer,
                   minted, credited, takenOver, remade>>

\* Request r goes on with req.
Continue(r, req) ==
    /\ requests' = [requests EXCEPT ![r] = req]
    /\ UNCHANGED <<received, payer>>

\* The store fails, the instance crashes, or what the call refuses ends the request:
\* nothing of this call is written.
fails(r) ==
    /\ requests[r] # NoRequest
    /\ Continue(r, NoRequest)
    /\ UNCHANGED <<users, identities, sessions, nameClaims, balance, ledger, claims,
                   minted, credited, takenOver, remade>>

----------------------------------------------------------------------------
(***************************************************************************)
(* Guests and sign-in                                                      *)
(***************************************************************************)

\* POST /auth/guest: a guest who is still known gets another session.
start_guest_session(r, token) ==
    LET g == guest_for(token) IN
    Receive(r, [NoRequest EXCEPT
                  !.call = IF g = None THEN "create_guest_user" ELSE "create_session",
                  !.user = g])

create_guest_user(r) ==
    /\ requests[r].call = "create_guest_user"
    /\ \E u \in Users \ minted :
          /\ users' = Put(users, u, NewUser(TRUE))
          /\ minted' = minted \cup {u}
          /\ Continue(r, [requests[r] EXCEPT !.call = "create_session", !.user = u])
    /\ UNCHANGED <<identities, sessions, nameClaims, balance, ledger, claims,
                   credited, takenOver, remade>>

\* POST /auth/apple, with the identity verified: a guest's session comes along or not.
sign_in_with_apple(r, s, token, name) ==
    LET g == guest_for(token) IN
    Receive(r, [NoRequest EXCEPT
                  !.call = IF g = None THEN "user_for_identity" ELSE "link_identity",
                  !.subject = s, !.guest = g, !.token = IF g = None THEN None ELSE token,
                  !.name = name])

\* What is left of a sign-in whose user is known: a first name, then the session.
Named(req, u, current) ==
    LET seeds == req.name # None /\ current = None IN
    [req EXCEPT !.call = IF seeds THEN "seed_display_name" ELSE "create_session",
                !.user = u, !.name = IF seeds THEN @ ELSE None]

\* The transaction that finds the identity's user or makes both. An identity whose
\* user is gone ends the request (fails).
user_for_identity(r) ==
    LET req == requests[r] IN
    /\ req.call = "user_for_identity"
    /\ \/ /\ req.subject \in DOMAIN identities
          /\ LET u == identities[req.subject] IN
             /\ u \in DOMAIN users
             /\ Continue(r, Named(req, u, users[u].name))
          /\ UNCHANGED <<users, identities, minted>>
       \/ /\ req.subject \notin DOMAIN identities
          /\ \E u \in Users \ minted :
                /\ users' = Put(users, u, NewUser(FALSE))
                /\ identities' = Put(identities, req.subject, u)
                /\ minted' = minted \cup {u}
                /\ Continue(r, Named(req, u, None))
    /\ UNCHANGED <<sessions, nameClaims, balance, ledger, claims, credited, takenOver, remade>>

\* Fault: that the user is still a guest is not read again in the transaction.
adoptable_once_seen(g) == g \in DOMAIN users

\* Only a guest gets an identity.
adoptable(g) == g \in DOMAIN users /\ users[g].guest

\* The transaction that makes the guest the account, unless the identity has one.
link_identity(r) ==
    LET req == requests[r] IN
    /\ req.call = "link_identity"
    /\ \/ /\ req.subject \in DOMAIN identities
          /\ LET u == identities[req.subject] IN
             /\ u \in DOMAIN users
             /\ Continue(r, [Named(req, u, users[u].name) EXCEPT !.call = "claim_guest_wallet"])
          /\ UNCHANGED <<users, identities>>
       \/ /\ req.subject \notin DOMAIN identities
          /\ adoptable(req.guest)
          /\ users' = [users EXCEPT ![req.guest].guest = FALSE]
          /\ identities' = Put(identities, req.subject, req.guest)
          /\ Continue(r, Named(req, req.guest, users[req.guest].name))
    /\ UNCHANGED <<sessions, nameClaims, balance, ledger, claims,
                   minted, credited, takenOver, remade>>

\* Fault: a guest with an empty wallet is not marked.
unmarked_if_empty(req) ==
    IF balance[req.guest] = 0 THEN Named(req, req.user, None)
    ELSE [req EXCEPT !.call = "mark_guest_claimed"]

\* The takeover is noted even when there is nothing to move: a payment may be late.
claimed(req) == [req EXCEPT !.call = "mark_guest_claimed"]

\* The whole balance of the guest moves, once for each pair of guest and account.
claim_guest_wallet(r) ==
    LET req == requests[r]  g == req.guest  u == req.user
        out == Key(g, "guest_claim", u)  into == Key(u, "guest_claim", g) IN
    /\ req.call = "claim_guest_wallet"
    /\ \/ /\ g = u \/ balance[g] = 0 \/ out \in ledger
          /\ UNCHANGED <<balance, ledger>>
       \/ /\ g # u /\ balance[g] > 0
          /\ {out, into} \cap ledger = {}
          /\ balance' = [balance EXCEPT ![g] = 0, ![u] = @ + balance[g]]
          /\ ledger' = ledger \cup {out, into}
    /\ Continue(r, claimed(req))
    /\ UNCHANGED <<users, identities, sessions, nameClaims, claims,
                   minted, credited, takenOver, remade>>

\* Fault: the document is written without looking whether it is there.
marked_blindly(g, u) == Put(users, g, [NewUser(TRUE) EXCEPT !.claimedBy = u])

marked(g, u) ==
    IF g \in DOMAIN users /\ users[g].claimedBy = None
    THEN [users EXCEPT ![g].claimedBy = u]
    ELSE users

\* The first account that takes a guest over stays its owner.
mark_guest_claimed(r) ==
    LET req == requests[r] IN
    /\ req.call = "mark_guest_claimed"
    /\ users' = marked(req.guest, req.user)
    /\ Continue(r, Named(req, req.user, None))
    /\ UNCHANGED <<identities, sessions, nameClaims, balance, ledger, claims,
                   minted, credited, takenOver, remade>>

\* One name, one user.
free(n, u) == n \in DOMAIN nameClaims => nameClaims[n] = u

\* Apple's name is taken only while the user has none and nobody else holds it.
seed_display_name(r) ==
    LET req == requests[r]  u == req.user  n == req.name IN
    /\ req.call = "seed_display_name"
    /\ u \in DOMAIN users
    /\ IF users[u].name # None \/ ~free(n, u)
       THEN UNCHANGED <<users, nameClaims>>
       ELSE /\ nameClaims' = Put(nameClaims, n, u)
            /\ users' = [users EXCEPT ![u].name = n]
    /\ Continue(r, [req EXCEPT !.call = "create_session", !.name = None])
    /\ UNCHANGED <<identities, sessions, balance, ledger, claims,
                   minted, credited, takenOver, remade>>

\* The answer; a guest's session is revoked only after it.
create_session(r) ==
    LET req == requests[r] IN
    /\ req.call = "create_session"
    /\ \E id \in Sessions \ DOMAIN sessions :
          sessions' = Put(sessions, id, [user |-> req.user, valid |-> TRUE])
    /\ Continue(r, IF req.guest = None THEN NoRequest
                   ELSE [req EXCEPT !.call = "revoke_session"])
    /\ UNCHANGED <<users, identities, nameClaims, balance, ledger, claims,
                   minted, credited, takenOver, remade>>

revoke_session(r) ==
    LET req == requests[r] IN
    /\ req.call = "revoke_session"
    /\ sessions' = [sessions EXCEPT ![req.token].valid = FALSE]
    /\ takenOver' = takenOver \cup {req.guest}
    /\ Continue(r, NoRequest)
    /\ UNCHANGED <<users, identities, nameClaims, balance, ledger, claims,
                   minted, credited, remade>>

\* POST /auth/logout revokes a session, or its 30 days are over.
session_ends(token) ==
    /\ token \in DOMAIN sessions
    /\ sessions[token].valid
    /\ received < MaxRequests
    /\ received' = received + 1
    /\ sessions' = [sessions EXCEPT ![token].valid = FALSE]
    /\ UNCHANGED <<users, identities, nameClaims, balance, ledger, claims, payer,
                   requests, minted, credited, takenOver, remade>>

----------------------------------------------------------------------------
(***************************************************************************)
(* Display names                                                           *)
(***************************************************************************)

\* PATCH /users/me/profile: accounts only.
update_profile(r, token, n) ==
    LET u == current_user(token) IN
    /\ u # None
    /\ ~users[u].guest
    /\ Receive(r, [NoRequest EXCEPT !.call = "set_display_name", !.user = u, !.name = n])

\* A taken name or a name changed less than RENAME_COOLDOWN ago ends the request (fails).
set_display_name(r) ==
    LET req == requests[r]  u == req.user  n == req.name
        previous == users[u].name IN
    /\ req.call = "set_display_name"
    /\ u \in DOMAIN users
    /\ ~users[u].cooldown
    /\ free(n, u)
    /\ nameClaims' = Put(Without(nameClaims, {previous}), n, u)
    /\ users' = [users EXCEPT ![u].name = n, ![u].cooldown = TRUE]
    /\ Continue(r, NoRequest)
    /\ UNCHANGED <<identities, sessions, balance, ledger, claims,
                   minted, credited, takenOver, remade>>

cooldown_passes(u) ==
    /\ u \in DOMAIN users
    /\ users[u].cooldown
    /\ users' = [users EXCEPT ![u].cooldown = FALSE]
    /\ UNCHANGED <<identities, sessions, nameClaims, balance, ledger, claims, payer,
                   requests, received, minted, credited, takenOver, remade>>

----------------------------------------------------------------------------
(***************************************************************************)
(* Payments                                                                *)
(***************************************************************************)

\* The device pays in the App Store, with its user as appAccountToken.
buy(token, t) ==
    /\ t \notin DOMAIN payer
    /\ current_user(token) # None
    /\ payer' = Put(payer, t, current_user(token))
    /\ UNCHANGED <<users, identities, sessions, nameClaims, balance, ledger, claims,
                   requests, received, minted, credited, takenOver, remade>>

\* The payment is the user's own, or that of a guest the user has taken over.
check_owner(t, u) ==
    \/ payer[t] = u
    \/ /\ payer[t] \in DOMAIN users
       /\ users[payer[t]].guest
       /\ users[payer[t]].claimedBy = u

\* POST /users/me/iap/shards.
credit(r, token, t) ==
    LET u == current_user(token) IN
    /\ u # None
    /\ t \in DOMAIN payer
    /\ check_owner(t, u)
    /\ Receive(r, [NoRequest EXCEPT !.call = "apply", !.user = u, !.txn = t])

\* The global claim of a payment, written with the credit.
claim(t, u) == Put(claims, t, u)

\* The transaction of ShardLedger's IapCredit. A claim of another user ends the request,
\* and so does an own claim without its ledger entry (AlreadyExists twice).
apply(r) ==
    LET req == requests[r]  u == req.user  t == req.txn
        entry == Key(u, "iap_purchase", t) IN
    /\ req.call = "apply"
    /\ \/ /\ t \in DOMAIN claims /\ claims[t] = u
          /\ entry \in ledger
          /\ UNCHANGED <<balance, ledger, claims, credited>>
       \/ /\ t \notin DOMAIN claims
          /\ entry \notin ledger
          /\ claims' = claim(t, u)
          /\ ledger' = ledger \cup {entry}
          /\ balance' = [balance EXCEPT ![u] = @ + Amount]
          /\ credited' = credited \cup {<<t, u>>}
    /\ Continue(r, NoRequest)
    /\ UNCHANGED <<users, identities, sessions, nameClaims, minted, takenOver, remade>>

----------------------------------------------------------------------------
(***************************************************************************)
(* Slots                                                                   *)
(***************************************************************************)

\* POST /users/me/mirror-capacity/purchases, each with an operationId of its own; Purchases
\* has what is sent again, and the records of operations and debits.
purchase_slots(r, token) ==
    LET u == current_user(token) IN
    /\ u # None
    /\ Receive(r, [NoRequest EXCEPT !.call = "purchase_slots", !.user = u])

\* The field is set with merge: a document that is gone is made again, with nothing
\* in it but the slots. It reads as that of an account without a name.
merged(u) == IF u \in DOMAIN users THEN users ELSE Put(users, u, NewUser(FALSE))

\* Fewer shards than it costs end the request (fails).
store_purchase_slots(r) ==
    LET u == requests[r].user IN
    /\ requests[r].call = "purchase_slots"
    /\ balance[u] >= SlotCost
    /\ balance' = [balance EXCEPT ![u] = @ - SlotCost]
    /\ users' = merged(u)
    /\ remade' = remade \cup ({u} \ DOMAIN users)
    /\ Continue(r, NoRequest)
    /\ UNCHANGED <<identities, sessions, nameClaims, ledger, claims,
                   minted, credited, takenOver>>

----------------------------------------------------------------------------
Arrives(r) ==
    \/ \E token \in DOMAIN sessions \cup {None} : start_guest_session(r, token)
    \/ \E s \in Subjects, token \in DOMAIN sessions \cup {None}, n \in Names \cup {None} :
          sign_in_with_apple(r, s, token, n)
    \/ \E token \in DOMAIN sessions, n \in Names : update_profile(r, token, n)
    \/ \E token \in DOMAIN sessions, t \in Txns : credit(r, token, t)
    \/ \E token \in DOMAIN sessions : purchase_slots(r, token)

Proceeds(r) ==
    \/ create_guest_user(r) \/ user_for_identity(r) \/ link_identity(r)
    \/ claim_guest_wallet(r) \/ mark_guest_claimed(r) \/ seed_display_name(r)
    \/ create_session(r) \/ revoke_session(r) \/ set_display_name(r) \/ apply(r)
    \/ store_purchase_slots(r) \/ fails(r)

Next ==
    \/ \E r \in Requests : Arrives(r) \/ Proceeds(r)
    \/ \E token \in Sessions : session_ends(token)
    \/ \E token \in Sessions, t \in Txns : buy(token, t)
    \/ \E u \in Users : cooldown_passes(u)

Spec == Init /\ [][Next]_vars

----------------------------------------------------------------------------
(***************************************************************************)
(* Properties                                                              *)
(***************************************************************************)

\* An identity leads to one account of its own, and never to a guest, and a name is held by
\* its user: sign-ins that race for an identity, a guest or Apple's name, and renames that
\* race for a name, end with one user.
IdentitiesAndNamesAreOneUsers ==
    /\ \A s, t \in DOMAIN identities : identities[s] = identities[t] => s = t
    /\ \A s \in DOMAIN identities :
          identities[s] \in DOMAIN users => ~users[identities[s]].guest
    /\ \A u \in DOMAIN users :
          users[u].name # None =>
              users[u].name \in DOMAIN nameClaims /\ nameClaims[users[u].name] = u

\* A payment is credited to one user for good: its payer, or the account that took the
\* payer over. Checking the owner and crediting are two steps, and users come and go; a
\* payer whose document was deleted has nothing left that says who took it over.
PaymentsReachOneOwner ==
    /\ \A p, q \in credited : p[1] = q[1] => p = q
    /\ \A p \in credited :
          \/ p[2] = payer[p[1]]
          \/ payer[p[1]] \notin DOMAIN users \ remade
          \/ users[payer[p[1]]].claimedBy = p[2]

\* A guest whose session a sign-in revoked has become an account or was taken over by
\* one: whichever call a sign-in stops at, the guest is still in reach.
TakenOverBeforeRevoked ==
    \A g \in takenOver \cap DOMAIN users :
        ~users[g].guest \/ users[g].claimedBy # None
=============================================================================
