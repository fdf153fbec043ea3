-------------------------- MODULE AccountDeletion --------------------------
(***************************************************************************)
(* Deleting an account (app/auth/deletion.py): one collection after the    *)
(* other, without a transaction around them, while the user's other        *)
(* requests go on.  Of the collections, those that Accounts has; the       *)
(* shop's are handled before them.                                         *)
(***************************************************************************)
EXTENDS Accounts

CONSTANT
    MaxDeletions    \* bound: users who delete their account

VARIABLE
    deletion        \* user id -> what its deletion does next, for deletions asked for

allVars == <<vars, deletion>>

Steps == {"anonymize_claims", "delete_user", "delete_wallet", "delete_sessions",
          "delete_ledger", "delete_identity", "failed", "done"}

DeletionTypeOK ==
    /\ TypeOK
    /\ DOMAIN deletion \subseteq minted
    /\ Range(deletion) \subseteq Steps

DeletionInit == Init /\ deletion = <<>>

At(u, step) == u \in DOMAIN deletion /\ deletion[u] = step

Then(u, step) == deletion' = Put(deletion, u, step)

\* DELETE /users/me/account, also after a deletion that failed, or of an account that
\* is back after one that is done.
delete_account(token) ==
    LET u == current_user(token) IN
    /\ u # None
    /\ u \in DOMAIN deletion => deletion[u] \in {"failed", "done"}
    /\ Cardinality(DOMAIN deletion \cup {u}) <= MaxDeletions
    /\ Then(u, "anonymize_claims")
    /\ UNCHANGED vars

\* Fault: the claims go with their owner.
claims_deleted(u) == Without(claims, {t \in DOMAIN claims : claims[t] = u})

claims_anonymized(u) ==
    [t \in DOMAIN claims |-> IF claims[t] = u THEN DELETED_OWNER ELSE claims[t]]

\* Payments keep their claim but not their owner.
anonymize_claims(u) ==
    /\ At(u, "anonymize_claims")
    /\ claims' = claims_anonymized(u)
    /\ Then(u, "delete_user")
    /\ UNCHANGED <<users, identities, sessions, nameClaims, balance, ledger, payer,
                   requests, received, minted, credited, takenOver, remade>>

\* The document whose id is the user's.
delete_user(u) ==
    /\ At(u, "delete_user")
    /\ users' = Without(users, {u})
    /\ Then(u, "delete_wallet")
    /\ UNCHANGED <<identities, sessions, nameClaims, balance, ledger, claims, payer,
                   requests, received, minted, credited, takenOver, remade>>

delete_wallet(u) ==
    /\ At(u, "delete_wallet")
    /\ balance' = [balance EXCEPT ![u] = 0]
    /\ Then(u, "delete_sessions")
    /\ UNCHANGED <<users, identities, sessions, nameClaims, ledger, claims, payer,
                   requests, received, minted, credited, takenOver, remade>>

\* A session that is gone is refused as one that is over.
delete_sessions(u) ==
    /\ At(u, "delete_sessions")
    /\ sessions' = [id \in DOMAIN sessions |->
                      [sessions[id] EXCEPT !.valid = @ /\ sessions[id].user # u]]
    /\ Then(u, "delete_ledger")
    /\ UNCHANGED <<users, identities, nameClaims, balance, ledger, claims, payer,
                   requests, received, minted, credited, takenOver, remade>>

delete_ledger(u) ==
    /\ At(u, "delete_ledger")
    /\ ledger' = {k \in ledger : k[1] # u}
    /\ Then(u, "delete_identity")
    /\ UNCHANGED <<users, identities, sessions, nameClaims, balance, claims, payer,
                   requests, received, minted, credited, takenOver, remade>>

\* Without the identity, the next sign-in makes a new account.
delete_identity(u) ==
    /\ At(u, "delete_identity")
    /\ identities' = Without(identities, {s \in DOMAIN identities : identities[s] = u})
    /\ Then(u, "done")
    /\ UNCHANGED <<users, sessions, nameClaims, balance, ledger, claims, payer,
                   requests, received, minted, credited, takenOver, remade>>

\* The store fails between two collections: 503.
deletion_fails(u) ==
    /\ u \in DOMAIN deletion
    /\ deletion[u] \notin {"failed", "done"}
    /\ Then(u, "failed")
    /\ UNCHANGED vars

Deletes(u) ==
    \/ anonymize_claims(u) \/ delete_user(u) \/ delete_wallet(u) \/ delete_sessions(u)
    \/ delete_ledger(u) \/ delete_identity(u) \/ deletion_fails(u)

DeletionNext ==
    \/ Next /\ UNCHANGED deletion
    \/ \E token \in Sessions : delete_account(token)
    \/ \E u \in Users : Deletes(u)

DeletionSpec == DeletionInit /\ [][DeletionNext]_allVars

----------------------------------------------------------------------------
(***************************************************************************)
(* Properties                                                              *)
(***************************************************************************)

\* Once a deletion is done no sign-in leads to the account, whatever requests are still
\* on their way: nothing links an identity to it again, and of all the calls that a late
\* request makes only a purchase of slots brings its document back.
DeletedIsForgotten ==
    \A u \in DOMAIN deletion : deletion[u] = "done" =>
        /\ u \notin Range(identities)
        /\ u \in DOMAIN users => u \in remade

\* "A real deletion", of sessions, too (deletion.py): once it is done, nobody is let in as
\* the deleted user.
DeletedIsLockedOut ==
    \A u \in DOMAIN deletion : deletion[u] = "done" =>
        \A token \in Sessions : current_user(token) # u

\* "If it fails in the middle, call it again" (deletion.py, users.py): while a deletion
\* has failed, current_user can still let the user in.
FailedDeletionCanBeRetried ==
    \A u \in DOMAIN deletion : deletion[u] = "failed" => u \in DOMAIN users

\* A payment made just before a sign-in is not lost (firestore_store.py, claim_guest_wallet):
\* when a guest was taken over and no session of it is left, its wallet is empty.
TakeoverLeavesNothing ==
    \A g \in takenOver \cap DOMAIN users :
        /\ users[g].guest
        /\ \A id \in DOMAIN sessions : sessions[id].user = g => ~sessions[id].valid
        => balance[g] = 0
=============================================================================
