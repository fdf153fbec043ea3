----------------------- MODULE AccountDeletionProofs -----------------------
(***************************************************************************)
(* What sign-in, payments and account deletion keep for any number of      *)
(* users, identities, sessions and requests that interleave and stop       *)
(* anywhere.                                                               *)
(*                                                                         *)
(* A request carries what it read to calls that come later.  Sound says    *)
(* what stays true of that, whatever other requests and deletions do       *)
(* meanwhile: ids are not given twice, a guest that was taken over or has  *)
(* become an account remains so, and a payment's owner is its payer or     *)
(* the one account that took the payer over.  Evolves is what any step     *)
(* may do to the documents a request has read; a deleted one may be made   *)
(* again by a purchase of slots, and is nobody's guest then.               *)
(***************************************************************************)
EXTENDS AccountDeletion, TLAPS

\* A guest that can be reached: it is an account, or an account has taken it over.
Reached(us, g) == g \in DOMAIN us => ~us[g].guest \/ us[g].claimedBy # None

\* A payment that may be credited to u.
Owned(us, rm, ps, t, u) ==
    ps[t] = u \/ ps[t] \notin DOMAIN us \ rm \/ us[ps[t]].claimedBy = u

TakesOver == {"link_identity", "claim_guest_wallet", "mark_guest_claimed"}

\* What a handler has in its hands before its next call, given the users us, those rm made
\* again, the ids ms that were given, the sessions ss and the payments ps.
Sound(req, us, rm, ms, ss, ps) ==
    /\ req.call \in {"user_for_identity", "link_identity"} => req.subject \in Subjects
    /\ req.call \in {"claim_guest_wallet", "mark_guest_claimed", "seed_display_name",
                     "create_session", "set_display_name", "apply", "purchase_slots"}
          => req.user \in ms
    /\ req.call \in {"seed_display_name", "set_display_name"} => req.name \in Names
    /\ req.call \in TakesOver \cup {"revoke_session"} => req.guest # None
    /\ req.guest # None =>
          /\ req.guest \in ms /\ req.token \in DOMAIN ss
          /\ req.call \in TakesOver \/ Reached(us, req.guest)
    /\ req.call = "apply" => req.txn \in DOMAIN ps /\ Owned(us, rm, ps, req.txn, req.user)

HandedOn == \A r \in Requests : Sound(requests[r], users, remade, minted, sessions, payer)

\* Who is being deleted has no document any more but one made again, and in the end no
\* identity.
Gone ==
    \A u \in DOMAIN deletion :
        /\ deletion[u] \in {"delete_wallet", "delete_sessions", "delete_ledger",
                            "delete_identity", "done"} => u \notin DOMAIN users \ remade
        /\ deletion[u] = "done" => \A s \in DOMAIN identities : identities[s] # u

\* A document made again is not a guest's: no sign-in adopts it.
RemadeAreAccounts == \A u \in remade \cap DOMAIN users : ~users[u].guest

IInv ==
    /\ DeletionTypeOK
    /\ HandedOn
    /\ IdentitiesAndNamesAreOneUsers
    /\ PaymentsReachOneOwner
    /\ TakenOverBeforeRevoked
    /\ Gone
    /\ RemadeAreAccounts

----------------------------------------------------------------------------
(***************************************************************************)
(* Helpers                                                                 *)
(***************************************************************************)

\* DeletionTypeOK, document by document.
Shapes ==
    /\ DOMAIN users \subseteq minted /\ \A u \in DOMAIN users : users[u] \in User
    /\ DOMAIN identities \subseteq Subjects
    /\ \A s \in DOMAIN identities : identities[s] \in minted
    /\ DOMAIN sessions \subseteq Sessions
    /\ \A id \in DOMAIN sessions : sessions[id] \in [user: minted, valid: BOOLEAN]
    /\ DOMAIN nameClaims \subseteq Names
    /\ \A n \in DOMAIN nameClaims : nameClaims[n] \in minted
    /\ balance \in [Users -> Nat]
    /\ ledger \subseteq Keys
    /\ DOMAIN claims \subseteq DOMAIN payer
    /\ \A t \in DOMAIN claims : claims[t] \in minted \cup {DELETED_OWNER}
    /\ DOMAIN payer \subseteq Txns
    /\ \A t \in DOMAIN payer : payer[t] \in minted
    /\ requests \in [Requests -> Request]
    /\ received \in 0..MaxRequests
    /\ minted \subseteq Users
    /\ credited \subseteq (DOMAIN claims) \X minted
    /\ takenOver \subseteq minted
    /\ remade \subseteq minted
    /\ DOMAIN deletion \subseteq minted
    /\ \A u \in DOMAIN deletion : deletion[u] \in Steps

LEMMA TypesAreShapes ==
    /\ DeletionTypeOK <=> Shapes
    /\ DeletionTypeOK' <=> Shapes'
  <1>1. \A f, S : Range(f) \subseteq S <=> \A x \in DOMAIN f : f[x] \in S
    BY DEF Range
  <1> QED
    BY <1>1 DEF DeletionTypeOK, TypeOK, Shapes

\* What a step may do to the documents that requests have read.
Evolves ==
    /\ minted \subseteq minted'
    /\ DOMAIN sessions \subseteq DOMAIN sessions'
    /\ DOMAIN payer \subseteq DOMAIN payer'
    /\ \A t \in DOMAIN payer : payer'[t] = payer[t]
    /\ remade \subseteq remade' /\ remade' \cap DOMAIN users \subseteq remade
    /\ \A u \in minted \cap DOMAIN users' :
          \/ /\ u \in DOMAIN users
             /\ users[u].claimedBy # None => users'[u].claimedBy = users[u].claimedBy
             /\ ~users[u].guest => ~users'[u].guest
          \/ u \notin DOMAIN users /\ u \in remade' /\ ~users'[u].guest

LEMMA SoundStays ==
    ASSUME Shapes, Evolves, NEW req, Sound(req, users, remade, minted, sessions, payer)
    PROVE  Sound(req, users', remade', minted', sessions', payer')
  <1>1. req.guest # None /\ Reached(users, req.guest) /\ req.guest \in minted
            => Reached(users', req.guest)
    BY DEF Reached, Evolves
  <1>2. req.call = "apply"
            => /\ req.txn \in DOMAIN payer'
               /\ Owned(users', remade', payer', req.txn, req.user)
    <2>. SUFFICES ASSUME req.call = "apply"
         PROVE  req.txn \in DOMAIN payer' /\ Owned(users', remade', payer', req.txn, req.user)
      OBVIOUS
    <2>1. /\ req.txn \in DOMAIN payer /\ req.user \in minted
          /\ Owned(users, remade, payer, req.txn, req.user)
      BY DEF Sound
    <2>2. req.user # None /\ payer[req.txn] \in minted
      BY <2>1, NoneAssumption DEF Shapes
    <2> QED
      BY <2>1, <2>2 DEF Owned, Evolves
  <1> QED
    BY <1>1, <1>2 DEF Sound, Evolves

\* A handler goes on with req, and the others with what they have.
LEMMA Handing ==
    ASSUME Shapes, HandedOn, Evolves, NEW r \in Requests, NEW req \in Request,
           requests' = [requests EXCEPT ![r] = req],
           Sound(req, users', remade', minted', sessions', payer')
    PROVE  requests' \in [Requests -> Request] /\ HandedOn'
  <1>1. requests' \in [Requests -> Request]
    BY DEF Shapes
  <1>2. \A q \in Requests \ {r} : requests'[q] = requests[q]
    BY DEF Shapes
  <1>3. requests'[r] = req
    BY DEF Shapes
  <1>4. \A q \in Requests : Sound(requests'[q], users', remade', minted', sessions', payer')
    BY <1>2, <1>3, SoundStays DEF HandedOn
  <1> QED
    BY <1>1, <1>4 DEF HandedOn

LEMMA NobodyHanding ==
    ASSUME Shapes, HandedOn, Evolves, UNCHANGED requests
    PROVE  HandedOn'
  BY SoundStays DEF HandedOn

LEMMA NoneIsSound ==
    /\ NoRequest \in Request
    /\ Sound(NoRequest, users', remade', minted', sessions', payer')
  BY DEF NoRequest, Request, Calls, Sound, TakesOver

LEMMA PaymentsStay ==
    ASSUME Shapes, PaymentsReachOneOwner, Evolves, UNCHANGED credited
    PROVE  PaymentsReachOneOwner'
  <1>1. \A p \in credited : p[1] \in DOMAIN payer /\ p[2] \in minted /\ p[2] # None
    BY NoneAssumption DEF Shapes
  <1>2. \A p \in credited :
            Owned(users, remade, payer, p[1], p[2])
                => Owned(users', remade', payer', p[1], p[2])
    BY <1>1 DEF Owned, Evolves, Shapes
  <1> QED
    BY <1>2 DEF PaymentsReachOneOwner, Owned

LEMMA ReachStays ==
    ASSUME Shapes, TakenOverBeforeRevoked, Evolves, UNCHANGED takenOver
    PROVE  TakenOverBeforeRevoked'
  BY DEF TakenOverBeforeRevoked, Evolves, Shapes

\* New identities are of users that have a document, which was never deleted.
LEMMA GoneStays ==
    ASSUME Shapes, Gone, Evolves, UNCHANGED deletion,
           \A s \in DOMAIN identities' :
              \/ s \in DOMAIN identities /\ identities'[s] = identities[s]
              \/ identities'[s] \in DOMAIN users' \ remade'
    PROVE  Gone'
  BY DEF Gone, Evolves, Shapes

LEMMA RemadeStay ==
    ASSUME Shapes, RemadeAreAccounts, Evolves, remade' \subseteq minted
    PROVE  RemadeAreAccounts'
  BY DEF RemadeAreAccounts, Evolves

\* A step that leaves users, identities and what was credited as they are.
LEMMA QuietStep ==
    ASSUME IInv, Evolves, Shapes', HandedOn',
           UNCHANGED <<users, identities, nameClaims, credited, takenOver, remade, deletion>>
    PROVE  IInv'
  <1>1. Shapes
    BY TypesAreShapes DEF IInv
  <1>2. PaymentsReachOneOwner' /\ TakenOverBeforeRevoked' /\ Gone'
    BY <1>1, PaymentsStay, ReachStays, GoneStays DEF IInv
  <1>3. IdentitiesAndNamesAreOneUsers' /\ RemadeAreAccounts'
    BY DEF IInv, IdentitiesAndNamesAreOneUsers, RemadeAreAccounts
  <1> QED
    BY <1>2, <1>3, TypesAreShapes DEF IInv

\* A step that leaves all documents of Evolves as they are.
LEMMA NothingEvolves ==
    ASSUME UNCHANGED <<users, sessions, payer, minted, remade>>
    PROVE  Evolves
  BY DEF Evolves

\* The three ways a sign-in goes on when its user is known.
SignsIn(next, req, u) ==
    /\ next \in Request
    /\ next.call \in {"seed_display_name", "create_session"}
    /\ next.call = "seed_display_name" => next.name \in Names
    /\ next.user = u
    /\ next.guest = req.guest
    /\ next.token = req.token

LEMMA NamedFacts ==
    ASSUME NEW req \in Request, NEW u \in Users, NEW current
    PROVE  SignsIn(Named(req, u, current), req, u)
  <1>1. CASE req.name # None /\ current = None
    <2>1. Named(req, u, current) = [req EXCEPT !.call = "seed_display_name", !.user = u,
                                               !.name = req.name]
      BY <1>1 DEF Named, Request
    <2> QED
      BY <1>1, <2>1 DEF Request, Calls, SignsIn
  <1>2. CASE ~(req.name # None /\ current = None)
    <2>1. Named(req, u, current) = [req EXCEPT !.call = "create_session", !.user = u,
                                               !.name = None]
      BY <1>2 DEF Named, Request
    <2> QED
      BY <1>2, <2>1 DEF Request, Calls, SignsIn
  <1> QED
    BY <1>1, <1>2

\* A sign-in that has its user, and whose guest, if it has one, can be reached.
LEMMA NamedIsSound ==
    ASSUME NEW us, NEW rm, NEW ms, NEW ss, NEW ps, NEW next,
           next.call \in {"seed_display_name", "create_session"},
           next.call = "seed_display_name" => next.name \in Names,
           next.user \in ms,
           next.guest # None =>
               next.guest \in ms /\ next.token \in DOMAIN ss /\ Reached(us, next.guest)
    PROVE  Sound(next, us, rm, ms, ss, ps)
  BY DEF Sound, TakesOver

----------------------------------------------------------------------------
(***************************************************************************)
(* Requests that arrive                                                    *)
(***************************************************************************)

LEMMA CurrentUser ==
    ASSUME Shapes, NEW token, current_user(token) # None
    PROVE  /\ token \in DOMAIN sessions
           /\ current_user(token) \in DOMAIN users
           /\ current_user(token) \in minted
           /\ current_user(token) \in Users
  BY DEF current_user, Shapes

LEMMA GuestFor ==
    ASSUME Shapes, NEW token, guest_for(token) # None
    PROVE  /\ guest_for(token) \in minted /\ guest_for(token) \in Users
           /\ token \in DOMAIN sessions
  <1>1. guest_for(token) = current_user(token) /\ current_user(token) # None
    BY DEF guest_for
  <1> QED
    BY <1>1, CurrentUser

LEMMA ReceiveStep ==
    ASSUME IInv, NEW r \in Requests, NEW req \in Request, Receive(r, req),
           Sound(req, users, remade, minted, sessions, payer), UNCHANGED deletion
    PROVE  IInv'
  <1>1. Shapes
    BY TypesAreShapes DEF IInv
  <1>2. Evolves
    BY NothingEvolves DEF Receive
  <1>3. Sound(req, users', remade', minted', sessions', payer')
    BY DEF Receive
  <1>4. requests' \in [Requests -> Request] /\ HandedOn'
    BY <1>1, <1>2, <1>3, Handing DEF Receive, IInv
  <1>5. received' \in 0..MaxRequests
    BY <1>1, BoundAssumption DEF Receive, Shapes
  <1>6. Shapes'
    BY <1>1, <1>4, <1>5 DEF Receive, Shapes
  <1> QED
    BY <1>2, <1>4, <1>6, QuietStep DEF Receive

LEMMA StartGuestSessionStep ==
    ASSUME IInv, NEW r \in Requests, NEW token, start_guest_session(r, token), UNCHANGED deletion
    PROVE  IInv'
  <1>. DEFINE g == guest_for(token)
              req == [NoRequest EXCEPT
                        !.call = IF g = None THEN "create_guest_user" ELSE "create_session",
                        !.user = g]
  <1>1. Shapes
    BY TypesAreShapes DEF IInv
  <1>2. g # None => g \in minted /\ g \in Users
    BY <1>1, GuestFor
  <1>. HIDE DEF g
  <1>3. req \in Request /\ Sound(req, users, remade, minted, sessions, payer)
    BY <1>2 DEF NoRequest, Request, Calls, Sound, TakesOver
  <1>4. Receive(r, req)
    BY DEF start_guest_session, g
  <1> QED
    BY <1>3, <1>4, ReceiveStep

LEMMA SignInStep ==
    ASSUME IInv, NEW r \in Requests, NEW s \in Subjects, NEW token \in DOMAIN sessions \cup {None},
           NEW name \in Names \cup {None}, sign_in_with_apple(r, s, token, name),
           UNCHANGED deletion
    PROVE  IInv'
  <1>. DEFINE g == guest_for(token)
              req == [NoRequest EXCEPT
                  !.call = IF g = None THEN "user_for_identity" ELSE "link_identity",
                  !.subject = s, !.guest = g, !.token = IF g = None THEN None ELSE token,
                  !.name = name]
  <1>1. Shapes
    BY TypesAreShapes DEF IInv
  <1>2. g # None => g \in minted /\ g \in Users /\ token \in DOMAIN sessions /\ token \in Sessions
    BY <1>1, GuestFor DEF Shapes
  <1>. HIDE DEF g
  <1>3. req \in Request /\ Sound(req, users, remade, minted, sessions, payer)
    BY <1>2 DEF NoRequest, Request, Calls, Sound, TakesOver
  <1>4. Receive(r, req)
    BY DEF sign_in_with_apple, g
  <1> QED
    BY <1>3, <1>4, ReceiveStep

LEMMA UpdateProfileStep ==
    ASSUME IInv, NEW r \in Requests, NEW token, NEW n \in Names,
           update_profile(r, token, n), UNCHANGED deletion
    PROVE  IInv'
  <1>. DEFINE u == current_user(token)
              req == [NoRequest EXCEPT !.call = "set_display_name", !.user = u, !.name = n]
  <1>1. u \in minted /\ u \in Users
    BY TypesAreShapes, CurrentUser DEF update_profile, IInv
  <1>2. Receive(r, req)
    BY DEF update_profile
  <1>. HIDE DEF u
  <1>3. req \in Request /\ Sound(req, users, remade, minted, sessions, payer)
    BY <1>1 DEF NoRequest, Request, Calls, Sound, TakesOver
  <1> QED
    BY <1>2, <1>3, ReceiveStep

\* The owner that was checked when the payment was presented.
LEMMA CreditStep ==
    ASSUME IInv, NEW r \in Requests, NEW token, NEW t \in Txns,
           credit(r, token, t), UNCHANGED deletion
    PROVE  IInv'
  <1>. DEFINE u == current_user(token)
              req == [NoRequest EXCEPT !.call = "apply", !.user = u, !.txn = t]
  <1>1. u \in minted /\ u \in Users
    BY TypesAreShapes, CurrentUser DEF credit, IInv
  <1>2. Receive(r, req)
    BY DEF credit
  <1>3. t \in DOMAIN payer /\ Owned(users, remade, payer, t, u)
    BY DEF credit, check_owner, Owned
  <1>. HIDE DEF u
  <1>4. req \in Request /\ Sound(req, users, remade, minted, sessions, payer)
    BY <1>1, <1>3 DEF NoRequest, Request, Calls, Sound, TakesOver
  <1> QED
    BY <1>2, <1>4, ReceiveStep

LEMMA PurchaseSlotsStep ==
    ASSUME IInv, NEW r \in Requests, NEW token, purchase_slots(r, token), UNCHANGED deletion
    PROVE  IInv'
  <1>. DEFINE u == current_user(token)
              req == [NoRequest EXCEPT !.call = "purchase_slots", !.user = u]
  <1>1. u \in minted /\ u \in Users
    BY TypesAreShapes, CurrentUser DEF purchase_slots, IInv
  <1>2. Receive(r, req)
    BY DEF purchase_slots
  <1>. HIDE DEF u
  <1>3. req \in Request /\ Sound(req, users, remade, minted, sessions, payer)
    BY <1>1 DEF NoRequest, Request, Calls, Sound, TakesOver
  <1> QED
    BY <1>2, <1>3, ReceiveStep

----------------------------------------------------------------------------
(***************************************************************************)
(* Calls that leave users and identities alone                             *)
(***************************************************************************)

\* A request goes on with req, and its call changes nothing of users and identities.
LEMMA QuietCall ==
    ASSUME IInv, NEW r \in Requests, NEW req \in Request, Continue(r, req),
           Sound(req, users, remade, minted, sessions', payer),
           DOMAIN sessions \subseteq DOMAIN sessions',
           DOMAIN sessions' \subseteq Sessions,
           \A id \in DOMAIN sessions' : sessions'[id] \in [user: minted, valid: BOOLEAN],
           balance' \in [Users -> Nat], ledger' \subseteq Keys,
           UNCHANGED <<users, identities, nameClaims, claims, minted, credited, takenOver,
                       remade, deletion>>
    PROVE  IInv'
  <1>1. Shapes
    BY TypesAreShapes DEF IInv
  <1>2. Evolves
    BY DEF Evolves, Continue
  <1>3. requests' \in [Requests -> Request] /\ HandedOn'
    BY <1>1, <1>2, Handing DEF Continue, IInv
  <1>4. Shapes'
    BY <1>1, <1>3 DEF Continue, Shapes
  <1> QED
    BY <1>2, <1>3, <1>4, QuietStep

LEMMA FailsStep ==
    ASSUME IInv, NEW r \in Requests, fails(r), UNCHANGED deletion
    PROVE  IInv'
  <1>1. Shapes
    BY TypesAreShapes DEF IInv
  <1>2. NoRequest \in Request /\ Sound(NoRequest, users, remade, minted, sessions', payer)
    BY DEF NoRequest, Request, Calls, Sound, TakesOver
  <1> QED
    BY <1>1, <1>2, QuietCall DEF fails, Shapes

LEMMA ClaimGuestWalletStep ==
    ASSUME IInv, NEW r \in Requests, claim_guest_wallet(r), UNCHANGED deletion
    PROVE  IInv'
  <1>. DEFINE req == requests[r]
              g == req.guest
              u == req.user
              next == [req EXCEPT !.call = "mark_guest_claimed"]
  <1>1. /\ Shapes /\ Sound(req, users, remade, minted, sessions, payer)
        /\ req.call = "claim_guest_wallet"
    BY TypesAreShapes DEF IInv, HandedOn, claim_guest_wallet
  <1>2. req \in Request
    BY <1>1 DEF Shapes
  <1>3. Continue(r, next)
    BY DEF claim_guest_wallet, claimed
  <1>4. g \in Users /\ u \in Users
    BY <1>1 DEF Sound, TakesOver, Shapes
  <1>5. balance' \in [Users -> Nat] /\ ledger' \subseteq Keys
    <2>1. CASE UNCHANGED <<balance, ledger>>
      BY <1>1, <2>1 DEF Shapes
    <2>2. CASE /\ g # u
               /\ balance' = [balance EXCEPT ![g] = 0, ![u] = @ + balance[g]]
               /\ ledger' = ledger \cup {Key(g, "guest_claim", u), Key(u, "guest_claim", g)}
      <3>1. Key(g, "guest_claim", u) \in Keys /\ Key(u, "guest_claim", g) \in Keys
        BY <1>4 DEF Key, Keys
      <3>2. balance' \in [Users -> Nat]
        BY <1>1, <1>4, <2>2 DEF Shapes
      <3> QED
        BY <1>1, <2>2, <3>1, <3>2 DEF Shapes
    <2> QED
      BY <2>1, <2>2 DEF claim_guest_wallet
  <1>. HIDE DEF req
  <1>6. next \in Request /\ Sound(next, users, remade, minted, sessions', payer)
    BY <1>1, <1>2 DEF Request, Calls, Sound, TakesOver, claim_guest_wallet
  <1> QED
    BY <1>1, <1>3, <1>5, <1>6, QuietCall DEF claim_guest_wallet, Shapes

LEMMA CreateSessionStep ==
    ASSUME IInv, NEW r \in Requests, create_session(r), UNCHANGED deletion
    PROVE  IInv'
  <1>. DEFINE req == requests[r]
              next == IF req.guest = None THEN NoRequest
                      ELSE [req EXCEPT !.call = "revoke_session"]
  <1>1. /\ Shapes /\ Sound(req, users, remade, minted, sessions, payer)
        /\ req.call = "create_session"
    BY TypesAreShapes DEF IInv, HandedOn, create_session
  <1>2. req \in Request /\ req.user \in minted
    BY <1>1 DEF Shapes, Sound
  <1>3. Continue(r, next)
    BY DEF create_session
  <1>4. PICK id \in Sessions \ DOMAIN sessions :
            sessions' = Put(sessions, id, [user |-> req.user, valid |-> TRUE])
    BY DEF create_session
  <1>5. /\ DOMAIN sessions' = DOMAIN sessions \cup {id}
        /\ sessions'[id] = [user |-> req.user, valid |-> TRUE]
        /\ \A i \in DOMAIN sessions : sessions'[i] = sessions[i]
    BY <1>4 DEF Put
  <1>6. /\ DOMAIN sessions' \subseteq Sessions
        /\ \A i \in DOMAIN sessions' : sessions'[i] \in [user: minted, valid: BOOLEAN]
    <2>1. [user |-> req.user, valid |-> TRUE] \in [user: minted, valid: BOOLEAN]
      BY <1>2
    <2>2. /\ DOMAIN sessions \subseteq Sessions
          /\ \A i \in DOMAIN sessions : sessions[i] \in [user: minted, valid: BOOLEAN]
      BY <1>1 DEF Shapes
    <2> QED
      BY <1>5, <2>1, <2>2
  <1>. HIDE DEF req
  <1>7. next \in Request /\ Sound(next, users, remade, minted, sessions', payer)
    <2>1. CASE req.guest = None
      BY <2>1 DEF NoRequest, Request, Calls, Sound, TakesOver
    <2>2. CASE req.guest # None
      BY <1>1, <1>2, <1>5, <2>2 DEF Request, Calls, Sound, TakesOver
    <2> QED
      BY <2>1, <2>2
  <1>. HIDE DEF next
  <1> QED
    BY <1>1, <1>3, <1>5, <1>6, <1>7, QuietCall DEF create_session, Shapes

\* The guest whose session goes has been reached.
LEMMA RevokeSessionStep ==
    ASSUME IInv, NEW r \in Requests, revoke_session(r), UNCHANGED deletion
    PROVE  IInv'
  <1>. DEFINE req == requests[r]
  <1>1. /\ Shapes /\ Sound(req, users, remade, minted, sessions, payer)
        /\ req.call = "revoke_session"
    BY TypesAreShapes DEF IInv, HandedOn, revoke_session
  <1>2. req.guest \in minted /\ Reached(users, req.guest)
    BY <1>1 DEF Sound, TakesOver
  <1>3. sessions' = [sessions EXCEPT ![req.token].valid = FALSE]
    BY DEF revoke_session
  <1>4. /\ DOMAIN sessions' = DOMAIN sessions
        /\ \A id \in DOMAIN sessions' : sessions'[id] \in [user: minted, valid: BOOLEAN]
    BY <1>1, <1>3 DEF Shapes
  <1>5. Evolves
    BY <1>4 DEF Evolves, revoke_session, Continue
  <1>6. requests' \in [Requests -> Request] /\ HandedOn'
    BY <1>1, <1>5, Handing, NoneIsSound DEF revoke_session, Continue, IInv
  <1>7. Shapes'
    BY <1>1, <1>2, <1>4, <1>6 DEF revoke_session, Continue, Shapes
  <1>8. TakenOverBeforeRevoked'
    BY <1>2 DEF revoke_session, TakenOverBeforeRevoked, Reached, IInv
  <1>9. /\ PaymentsReachOneOwner' /\ Gone' /\ IdentitiesAndNamesAreOneUsers'
        /\ RemadeAreAccounts'
    BY DEF revoke_session, Continue, PaymentsReachOneOwner, Gone,
           IdentitiesAndNamesAreOneUsers, RemadeAreAccounts, IInv
  <1> QED
    BY <1>6, <1>7, <1>8, <1>9, TypesAreShapes DEF IInv

\* Whoever is credited is the payer or took the payer over, and nobody was before.
LEMMA ApplyStep ==
    ASSUME IInv, NEW r \in Requests, apply(r), UNCHANGED deletion
    PROVE  IInv'
  <1>. DEFINE req == requests[r]
              u == req.user
              t == req.txn
              entry == Key(u, "iap_purchase", t)
  <1>1. /\ Shapes /\ Sound(req, users, remade, minted, sessions, payer)
        /\ req.call = "apply"
    BY TypesAreShapes DEF IInv, HandedOn, apply
  <1>2. u \in minted /\ t \in DOMAIN payer /\ Owned(users, remade, payer, t, u)
    BY <1>1 DEF Sound
  <1>3. Evolves
    BY DEF Evolves, apply, Continue
  <1>4. requests' \in [Requests -> Request] /\ HandedOn'
    BY <1>1, <1>3, Handing, NoneIsSound DEF apply, Continue, IInv
  <1>5. CASE UNCHANGED <<balance, ledger, claims, credited>>
    <2>1. Shapes'
      BY <1>1, <1>4, <1>5 DEF apply, Continue, Shapes
    <2> QED
      BY <1>3, <1>4, <1>5, <2>1, QuietStep DEF apply
  <1>6. CASE /\ t \notin DOMAIN claims
             /\ claims' = Put(claims, t, u)
             /\ ledger' = ledger \cup {entry}
             /\ balance' = [balance EXCEPT ![u] = @ + Amount]
             /\ credited' = credited \cup {<<t, u>>}
    <2>1. u \in Users /\ t \in Txns /\ entry \in Keys
      BY <1>1, <1>2 DEF Shapes, Key, Keys
    <2>2. balance' \in [Users -> Nat]
      BY <1>1, <1>6, <2>1, AmountAssumption DEF Shapes
    <2>3. /\ DOMAIN claims' = DOMAIN claims \cup {t}
          /\ \A x \in DOMAIN claims' : claims'[x] \in minted \cup {DELETED_OWNER}
      BY <1>1, <1>2, <1>6 DEF Put, Shapes
    <2>4. credited' \subseteq (DOMAIN claims') \X minted
      BY <1>1, <1>2, <1>6, <2>3 DEF Shapes
    <2>5. ledger' \subseteq Keys
      BY <1>1, <1>6, <2>1 DEF Shapes
    <2>6. Shapes'
      BY <1>1, <1>2, <1>4, <2>2, <2>3, <2>4, <2>5 DEF apply, Continue, Shapes
    <2>7. \A p \in credited : p[1] # t
      BY <1>1, <1>6 DEF Shapes
    <2>8. PaymentsReachOneOwner'
      BY <1>2, <1>6, <2>7 DEF apply, Continue, PaymentsReachOneOwner, Owned, IInv
    <2>9. /\ TakenOverBeforeRevoked' /\ Gone' /\ IdentitiesAndNamesAreOneUsers'
          /\ RemadeAreAccounts'
      BY DEF apply, TakenOverBeforeRevoked, Gone, IdentitiesAndNamesAreOneUsers,
             RemadeAreAccounts, IInv
    <2> QED
      BY <1>4, <2>6, <2>8, <2>9, TypesAreShapes DEF IInv
  <1> QED
    BY <1>5, <1>6 DEF apply, claim

----------------------------------------------------------------------------
(***************************************************************************)
(* Calls that write users and identities                                   *)
(***************************************************************************)

\* The history and what is credited stay as they are while users change.
LEMMA DocumentStep ==
    ASSUME IInv, Evolves, Shapes', HandedOn', IdentitiesAndNamesAreOneUsers',
           UNCHANGED <<credited, takenOver, remade, deletion>>,
           \A s \in DOMAIN identities' :
              \/ s \in DOMAIN identities /\ identities'[s] = identities[s]
              \/ identities'[s] \in DOMAIN users' \ remade'
    PROVE  IInv'
  <1>1. Shapes
    BY TypesAreShapes DEF IInv
  <1>2. PaymentsReachOneOwner' /\ TakenOverBeforeRevoked' /\ Gone'
    BY <1>1, PaymentsStay, ReachStays, GoneStays DEF IInv
  <1>3. RemadeAreAccounts'
    BY <1>1, RemadeStay DEF IInv, Shapes
  <1> QED
    BY <1>2, <1>3, TypesAreShapes DEF IInv

LEMMA NewUserFacts ==
    ASSUME NEW b \in BOOLEAN
    PROVE  /\ NewUser(b) \in User
           /\ NewUser(b).guest = b
           /\ NewUser(b).name = None
           /\ NewUser(b).claimedBy = None
  BY DEF NewUser, User

\* A new document, under an id that was never given.
LEMMA MintedFacts ==
    ASSUME Shapes, NEW u \in Users \ minted, NEW doc \in User,
           users' = Put(users, u, doc), minted' = minted \cup {u},
           UNCHANGED <<sessions, payer, remade>>
    PROVE  /\ Evolves
           /\ DOMAIN users' = DOMAIN users \cup {u}
           /\ users'[u] = doc
           /\ \A v \in DOMAIN users : v # u /\ users'[v] = users[v]
           /\ \A v \in DOMAIN users' : users'[v] \in User
  <1>1. /\ DOMAIN users' = DOMAIN users \cup {u}
        /\ users'[u] = doc
        /\ \A v \in DOMAIN users : v # u /\ users'[v] = users[v]
    BY DEF Put, Shapes
  <1>2. Evolves
    BY <1>1 DEF Evolves, Shapes
  <1> QED
    BY <1>1, <1>2 DEF Shapes

LEMMA CreateGuestUserStep ==
    ASSUME IInv, NEW r \in Requests, create_guest_user(r), UNCHANGED deletion
    PROVE  IInv'
  <1>. DEFINE req == requests[r]
  <1>1. PICK u \in Users \ minted :
            /\ users' = Put(users, u, NewUser(TRUE))
            /\ minted' = minted \cup {u}
            /\ Continue(r, [req EXCEPT !.call = "create_session", !.user = u])
    BY DEF create_guest_user
  <1>. DEFINE next == [req EXCEPT !.call = "create_session", !.user = u]
  <1>2. /\ Shapes /\ Sound(req, users, remade, minted, sessions, payer)
        /\ req.call = "create_guest_user"
    BY TypesAreShapes DEF IInv, HandedOn, create_guest_user
  <1>3. req \in Request
    BY <1>2 DEF Shapes
  <1>4. /\ Evolves
        /\ DOMAIN users' = DOMAIN users \cup {u}
        /\ users'[u] = NewUser(TRUE)
        /\ \A v \in DOMAIN users : v # u /\ users'[v] = users[v]
        /\ \A v \in DOMAIN users' : users'[v] \in User
    BY <1>1, <1>2, MintedFacts, NewUserFacts DEF create_guest_user, Continue
  <1>5. Sound(req, users', remade', minted', sessions', payer')
    BY <1>2, <1>4, SoundStays
  <1>. HIDE DEF req
  <1>6. next \in Request /\ Sound(next, users', remade', minted', sessions', payer')
    BY <1>1, <1>2, <1>3, <1>5 DEF Request, Calls, Sound, TakesOver
  <1>. HIDE DEF next
  <1>7. requests' \in [Requests -> Request] /\ HandedOn'
    BY <1>1, <1>2, <1>4, <1>6, Handing DEF Continue, IInv, next, req
  <1>8. Shapes'
    BY <1>1, <1>2, <1>4, <1>7 DEF create_guest_user, Continue, Shapes
  <1>9. IdentitiesAndNamesAreOneUsers'
    <2>1. identities' = identities /\ nameClaims' = nameClaims
      BY DEF create_guest_user
    <2>2. \A s \in DOMAIN identities : identities[s] # u
      BY <1>1, <1>2 DEF Shapes
    <2>3. \A s \in DOMAIN identities :
              identities[s] \in DOMAIN users' => ~users'[identities[s]].guest
      BY <1>4, <2>2 DEF IInv, IdentitiesAndNamesAreOneUsers
    <2>4. \A v \in DOMAIN users' : users'[v].name # None =>
              users'[v].name \in DOMAIN nameClaims /\ nameClaims[users'[v].name] = v
      BY <1>4, NewUserFacts DEF IInv, IdentitiesAndNamesAreOneUsers
    <2> QED
      BY <2>1, <2>3, <2>4 DEF IInv, IdentitiesAndNamesAreOneUsers
  <1> QED
    BY <1>4, <1>7, <1>8, <1>9, DocumentStep DEF create_guest_user

\* The sign-in goes on with the identity's user.
LEMMA IdentityFacts ==
    ASSUME Shapes, NEW s \in DOMAIN identities, identities[s] \in DOMAIN users
    PROVE  identities[s] \in minted /\ identities[s] \in Users
  BY DEF Shapes

LEMMA UserForIdentityStep ==
    ASSUME IInv, NEW r \in Requests, user_for_identity(r), UNCHANGED deletion
    PROVE  IInv'
  <1>. DEFINE req == requests[r]
  <1>1. /\ Shapes /\ Sound(req, users, remade, minted, sessions, payer)
        /\ req.call = "user_for_identity"
    BY TypesAreShapes DEF IInv, HandedOn, user_for_identity
  <1>2. req \in Request /\ req.subject \in Subjects
    BY <1>1 DEF Shapes, Sound
  <1>3. CASE /\ req.subject \in DOMAIN identities
             /\ identities[req.subject] \in DOMAIN users
             /\ Continue(r, Named(req, identities[req.subject],
                                  users[identities[req.subject]].name))
             /\ UNCHANGED <<users, identities, minted>>
    <2>. DEFINE u == identities[req.subject]
                next == Named(req, u, users[u].name)
    <2>1. u \in minted /\ u \in Users
      BY <1>1, <1>3, IdentityFacts
    <2>. HIDE DEF req, u
    <2>2. SignsIn(next, req, u)
      BY <1>2, <2>1, NamedFacts
    <2>. HIDE DEF next
    <2>3. Sound(next, users, remade, minted, sessions, payer)
      <3>1. req.guest # None => /\ req.guest \in minted /\ req.token \in DOMAIN sessions
                                /\ Reached(users, req.guest)
        BY <1>1 DEF Sound, TakesOver
      <3> QED
        BY <2>1, <2>2, <3>1, NamedIsSound DEF SignsIn
    <2>4. sessions' = sessions
      BY DEF user_for_identity
    <2> QED
      BY <1>1, <1>3, <2>2, <2>3, <2>4, QuietCall
         DEF SignsIn, user_for_identity, Shapes, next, u, req
  <1>4. CASE /\ req.subject \notin DOMAIN identities
             /\ \E u \in Users \ minted :
                   /\ users' = Put(users, u, NewUser(FALSE))
                   /\ identities' = Put(identities, req.subject, u)
                   /\ minted' = minted \cup {u}
                   /\ Continue(r, Named(req, u, None))
    <2>1. PICK u \in Users \ minted :
                   /\ users' = Put(users, u, NewUser(FALSE))
                   /\ identities' = Put(identities, req.subject, u)
                   /\ minted' = minted \cup {u}
                   /\ Continue(r, Named(req, u, None))
      BY <1>4
    <2>. DEFINE next == Named(req, u, None)
    <2>2. /\ Evolves
          /\ DOMAIN users' = DOMAIN users \cup {u}
          /\ users'[u] = NewUser(FALSE)
          /\ \A v \in DOMAIN users : v # u /\ users'[v] = users[v]
          /\ \A v \in DOMAIN users' : users'[v] \in User
      BY <1>1, <2>1, MintedFacts, NewUserFacts DEF user_for_identity, Continue
    <2>3. /\ DOMAIN identities' = DOMAIN identities \cup {req.subject}
          /\ identities'[req.subject] = u
          /\ \A s \in DOMAIN identities : s # req.subject /\ identities'[s] = identities[s]
      BY <1>4, <2>1 DEF Put
    <2>4. Sound(req, users', remade', minted', sessions', payer')
      BY <1>1, <2>2, SoundStays
    <2>. HIDE DEF req
    <2>5. SignsIn(next, req, u)
      BY <1>2, <2>1, NamedFacts
    <2>. HIDE DEF next
    <2>6. Sound(next, users', remade', minted', sessions', payer')
      <3>1. req.guest # None => /\ req.guest \in minted' /\ req.token \in DOMAIN sessions'
                                /\ Reached(users', req.guest)
        BY <1>1, <2>4 DEF Sound, TakesOver
      <3>2. u \in minted'
        BY <2>1
      <3> QED
        BY <2>5, <3>1, <3>2, NamedIsSound DEF SignsIn
    <2>7. requests' \in [Requests -> Request] /\ HandedOn'
      BY <1>1, <2>1, <2>2, <2>5, <2>6, Handing DEF SignsIn, Continue, IInv, next, req
    <2>8. Shapes'
      BY <1>1, <1>2, <2>1, <2>2, <2>3, <2>7 DEF user_for_identity, Continue, Shapes
    <2>9. IdentitiesAndNamesAreOneUsers'
      <3>1. \A s \in DOMAIN identities : identities[s] # u
        BY <1>1, <2>1 DEF Shapes
      <3>2. \A s, t \in DOMAIN identities' : identities'[s] = identities'[t] => s = t
        BY <2>3, <3>1 DEF IInv, IdentitiesAndNamesAreOneUsers
      <3>3. \A s \in DOMAIN identities' :
                identities'[s] \in DOMAIN users' => ~users'[identities'[s]].guest
        <4>1. ASSUME NEW s \in DOMAIN identities, identities[s] \in DOMAIN users'
              PROVE  ~users'[identities[s]].guest
          BY <2>2, <3>1, <4>1 DEF IInv, IdentitiesAndNamesAreOneUsers
        <4>2. ~users'[u].guest
          BY <2>2, NewUserFacts
        <4> QED
          BY <2>3, <4>1, <4>2
      <3>4. \A v \in DOMAIN users' : users'[v].name # None =>
                users'[v].name \in DOMAIN nameClaims /\ nameClaims[users'[v].name] = v
        BY <2>2, NewUserFacts DEF IInv, IdentitiesAndNamesAreOneUsers
      <3>5. nameClaims' = nameClaims
        BY DEF user_for_identity
      <3> QED
        BY <3>2, <3>3, <3>4, <3>5 DEF IdentitiesAndNamesAreOneUsers
    <2>10. u \notin remade'
      BY <1>1, <2>1 DEF Shapes, user_for_identity
    <2> QED
      BY <2>2, <2>3, <2>7, <2>8, <2>9, <2>10, DocumentStep DEF user_for_identity
  <1> QED
    BY <1>3, <1>4 DEF user_for_identity

\* The guest becomes the account, or its takeover by the account begins.
LEMMA LinkIdentityStep ==
    ASSUME IInv, NEW r \in Requests, link_identity(r), UNCHANGED deletion
    PROVE  IInv'
  <1>. DEFINE req == requests[r]
  <1>1. /\ Shapes /\ Sound(req, users, remade, minted, sessions, payer)
        /\ req.call = "link_identity"
    BY TypesAreShapes DEF IInv, HandedOn, link_identity
  <1>2. req \in Request /\ req.subject \in Subjects /\ req.guest # None /\ req.guest \in minted
    BY <1>1 DEF Shapes, Sound, TakesOver
  <1>3. CASE /\ req.subject \in DOMAIN identities
             /\ identities[req.subject] \in DOMAIN users
             /\ Continue(r, [Named(req, identities[req.subject],
                                   users[identities[req.subject]].name)
                               EXCEPT !.call = "claim_guest_wallet"])
             /\ UNCHANGED <<users, identities>>
    <2>. DEFINE u == identities[req.subject]
                named == Named(req, u, users[u].name)
                next == [named EXCEPT !.call = "claim_guest_wallet"]
    <2>1. u \in minted /\ u \in Users
      BY <1>1, <1>3, IdentityFacts
    <2>. HIDE DEF req, u
    <2>2. SignsIn(named, req, u)
      BY <1>2, <2>1, NamedFacts
    <2>. HIDE DEF named
    <2>3. next \in Request
      BY <2>2 DEF SignsIn, Request, Calls
    <2>4. Sound(next, users, remade, minted, sessions', payer)
      BY <1>1, <1>2, <2>1, <2>2 DEF SignsIn, Sound, TakesOver, link_identity, Request
    <2>. HIDE DEF next
    <2> QED
      BY <1>1, <1>3, <2>4, <2>3, QuietCall DEF link_identity, Shapes, next, named, u, req
  <1>4. CASE /\ req.subject \notin DOMAIN identities
             /\ adoptable(req.guest)
             /\ users' = [users EXCEPT ![req.guest].guest = FALSE]
             /\ identities' = Put(identities, req.subject, req.guest)
             /\ Continue(r, Named(req, req.guest, users[req.guest].name))
    <2>. DEFINE g == req.guest
                next == Named(req, g, users[g].name)
    <2>1. g \in DOMAIN users /\ users[g].guest /\ g \in minted /\ g \in Users
      BY <1>1, <1>2, <1>4 DEF adoptable, Shapes
    <2>2. /\ DOMAIN users' = DOMAIN users
          /\ users'[g] = [users[g] EXCEPT !.guest = FALSE]
          /\ \A v \in DOMAIN users \ {g} : users'[v] = users[v]
      BY <1>4, <2>1
    <2>3. /\ \A v \in DOMAIN users' : users'[v] \in User
          /\ \A v \in DOMAIN users' : /\ users'[v].claimedBy = users[v].claimedBy
                                      /\ users'[v].name = users[v].name
          /\ ~users'[g].guest
      <3>1. \A v \in DOMAIN users : users[v] \in User
        BY <1>1 DEF Shapes
      <3>. DEFINE doc == [users[g] EXCEPT !.guest = FALSE]
      <3>2. /\ doc \in User /\ ~doc.guest
            /\ doc.claimedBy = users[g].claimedBy /\ doc.name = users[g].name
        BY <2>1, <3>1 DEF User
      <3>3. users'[g] = doc
        BY <2>2
      <3>. HIDE DEF doc
      <3> QED
        BY <2>2, <3>1, <3>2, <3>3
    <2>4. Evolves
      BY <2>1, <2>2, <2>3 DEF Evolves, link_identity, Continue
    <2>5. /\ DOMAIN identities' = DOMAIN identities \cup {req.subject}
          /\ identities'[req.subject] = g
          /\ \A s \in DOMAIN identities : s # req.subject /\ identities'[s] = identities[s]
      BY <1>4 DEF Put
    <2>6. Sound(req, users', remade', minted', sessions', payer')
      BY <1>1, <2>4, SoundStays
    <2>7. Reached(users', g)
      BY <2>3 DEF Reached
    <2>8. minted' = minted
      BY DEF link_identity
    <2>. HIDE DEF req
    <2>9. SignsIn(next, req, g)
      BY <1>2, <2>1, NamedFacts
    <2>. HIDE DEF next
    <2>10. Sound(next, users', remade', minted', sessions', payer')
      <3>1. req.guest \in minted' /\ req.token \in DOMAIN sessions'
        BY <1>2, <2>6 DEF Sound
      <3> QED
        BY <1>2, <2>1, <2>7, <2>8, <2>9, <3>1, NamedIsSound DEF SignsIn
    <2>11. requests' \in [Requests -> Request] /\ HandedOn'
      BY <1>1, <1>4, <2>4, <2>9, <2>10, Handing DEF SignsIn, Continue, IInv, next, req
    <2>. HIDE DEF g
    <2>12. /\ DOMAIN identities' \subseteq Subjects
           /\ \A s \in DOMAIN identities' : identities'[s] \in minted
      BY <1>1, <1>2, <2>1, <2>5 DEF Shapes
    <2>13. Shapes'
      BY <1>1, <1>4, <2>2, <2>3, <2>11, <2>12 DEF link_identity, Continue, Shapes
    <2>14. \A s \in DOMAIN identities : identities[s] # g
      BY <2>1 DEF IInv, IdentitiesAndNamesAreOneUsers
    <2>15. IdentitiesAndNamesAreOneUsers'
      <3>1. \A s, t \in DOMAIN identities' : identities'[s] = identities'[t] => s = t
        BY <2>5, <2>14 DEF IInv, IdentitiesAndNamesAreOneUsers
      <3>2. \A s \in DOMAIN identities' :
                identities'[s] \in DOMAIN users' => ~users'[identities'[s]].guest
        <4>1. ASSUME NEW s \in DOMAIN identities, identities[s] \in DOMAIN users'
              PROVE  ~users'[identities[s]].guest
          BY <2>2, <2>14, <4>1 DEF IInv, IdentitiesAndNamesAreOneUsers
        <4> QED
          BY <2>3, <2>5, <4>1
      <3>3. \A v \in DOMAIN users' : users'[v].name # None =>
                /\ users'[v].name \in DOMAIN nameClaims'
                /\ nameClaims'[users'[v].name] = v
        BY <2>2, <2>3 DEF IInv, IdentitiesAndNamesAreOneUsers, link_identity
      <3> QED
        BY <3>1, <3>2, <3>3 DEF IdentitiesAndNamesAreOneUsers
    <2>16. g \notin remade'
      BY <2>1 DEF IInv, RemadeAreAccounts, link_identity
    <2> QED
      BY <2>1, <2>2, <2>4, <2>5, <2>11, <2>13, <2>15, <2>16, DocumentStep DEF link_identity
  <1> QED
    BY <1>3, <1>4 DEF link_identity

\* The first account that takes a guest over is noted, and the guest can be reached by it.
LEMMA MarkGuestClaimedStep ==
    ASSUME IInv, NEW r \in Requests, mark_guest_claimed(r), UNCHANGED deletion
    PROVE  IInv'
  <1>. DEFINE req == requests[r]
              g == req.guest
              u == req.user
              next == Named(req, u, None)
  <1>1. /\ Shapes /\ Sound(req, users, remade, minted, sessions, payer)
        /\ req.call = "mark_guest_claimed"
    BY TypesAreShapes DEF IInv, HandedOn, mark_guest_claimed
  <1>2. /\ req \in Request /\ g # None /\ g \in minted /\ req.token \in DOMAIN sessions
        /\ u \in minted /\ u \in Users /\ u # None
    BY <1>1, NoneAssumption DEF Shapes, Sound, TakesOver
  <1>3. /\ DOMAIN users' = DOMAIN users
        /\ \A v \in DOMAIN users' :
              /\ users'[v] \in User
              /\ users'[v].name = users[v].name
              /\ users'[v].guest = users[v].guest
              /\ users[v].claimedBy # None => users'[v].claimedBy = users[v].claimedBy
        /\ g \in DOMAIN users' => users'[g].claimedBy # None
    <2>1. \A v \in DOMAIN users : users[v] \in User
      BY <1>1 DEF Shapes
    <2>2. CASE g \in DOMAIN users /\ users[g].claimedBy = None
      <3>. DEFINE doc == [users[g] EXCEPT !.claimedBy = u]
      <3>1. /\ doc \in User /\ doc.claimedBy = u
            /\ doc.guest = users[g].guest /\ doc.name = users[g].name
        BY <1>2, <2>1, <2>2 DEF User
      <3>2. /\ DOMAIN users' = DOMAIN users
            /\ users'[g] = doc
            /\ \A v \in DOMAIN users \ {g} : users'[v] = users[v]
        BY <2>2 DEF mark_guest_claimed, marked
      <3>. HIDE DEF doc
      <3> QED
        BY <1>2, <2>1, <2>2, <3>1, <3>2
    <2>3. CASE ~(g \in DOMAIN users /\ users[g].claimedBy = None)
      <3>1. users' = users
        BY <2>3 DEF mark_guest_claimed, marked
      <3> QED
        BY <2>1, <2>3, <3>1
    <2> QED
      BY <2>2, <2>3
  <1>4. Evolves
    BY <1>3 DEF Evolves, mark_guest_claimed, Continue
  <1>5. Continue(r, next)
    BY DEF mark_guest_claimed
  <1>6. Reached(users', g)
    BY <1>3 DEF Reached
  <1>7. sessions' = sessions /\ minted' = minted /\ identities' = identities
        /\ nameClaims' = nameClaims
    BY DEF mark_guest_claimed
  <1>. HIDE DEF req
  <1>8. SignsIn(next, req, u)
    BY <1>2, NamedFacts
  <1>. HIDE DEF next
  <1>9. Sound(next, users', remade', minted', sessions', payer')
    BY <1>2, <1>6, <1>7, <1>8, NamedIsSound DEF SignsIn
  <1>10. requests' \in [Requests -> Request] /\ HandedOn'
    BY <1>1, <1>4, <1>5, <1>8, <1>9, Handing DEF SignsIn, Continue, IInv
  <1>11. Shapes'
    BY <1>1, <1>3, <1>5, <1>10 DEF mark_guest_claimed, Continue, Shapes
  <1>12. IdentitiesAndNamesAreOneUsers'
    BY <1>3, <1>7 DEF IInv, IdentitiesAndNamesAreOneUsers
  <1> QED
    BY <1>4, <1>7, <1>10, <1>11, <1>12, DocumentStep DEF mark_guest_claimed

----------------------------------------------------------------------------
(***************************************************************************)
(* Names                                                                   *)
(***************************************************************************)

\* A user's document changes, and neither whether it is a guest nor who took it over.
LEMMA RenameFacts ==
    ASSUME Shapes, NEW u \in DOMAIN users, NEW n \in Names \cup {None}, NEW c \in BOOLEAN,
           users' = [users EXCEPT ![u].name = n, ![u].cooldown = c],
           minted \subseteq minted', UNCHANGED <<sessions, payer, remade>>
    PROVE  /\ Evolves
           /\ DOMAIN users' = DOMAIN users
           /\ users'[u].name = n
           /\ \A v \in DOMAIN users' :
                 /\ users'[v] \in User
                 /\ users'[v].guest = users[v].guest
                 /\ v # u => users'[v].name = users[v].name
  <1>1. \A v \in DOMAIN users : users[v] \in User
    BY DEF Shapes
  <1>. DEFINE doc == [users[u] EXCEPT !.name = n, !.cooldown = c]
  <1>2. /\ doc \in User /\ doc.name = n
        /\ doc.guest = users[u].guest /\ doc.claimedBy = users[u].claimedBy
    BY <1>1 DEF User
  <1>3. /\ DOMAIN users' = DOMAIN users
        /\ users'[u] = doc
        /\ \A v \in DOMAIN users \ {u} : users'[v] = users[v]
    BY <1>1 DEF User
  <1>. HIDE DEF doc
  <1>4. \A v \in DOMAIN users' :
              /\ users'[v] \in User
              /\ users'[v].guest = users[v].guest
              /\ users'[v].claimedBy = users[v].claimedBy
              /\ v # u => users'[v].name = users[v].name
    BY <1>1, <1>2, <1>3
  <1>5. Evolves
    BY <1>3, <1>4 DEF Evolves
  <1> QED
    BY <1>2, <1>3, <1>4, <1>5

\* A name that was free, or its user's, is held by its user, and what the user held before
\* is held by nobody.
LEMMA NamesStay ==
    ASSUME Shapes, IdentitiesAndNamesAreOneUsers, NEW u \in DOMAIN users, NEW n \in Names,
           free(n, u), DOMAIN users' = DOMAIN users, users'[u].name = n,
           \A v \in DOMAIN users' : /\ users'[v].guest = users[v].guest
                                    /\ v # u => users'[v].name = users[v].name,
           NEW gone, gone = users[u].name \/ gone = None,
           nameClaims' = Put(Without(nameClaims, {gone}), n, u),
           UNCHANGED identities
    PROVE  /\ IdentitiesAndNamesAreOneUsers'
           /\ DOMAIN nameClaims' \subseteq Names
           /\ \A m \in DOMAIN nameClaims' : nameClaims'[m] \in minted
  <1>1. /\ DOMAIN nameClaims' = (DOMAIN nameClaims \ {gone}) \cup {n}
        /\ nameClaims'[n] = u
        /\ \A m \in DOMAIN nameClaims \ {gone} : m # n => nameClaims'[m] = nameClaims[m]
    BY DEF Put, Without, Restrict
  <1>2. ASSUME NEW v \in DOMAIN users', users'[v].name # None, v # u
        PROVE  /\ users'[v].name \in DOMAIN nameClaims'
               /\ nameClaims'[users'[v].name] = v
    <2>1. /\ users[v].name = users'[v].name
          /\ users[v].name \in DOMAIN nameClaims
          /\ nameClaims[users[v].name] = v
      BY <1>2 DEF IdentitiesAndNamesAreOneUsers
    <2>2. users[v].name # n
      BY <1>2, <2>1 DEF free
    <2>3. users[v].name # gone
      BY <1>2, <2>1 DEF IdentitiesAndNamesAreOneUsers
    <2> QED
      BY <1>1, <2>1, <2>2, <2>3
  <1>3. \A s \in DOMAIN identities' :
            identities'[s] \in DOMAIN users' => ~users'[identities'[s]].guest
    BY DEF IdentitiesAndNamesAreOneUsers
  <1>4. IdentitiesAndNamesAreOneUsers'
    BY <1>1, <1>2, <1>3 DEF IdentitiesAndNamesAreOneUsers
  <1>5. /\ DOMAIN nameClaims' \subseteq Names
        /\ \A m \in DOMAIN nameClaims' : nameClaims'[m] \in minted
    BY <1>1 DEF Shapes
  <1> QED
    BY <1>4, <1>5

LEMMA SeedDisplayNameStep ==
    ASSUME IInv, NEW r \in Requests, seed_display_name(r), UNCHANGED deletion
    PROVE  IInv'
  <1>. DEFINE req == requests[r]
              u == req.user
              n == req.name
              next == [req EXCEPT !.call = "create_session", !.name = None]
  <1>1. /\ Shapes /\ IdentitiesAndNamesAreOneUsers
        /\ Sound(req, users, remade, minted, sessions, payer) /\ req.call = "seed_display_name"
    BY TypesAreShapes DEF IInv, HandedOn, seed_display_name
  <1>2. req \in Request /\ u \in minted /\ n \in Names /\ u \in DOMAIN users
    BY <1>1 DEF Shapes, Sound, seed_display_name
  <1>3. Continue(r, next) /\ UNCHANGED <<identities, sessions, minted, payer, remade>>
    BY DEF seed_display_name, Continue
  <1>4. ASSUME Evolves
        PROVE  requests' \in [Requests -> Request] /\ HandedOn'
    <2>1. Sound(req, users', remade', minted', sessions', payer')
      BY <1>1, <1>4, SoundStays
    <2>. HIDE DEF req
    <2>2. next \in Request /\ Sound(next, users', remade', minted', sessions', payer')
      BY <1>1, <1>2, <1>3, <2>1 DEF Request, Calls, Sound, TakesOver
    <2>. HIDE DEF next
    <2> QED
      BY <1>1, <1>3, <1>4, <2>2, Handing DEF Continue, IInv
  <1>5. CASE UNCHANGED <<users, nameClaims>>
    <2>1. Evolves
      BY <1>3, <1>5, NothingEvolves
    <2>2. requests' \in [Requests -> Request] /\ HandedOn'
      BY <1>4, <2>1
    <2>3. Shapes'
      BY <1>1, <1>3, <1>5, <2>2 DEF seed_display_name, Continue, Shapes
    <2> QED
      BY <1>5, <2>1, <2>2, <2>3, QuietStep DEF seed_display_name
  <1>6. CASE /\ users[u].name = None /\ free(n, u)
             /\ nameClaims' = Put(nameClaims, n, u)
             /\ users' = [users EXCEPT ![u].name = n]
    <2>. DEFINE c == users[u].cooldown
    <2>1. c \in BOOLEAN /\ users[u] \in User
      BY <1>1, <1>2 DEF Shapes, User
    <2>2. users' = [users EXCEPT ![u].name = n, ![u].cooldown = c]
      BY <1>2, <1>6, <2>1 DEF User
    <2>3. nameClaims' = Put(Without(nameClaims, {None}), n, u)
      <3>1. None \notin DOMAIN nameClaims
        BY <1>1, NoneAssumption DEF Shapes
      <3> QED
        BY <1>6, <3>1 DEF Put, Without, Restrict
    <2>. HIDE DEF c, n, u
    <2>4. /\ Evolves
          /\ DOMAIN users' = DOMAIN users
          /\ users'[u].name = n
          /\ \A v \in DOMAIN users' :
                /\ users'[v] \in User
                /\ users'[v].guest = users[v].guest
                /\ v # u => users'[v].name = users[v].name
      BY <1>1, <1>2, <1>3, <2>1, <2>2, RenameFacts
    <2>5. /\ IdentitiesAndNamesAreOneUsers'
          /\ DOMAIN nameClaims' \subseteq Names
          /\ \A m \in DOMAIN nameClaims' : nameClaims'[m] \in minted
      BY <1>1, <1>2, <1>3, <1>6, <2>3, <2>4, NamesStay
    <2>6. requests' \in [Requests -> Request] /\ HandedOn'
      BY <1>4, <2>4
    <2>7. Shapes'
      BY <1>1, <1>3, <2>4, <2>5, <2>6 DEF seed_display_name, Continue, Shapes
    <2> QED
      BY <2>4, <2>5, <2>6, <2>7, DocumentStep DEF seed_display_name
  <1> QED
    BY <1>5, <1>6 DEF seed_display_name

LEMMA SetDisplayNameStep ==
    ASSUME IInv, NEW r \in Requests, set_display_name(r), UNCHANGED deletion
    PROVE  IInv'
  <1>. DEFINE req == requests[r]
              u == req.user
              n == req.name
              previous == users[u].name
  <1>1. /\ Shapes /\ IdentitiesAndNamesAreOneUsers
        /\ Sound(req, users, remade, minted, sessions, payer) /\ req.call = "set_display_name"
    BY TypesAreShapes DEF IInv, HandedOn, set_display_name
  <1>2. u \in minted /\ n \in Names /\ u \in DOMAIN users /\ free(n, u)
    BY <1>1 DEF Sound, set_display_name
  <1>3. Continue(r, NoRequest) /\ UNCHANGED <<identities, sessions, minted, payer, remade>>
    BY DEF set_display_name, Continue
  <1>4. /\ users' = [users EXCEPT ![u].name = n, ![u].cooldown = TRUE]
        /\ nameClaims' = Put(Without(nameClaims, {previous}), n, u)
    BY DEF set_display_name
  <1>. HIDE DEF n, u
  <1>5. /\ Evolves
        /\ DOMAIN users' = DOMAIN users
        /\ users'[u].name = n
        /\ \A v \in DOMAIN users' :
              /\ users'[v] \in User
              /\ users'[v].guest = users[v].guest
              /\ v # u => users'[v].name = users[v].name
    BY <1>1, <1>2, <1>3, <1>4, RenameFacts
  <1>6. /\ IdentitiesAndNamesAreOneUsers'
        /\ DOMAIN nameClaims' \subseteq Names
        /\ \A m \in DOMAIN nameClaims' : nameClaims'[m] \in minted
    BY <1>1, <1>2, <1>3, <1>4, <1>5, NamesStay
  <1>7. requests' \in [Requests -> Request] /\ HandedOn'
    BY <1>1, <1>3, <1>5, Handing, NoneIsSound DEF Continue, IInv
  <1>8. Shapes'
    BY <1>1, <1>3, <1>5, <1>6, <1>7 DEF set_display_name, Continue, Shapes
  <1> QED
    BY <1>5, <1>6, <1>7, <1>8, DocumentStep DEF set_display_name

LEMMA CooldownPassesStep ==
    ASSUME IInv, NEW u \in Users, cooldown_passes(u), UNCHANGED deletion
    PROVE  IInv'
  <1>. DEFINE n == users[u].name
  <1>1. Shapes /\ u \in DOMAIN users
    BY TypesAreShapes DEF IInv, cooldown_passes
  <1>2. n \in Names \cup {None} /\ users[u] \in User
    BY <1>1 DEF Shapes, User
  <1>3. users' = [users EXCEPT ![u].name = n, ![u].cooldown = FALSE]
    BY <1>1, <1>2 DEF cooldown_passes, User
  <1>4. UNCHANGED <<identities, nameClaims, sessions, minted, payer, requests, remade>>
    BY DEF cooldown_passes
  <1>. HIDE DEF n
  <1>5. /\ Evolves
        /\ DOMAIN users' = DOMAIN users
        /\ users'[u].name = n
        /\ \A v \in DOMAIN users' :
              /\ users'[v] \in User
              /\ users'[v].guest = users[v].guest
              /\ v # u => users'[v].name = users[v].name
    BY <1>1, <1>2, <1>3, <1>4, RenameFacts
  <1>6. HandedOn'
    BY <1>1, <1>4, <1>5, NobodyHanding DEF IInv
  <1>7. Shapes'
    BY <1>1, <1>5 DEF cooldown_passes, Shapes
  <1>8. IdentitiesAndNamesAreOneUsers'
    BY <1>4, <1>5 DEF IInv, IdentitiesAndNamesAreOneUsers, n
  <1> QED
    BY <1>5, <1>6, <1>7, <1>8, DocumentStep DEF cooldown_passes

\* A document that is gone is made again: an account's, without a name, that no identity
\* leads to unless one did before.
LEMMA StorePurchaseSlotsStep ==
    ASSUME IInv, NEW r \in Requests, store_purchase_slots(r), UNCHANGED deletion
    PROVE  IInv'
  <1>. DEFINE u == requests[r].user
  <1>1. /\ Shapes /\ Sound(requests[r], users, remade, minted, sessions, payer)
        /\ requests[r].call = "purchase_slots"
    BY TypesAreShapes DEF IInv, HandedOn, store_purchase_slots
  <1>2. u \in minted /\ u \in Users
    BY <1>1 DEF Sound, Shapes
  <1>3. /\ balance[u] >= SlotCost
        /\ balance' = [balance EXCEPT ![u] = @ - SlotCost]
        /\ users' = merged(u)
        /\ remade' = remade \cup ({u} \ DOMAIN users)
        /\ Continue(r, NoRequest)
        /\ UNCHANGED <<identities, sessions, nameClaims, ledger, claims, minted, credited,
                       takenOver, payer, received>>
    BY DEF store_purchase_slots, Continue
  <1>. HIDE DEF u
  <1>4. /\ DOMAIN users' = DOMAIN users \cup {u}
        /\ \A v \in DOMAIN users : users'[v] = users[v]
        /\ \A v \in DOMAIN users' \ DOMAIN users : v = u /\ users'[v] = NewUser(FALSE)
    BY <1>3 DEF merged, Put
  <1>5. NewUser(FALSE) \in User /\ ~NewUser(FALSE).guest /\ NewUser(FALSE).name = None
    BY NewUserFacts
  <1>6. Evolves
    BY <1>3, <1>4, <1>5 DEF Evolves
  <1>7. requests' \in [Requests -> Request] /\ HandedOn'
    BY <1>1, <1>3, <1>6, Handing, NoneIsSound DEF Continue, IInv
  <1>8. balance' \in [Users -> Nat]
    <2>1. balance \in [Users -> Nat] /\ balance[u] - SlotCost \in Nat
      BY <1>1, <1>2, <1>3, AmountAssumption DEF Shapes
    <2> QED
      BY <1>3, <2>1
  <1>9. Shapes'
    <2>1. DOMAIN users' \subseteq minted' /\ remade' \subseteq minted'
      BY <1>1, <1>2, <1>3, <1>4 DEF Shapes
    <2>2. \A v \in DOMAIN users' : users'[v] \in User
      BY <1>1, <1>4, <1>5 DEF Shapes
    <2> QED
      BY <1>1, <1>3, <1>7, <1>8, <2>1, <2>2 DEF Shapes
  <1>10. IdentitiesAndNamesAreOneUsers'
    BY <1>3, <1>4, <1>5 DEF IInv, IdentitiesAndNamesAreOneUsers
  <1>11. PaymentsReachOneOwner' /\ TakenOverBeforeRevoked' /\ Gone' /\ RemadeAreAccounts'
    <2>1. remade' \subseteq minted
      BY <1>1, <1>2, <1>3 DEF Shapes
    <2> QED
      BY <1>1, <1>3, <1>6, <2>1, PaymentsStay, ReachStays, GoneStays, RemadeStay DEF IInv
  <1> QED
    BY <1>7, <1>9, <1>10, <1>11, TypesAreShapes DEF IInv

LEMMA SessionEndsStep ==
    ASSUME IInv, NEW token \in Sessions, session_ends(token), UNCHANGED deletion
    PROVE  IInv'
  <1>1. Shapes
    BY TypesAreShapes DEF IInv
  <1>2. /\ DOMAIN sessions' = DOMAIN sessions
        /\ \A id \in DOMAIN sessions' : sessions'[id] \in [user: minted, valid: BOOLEAN]
    BY <1>1 DEF session_ends, Shapes
  <1>3. Evolves
    BY <1>2 DEF Evolves, session_ends
  <1>4. HandedOn'
    BY <1>1, <1>3, NobodyHanding DEF session_ends, IInv
  <1>5. received' \in 0..MaxRequests
    BY <1>1, BoundAssumption DEF session_ends, Shapes
  <1>6. Shapes'
    BY <1>1, <1>2, <1>5 DEF session_ends, Shapes
  <1> QED
    BY <1>3, <1>4, <1>6, QuietStep DEF session_ends

LEMMA BuyStep ==
    ASSUME IInv, NEW token \in Sessions, NEW t \in Txns, buy(token, t), UNCHANGED deletion
    PROVE  IInv'
  <1>. DEFINE u == current_user(token)
  <1>1. Shapes
    BY TypesAreShapes DEF IInv
  <1>2. u \in minted
    BY <1>1, CurrentUser DEF buy
  <1>3. t \notin DOMAIN payer /\ payer' = Put(payer, t, u)
    BY DEF buy
  <1>. HIDE DEF u
  <1>4. /\ DOMAIN payer' = DOMAIN payer \cup {t}
        /\ payer'[t] = u
        /\ \A x \in DOMAIN payer : payer'[x] = payer[x]
    BY <1>3 DEF Put
  <1>5. Evolves
    BY <1>4 DEF Evolves, buy
  <1>6. HandedOn'
    BY <1>1, <1>5, NobodyHanding DEF buy, IInv
  <1>7. Shapes'
    BY <1>1, <1>2, <1>4 DEF buy, Shapes
  <1> QED
    BY <1>5, <1>6, <1>7, QuietStep DEF buy

----------------------------------------------------------------------------
(***************************************************************************)
(* The deletion                                                            *)
(***************************************************************************)

\* A deletion goes on to step; after the document is gone it stays gone.
LEMMA ThenFacts ==
    ASSUME Shapes, NEW u \in minted, NEW step \in Steps, Then(u, step)
    PROVE  /\ DOMAIN deletion' = DOMAIN deletion \cup {u}
           /\ deletion'[u] = step
           /\ \A v \in DOMAIN deletion : v # u => deletion'[v] = deletion[v]
           /\ DOMAIN deletion' \subseteq minted
           /\ \A v \in DOMAIN deletion' : deletion'[v] \in Steps
  BY DEF Then, Put, Shapes

\* A step of a deletion, which takes documents away and gives nothing to anybody.
LEMMA RemovalStep ==
    ASSUME IInv, NEW u \in minted, NEW step \in Steps, Then(u, step),
           UNCHANGED <<nameClaims, payer, requests, received, minted, credited, takenOver,
                       remade>>,
           DOMAIN users' \subseteq DOMAIN users,
           \A v \in DOMAIN users' : users'[v] = users[v],
           DOMAIN identities' \subseteq DOMAIN identities,
           \A s \in DOMAIN identities' : identities'[s] = identities[s],
           DOMAIN sessions' = DOMAIN sessions,
           \A id \in DOMAIN sessions' : sessions'[id] \in [user: minted, valid: BOOLEAN],
           balance' \in [Users -> Nat], ledger' \subseteq Keys,
           DOMAIN claims' = DOMAIN claims,
           \A t \in DOMAIN claims' : claims'[t] \in minted \cup {DELETED_OWNER},
           step \in {"delete_wallet", "delete_sessions", "delete_ledger",
                     "delete_identity", "done"} => u \notin DOMAIN users' \ remade,
           step = "done" => \A s \in DOMAIN identities' : identities'[s] # u
    PROVE  IInv'
  <1>1. Shapes
    BY TypesAreShapes DEF IInv
  <1>2. /\ DOMAIN deletion' = DOMAIN deletion \cup {u}
        /\ deletion'[u] = step
        /\ \A v \in DOMAIN deletion : v # u => deletion'[v] = deletion[v]
        /\ DOMAIN deletion' \subseteq minted
        /\ \A v \in DOMAIN deletion' : deletion'[v] \in Steps
    BY <1>1, ThenFacts
  <1>3. Evolves
    BY DEF Evolves
  <1>4. HandedOn'
    BY <1>1, <1>3, NobodyHanding DEF IInv
  <1>5. PaymentsReachOneOwner' /\ TakenOverBeforeRevoked'
    BY <1>1, <1>3, PaymentsStay, ReachStays DEF IInv
  <1>6. IdentitiesAndNamesAreOneUsers' /\ RemadeAreAccounts'
    BY DEF IInv, IdentitiesAndNamesAreOneUsers, RemadeAreAccounts
  <1>7. Gone'
    BY <1>2 DEF IInv, Gone
  <1>8. Shapes'
    BY <1>1, <1>2 DEF Shapes
  <1> QED
    BY <1>4, <1>5, <1>6, <1>7, <1>8, TypesAreShapes DEF IInv

LEMMA UnchangedFacts ==
    ASSUME Shapes
    PROVE  /\ \A v \in DOMAIN claims : claims[v] \in minted \cup {DELETED_OWNER}
           /\ \A id \in DOMAIN sessions : sessions[id] \in [user: minted, valid: BOOLEAN]
           /\ balance \in [Users -> Nat] /\ ledger \subseteq Keys
           /\ DOMAIN deletion \subseteq minted
  BY DEF Shapes

LEMMA DeleteAccountStep ==
    ASSUME IInv, NEW token \in Sessions, delete_account(token)
    PROVE  IInv'
  <1>. DEFINE u == current_user(token)
  <1>1. Shapes
    BY TypesAreShapes DEF IInv
  <1>2. u \in minted
    BY <1>1, CurrentUser DEF delete_account
  <1>3. Then(u, "anonymize_claims") /\ UNCHANGED vars
    BY DEF delete_account
  <1>. HIDE DEF u
  <1> QED
    BY <1>1, <1>2, <1>3, RemovalStep, UnchangedFacts DEF vars, Steps

LEMMA DeletionFailsStep ==
    ASSUME IInv, NEW u \in Users, deletion_fails(u)
    PROVE  IInv'
  <1>1. Shapes
    BY TypesAreShapes DEF IInv
  <1>2. u \in minted
    BY <1>1 DEF Shapes, deletion_fails
  <1>3. Then(u, "failed") /\ UNCHANGED vars
    BY DEF deletion_fails
  <1> QED
    BY <1>1, <1>2, <1>3, RemovalStep, UnchangedFacts DEF vars, Steps

LEMMA AnonymizeClaimsStep ==
    ASSUME IInv, NEW u \in Users, anonymize_claims(u)
    PROVE  IInv'
  <1>1. Shapes
    BY TypesAreShapes DEF IInv
  <1>2. u \in minted /\ Then(u, "delete_user")
    BY <1>1 DEF Shapes, anonymize_claims, At
  <1>3. /\ DOMAIN claims' = DOMAIN claims
        /\ \A t \in DOMAIN claims' : claims'[t] \in minted \cup {DELETED_OWNER}
    BY <1>1 DEF Shapes, anonymize_claims, claims_anonymized
  <1>4. "delete_user" \in Steps
    BY DEF Steps
  <1> QED
    BY <1>1, <1>2, <1>3, <1>4, RemovalStep, UnchangedFacts DEF anonymize_claims

LEMMA DeleteUserStep ==
    ASSUME IInv, NEW u \in Users, delete_user(u)
    PROVE  IInv'
  <1>1. Shapes
    BY TypesAreShapes DEF IInv
  <1>2. u \in minted /\ Then(u, "delete_wallet") /\ "delete_wallet" \in Steps
    BY <1>1 DEF Shapes, delete_user, At, Steps
  <1>3. /\ DOMAIN users' = DOMAIN users \ {u}
        /\ \A v \in DOMAIN users' : users'[v] = users[v]
    BY DEF delete_user, Without, Restrict
  <1> QED
    BY <1>1, <1>2, <1>3, RemovalStep, UnchangedFacts DEF delete_user

\* From here on the user has no document but one made again.
LEMMA LaterSteps ==
    ASSUME IInv, NEW u, NEW step \in {"delete_wallet", "delete_sessions", "delete_ledger",
                                      "delete_identity"}, At(u, step)
    PROVE  u \in minted /\ u \notin DOMAIN users \ remade /\ Shapes
  <1>1. Shapes /\ Gone
    BY TypesAreShapes DEF IInv
  <1> QED
    BY <1>1 DEF At, Gone, Shapes

LEMMA DeleteWalletStep ==
    ASSUME IInv, NEW u \in Users, delete_wallet(u)
    PROVE  IInv'
  <1>1. u \in minted /\ u \notin DOMAIN users \ remade /\ Shapes
    BY LaterSteps DEF delete_wallet
  <1>2. Then(u, "delete_sessions") /\ "delete_sessions" \in Steps
    BY DEF delete_wallet, Steps
  <1>3. balance' \in [Users -> Nat]
    BY <1>1 DEF delete_wallet, Shapes
  <1> QED
    BY <1>1, <1>2, <1>3, RemovalStep, UnchangedFacts DEF delete_wallet

LEMMA DeleteSessionsStep ==
    ASSUME IInv, NEW u \in Users, delete_sessions(u)
    PROVE  IInv'
  <1>1. u \in minted /\ u \notin DOMAIN users \ remade /\ Shapes
    BY LaterSteps DEF delete_sessions
  <1>2. Then(u, "delete_ledger") /\ "delete_ledger" \in Steps
    BY DEF delete_sessions, Steps
  <1>3. /\ DOMAIN sessions' = DOMAIN sessions
        /\ \A id \in DOMAIN sessions' : sessions'[id] \in [user: minted, valid: BOOLEAN]
    BY <1>1 DEF delete_sessions, Shapes
  <1> QED
    BY <1>1, <1>2, <1>3, RemovalStep, UnchangedFacts DEF delete_sessions

LEMMA DeleteLedgerStep ==
    ASSUME IInv, NEW u \in Users, delete_ledger(u)
    PROVE  IInv'
  <1>1. u \in minted /\ u \notin DOMAIN users \ remade /\ Shapes
    BY LaterSteps DEF delete_ledger
  <1>2. Then(u, "delete_identity") /\ "delete_identity" \in Steps
    BY DEF delete_ledger, Steps
  <1>3. ledger' \subseteq Keys
    BY <1>1 DEF delete_ledger, Shapes
  <1> QED
    BY <1>1, <1>2, <1>3, RemovalStep, UnchangedFacts DEF delete_ledger

LEMMA DeleteIdentityStep ==
    ASSUME IInv, NEW u \in Users, delete_identity(u)
    PROVE  IInv'
  <1>1. u \in minted /\ u \notin DOMAIN users \ remade /\ Shapes
    BY LaterSteps DEF delete_identity
  <1>2. Then(u, "done") /\ "done" \in Steps
    BY DEF delete_identity, Steps
  <1>3. /\ DOMAIN identities' \subseteq DOMAIN identities
        /\ \A s \in DOMAIN identities' : identities'[s] = identities[s] /\ identities'[s] # u
    BY DEF delete_identity, Without, Restrict
  <1> QED
    BY <1>1, <1>2, <1>3, RemovalStep, UnchangedFacts DEF delete_identity

----------------------------------------------------------------------------
(***************************************************************************)
(* The specification                                                       *)
(***************************************************************************)

LEMMA InitIInv == DeletionInit => IInv
  <1>. SUFFICES ASSUME DeletionInit
       PROVE  IInv
    OBVIOUS
  <1>. DEFINE there == Guests \cup Range(Registered)
  <1>1. /\ there \subseteq Users
        /\ \A s \in DOMAIN Registered : Registered[s] \in there /\ Registered[s] \notin Guests
        /\ \A id \in DOMAIN Held : Held[id] \in there
    BY PopulationAssumption DEF Range
  <1>2. /\ DOMAIN users = there /\ minted = there
        /\ \A u \in DOMAIN users : /\ users[u] \in User
                                   /\ users[u].guest = (u \in Guests)
                                   /\ users[u].name = None
    <2>1. users = [u \in there |-> NewUser(u \in Guests)] /\ minted = there
      BY DEF DeletionInit, Init
    <2>2. ASSUME NEW u \in there
          PROVE  /\ users[u] \in User
                 /\ users[u].guest = (u \in Guests)
                 /\ users[u].name = None
      <3>. DEFINE b == u \in Guests
      <3>1. b \in BOOLEAN /\ users[u] = NewUser(b)
        BY <2>1
      <3> HIDE DEF b
      <3>2. users[u] \in User /\ users[u].guest = b /\ users[u].name = None
        BY <3>1, NewUserFacts
      <3> QED
        BY <3>2 DEF b
    <2> QED
      BY <2>1, <2>2
  <1>3. /\ DOMAIN sessions = DOMAIN Held
        /\ \A id \in DOMAIN sessions : sessions[id] \in [user: minted, valid: BOOLEAN]
    BY <1>1, <1>2 DEF DeletionInit, Init
  <1>4. /\ nameClaims = <<>> /\ claims = <<>> /\ payer = <<>> /\ deletion = <<>>
        /\ DOMAIN <<>> = {}
    BY DEF DeletionInit, Init
  <1>5. requests \in [Requests -> Request] /\ HandedOn
    <2>1. NoRequest \in Request /\ Sound(NoRequest, users, remade, minted, sessions, payer)
      BY DEF NoRequest, Request, Calls, Sound, TakesOver
    <2> QED
      BY <2>1 DEF DeletionInit, Init, HandedOn
  <1>6. Shapes
    <2>1. /\ DOMAIN identities \subseteq Subjects
          /\ \A s \in DOMAIN identities : identities[s] \in minted
          /\ DOMAIN sessions \subseteq Sessions
      BY <1>1, <1>2, <1>3, PopulationAssumption DEF DeletionInit, Init
    <2>2. /\ balance \in [Users -> Nat] /\ received \in 0..MaxRequests
      BY BoundAssumption DEF DeletionInit, Init
    <2>3. ledger = {} /\ credited = {} /\ takenOver = {} /\ remade = {}
      BY DEF DeletionInit, Init
    <2> QED
      BY <1>1, <1>2, <1>3, <1>4, <1>5, <2>1, <2>2, <2>3 DEF Shapes
  <1>7. IdentitiesAndNamesAreOneUsers
    BY <1>1, <1>2, PopulationAssumption DEF DeletionInit, Init, IdentitiesAndNamesAreOneUsers
  <1>8. PaymentsReachOneOwner /\ TakenOverBeforeRevoked /\ Gone
    BY <1>4 DEF DeletionInit, Init, PaymentsReachOneOwner, TakenOverBeforeRevoked, Gone
  <1>9. RemadeAreAccounts
    BY DEF DeletionInit, Init, RemadeAreAccounts
  <1> QED
    BY <1>5, <1>6, <1>7, <1>8, <1>9, TypesAreShapes DEF IInv

LEMMA NextIInv == IInv /\ [DeletionNext]_allVars => IInv'
  <1>. SUFFICES ASSUME IInv, [DeletionNext]_allVars
       PROVE  IInv'
    OBVIOUS
  <1>1. ASSUME NEW r \in Requests, Arrives(r), UNCHANGED deletion
        PROVE  IInv'
    BY <1>1, StartGuestSessionStep, SignInStep, UpdateProfileStep, CreditStep,
       PurchaseSlotsStep DEF Arrives
  <1>2. ASSUME NEW r \in Requests, Proceeds(r), UNCHANGED deletion
        PROVE  IInv'
    BY <1>2, CreateGuestUserStep, UserForIdentityStep, LinkIdentityStep, ClaimGuestWalletStep,
       MarkGuestClaimedStep, SeedDisplayNameStep, CreateSessionStep, RevokeSessionStep,
       SetDisplayNameStep, ApplyStep, StorePurchaseSlotsStep, FailsStep DEF Proceeds
  <1>3. ASSUME NEW token \in Sessions, session_ends(token), UNCHANGED deletion
        PROVE  IInv'
    BY <1>3, SessionEndsStep
  <1>4. ASSUME NEW token \in Sessions, NEW t \in Txns, buy(token, t), UNCHANGED deletion
        PROVE  IInv'
    BY <1>4, BuyStep
  <1>5. ASSUME NEW u \in Users, cooldown_passes(u), UNCHANGED deletion
        PROVE  IInv'
    BY <1>5, CooldownPassesStep
  <1>6. ASSUME NEW token \in Sessions, delete_account(token)
        PROVE  IInv'
    BY <1>6, DeleteAccountStep
  <1>7. ASSUME NEW u \in Users, Deletes(u)
        PROVE  IInv'
    BY <1>7, AnonymizeClaimsStep, DeleteUserStep, DeleteWalletStep, DeleteSessionsStep,
       DeleteLedgerStep, DeleteIdentityStep, DeletionFailsStep DEF Deletes
  <1>8. CASE UNCHANGED allVars
    BY <1>8 DEF allVars, vars, IInv, DeletionTypeOK, TypeOK, HandedOn,
       IdentitiesAndNamesAreOneUsers, PaymentsReachOneOwner, TakenOverBeforeRevoked, Gone,
       RemadeAreAccounts
  <1> QED
    BY <1>1, <1>2, <1>3, <1>4, <1>5, <1>6, <1>7, <1>8 DEF DeletionNext, Next

LEMMA Invariance == DeletionSpec => []IInv
  BY InitIInv, NextIInv, PTL DEF DeletionSpec

\* Users, identities, sessions, requests and the deletion keep their shapes (app/auth).
THEOREM SpecTypeOK == DeletionSpec => []DeletionTypeOK
  <1>1. IInv => DeletionTypeOK
    BY DEF IInv
  <1> QED
    BY <1>1, Invariance, PTL

\* Sign-ins, takeovers and renames that race, and deletions that go on meanwhile, leave one
\* account to an identity and one user to a name (auth/firestore_store.py).
THEOREM SpecIdentitiesAndNamesAreOneUsers == DeletionSpec => []IdentitiesAndNamesAreOneUsers
  <1>1. IInv => IdentitiesAndNamesAreOneUsers
    BY DEF IInv
  <1> QED
    BY <1>1, Invariance, PTL

\* A payment whose owner was checked in one step and credited in another reaches its payer or
\* the account that took the payer over, and nobody else ever (iap/service.py).
THEOREM SpecPaymentsReachOneOwner == DeletionSpec => []PaymentsReachOneOwner
  <1>1. IInv => PaymentsReachOneOwner
    BY DEF IInv
  <1> QED
    BY <1>1, Invariance, PTL

\* A sign-in that stops at any of its calls has not revoked the session of a guest that
\* nobody can reach (api/auth.py).
THEOREM SpecTakenOverBeforeRevoked == DeletionSpec => []TakenOverBeforeRevoked
  <1>1. IInv => TakenOverBeforeRevoked
    BY DEF IInv
  <1> QED
    BY <1>1, Invariance, PTL

\* Of the requests that were under way only a purchase of slots (capacity/store.py) brings a
\* deleted account's document back, and none links an identity to it (auth/deletion.py).
THEOREM SpecDeletedIsForgotten == DeletionSpec => []DeletedIsForgotten
  <1>1. IInv => DeletedIsForgotten
    BY DEF IInv, Gone, DeletedIsForgotten, Range
  <1> QED
    BY <1>1, Invariance, PTL

=============================================================================
