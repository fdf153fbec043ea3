-------------------------- MODULE PurchasesProofs --------------------------
(***************************************************************************)
(* What users have is what they paid for, for all users, templates, price  *)
(* tables, operations and requests, while versions with other prices go    *)
(* live and accounts are deleted.                                          *)
(*                                                                         *)
(* A request carries what it read to the transaction that comes later, so  *)
(* that it must be known what stays true of that (Carries): a template     *)
(* that was free has been given away by some version, and one that was     *)
(* owned is owned by everybody who stays.                                  *)
(***************************************************************************)
EXTENDS Purchases, FiniteSetTheorems, TLAPS

\* What a request has read, and may rely on in its transaction.
Carries(req) ==
    /\ req.call # "none" => req.user \in Users
    /\ req.call = "acquire" =>
          \A t \in req.templates :
              t \in wasFree \/ (Stays(req.user) => <<req.user, t>> \in DOMAIN acquisitions)
    /\ req.call = "purchase" /\ req.price = 0 => req.templates \subseteq wasFree
    /\ req.call = "purchase_slots" => req.operation \in Operations

Carried == \A r \in Requests : Carries(requests[r])

FreeIsKnown == \A t \in Templates : price[t] = 0 => t \in wasFree

\* Who was counted: everybody who has the template, and of those who stay nobody else.
Counted(t) ==
    /\ IsFiniteSet(firsts[t])
    /\ counts[t] >= Cardinality(firsts[t])
    /\ (\A u \in firsts[t] : Stays(u)) => counts[t] = Cardinality(firsts[t])
    /\ \A u \in Users : <<u, t>> \in DOMAIN acquisitions => u \in firsts[t]
    /\ \A u \in firsts[t] : Stays(u) => <<u, t>> \in DOMAIN acquisitions

FirstsAreCounted == \A t \in Templates : Counted(t)

Done(u) == {o \in Operations : <<u, o>> \in DOMAIN operations}

\* What a user who stays has of one kind.
PaidSlots(u) ==
    /\ IsFiniteSet(Done(u))
    /\ slots[u] = Delta * Cardinality(Done(u))
    /\ \A o \in Operations : o \in Done(u) <=> SlotsKey(u, o) \in DOMAIN ledger

PaidTemplate(u, t) ==
    LET key == TemplateKey(u, t)  had == <<u, t>> \in DOMAIN acquisitions IN
    /\ key \in DOMAIN ledger => had /\ acquisitions[<<u, t>>] = ledger[key]
    /\ had /\ key \notin DOMAIN ledger => acquisitions[<<u, t>>] = 0 /\ t \in wasFree

Paid ==
    \A u \in Users : Stays(u) => PaidSlots(u) /\ \A t \in Templates : PaidTemplate(u, t)

GrantedOnce ==
    \A k \in Users \X Operations : granted[k] = IF k \in DOMAIN operations THEN 1 ELSE 0

IInv ==
    /\ TypeOK
    /\ Carried
    /\ FreeIsKnown
    /\ FirstsAreCounted
    /\ Paid
    /\ GrantedOnce

----------------------------------------------------------------------------
(***************************************************************************)
(* What steps leave alone.                                                 *)
(***************************************************************************)

\* Nobody comes back, no template is taken out of wasFree, and who stays keeps what he has.
Kept ==
    /\ wasFree \subseteq wasFree'
    /\ DOMAIN deletion \subseteq DOMAIN deletion'
    /\ \A u \in Users, t \in Templates :
          Stays(u)' /\ <<u, t>> \in DOMAIN acquisitions => <<u, t>> \in DOMAIN acquisitions'

\* The slots of a user, and what they rest on, are what they were.
SameSlots(u) ==
    /\ slots'[u] = slots[u]
    /\ Done(u)' = Done(u)
    /\ \A o \in Operations :
          SlotsKey(u, o) \in DOMAIN ledger' <=> SlotsKey(u, o) \in DOMAIN ledger

\* So are his templates and what he paid for them.
SameTemplate(u, t) ==
    LET key == TemplateKey(u, t) IN
    /\ key \in DOMAIN ledger' <=> key \in DOMAIN ledger
    /\ key \in DOMAIN ledger => ledger'[key] = ledger[key]
    /\ <<u, t>> \in DOMAIN acquisitions' <=> <<u, t>> \in DOMAIN acquisitions
    /\ <<u, t>> \in DOMAIN acquisitions => acquisitions'[<<u, t>>] = acquisitions[<<u, t>>]

LEMMA NoRequestFacts == NoRequest \in Request /\ Carries(NoRequest)
  BY DEF NoRequest, Request, Carries

LEMMA CarriedStays ==
    ASSUME Carried, Kept, requests \in [Requests -> Request],
           \A r \in Requests : requests'[r] = requests[r] \/ Carries(requests[r])'
    PROVE  Carried'
  <1> SUFFICES ASSUME NEW r \in Requests, requests'[r] = requests[r]
               PROVE  Carries(requests[r])'
    BY DEF Carried
  <1>1. Carries(requests[r])
    BY DEF Carried
  <1>2. requests[r].templates \subseteq Templates
    BY DEF Request
  <1>3. \A u : Stays(u)' => Stays(u)
    BY DEF Kept, Stays
  <1>. QED
    BY <1>1, <1>2, <1>3 DEF Carries, Kept

LEMMA SlotsStay ==
    ASSUME NEW u \in Users, PaidSlots(u), SameSlots(u)
    PROVE  PaidSlots(u)'
  BY DEF PaidSlots, SameSlots

LEMMA TemplateStays ==
    ASSUME NEW u \in Users, NEW t \in Templates, PaidTemplate(u, t), SameTemplate(u, t),
           wasFree \subseteq wasFree'
    PROVE  PaidTemplate(u, t)'
  BY DEF PaidTemplate, SameTemplate

LEMMA CountsStay ==
    ASSUME FirstsAreCounted, Kept, UNCHANGED <<counts, firsts>>,
           firsts \in [Templates -> SUBSET Users],
           DOMAIN acquisitions' \subseteq DOMAIN acquisitions
    PROVE  FirstsAreCounted'
  <1> SUFFICES ASSUME NEW t \in Templates  PROVE Counted(t)'
    BY DEF FirstsAreCounted
  <1>1. Counted(t)
    BY DEF FirstsAreCounted
  <1>2. firsts[t] \subseteq Users /\ firsts'[t] = firsts[t] /\ counts'[t] = counts[t]
    OBVIOUS
  <1>3. \A u : Stays(u)' => Stays(u)
    BY DEF Kept, Stays
  <1>. QED
    BY <1>1, <1>2, <1>3 DEF Counted, Kept

LEMMA PaidStays ==
    ASSUME Paid, Kept,
           \A u \in Users : Stays(u)' =>
               SameSlots(u) /\ \A t \in Templates : SameTemplate(u, t)
    PROVE  Paid'
  <1> SUFFICES ASSUME NEW u \in Users, Stays(u)'
               PROVE  PaidSlots(u)' /\ \A t \in Templates : PaidTemplate(u, t)'
    BY DEF Paid
  <1>1. Stays(u)
    BY DEF Kept, Stays
  <1>2. PaidSlots(u)'
    BY <1>1, SlotsStay DEF Paid
  <1>3. ASSUME NEW t \in Templates  PROVE PaidTemplate(u, t)'
    BY <1>1, TemplateStays DEF Paid, Kept
  <1>. QED
    BY <1>2, <1>3

\* The documents of a user are all that goes.
LEMMA WithoutUserFacts ==
    ASSUME NEW coll, NEW u, NEW S, coll \in [DOMAIN coll -> S]
    PROVE  /\ DOMAIN WithoutUser(coll, u) = {k \in DOMAIN coll : k[1] # u}
           /\ \A k \in DOMAIN coll : k[1] # u => WithoutUser(coll, u)[k] = coll[k]
           /\ WithoutUser(coll, u) \in [{k \in DOMAIN coll : k[1] # u} -> S]
  BY DEF WithoutUser, Restrict

\* Keys differ by their kind, and name one user and one thing.
LEMMA KeyFacts ==
    /\ \A u, v, t, o : TemplateKey(u, t) # SlotsKey(v, o)
    /\ \A u, v, t, s : TemplateKey(u, t) = TemplateKey(v, s) <=> u = v /\ t = s
    /\ \A u, v, o, q : SlotsKey(u, o) = SlotsKey(v, q) <=> u = v /\ o = q
    /\ \A u, t : TemplateKey(u, t)[1] = u
    /\ \A u, o : SlotsKey(u, o)[1] = u
  BY DEF TemplateKey, SlotsKey

----------------------------------------------------------------------------
LEMMA InitIInv == Init => IInv
  <1> SUFFICES ASSUME Init  PROVE IInv
    OBVIOUS
  <1>1. TypeOK
    BY PurchasesAssumption DEF Init, TypeOK, Request, NoRequest
  <1>2. Carried /\ FreeIsKnown /\ GrantedOnce
    BY DEF Init, Carried, Carries, NoRequest, FreeIsKnown, GrantedOnce
  <1>3. FirstsAreCounted
    BY FS_EmptySet DEF Init, FirstsAreCounted, Counted
  <1>4. ASSUME NEW u \in Users  PROVE PaidSlots(u)
    <2>1. Done(u) = {}
      BY DEF Init, Done
    <2>. QED
      BY <2>1, FS_EmptySet, PurchasesAssumption DEF Init, PaidSlots
  <1>5. Paid
    BY <1>4 DEF Init, Paid, PaidTemplate
  <1>. QED
    BY <1>1, <1>2, <1>3, <1>5 DEF IInv

----------------------------------------------------------------------------
(***************************************************************************)
(* Requests                                                                *)
(***************************************************************************)

\* What moves neither records nor money moves no account either.
LEMMA NothingBought ==
    ASSUME IInv, UNCHANGED <<shop, ledger, slots, deletion>>, wasFree \subseteq wasFree'
    PROVE  Kept /\ FirstsAreCounted' /\ Paid' /\ GrantedOnce'
  <1>1. Kept
    BY DEF Kept, shop
  <1>2. FirstsAreCounted'
    BY <1>1, CountsStay DEF shop, IInv, TypeOK
  <1>3. \A u \in Users : SameSlots(u) /\ \A t \in Templates : SameTemplate(u, t)
    BY DEF SameSlots, SameTemplate, Done, shop
  <1>4. Paid'
    BY <1>1, <1>3, PaidStays DEF IInv
  <1>5. GrantedOnce'
    BY DEF IInv, GrantedOnce, shop
  <1>. QED
    BY <1>1, <1>2, <1>4, <1>5

\* A request arrives with what it may rely on.
LEMMA ReceiveStep ==
    ASSUME IInv, NEW r \in Requests, NEW req \in Request, Carries(req), Receive(r, req)
    PROVE  IInv'
  <1>1. TypeOK'
    <2>1. requests' \in [Requests -> Request]
      BY DEF IInv, TypeOK, Receive
    <2>2. received' \in 0..MaxRequests
      BY PurchasesAssumption DEF IInv, TypeOK, Receive
    <2>. QED
      BY <2>1, <2>2 DEF IInv, TypeOK, Receive, shop, money, account, version
  <1>2. Kept /\ FirstsAreCounted' /\ Paid' /\ GrantedOnce'
    BY NothingBought DEF Receive, money, account, version
  <1>3. Carried'
    <2>1. \A q \in Requests \ {r} : requests'[q] = requests[q]
      BY DEF IInv, TypeOK, Receive
    <2>2. requests'[r] = req
      BY DEF IInv, TypeOK, Receive
    <2>3. Carries(requests[r])'
      BY <2>2 DEF Carries, Receive, Stays, shop, version
    <2>. QED
      BY <1>2, <2>1, <2>3, CarriedStays DEF IInv, TypeOK
  <1>4. FreeIsKnown'
    BY DEF IInv, FreeIsKnown, Receive, version
  <1>. QED
    BY <1>1, <1>2, <1>3, <1>4 DEF IInv

\* What is obtainable is free in this version, or owned.
LEMMA ArriveStep ==
    ASSUME IInv, NEW r \in Requests, NEW u \in Users, Arrives(r, u)
    PROVE  IInv'
  <1> DEFINE Asks(ts) == [NoRequest EXCEPT !.call = "acquire", !.user = u, !.templates = ts]
  <1>1. ASSUME NEW asked \in SUBSET Templates, Receive(r, Asks(obtainable(u, asked)))
        PROVE  IInv'
    <2> DEFINE ts == obtainable(u, asked)
    <2>1. Asks(ts) \in Request
      BY DEF Request, NoRequest, obtainable
    <2>2. Carries(Asks(ts))
      BY DEF IInv, Carries, NoRequest, obtainable, is_free, acquired_template_ids, FreeIsKnown
    <2>. QED
      BY <1>1, <2>1, <2>2, ReceiveStep
  <1>2. ASSUME NEW t \in Templates, purchase(r, u, t)  PROVE IInv'
    <2> DEFINE req == [NoRequest EXCEPT !.call = "purchase", !.user = u,
                                        !.templates = {t}, !.price = price[t]]
    <2>1. req \in Request
      BY DEF IInv, TypeOK, Request, NoRequest
    <2>2. Carries(req)
      BY DEF IInv, Carries, NoRequest, FreeIsKnown
    <2>. QED
      BY <1>2, <2>1, <2>2, ReceiveStep DEF purchase
  <1>3. ASSUME NEW o \in Operations, purchase_slots(r, u, o)  PROVE IInv'
    <2> DEFINE req == [NoRequest EXCEPT !.call = "purchase_slots", !.user = u,
                                        !.operation = o]
    <2>1. req \in Request /\ Carries(req)
      BY DEF Request, NoRequest, Carries
    <2>. QED
      BY <1>3, <2>1, ReceiveStep DEF purchase_slots
  <1>. QED
    BY <1>1, <1>2, <1>3 DEF Arrives, acquire, reconcile

\* A request that ends leaves nothing behind.
LEMMA FailStep ==
    ASSUME IInv, NEW r \in Requests, fails(r)
    PROVE  IInv'
  <1>1. TypeOK'
    <2>1. requests' \in [Requests -> Request]
      BY NoRequestFacts DEF IInv, TypeOK, fails
    <2>. QED
      BY <2>1 DEF IInv, TypeOK, fails, shop, money, account, version
  <1>2. Kept /\ FirstsAreCounted' /\ Paid' /\ GrantedOnce'
    BY NothingBought DEF fails, money, account, version
  <1>3. Carried'
    <2>1. \A q \in Requests \ {r} : requests'[q] = requests[q]
      BY DEF IInv, TypeOK, fails
    <2>2. requests'[r] = NoRequest
      BY DEF IInv, TypeOK, fails
    <2>3. Carries(requests[r])'
      BY <2>2 DEF Carries, NoRequest
    <2>. QED
      BY <1>2, <2>1, <2>3, CarriedStays DEF IInv, TypeOK
  <1>4. FreeIsKnown'
    BY DEF IInv, FreeIsKnown, fails, version
  <1>. QED
    BY <1>1, <1>2, <1>3, <1>4 DEF IInv

\* A new price table: what it gives away is known to have been free.
LEMMA DeployStep ==
    ASSUME IInv, NEW t \in Templates, NEW p \in Prices, deploy(t, p)
    PROVE  IInv'
  <1>1. TypeOK'
    <2>1. /\ price' \in [Templates -> Prices] /\ wasFree' \subseteq Templates
          /\ deployed' \in 0..MaxDeployments
      BY PurchasesAssumption DEF IInv, TypeOK, deploy
    <2>. QED
      BY <2>1 DEF IInv, TypeOK, deploy, shop, money, account
  <1>2. wasFree \subseteq wasFree'
    BY DEF deploy
  <1>3. Kept /\ FirstsAreCounted' /\ Paid' /\ GrantedOnce'
    BY <1>2, NothingBought DEF deploy, money, account
  <1>4. Carried'
    BY <1>3, CarriedStays DEF IInv, TypeOK, deploy
  <1>5. FreeIsKnown'
    BY DEF IInv, TypeOK, FreeIsKnown, deploy
  <1>. QED
    BY <1>1, <1>3, <1>4, <1>5 DEF IInv

----------------------------------------------------------------------------
(***************************************************************************)
(* The transactions                                                        *)
(***************************************************************************)

\* The entry of a charge is there, of its amount when it is new, and no other is touched.
Charged(key, amount) ==
    /\ balance' \in [Users -> Nat]
    /\ DOMAIN ledger' = DOMAIN ledger \cup {key}
    /\ \A k \in DOMAIN ledger : ledger'[k] = ledger[k]
    /\ key \notin DOMAIN ledger => ledger'[key] = amount
    /\ DOMAIN ledger' \subseteq Keys /\ ledger' \in [DOMAIN ledger' -> Nat]

\* So is the record of a template.
Recorded(u, t, paid) ==
    /\ DOMAIN acquisitions' = DOMAIN acquisitions \cup {<<u, t>>}
    /\ \A k \in DOMAIN acquisitions : acquisitions'[k] = acquisitions[k]
    /\ <<u, t>> \notin DOMAIN acquisitions => acquisitions'[<<u, t>>] = paid
    /\ acquisitions' \in [DOMAIN acquisitions' -> Prices \cup {0}]
    /\ counts' \in [Templates -> Nat]
    /\ firsts' \in [Templates -> SUBSET Users]

\* A charge does what it says.
LEMMA ChargeFacts ==
    ASSUME TypeOK, NEW u \in Users, NEW key \in Keys, NEW amount \in Nat,
           Charge(u, key, amount)
    PROVE  Charged(key, amount)
  <1>1. CASE key \in DOMAIN ledger
    BY <1>1 DEF Charge, TypeOK, money, Charged
  <1>2. CASE key \notin DOMAIN ledger
    <2>1. balance' \in [Users -> Nat]
      <3>1. balance[u] - amount \in Nat
        BY <1>2 DEF Charge, TypeOK, covers
      <3>. QED
        BY <1>2, <3>1 DEF Charge, TypeOK
    <2>2. ledger' = Put(ledger, key, amount)
      BY <1>2 DEF Charge
    <2>3. ledger' \in [DOMAIN ledger \cup {key} -> Nat]
      BY <2>2 DEF TypeOK, Put
    <2>. QED
      BY <1>2, <2>1, <2>2, <2>3 DEF TypeOK, Put, Charged
  <1>. QED
    BY <1>1, <1>2

\* The transaction of a template counts a user with his first record, and no other time.
LEMMA RecordFacts ==
    ASSUME IInv, NEW u \in Users, NEW t \in Templates, NEW paid \in Prices \cup {0},
           Record(u, t, paid)
    PROVE  Recorded(u, t, paid)
  <1>1. CASE <<u, t>> \in DOMAIN acquisitions
    BY <1>1 DEF IInv, TypeOK, Record, counted, Recorded
  <1>2. CASE <<u, t>> \notin DOMAIN acquisitions
    <2>1. acquisitions' = Put(acquisitions, <<u, t>>, paid)
      BY <1>2 DEF Record
    <2>2. acquisitions' \in [DOMAIN acquisitions \cup {<<u, t>>} -> Prices \cup {0}]
      BY <2>1 DEF IInv, TypeOK, Put
    <2>3. counts' \in [Templates -> Nat] /\ firsts' \in [Templates -> SUBSET Users]
      BY <1>2 DEF IInv, TypeOK, Record, counted
    <2>. QED
      BY <1>2, <2>1, <2>2, <2>3 DEF Put, Recorded
  <1>. QED
    BY <1>1, <1>2

LEMMA RecordCounts ==
    ASSUME IInv, NEW u \in Users, NEW t \in Templates, NEW paid \in Prices \cup {0},
           Record(u, t, paid), UNCHANGED deletion
    PROVE  FirstsAreCounted'
  <1> SUFFICES ASSUME NEW n \in Templates  PROVE Counted(n)'
    BY DEF FirstsAreCounted
  <1>1. Counted(n) /\ firsts[n] \subseteq Users /\ counts[n] \in Nat
    BY DEF IInv, TypeOK, FirstsAreCounted
  <1>2. \A v : Stays(v)' <=> Stays(v)
    BY DEF Stays
  <1>3. \A v \in Users : <<v, n>> \in DOMAIN acquisitions'
                            <=> <<v, n>> \in DOMAIN acquisitions \/ (v = u /\ n = t)
    <2>1. Recorded(u, t, paid)
      BY RecordFacts
    <2>. QED
      BY <2>1 DEF Recorded
  <1>4. CASE n # t
    <2>1. counts'[n] = counts[n] /\ firsts'[n] = firsts[n]
      BY <1>4 DEF IInv, TypeOK, Record, counted
    <2>. QED
      BY <1>1, <1>2, <1>3, <1>4, <2>1 DEF Counted
  <1>5. CASE n = t /\ u \in firsts[t]
    <2>1. firsts'[n] = firsts[n]
      BY <1>5 DEF IInv, TypeOK, Record
    <2>2. CASE <<u, t>> \in DOMAIN acquisitions
      <3>1. counts'[n] = counts[n]
        BY <2>2 DEF Record, counted
      <3>. QED
        BY <1>1, <1>2, <1>3, <1>5, <2>1, <2>2, <3>1 DEF Counted
    <2>3. CASE <<u, t>> \notin DOMAIN acquisitions
      <3>1. ~Stays(u)
        BY <1>1, <1>5, <2>3 DEF Counted
      <3>2. counts'[n] = counts[n] + 1
        BY <1>5, <2>3 DEF IInv, TypeOK, Record, counted
      <3>3. Cardinality(firsts[n]) \in Nat
        BY <1>1, FS_CardinalityType DEF Counted
      <3>. QED
        BY <1>1, <1>2, <1>3, <1>5, <2>1, <3>1, <3>2, <3>3 DEF Counted
    <2>. QED
      BY <2>2, <2>3
  <1>6. CASE n = t /\ u \notin firsts[t]
    <2>1. <<u, t>> \notin DOMAIN acquisitions
      BY <1>1, <1>6 DEF Counted
    <2>2. counts'[n] = counts[n] + 1 /\ firsts'[n] = firsts[n] \cup {u}
      BY <1>6, <2>1 DEF IInv, TypeOK, Record, counted
    <2>3. /\ IsFiniteSet(firsts'[n]) /\ Cardinality(firsts[n]) \in Nat
          /\ Cardinality(firsts'[n]) = Cardinality(firsts[n]) + 1
      <3>1. IsFiniteSet(firsts[n]) /\ u \notin firsts[n]
        BY <1>1, <1>6 DEF Counted
      <3>. QED
        BY <2>2, <3>1, FS_AddElement, FS_CardinalityType
    <2>4. counts'[n] >= Cardinality(firsts'[n])
      BY <1>1, <2>2, <2>3 DEF Counted
    <2>5. (\A v \in firsts'[n] : Stays(v)') => counts'[n] = Cardinality(firsts'[n])
      BY <1>1, <1>2, <2>2, <2>3 DEF Counted
    <2>6. /\ \A v \in Users : <<v, n>> \in DOMAIN acquisitions' => v \in firsts'[n]
          /\ \A v \in firsts'[n] : Stays(v)' => <<v, n>> \in DOMAIN acquisitions'
      BY <1>1, <1>2, <1>3, <1>6, <2>2 DEF Counted
    <2>. QED
      BY <2>3, <2>4, <2>5, <2>6 DEF Counted
  <1>. QED
    BY <1>4, <1>5, <1>6

\* A template is recorded: all that is left to see is what its user paid for it.
LEMMA RecordStep ==
    ASSUME IInv, NEW u \in Users, NEW t \in Templates, NEW paid \in Prices \cup {0},
           Record(u, t, paid), UNCHANGED <<slots, operations, granted, deletion, wasFree>>,
           \A k \in Keys : k # TemplateKey(u, t) =>
               /\ k \in DOMAIN ledger' <=> k \in DOMAIN ledger
               /\ k \in DOMAIN ledger => ledger'[k] = ledger[k],
           Stays(u) => PaidTemplate(u, t)'
    PROVE  Kept /\ FirstsAreCounted' /\ Paid' /\ GrantedOnce'
  <1>1. Kept
    BY RecordFacts DEF Recorded, Kept
  <1>2. ASSUME NEW v \in Users  PROVE SameSlots(v)
    <2>1. ASSUME NEW o \in Operations
          PROVE  SlotsKey(v, o) \in Keys /\ SlotsKey(v, o) # TemplateKey(u, t)
      BY KeyFacts DEF Keys
    <2>. QED
      BY <2>1 DEF SameSlots, Done
  <1>3. ASSUME NEW v \in Users, NEW n \in Templates, v # u \/ n # t
        PROVE  SameTemplate(v, n)
    <2>1. TemplateKey(v, n) \in Keys /\ TemplateKey(v, n) # TemplateKey(u, t)
      BY <1>3, KeyFacts DEF Keys
    <2>2. <<v, n>> # <<u, t>>
      BY <1>3
    <2>3. Recorded(u, t, paid)
      BY RecordFacts
    <2>. QED
      BY <2>1, <2>2, <2>3 DEF SameTemplate, Recorded
  <1>4. Paid'
    <2> SUFFICES ASSUME NEW v \in Users, Stays(v)'
                 PROVE  PaidSlots(v)' /\ \A n \in Templates : PaidTemplate(v, n)'
      BY DEF Paid
    <2>1. Stays(v)
      BY DEF Stays
    <2>2. PaidSlots(v)'
      BY <1>2, <2>1, SlotsStay DEF IInv, Paid
    <2>3. ASSUME NEW n \in Templates  PROVE PaidTemplate(v, n)'
      <3>1. CASE v = u /\ n = t
        BY <2>1, <3>1
      <3>2. CASE v # u \/ n # t
        BY <1>3, <2>1, <3>2, TemplateStays DEF IInv, Paid
      <3>. QED
        BY <3>1, <3>2
    <2>. QED
      BY <2>2, <2>3
  <1>5. GrantedOnce'
    BY DEF IInv, GrantedOnce
  <1>. QED
    BY <1>1, <1>4, <1>5, RecordCounts

\* The request is answered, or goes on with the templates that are left.
LEMMA AnswerFacts ==
    ASSUME IInv, Kept, NEW r \in Requests,
           \/ requests' = [requests EXCEPT ![r] = NoRequest]
           \/ /\ requests[r].call = "acquire"
              /\ \E ts \in SUBSET requests[r].templates :
                    requests' = [requests EXCEPT ![r] = [requests[r] EXCEPT !.templates = ts]]
    PROVE  requests' \in [Requests -> Request] /\ Carried'
  <1>1. CASE requests' = [requests EXCEPT ![r] = NoRequest]
    <2>1. requests' \in [Requests -> Request]
      BY <1>1, NoRequestFacts DEF IInv, TypeOK
    <2>2. Carries(NoRequest)'
      BY DEF Carries, NoRequest
    <2>3. \A q \in Requests : requests'[q] = requests[q] \/ requests'[q] = NoRequest
      BY <1>1 DEF IInv, TypeOK
    <2>4. \A q \in Requests : requests'[q] = requests[q] \/ Carries(requests[q])'
      BY <2>3 DEF Carries, NoRequest
    <2>. QED
      BY <2>1, <2>4, CarriedStays DEF IInv, TypeOK
  <1>2. CASE /\ requests[r].call = "acquire"
             /\ \E ts \in SUBSET requests[r].templates :
                   requests' = [requests EXCEPT ![r] = [requests[r] EXCEPT !.templates = ts]]
    <2>1. PICK ts \in SUBSET requests[r].templates :
                   requests' = [requests EXCEPT ![r] = [requests[r] EXCEPT !.templates = ts]]
      BY <1>2
    <2> DEFINE req == [requests[r] EXCEPT !.templates = ts]
    <2>2. /\ requests[r] \in Request /\ requests \in [Requests -> Request]
          /\ Carries(requests[r])
      BY DEF IInv, TypeOK, Carried
    <2>3. req \in Request /\ req.call = "acquire" /\ req.user = requests[r].user
          /\ req.templates = ts
      BY <1>2, <2>2 DEF Request
    <2>4. /\ requests' \in [Requests -> Request]
          /\ \A q \in Requests : q # r => requests'[q] = requests[q]
          /\ requests'[r] = req
      BY <2>1, <2>2, <2>3
    <2> HIDE DEF req
    <2>5. requests[r].templates \subseteq Templates
      BY <2>2 DEF Request
    <2>6. \A v : Stays(v)' => Stays(v)
      BY DEF Kept, Stays
    <2>7. Carries(requests[r])'
      BY <1>2, <2>2, <2>3, <2>4, <2>5, <2>6 DEF Carries, Kept
    <2>8. \A q \in Requests : requests'[q] = requests[q] \/ Carries(requests[q])'
      BY <2>4, <2>7
    <2>. QED
      BY <2>2, <2>4, <2>8, CarriedStays DEF IInv
  <1>. QED
    BY <1>1, <1>2

\* A free template, or one that is owned: it was free, or the record is there.
LEMMA AcquireStep ==
    ASSUME IInv, NEW r \in Requests, store_acquire(r)
    PROVE  IInv'
  <1>u. PICK u \in Users : u = requests[r].user
    BY DEF IInv, Carried, Carries, store_acquire
  <1>1. requests[r] \in Request /\ requests[r].call = "acquire" /\ Carries(requests[r])
    BY DEF IInv, TypeOK, Carried, store_acquire
  <1>2. PICK t \in requests[r].templates :
            /\ Record(u, t, 0)
            /\ requests' = [requests EXCEPT ![r] =
                              IF requests[r].templates = {t} THEN NoRequest
                              ELSE [requests[r] EXCEPT !.templates = @ \ {t}]]
    BY <1>u DEF store_acquire
  <1>3. t \in Templates /\ Recorded(u, t, 0)
    <2>1. t \in Templates
      BY <1>1 DEF Request
    <2>. QED
      BY <1>2, <2>1, RecordFacts
  <1>4. UNCHANGED <<money, account, version, operations, granted, received, deletion>>
    BY DEF store_acquire
  <1>5. ASSUME Stays(u)  PROVE PaidTemplate(u, t)'
    <2>1. PaidTemplate(u, t)
      BY <1>1, <1>3, <1>5 DEF IInv, Paid
    <2>2. t \in wasFree \/ <<u, t>> \in DOMAIN acquisitions
      BY <1>u, <1>1, <1>5 DEF Carries
    <2>. QED
      BY <1>3, <1>4, <2>1, <2>2 DEF PaidTemplate, money, version, Recorded
  <1>6. Kept /\ FirstsAreCounted' /\ Paid' /\ GrantedOnce'
    <2>1. /\ UNCHANGED <<slots, operations, granted, deletion, wasFree>>
          /\ UNCHANGED ledger
      BY <1>4 DEF money, account, version
    <2>. QED
      BY <1>2, <1>3, <1>5, <2>1, RecordStep
  <1>7. requests' \in [Requests -> Request] /\ Carried'
    <2>1. requests[r].templates \ {t} \in SUBSET requests[r].templates
      OBVIOUS
    <2>. QED
      BY <1>1, <1>2, <1>6, <2>1, AnswerFacts
  <1>8. TypeOK'
    <2>1. /\ DOMAIN acquisitions' \subseteq Users \X Templates
          /\ acquisitions' \in [DOMAIN acquisitions' -> Prices \cup {0}]
          /\ counts' \in [Templates -> Nat]
          /\ firsts' \in [Templates -> SUBSET Users]
      BY <1>3 DEF IInv, TypeOK, Recorded
    <2>. QED
      BY <1>4, <1>7, <2>1 DEF IInv, TypeOK, money, account, version
  <1>9. FreeIsKnown'
    BY <1>4 DEF IInv, FreeIsKnown, version
  <1>. QED
    BY <1>6, <1>7, <1>8, <1>9 DEF IInv

\* A template that is bought: who has none pays what the record says.
LEMMA PurchaseStep ==
    ASSUME IInv, NEW r \in Requests, store_purchase(r)
    PROVE  IInv'
  <1>u. PICK u \in Users : u = requests[r].user
    BY DEF IInv, Carried, Carries, store_purchase
  <1>1. requests[r] \in Request /\ requests[r].call = "purchase" /\ Carries(requests[r])
    BY DEF IInv, TypeOK, Carried, store_purchase
  <1>p. PICK paid \in Prices \cup {0} : paid = requests[r].price
    BY <1>1 DEF Request
  <1>2. PICK t \in requests[r].templates :
            /\ IF <<u, t>> \notin DOMAIN acquisitions /\ paid > 0
               THEN Charge(u, TemplateKey(u, t), paid)
               ELSE UNCHANGED money
            /\ Record(u, t, paid)
    BY <1>u, <1>p DEF store_purchase
  <1>3. /\ t \in Templates /\ paid \in Nat /\ TemplateKey(u, t) \in Keys
        /\ Recorded(u, t, paid)
    <2>1. t \in Templates
      BY <1>1, <1>2 DEF Request
    <2>2. paid \in Nat
      BY PurchasesAssumption
    <2>. QED
      BY <1>2, <2>1, <2>2, RecordFacts DEF Keys
  <1>4. /\ UNCHANGED <<account, version, operations, granted, received, deletion>>
        /\ requests' = [requests EXCEPT ![r] = NoRequest]
    BY DEF store_purchase
  <1>5. /\ balance' \in [Users -> Nat]
        /\ DOMAIN ledger' \subseteq Keys /\ ledger' \in [DOMAIN ledger' -> Nat]
        /\ \A k \in Keys : k # TemplateKey(u, t) =>
               /\ k \in DOMAIN ledger' <=> k \in DOMAIN ledger
               /\ k \in DOMAIN ledger => ledger'[k] = ledger[k]
    <2>1. CASE <<u, t>> \notin DOMAIN acquisitions /\ paid > 0
      <3>1. Charged(TemplateKey(u, t), paid)
        BY <1>2, <1>3, <2>1, ChargeFacts DEF IInv
      <3>. QED
        BY <3>1 DEF Charged
    <2>2. CASE ~(<<u, t>> \notin DOMAIN acquisitions /\ paid > 0)
      BY <1>2, <2>2 DEF IInv, TypeOK, money
    <2>. QED
      BY <2>1, <2>2
  <1>6. ASSUME Stays(u)  PROVE PaidTemplate(u, t)'
    <2>1. PaidTemplate(u, t)
      BY <1>1, <1>3, <1>6 DEF IInv, Paid
    <2>2. CASE <<u, t>> \in DOMAIN acquisitions
      <3>1. UNCHANGED money /\ UNCHANGED wasFree
        BY <1>2, <1>4, <2>2 DEF version
      <3>. QED
        BY <1>3, <2>1, <2>2, <3>1 DEF PaidTemplate, money, Recorded
    <2>3. CASE <<u, t>> \notin DOMAIN acquisitions /\ paid > 0
      <3>1. TemplateKey(u, t) \notin DOMAIN ledger
        BY <2>1, <2>3 DEF PaidTemplate
      <3>2. Charged(TemplateKey(u, t), paid)
        BY <1>2, <1>3, <2>3, ChargeFacts DEF IInv
      <3>. QED
        BY <1>3, <2>3, <3>1, <3>2 DEF PaidTemplate, Charged, Recorded
    <2>4. CASE <<u, t>> \notin DOMAIN acquisitions /\ ~(paid > 0)
      <3>1. paid = 0 /\ t \in wasFree
        BY <1>p, <1>1, <1>3, <2>4 DEF Carries
      <3>2. UNCHANGED money /\ UNCHANGED wasFree
        BY <1>2, <1>4, <2>4 DEF version
      <3>. QED
        BY <1>3, <2>1, <2>4, <3>1, <3>2 DEF PaidTemplate, money, Recorded
    <2>. QED
      BY <2>2, <2>3, <2>4
  <1>7. Kept /\ FirstsAreCounted' /\ Paid' /\ GrantedOnce'
    <2>1. UNCHANGED <<slots, operations, granted, deletion, wasFree>>
      BY <1>4 DEF account, version
    <2>. QED
      BY <1>2, <1>3, <1>5, <1>6, <2>1, RecordStep
  <1>8. requests' \in [Requests -> Request] /\ Carried'
    BY <1>4, <1>7, AnswerFacts
  <1>9. TypeOK'
    <2>1. /\ DOMAIN acquisitions' \subseteq Users \X Templates
          /\ acquisitions' \in [DOMAIN acquisitions' -> Prices \cup {0}]
          /\ counts' \in [Templates -> Nat]
          /\ firsts' \in [Templates -> SUBSET Users]
      BY <1>3 DEF IInv, TypeOK, Recorded
    <2>. QED
      BY <1>4, <1>5, <1>8, <2>1 DEF IInv, TypeOK, account, version
  <1>10. FreeIsKnown'
    BY <1>4 DEF IInv, FreeIsKnown, version
  <1>. QED
    BY <1>7, <1>8, <1>9, <1>10 DEF IInv

\* A pack of slots: an operation that has no record has no entry either.
LEMMA SlotsStep ==
    ASSUME IInv, NEW r \in Requests, store_purchase_slots(r)
    PROVE  IInv'
  <1>u. PICK u \in Users, o \in Operations : u = requests[r].user /\ o = requests[r].operation
    BY DEF IInv, Carried, Carries, store_purchase_slots
  <1>1. /\ UNCHANGED <<version, acquisitions, counts, firsts, received, deletion>>
        /\ requests' = [requests EXCEPT ![r] = NoRequest]
    BY DEF store_purchase_slots
  <1>2. Kept
    BY <1>1 DEF Kept, version
  <1>3. requests' \in [Requests -> Request] /\ Carried'
    BY <1>1, <1>2, AnswerFacts
  <1>4. FreeIsKnown'
    BY <1>1 DEF IInv, FreeIsKnown, version
  <1>5. CASE UNCHANGED <<money, account, operations, granted>>
    <2>1. Kept /\ FirstsAreCounted' /\ Paid' /\ GrantedOnce'
      BY <1>1, <1>5, NothingBought DEF money, account, version, shop
    <2>2. TypeOK'
      BY <1>1, <1>3, <1>5 DEF IInv, TypeOK, money, account, version
    <2>. QED
      BY <1>3, <1>4, <2>1, <2>2 DEF IInv
  <1>6. CASE /\ unknown(u, o)
             /\ Charge(u, SlotsKey(u, o), Cost)
             /\ slots' = [slots EXCEPT ![u] = @ + Delta]
             /\ users' = users \cup {u}
             /\ operations' = Put(operations, <<u, o>>, u)
             /\ granted' = [granted EXCEPT ![<<u, o>>] = @ + 1]
             /\ UNCHANGED signedIn
    <2>1. SlotsKey(u, o) \in Keys
      BY DEF Keys
    <2> DEFINE key == SlotsKey(u, o)
    <2>2. /\ balance' \in [Users -> Nat]
          /\ DOMAIN ledger' = DOMAIN ledger \cup {key}
          /\ \A k \in DOMAIN ledger : ledger'[k] = ledger[k]
          /\ DOMAIN ledger' \subseteq Keys /\ ledger' \in [DOMAIN ledger' -> Nat]
      BY <1>6, <2>1, ChargeFacts, PurchasesAssumption DEF IInv, Charged
    <2>3. /\ DOMAIN operations' = DOMAIN operations \cup {<<u, o>>}
          /\ operations' \in [DOMAIN operations' -> Users \cup {DELETED_OWNER}]
      BY <1>6 DEF IInv, TypeOK, Put
    <2>4. TypeOK'
      <3>1. slots' \in [Users -> Nat]
        BY <1>6, PurchasesAssumption DEF IInv, TypeOK
      <3>2. granted' \in [Users \X Operations -> Nat]
        BY <1>6 DEF IInv, TypeOK
      <3>3. users' \subseteq Users /\ DOMAIN operations' \subseteq Users \X Operations
        BY <1>6, <2>3 DEF IInv, TypeOK
      <3>. QED
        BY <1>1, <1>3, <1>6, <2>2, <2>3, <3>1, <3>2, <3>3 DEF IInv, TypeOK, version
    <2>5. FirstsAreCounted'
      BY <1>1, <1>2, CountsStay DEF IInv, TypeOK
    <2>6. GrantedOnce'
      BY <1>6, <2>3 DEF IInv, TypeOK, GrantedOnce, unknown
    <2>7. ASSUME NEW v \in Users, NEW t \in Templates  PROVE SameTemplate(v, t)
      BY <1>1, <2>2, KeyFacts DEF SameTemplate
    <2>8. ASSUME NEW v \in Users, v # u  PROVE SameSlots(v)
      <3>1. slots'[v] = slots[v]
        BY <1>6, <2>8 DEF IInv, TypeOK
      <3>2. \A q : SlotsKey(v, q) # key /\ <<v, q>> # <<u, o>>
        BY <2>8, KeyFacts
      <3>. QED
        BY <2>2, <2>3, <3>1, <3>2 DEF SameSlots, Done
    <2>9. ASSUME Stays(u)  PROVE PaidSlots(u)'
      <3>1. PaidSlots(u)
        BY <2>9 DEF IInv, Paid
      <3>2. o \notin Done(u)
        BY <1>6 DEF unknown, Done
      <3>3. Done(u)' = Done(u) \cup {o}
        BY <2>3 DEF Done
      <3>4. /\ IsFiniteSet(Done(u)') /\ Cardinality(Done(u)) \in Nat
            /\ Cardinality(Done(u)') = Cardinality(Done(u)) + 1
        BY <3>1, <3>2, <3>3, FS_AddElement, FS_CardinalityType DEF PaidSlots
      <3>5. slots'[u] = Delta * Cardinality(Done(u)')
        <4>1. slots'[u] = Delta * Cardinality(Done(u)) + Delta
          BY <1>6, <3>1 DEF IInv, TypeOK, PaidSlots
        <4>2. \A n \in Nat : Delta * (n + 1) = Delta * n + Delta
          BY PurchasesAssumption
        <4>. QED
          BY <3>4, <4>1, <4>2
      <3>6. \A q \in Operations : q \in Done(u)' <=> SlotsKey(u, q) \in DOMAIN ledger'
        BY <2>2, <3>1, <3>3, KeyFacts DEF PaidSlots
      <3>. QED
        BY <3>4, <3>5, <3>6 DEF PaidSlots
    <2>10. Paid'
      <3> SUFFICES ASSUME NEW v \in Users, Stays(v)'
                   PROVE  PaidSlots(v)' /\ \A t \in Templates : PaidTemplate(v, t)'
        BY DEF Paid
      <3>1. Stays(v)
        BY <1>1 DEF Stays
      <3>2. PaidSlots(v)'
        BY <2>8, <2>9, <3>1, SlotsStay DEF IInv, Paid
      <3>3. wasFree \subseteq wasFree'
        BY <1>2 DEF Kept
      <3>4. \A t \in Templates : PaidTemplate(v, t)'
        BY <2>7, <3>1, <3>3, TemplateStays DEF IInv, Paid
      <3>. QED
        BY <3>2, <3>4
    <2>. QED
      BY <1>3, <1>4, <2>4, <2>5, <2>6, <2>10 DEF IInv
  <1>. QED
    BY <1>u, <1>5, <1>6 DEF store_purchase_slots

----------------------------------------------------------------------------
(***************************************************************************)
(* The deletion of an account takes away what was its user's, who does not *)
(* stay.                                                                   *)
(***************************************************************************)

\* A step of the deletion of u: the documents of others are what they were.
Takes(u) ==
    /\ DOMAIN deletion' = DOMAIN deletion \cup {u}
    /\ DOMAIN acquisitions' \subseteq DOMAIN acquisitions
    /\ DOMAIN operations' = DOMAIN operations
    /\ UNCHANGED <<counts, granted, firsts, version, requests, received>>
    /\ \A v \in Users : v # u =>
          /\ slots'[v] = slots[v]
          /\ \A t \in Templates : SameTemplate(v, t)
          /\ \A o \in Operations :
                SlotsKey(v, o) \in DOMAIN ledger' <=> SlotsKey(v, o) \in DOMAIN ledger

LEMMA TakesStep ==
    ASSUME IInv, NEW u \in Users, Takes(u), TypeOK'
    PROVE  IInv'
  <1>1. \A v : Stays(v)' => v # u /\ Stays(v)
    BY DEF Stays, Takes
  <1>2. Kept
    BY <1>1 DEF Kept, Takes, SameTemplate, version
  <1>3. FirstsAreCounted'
    BY <1>2, CountsStay DEF Takes, IInv, TypeOK
  <1>4. ASSUME NEW v \in Users, Stays(v)'
        PROVE  SameSlots(v) /\ \A t \in Templates : SameTemplate(v, t)
    BY <1>1, <1>4 DEF Takes, SameSlots, Done
  <1>5. Paid'
    BY <1>2, <1>4, PaidStays DEF IInv
  <1>6. Carried'
    BY <1>2, CarriedStays DEF IInv, TypeOK, Takes
  <1>7. FreeIsKnown' /\ GrantedOnce'
    BY DEF IInv, FreeIsKnown, GrantedOnce, Takes, version
  <1>. QED
    BY <1>3, <1>5, <1>6, <1>7 DEF IInv

\* The place of a deletion changes, and nothing else of it.
LEMMA ThenFacts ==
    ASSUME TypeOK, NEW u \in Users, NEW step \in Steps, Then(u, step)
    PROVE  /\ DOMAIN deletion' = DOMAIN deletion \cup {u}
           /\ DOMAIN deletion' \subseteq Users
           /\ deletion' \in [DOMAIN deletion' -> Steps]
  BY DEF TypeOK, Then, Put

LEMMA DeleteStep ==
    ASSUME IInv, NEW u \in Users, Deletes(u)
    PROVE  IInv'
  <1> USE DEF money, account, version, shop
  <1>t. TypeOK
    BY DEF IInv
  <1>1. ASSUME NEW step \in Steps, Then(u, step),
               UNCHANGED <<shop, money, account, version, requests, received>>
        PROVE  IInv'
    <2>1. TypeOK'
      BY <1>t, <1>1, ThenFacts DEF TypeOK
    <2>2. Takes(u)
      BY <1>t, <1>1, ThenFacts DEF Takes, SameTemplate
    <2>. QED
      BY <2>1, <2>2, TakesStep
  <1>2. CASE anonymize_claims(u)
    <2>1. /\ DOMAIN operations' = DOMAIN operations
          /\ operations' \in [DOMAIN operations' -> Users \cup {DELETED_OWNER}]
      BY <1>t, <1>2 DEF TypeOK, anonymize_claims, operations_anonymized
    <2>2. Then(u, "delete_user") /\ "delete_user" \in Steps
      BY <1>2 DEF anonymize_claims, Steps
    <2>3. UNCHANGED <<acquisitions, counts, granted, firsts, money, account, version, requests,
                      received>>
      BY <1>2 DEF anonymize_claims
    <2>4. TypeOK'
      BY <1>t, <2>1, <2>2, <2>3, ThenFacts DEF TypeOK
    <2>5. Takes(u)
      BY <1>t, <2>1, <2>2, <2>3, ThenFacts DEF Takes, SameTemplate
    <2>. QED
      BY <2>4, <2>5, TakesStep
  <1>3. CASE delete_user(u)
    <2>1. Then(u, "delete_wallet") /\ "delete_wallet" \in Steps
      BY <1>3 DEF delete_user, Steps
    <2>2. /\ users' \subseteq Users /\ slots' \in [Users -> Nat]
          /\ \A v \in Users : v # u => slots'[v] = slots[v]
      BY <1>t, <1>3 DEF TypeOK, delete_user
    <2>3. UNCHANGED <<shop, money, signedIn, version, requests, received>>
      BY <1>3 DEF delete_user
    <2>4. TypeOK'
      BY <1>t, <2>1, <2>2, <2>3, ThenFacts DEF TypeOK
    <2>5. Takes(u)
      BY <1>t, <2>1, <2>2, <2>3, ThenFacts DEF Takes, SameTemplate
    <2>. QED
      BY <2>4, <2>5, TakesStep
  <1>4. CASE delete_wallet(u)
    <2>1. Then(u, "delete_sessions") /\ "delete_sessions" \in Steps
      BY <1>4 DEF delete_wallet, Steps
    <2>2. balance' \in [Users -> Nat]
      BY <1>t, <1>4 DEF TypeOK, delete_wallet
    <2>3. UNCHANGED <<shop, ledger, account, version, requests, received>>
      BY <1>4 DEF delete_wallet
    <2>4. TypeOK'
      BY <1>t, <2>1, <2>2, <2>3, ThenFacts DEF TypeOK
    <2>5. Takes(u)
      BY <1>t, <2>1, <2>3, ThenFacts DEF Takes, SameTemplate
    <2>. QED
      BY <2>4, <2>5, TakesStep
  <1>5. CASE delete_sessions(u)
    <2>1. Then(u, "delete_ledger") /\ "delete_ledger" \in Steps
      BY <1>5 DEF delete_sessions, Steps
    <2>2. signedIn' \subseteq Users
      BY <1>t, <1>5 DEF TypeOK, delete_sessions, sessions_deleted
    <2>3. UNCHANGED <<shop, money, users, slots, version, requests, received>>
      BY <1>5 DEF delete_sessions
    <2>4. TypeOK'
      BY <1>t, <2>1, <2>2, <2>3, ThenFacts DEF TypeOK
    <2>5. Takes(u)
      BY <1>t, <2>1, <2>3, ThenFacts DEF Takes, SameTemplate
    <2>. QED
      BY <2>4, <2>5, TakesStep
  <1>6. CASE delete_ledger(u)
    <2>1. Then(u, "delete_acquisitions") /\ "delete_acquisitions" \in Steps
      BY <1>6 DEF delete_ledger, Steps
    <2>2. /\ DOMAIN ledger' = {k \in DOMAIN ledger : k[1] # u}
          /\ \A k \in DOMAIN ledger : k[1] # u => ledger'[k] = ledger[k]
          /\ ledger' \in [DOMAIN ledger' -> Nat]
      <3>1. ledger' = WithoutUser(ledger, u) /\ ledger \in [DOMAIN ledger -> Nat]
        BY <1>t, <1>6 DEF TypeOK, delete_ledger
      <3>. QED
        BY <3>1, WithoutUserFacts
    <2>3. UNCHANGED <<shop, balance, account, version, requests, received>>
      BY <1>6 DEF delete_ledger
    <2>4. TypeOK'
      BY <1>t, <2>1, <2>2, <2>3, ThenFacts DEF TypeOK
    <2>5. ASSUME NEW v \in Users, v # u
          PROVE  /\ \A t \in Templates : SameTemplate(v, t)
                 /\ \A o \in Operations :
                       SlotsKey(v, o) \in DOMAIN ledger' <=> SlotsKey(v, o) \in DOMAIN ledger
      BY <2>2, <2>3, <2>5, KeyFacts DEF SameTemplate
    <2>6. Takes(u)
      BY <1>t, <2>1, <2>3, <2>5, ThenFacts DEF Takes
    <2>. QED
      BY <2>4, <2>6, TakesStep
  <1>7. CASE delete_acquisitions(u)
    <2>1. Then(u, "done") /\ "done" \in Steps
      BY <1>7 DEF delete_acquisitions, Steps
    <2>2. /\ DOMAIN acquisitions' = {k \in DOMAIN acquisitions : k[1] # u}
          /\ \A k \in DOMAIN acquisitions : k[1] # u => acquisitions'[k] = acquisitions[k]
          /\ acquisitions' \in [DOMAIN acquisitions' -> Prices \cup {0}]
      <3>1. /\ acquisitions' = WithoutUser(acquisitions, u)
            /\ acquisitions \in [DOMAIN acquisitions -> Prices \cup {0}]
        BY <1>t, <1>7 DEF TypeOK, delete_acquisitions
      <3>. QED
        BY <3>1, WithoutUserFacts
    <2>3. UNCHANGED <<counts, operations, granted, firsts, money, account, version, requests,
                      received>>
      BY <1>7 DEF delete_acquisitions
    <2>4. TypeOK'
      BY <1>t, <2>1, <2>2, <2>3, ThenFacts DEF TypeOK
    <2>5. ASSUME NEW v \in Users, v # u, NEW t \in Templates  PROVE SameTemplate(v, t)
      BY <2>2, <2>3, <2>5 DEF SameTemplate
    <2>6. Takes(u)
      BY <1>t, <2>1, <2>2, <2>3, <2>5, ThenFacts DEF Takes
    <2>. QED
      BY <2>4, <2>6, TakesStep
  <1>8. CASE delete_account(u) \/ deletion_fails(u)
    BY <1>1, <1>8 DEF delete_account, deletion_fails, Steps
  <1>. QED
    BY <1>2, <1>3, <1>4, <1>5, <1>6, <1>7, <1>8 DEF Deletes

----------------------------------------------------------------------------
(***************************************************************************)
(* The theorems                                                            *)
(***************************************************************************)

LEMMA NextIInv == IInv /\ [Next]_vars => IInv'
  <1> SUFFICES ASSUME IInv, [Next]_vars  PROVE IInv'
    OBVIOUS
  <1>1. CASE UNCHANGED vars
    <2>1. UNCHANGED <<shop, money, account, version, requests, received, deletion>>
      BY <1>1 DEF vars
    <2>2. TypeOK'
      BY <2>1 DEF IInv, TypeOK, shop, money, account, version
    <2>3. Kept /\ FirstsAreCounted' /\ Paid' /\ GrantedOnce'
      BY <2>1, NothingBought DEF money, account, version
    <2>4. Carried' /\ FreeIsKnown'
      BY <2>1, <2>3, CarriedStays DEF IInv, TypeOK, FreeIsKnown, version
    <2>. QED
      BY <2>2, <2>3, <2>4 DEF IInv
  <1>2. ASSUME NEW r \in Requests, NEW u \in Users, Arrives(r, u)  PROVE IInv'
    BY <1>2, ArriveStep
  <1>3. ASSUME NEW r \in Requests,
               store_acquire(r) \/ store_purchase(r) \/ store_purchase_slots(r) \/ fails(r)
        PROVE  IInv'
    BY <1>3, AcquireStep, PurchaseStep, SlotsStep, FailStep
  <1>4. ASSUME NEW t \in Templates, NEW p \in Prices, deploy(t, p)  PROVE IInv'
    BY <1>4, DeployStep
  <1>5. ASSUME NEW u \in Users, Deletes(u)  PROVE IInv'
    BY <1>5, DeleteStep
  <1>. QED
    BY <1>1, <1>2, <1>3, <1>4, <1>5 DEF Next

THEOREM SpecIInv == Spec => []IInv
  BY InitIInv, NextIInv, PTL DEF Spec

\* Every variable has its type; no wallet is below zero.
THEOREM SpecTypeOK == Spec => []TypeOK
  <1>1. IInv => TypeOK
    BY DEF IInv
  <1>. QED
    BY <1>1, SpecIInv, PTL

\* Templates are paid once, what the record says, or were given away.
THEOREM SpecTemplatesArePaid == Spec => []TemplatesArePaid
  <1>1. IInv => TemplatesArePaid
    <2> SUFFICES ASSUME IInv, NEW u \in Users, NEW t \in Templates, Stays(u)
                 PROVE  balance[u] >= 0 /\ PaidTemplate(u, t)
      BY DEF TemplatesArePaid, PaidTemplate
    <2>. QED
      BY DEF IInv, TypeOK, Paid
  <1>. QED
    BY <1>1, SpecIInv, PTL

\* The public counts of templates count first acquisitions.
THEOREM SpecCountsAreFirstAcquisitions == Spec => []CountsAreFirstAcquisitions
  <1>1. IInv => CountsAreFirstAcquisitions
    <2> SUFFICES ASSUME IInv, NEW t \in Templates
                 PROVE  LET had == {u \in Users : <<u, t>> \in DOMAIN acquisitions} IN
                        /\ counts[t] >= Cardinality(had)
                        /\ (\A u \in firsts[t] : Stays(u)) => counts[t] = Cardinality(firsts[t])
      BY DEF CountsAreFirstAcquisitions
    <2> DEFINE had == {u \in Users : <<u, t>> \in DOMAIN acquisitions}
    <2>1. Counted(t) /\ counts[t] \in Nat
      BY DEF IInv, TypeOK, FirstsAreCounted
    <2>2. had \subseteq firsts[t]
      BY <2>1 DEF Counted
    <2>3. /\ Cardinality(had) \in Nat /\ Cardinality(firsts[t]) \in Nat
          /\ Cardinality(had) <= Cardinality(firsts[t])
      BY <2>1, <2>2, FS_Subset, FS_CardinalityType DEF Counted
    <2>. QED
      BY <2>1, <2>3 DEF Counted
  <1>. QED
    BY <1>1, SpecIInv, PTL

\* Slots are paid once for each operation, and given once for good.
THEOREM SpecSlotsArePaid == Spec => []SlotsArePaid
  <1>1. IInv => SlotsArePaid
    <2> SUFFICES ASSUME IInv  PROVE SlotsArePaid
      OBVIOUS
    <2>1. \A u \in Users : Stays(u) => PaidSlots(u)
      BY DEF IInv, Paid
    <2>2. \A k \in Users \X Operations : granted[k] <= 1
      BY DEF IInv, GrantedOnce
    <2>. QED
      BY <2>1, <2>2 DEF SlotsArePaid, PaidSlots, Done
  <1>. QED
    BY <1>1, SpecIInv, PTL

=============================================================================
