------------------------ MODULE MCShardTransactions ------------------------
(***************************************************************************)
(* A small instance of ShardTransactions: four invocations that choose     *)
(* among the purchase of a transaction by its owner and by somebody else,  *)
(* its refund and the reversal, two ads on a day that pays one, a debit    *)
(* that competes with them for the balance and the takeover of the wallet. *)
(***************************************************************************)
EXTENDS ShardTransactions, TLC

CONSTANTS u1, u2, d1, a1, a2, t1, o1, h1, h2, h3, h4

MCUsers == {u1, u2}
MCDays == {d1}
MCAds == {a1, a2}
MCRewardDay == a1 :> d1 @@ a2 :> d1
MCTxns == {t1}
MCAmount == t1 :> 3
MCOrders == {o1}
MCPercentages == {50000, 100000}
MCHandlers == {h1, h2, h3, h4}

Ask(op, user, event, amount) == [op |-> op, user |-> user, event |-> event, amount |-> amount]

MCRequests ==
    {Ask("attendance", u1, d1, 0), Ask("ad", u1, a1, 0), Ask("ad", u1, a2, 0),
     Ask("iap", u1, t1, 0), Ask("iap", u2, t1, 0),
     Ask("debit", u1, o1, 2),
     Ask("refund", u1, t1, 100000), Ask("reverse", u1, t1, 0),
     Ask("guest_claim", u1, u2, 0)}

Symmetry == Permutations(MCHandlers)

=============================================================================
