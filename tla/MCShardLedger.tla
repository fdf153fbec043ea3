--------------------------- MODULE MCShardLedger ---------------------------
(***************************************************************************)
(* A small instance of ShardLedger for TLC: an account and a guest, a day  *)
(* with a limit of one rewarded ad and two ads of that day, one purchase   *)
(* of three shards that Apple refunds in full, by half or by a thousandth  *)
(* of a percent, and one thing to pay for.  The account and the guest are  *)
(* interchangeable: no action tells them apart.                            *)
(***************************************************************************)
EXTENDS ShardLedger, TLC

CONSTANTS u1, u2, d1, a1, a2, t1, o1

MCUsers == {u1, u2}
MCDays == {d1}
MCAds == {a1, a2}
MCRewardDay == a1 :> d1 @@ a2 :> d1
MCTxns == {t1}
MCAmount == t1 :> 3
MCOrders == {o1}
\* 0.001 %, 50 % and 100 %.
MCPercentages == {1, 50000, 100000}

Symmetry == Permutations(MCUsers)

=============================================================================
