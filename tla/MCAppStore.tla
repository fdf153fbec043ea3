----------------------------- MODULE MCAppStore -----------------------------
(***************************************************************************)
(* A small instance of AppStore for TLC.  A guest has bought t1, which     *)
(* Apple refunds in full, in half, by a percentage out of range or without *)
(* saying how much, and may reverse; an account has bought t2 from another *)
(* bundle, refunded once.  One message is acknowledged although it says    *)
(* nothing, and one is of a type that no handler knows.                    *)
(***************************************************************************)
EXTENDS AppStore, TLC

CONSTANTS guest, account, t1, t2, o1

MCUsers == {guest, account}
MCTxns == {t1, t2}
MCRewardDay == <<>>
MCAmount == t1 :> 2 @@ t2 :> 2
MCToken == t1 :> guest @@ t2 :> account
MCPercentages == {50000, 100000}
\* A full refund, with a percentage that does not count, a half, more than all and an unsaid part.
Full == [type |-> "REFUND_FULL", percentage |-> 50000]
Half == [type |-> "REFUND_PRORATED", percentage |-> 50000]
Over == [type |-> "REFUND_PRORATED", percentage |-> 100001]
Unsaid == [type |-> "REFUND_PRORATED", percentage |-> Missing]

MCRevocations == t1 :> {Full, Half, Over, Unsaid} @@ t2 :> {Full}
MCTurns == t1 :> 2 @@ t2 :> 1
MCOurs == {t1}
MCNotices == {"TEST", "NEW"}

=============================================================================
