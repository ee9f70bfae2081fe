--------------------------- MODULE MCOrderLedger ---------------------------
(* OrderLedger for TLC: two orders of one symbol, one handler thread and the *)
(* scheduler, one crash.                                                     *)
EXTENDS OrderLedger, TLC

CONSTANTS buy, sell, s1, w1, sched

MCSide == buy :> "BUY" @@ sell :> "SELL"
MCSymbol == [o \in Orders |-> s1]
MCQty == buy :> 2 @@ sell :> 2
MCInitialQty == s1 :> 2
=============================================================================
