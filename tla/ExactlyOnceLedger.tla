------------------------- MODULE ExactlyOnceLedger -------------------------
(***************************************************************************)
(* What the order ledger promises, without rows, brokers, threads or       *)
(* crashes: cumulative fills of an order are reported, only ever upwards,  *)
(* and the shares reported since the last time are credited to the         *)
(* position of its symbol in one step, each share once.                    *)
(***************************************************************************)
EXTENDS Integers

CONSTANTS Orders, Symbols, Side, Symbol, Qty, InitialQty

VARIABLES
    reported,   \* cumulative fill reported of an order
    credited,   \* how much of it the position has
    position    \* shares per symbol

vars == <<reported, credited, position>>

Init ==
    /\ reported = [o \in Orders |-> 0]
    /\ credited = [o \in Orders |-> 0]
    /\ position = InitialQty

Report(o) ==
    /\ \E n \in (reported[o] + 1)..Qty[o] : reported' = [reported EXCEPT ![o] = n]
    /\ UNCHANGED <<credited, position>>

Credit(o) ==
    LET delta == reported[o] - credited[o] IN
    /\ delta > 0
    /\ credited' = [credited EXCEPT ![o] = reported[o]]
    /\ position' = [position EXCEPT ![Symbol[o]] =
                       IF Side[o] = "BUY" THEN @ + delta ELSE @ - delta]
    /\ UNCHANGED reported

Next == \E o \in Orders : Report(o) \/ Credit(o)

Spec == Init /\ [][Next]_vars

\* Every reported fill is credited in the end.
FairSpec == Spec /\ \A o \in Orders : WF_vars(Credit(o))
=============================================================================
