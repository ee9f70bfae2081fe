-------------------------- MODULE MCManagedCapital --------------------------
(* Instance of ManagedCapital for TLC: a BUY of two shares and a BUY of one  *)
(* share, each affordable alone, and a SELL of one share of the first        *)
(* symbol. In ManagedCapital.cfg cash and budget do not cover both BUYs; in  *)
(* BudgetRace.cfg the cash does and the budget does not. Scale is odd, so    *)
(* that shares bought at the two prices have an average that is not whole.   *)
EXTENDS ManagedCapital, TLC

CONSTANTS b1, b2, s1, TQQQ, SOXL

MCSymbol == (b1 :> TQQQ) @@ (b2 :> SOXL) @@ (s1 :> TQQQ)
MCQty == (b1 :> 2) @@ (b2 :> 1) @@ (s1 :> 1)
MCLimit == (b1 :> 2) @@ (b2 :> 2) @@ (s1 :> 1)
MCClose == (TQQQ :> 2) @@ (SOXL :> 2)
=============================================================================
