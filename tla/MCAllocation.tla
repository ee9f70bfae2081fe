---------------------------- MODULE MCAllocation ----------------------------
(* Instance of Allocation for TLC: two symbols, the scheduler's run.        *)
EXTENDS Allocation

CONSTANTS a, b

Order == <<a, b>>
=============================================================================
