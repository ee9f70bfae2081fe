---------------------------- MODULE MCCoreBuying ----------------------------
(* Instance of CoreBuying for TLC: handlers and approvals are interchangeable. *)
EXTENDS CoreBuying, TLC

Symmetry == Permutations(Handlers) \cup Permutations(Approvals)
=============================================================================
