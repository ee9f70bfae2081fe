----------------------------- MODULE MCIdleCash -----------------------------
(* Instance of IdleCash for TLC: one signal that takes all the cash. *)
EXTENDS IdleCash

CONSTANT s1

AllOfIt == [s \in Signals |-> 1]
=============================================================================
