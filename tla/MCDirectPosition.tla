-------------------------- MODULE MCDirectPosition --------------------------
(* Instance of DirectPosition for TLC: the first leg takes 30 % of a position. *)
EXTENDS DirectPosition

Percent30 == <<3, 10>>
=============================================================================
