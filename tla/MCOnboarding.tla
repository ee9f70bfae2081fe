---------------------------- MODULE MCOnboarding ----------------------------
(* Instances of Onboarding for TLC: the targets in thirds, or in halves.    *)
EXTENDS Onboarding

Halves == <<1, 2>>
Thirds == <<1, 2, 3>>
=============================================================================
