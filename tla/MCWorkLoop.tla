----------------------------- MODULE MCWorkLoop -----------------------------
(* WorkLoop for TLC: small sets come from the configurations. *)
EXTENDS WorkLoop

\* Processes are interchangeable; only safety is checked with it.
AnyProcess == Permutations(Workers)
=============================================================================
