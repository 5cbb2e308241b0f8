---------------------------- MODULE MC_KeyCalls ----------------------------
(* Instances of KeyCalls: labels that differ. *)
EXTENDS KeyCalls

Distinct(v) == v + 1
=============================================================================
