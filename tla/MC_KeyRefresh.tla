--------------------------- MODULE MC_KeyRefresh ---------------------------
(* Instances of KeyRefresh: labels that differ, and labels that collide.   *)
EXTENDS KeyRefresh

Values == 0 .. MaxGen
Distinct(v) == v + 1
Colliding(v) == 1
=============================================================================
