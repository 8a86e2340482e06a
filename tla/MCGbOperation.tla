---------------------------- MODULE MCGbOperation ----------------------------
(* Operations and requests on small instances.                             *)
EXTENDS GbOperation, TLC

Symmetric == Permutations(Ops) \cup Permutations(Senders) \cup Permutations(Resps)
=============================================================================
