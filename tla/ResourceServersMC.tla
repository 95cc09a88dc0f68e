------------------------- MODULE ResourceServersMC -------------------------
(* Symmetries for model checking ResourceServers.                          *)
EXTENDS ResourceServers, TLC

Interchangeable == Permutations(ApiToken)
============================================================================
