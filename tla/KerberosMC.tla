---------------------------- MODULE KerberosMC ----------------------------
(* Clocks and symmetries for model checking Kerberos.                      *)
EXTENDS Kerberos, TLC

CONSTANTS alice, bob

\* alice's clock is fast, within the skew that the realm tolerates, bob's is exact
\* and carol's slow.
Clocks == [c \in Client |-> CASE c = alice -> 1 [] c = bob -> 0 [] OTHER -> -1]

Preauth == [c \in Client |-> c = alice]

Interchangeable == Permutations(Sequence) \cup Permutations(Service)
============================================================================
