----------------------------- MODULE WebAuthnMC -----------------------------
(* Symmetries for model checking WebAuthn.                                 *)
EXTENDS WebAuthn, TLC

Interchangeable == Permutations(Session) \cup Permutations(User) \cup Permutations(Challenge)
============================================================================
