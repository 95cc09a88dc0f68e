---------------------------- MODULE OneTimeUse ----------------------------
(***************************************************************************)
(* What every replay defence of the repository promises: a credential      *)
(* (a DPoP proof, a Kerberos authenticator, ...) is accepted at most once. *)
(* How the acceptance is remembered, and for how long, is left to the      *)
(* specifications that implement this one.                                 *)
(***************************************************************************)
EXTENDS Naturals

CONSTANT Credential

VARIABLE uses   \* uses[c] : how many times c has been accepted

Init == uses = [c \in Credential |-> 0]

Accept(c) ==
  /\ uses[c] = 0
  /\ uses' = [uses EXCEPT ![c] = 1]

Next == \E c \in Credential : Accept(c)

Spec == Init /\ [][Next]_uses
============================================================================
