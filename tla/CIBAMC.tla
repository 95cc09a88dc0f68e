------------------------------- MODULE CIBAMC -------------------------------
(* Registrations and symmetries for model checking CIBA.                   *)
EXTENDS CIBA, TLC

CONSTANTS poller, pusher

ModeOf == [c \in Client |-> CASE c = poller -> "poll" [] c = pusher -> "push" [] OTHER -> "ping"]
AllBound == [c \in Client |-> TRUE]

Interchangeable == Permutations(User) \cup Permutations(Certificate) \cup Permutations(RequestId)
============================================================================
