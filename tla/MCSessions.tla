----------------------------- MODULE MCSessions -----------------------------
(* Instances of Sessions for TLC.                                          *)
EXTENDS Sessions, TLC

CONSTANTS alice, bob, c1, c2

\* Two devices of one person, who has two accounts.
SharedAccounts == [c \in Conns |-> Users]

Symmetric == Permutations(Users) \cup Permutations(Conns) \cup Permutations(Ids)
=============================================================================
