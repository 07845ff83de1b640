-------------------------- MODULE MCSubscriptions --------------------------
(* Instances of Subscriptions for TLC; MCSpec bounds what the clients do.  *)
EXTENDS Subscriptions, TLC

CONSTANTS alice, bob, c1, c2, Budget

VARIABLE spent
mcVars == <<vars, spent>>

OwnDevices == (c1 :> {alice}) @@ (c2 :> {bob})
SharedDevices == [c \in Conns |-> Users]

ClientActs == \/ valid' # valid
              \/ \E c \in Conns : \/ Len(inbox'[c]) > Len(inbox[c])
                                  \/ job[c] = None /\ job'[c] # None

MCInit == Init /\ spent = 0
MCNext == /\ Next
          /\ spent' = IF ClientActs THEN spent + 1 ELSE spent
          /\ spent' <= Budget
MCSpec == MCInit /\ [][MCNext]_mcVars

\* Sessions are alike; so are users and, where devices are shared, connections.
Symmetric == Permutations(Ids)
SymmetricShared == {p @@ q @@ r : p \in Symmetric, q \in Permutations(Users),
                                  r \in Permutations(Conns)}
=============================================================================
