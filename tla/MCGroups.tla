------------------------------ MODULE MCGroups ------------------------------
(* Instances of Groups for TLC.  MCSpec bounds what the clients do between *)
(* them: dialling, dropping the line, logging in, making a group request.  *)
EXTENDS Groups, TLC

CONSTANTS alice, bob, c1, c2, Budget

VARIABLE spent
mcVars == <<vars, spent>>

\* A device per user.
OwnDevices == (c1 :> {alice}) @@ (c2 :> {bob})
SharedDevices == [c \in Conns |-> Users]

ClientActs == \/ valid' # valid
              \/ \E c \in Conns : \/ Len(inbox'[c]) > Len(inbox[c])
                                  \/ job[c] = None /\ job'[c] # None

MCInit == Init /\ spent = 0
MCNext == /\ Next
          /\ spent' = IF ClientActs THEN spent + 1 ELSE spent
          /\ spent' <= Budget
MCSpec == MCInit /\ [][MCNext]_mcVars

\* Without the bound, for liveness: the clients never have to fall silent.
MCFair == MCInit /\ [][Next /\ UNCHANGED spent]_mcVars
            /\ WF_mcVars(GroupTimer /\ History /\ UNCHANGED spent)

\* The two devices are alike, so are objects and sessions.
Swap == (alice :> bob) @@ (bob :> alice) @@ (c1 :> c2) @@ (c2 :> c1)
Symmetric == {p @@ q : p \in Permutations(Objs), q \in Permutations(Ids)}
SymmetricDevices == Symmetric \cup {p @@ Swap : p \in Symmetric}
=============================================================================
