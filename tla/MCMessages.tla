----------------------------- MODULE MCMessages -----------------------------
(* Instances of Messages for TLC; MCSpec bounds what the clients do.       *)
EXTENDS Messages, TLC

CONSTANTS
  alice, bob, carol, c1, c2,
  Events,  \* how often connections come and go and login packets arrive
  Sent,    \* how many messages are sent
  Turns    \* how often somebody follows, turns the channel on or off, or may
           \* send to it again

VARIABLE left  \* what is left of each
mcVars == <<vars, left>>

\* Alice has a device of her own, Bob and Carol share one.
Devices == (c1 :> {alice}) @@ (c2 :> {bob, carol})

Event == \/ valid' # valid
         \/ \E c \in Conns : Len(inbox'[c]) > Len(inbox[c])

Kind == IF Event THEN "events"
        ELSE IF number' # number THEN "sent"
        ELSE IF flagVars' # flagVars /\ UNCHANGED <<pc, job>> THEN "turns" ELSE "free"

MCInit == Init /\ left = [events |-> Events, sent |-> Sent, turns |-> Turns]

\* Of the ticks, only those at which somebody is dead already.
MCNext == /\ Next
          /\ phase = "wait" /\ phase' # "wait" => \E u \in Users : Dead(u)
          /\ IF Kind = "free" THEN UNCHANGED left
             ELSE left[Kind] > 0 /\ left' = [left EXCEPT ![Kind] = @ - 1]
MCSpec == MCInit /\ [][MCNext]_mcVars

\* Sessions are alike, and so are the two on the shared device.
Symmetric == {p @@ q : p \in Permutations(Ids), q \in Permutations({bob, carol})}
=============================================================================
