------------------------------ MODULE Presence ------------------------------
(***************************************************************************)
(* What the session registry promises when no account is used from two     *)
(* connections: who is online, and on which connection.  A login is one    *)
(* step, which takes the place of whoever was on the connection before,    *)
(* and nobody goes offline but with his connection.                        *)
(***************************************************************************)
CONSTANTS Users, Conns, Accounts, None

VARIABLES
  on,    \* on[u]: the connection u is online with, or None
  alive  \* alive[c]: the connection c is open

presenceVars == <<on, alive>>

Init ==
  /\ on = [u \in Users |-> None]
  /\ alive = [c \in Conns |-> FALSE]

\* Nobody is online yet with a connection that opens.
Open(c) ==
  /\ ~alive[c] /\ \A u \in Users : on[u] # c
  /\ alive' = [alive EXCEPT ![c] = TRUE]
  /\ UNCHANGED on

Close(c) ==
  /\ alive[c]
  /\ alive' = [alive EXCEPT ![c] = FALSE]
  /\ UNCHANGED on

LogIn(c, u) ==
  /\ u \in Accounts[c] /\ on[u] = None
  /\ on' = [v \in Users |-> IF v = u THEN c ELSE IF on[v] = c THEN None ELSE on[v]]
  /\ UNCHANGED alive

\* Sooner or later after his connection has died.
GoOffline(u) ==
  /\ on[u] # None /\ ~alive[on[u]]
  /\ on' = [on EXCEPT ![u] = None]
  /\ UNCHANGED alive

Next ==
  \/ \E c \in Conns : Open(c) \/ Close(c) \/ \E u \in Users : LogIn(c, u)
  \/ \E u \in Users : GoOffline(u)

Spec == Init /\ [][Next]_presenceVars
=============================================================================
