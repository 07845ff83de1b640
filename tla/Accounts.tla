------------------------------ MODULE Accounts ------------------------------
(***************************************************************************)
(* What registration promises: a request makes at most one account, an     *)
(* account has one owner for good, and the only uid a client is ever told  *)
(* is that of the account its request has made.  Death and restart of the  *)
(* process are not to be seen.                                             *)
(***************************************************************************)
CONSTANTS Requests, Uids, None

VARIABLES
  owner,  \* owner[u]: the request that made account u, or None
  told    \* <<r, u>>: the client of r was told that u is its uid

accountVars == <<owner, told>>

Init ==
  /\ owner = [u \in Uids |-> None]
  /\ told = {}

\* r, who has no account yet, makes account u.
Make(u) ==
  LET r == owner'[u]
  IN  /\ owner[u] = None /\ r \in Requests
      /\ \A v \in Uids : owner[v] # r
      /\ owner' = [owner EXCEPT ![u] = r]
      /\ UNCHANGED told

Tell(u) ==
  /\ owner[u] # None
  /\ told' = told \cup {<<owner[u], u>>}
  /\ UNCHANGED owner

Next == \E u \in Uids : Make(u) \/ Tell(u)

Spec == Init /\ [][Next]_accountVars
=============================================================================
