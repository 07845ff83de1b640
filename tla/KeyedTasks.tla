----------------------------- MODULE KeyedTasks -----------------------------
(***************************************************************************)
(* What the task pool promises the handlers: the tasks of one key, a user, *)
(* run one at a time, once, in the order the pool accepted them, and each  *)
(* of them does run.  Tasks of different keys owe each other nothing.      *)
(***************************************************************************)

CONSTANTS Tasks, Keys, Shard, None

VARIABLES
  taken,    \* tasks accepted so far
  waiting,  \* accepted tasks yet to start
  ahead,    \* ahead[t]: those of t's key that were accepted before t
  running   \* running[k]: the task of key k that runs, or None

keyedVars == <<taken, waiting, ahead, running>>

Init ==
  /\ taken = {}
  /\ waiting = {}
  /\ ahead = [t \in Tasks |-> {}]
  /\ running = [k \in Keys |-> None]

Accept(t) ==
  /\ t \notin taken
  /\ taken' = taken \cup {t}
  /\ waiting' = waiting \cup {t}
  /\ ahead' = [ahead EXCEPT ![t] = {u \in waiting : Shard[u] = Shard[t]}]
  /\ UNCHANGED running

\* The first in the line of its key, when no other task of the key runs.
Start(t) ==
  /\ t \in waiting /\ ahead[t] = {} /\ running[Shard[t]] = None
  /\ running' = [running EXCEPT ![Shard[t]] = t]
  /\ waiting' = waiting \ {t}
  /\ ahead' = [u \in Tasks |-> ahead[u] \ {t}]
  /\ UNCHANGED taken

Finish(k) ==
  /\ running[k] # None
  /\ running' = [running EXCEPT ![k] = None]
  /\ UNCHANGED <<taken, waiting, ahead>>

Next == (\E t \in Tasks : Accept(t) \/ Start(t)) \/ (\E k \in Keys : Finish(k))

Spec == Init /\ [][Next]_keyedVars

\* Whatever has been accepted gets its turn and ends.
EachRuns ==
  \A t \in Tasks : t \in waiting ~> t \notin waiting /\ running[Shard[t]] # t
=============================================================================
