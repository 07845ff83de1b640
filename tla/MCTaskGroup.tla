---------------------------- MODULE MCTaskGroup ----------------------------
(* A small instance of TaskGroup for TLC.                                  *)
EXTENDS TaskGroup, TLC

CONSTANTS t1, t2, t3

\* Two tasks of user 0 and one of user 2, who shares the channel; the other
\* channel has none.
Senders == {t1, t2, t3}
Sharding == (t1 :> 0) @@ (t2 :> 0) @@ (t3 :> 2)
=============================================================================
