------------------------------ MODULE MCDaemon ------------------------------
(* Instances of Daemon for TLC; MCSpec bounds what users, peers and the    *)
(* network do.                                                             *)
EXTENDS Daemon, TLC

CONSTANTS
  Typed,    \* how many lines are typed
  Mishaps,  \* how often an answer is too late or the connection is lost
  Others    \* how often peers and groups come and go

VARIABLE left  \* what is left of each
mcVars == <<vars, left>>

Spend(kind) == left[kind] > 0 /\ left' = [left EXCEPT ![kind] = @ - 1]

\* Slots are alike: the first that is idle takes the next line.
FirstIdle(s) == \A r \in Slots : pc[r] = "idle" => s <= r

MCInit == Init /\ left = [typed |-> Typed, mishaps |-> Mishaps, others |-> Others]
MCNext ==
  \/ \E s \in Slots : FirstIdle(s) /\ Type(s) /\ Spend("typed")
  \/ Mishap /\ Spend("mishaps")
  \/ PeersAct /\ Spend("others")
  \/ (Serve \/ Tick \/ HandleNote \/ \E t \in Threads : Run(t))
     /\ UNCHANGED left

\* Goroutines run, the service answers, what arrives is taken; nothing is said
\* of those who act.
MCSpec ==
  /\ MCInit /\ [][MCNext]_mcVars
  /\ WF_mcVars(Serve /\ UNCHANGED left)
  /\ WF_mcVars(Tick /\ UNCHANGED left)
  /\ WF_mcVars(HandleNote /\ UNCHANGED left)
  /\ \A t \in Threads : WF_mcVars(Run(t) /\ UNCHANGED left)

L(options) == options @@ Defaults

LoginLines == {L([opts |-> {"l"}, Own |-> u, Passwd |-> "usual"]) : u \in Users}

\* Two slots: the logins, a list with a part that is no number (its peer is never
\* online), cancelling, the reset, a group the daemon refuses; the last two are
\* not accepted.
SafetyLines == LoginLines \cup
  {L([opts |-> {"sp"}, Peer |-> 4, Peers |-> {Junk}]),
   L([opts |-> {"na"}]),
   L([opts |-> {"reset"}]),
   L([opts |-> {"jg"}, Group |-> -1, VerifyCode |-> 7]),
   L([opts |-> {"cg"}]),
   L([opts |-> {"s"}, Peer |-> 3])}

\* One slot: what changes the lists, and the reset.
LivenessLines == LoginLines \cup
  {L([opts |-> {"sp"}, Peer |-> 3]),
   L([opts |-> {"n"}, Peer |-> 3]),
   L([opts |-> {"cg"}, VerifyCode |-> 7]),
   L([opts |-> {"jg"}, Group |-> 5, VerifyCode |-> 7]),
   L([opts |-> {"reset"}])}
=============================================================================
