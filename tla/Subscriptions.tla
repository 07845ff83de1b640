---------------------------- MODULE Subscriptions ----------------------------
(***************************************************************************)
(* Who follows whom.  A subscription is kept twice: in ownSubscribe of the *)
(* session that follows, and in subscribe of the session that is followed. *)
(* Extends Sessions: the handlers of subscriptions are run by the worker   *)
(* of a connection and the timer undoes what a dead session had subscribed *)
(* to, with no lock across the two maps.                                   *)
(*                                                                         *)
(* A client fills the field own of its requests with the uid it is logged  *)
(* in with (SpeaksForItself of Daemon), so own is Self.Own here. The       *)
(* notification tasks are left to the task pool, and the flag for world    *)
(* messages is not here.                                                   *)
(***************************************************************************)
EXTENDS Sessions

CONSTANT SubOps   \* the requests clients make in this instance

ASSUME SubscriptionsAssumption == SubOps \subseteq {"sub", "unsub", "cancelAll"}

VARIABLES
  subscribe,     \* subscribe[i]: the users who follow session i
  ownSubscribe,  \* ownSubscribe[i]: the users session i follows
  job,           \* the request a worker is at, or None
  stodo,         \* users the timer's Range over info.ownSubscribe has yet to visit
  tsess,         \* the session it has loaded for one of them, or None
  by             \* history: by[i][u] is the session that put u into subscribe[i]

subVars == <<subscribe, ownSubscribe, by>>
undoVars == <<stodo, tsess>>
vars == <<sessionVars, subVars, job, undoVars>>

\* peer is the session loaded for the peer the loop is at, None between two.
Job == [op: SubOps, self: Session, todo: SUBSET Users,
        peer: Session \cup {None}, step: {"loop", "peer", "own"}]

ASSUME NoneIsNoJob == None \notin Job /\ None \notin Ids

Init ==
  /\ SessionsInit
  /\ subscribe = [i \in Ids |-> {}]
  /\ ownSubscribe = [i \in Ids |-> {}]
  /\ by = [i \in Ids |-> [u \in Users |-> None]]
  /\ job = [c \in Conns |-> None]
  /\ stodo = {}
  /\ tsess = None
-----------------------------------------------------------------------------
(* HandleSubscribePersonalRQ, and HandleCancelSubscribeAllRQ for users.    *)

\* The worker of c takes a request of the client that is logged in there, also
\* one that has waited until the connection was dead.  It names the peers;
\* cancelAll goes through those its session follows.
Request(c, op, peers) ==
  /\ pc[c] = "idle" /\ job[c] = None
  /\ Self[c] # None
  /\ job' = [job EXCEPT ![c] =
       [op |-> op, self |-> Self[c], peer |-> None, step |-> "loop",
        todo |-> IF op = "cancelAll" THEN ownSubscribe[Self[c].id] ELSE peers]]
  /\ UNCHANGED <<sessionVars, subVars, undoVars>>

At(c, step) == job[c] # None /\ job[c].step = step
Own(c) == job[c].self.Own

\* A peer who is offline, or the user himself, is passed over.
SkipPeer(c, p) ==
  /\ At(c, "loop") /\ p \in job[c].todo
  /\ p = Own(c) \/ GUserSession[p] = None
  /\ job' = [job EXCEPT ![c].todo = @ \ {p}]
  /\ UNCHANGED <<sessionVars, subVars, undoVars>>

LoadPeer(c, p) ==
  /\ At(c, "loop") /\ p \in job[c].todo
  /\ p # Own(c) /\ GUserSession[p] # None
  /\ job' = [job EXCEPT ![c].todo = @ \ {p}, ![c].peer = GUserSession[p],
                        ![c].step = "peer"]
  /\ UNCHANGED <<sessionVars, subVars, undoVars>>

\* The followers of the session that was loaded, whoever is registered by now.
UpdatePeer(c) ==
  /\ At(c, "peer")
  /\ LET i == job[c].peer.id
     IN  IF job[c].op = "sub"
         THEN /\ subscribe' = [subscribe EXCEPT ![i] = @ \cup {Own(c)}]
              /\ by' = [by EXCEPT ![i][Own(c)] = job[c].self.id]
         ELSE /\ subscribe' = [subscribe EXCEPT ![i] = @ \ {Own(c)}]
              /\ by' = [by EXCEPT ![i][Own(c)] = None]
  /\ job' = [job EXCEPT ![c] = IF @.op = "cancelAll"
                               THEN [@ EXCEPT !.peer = None, !.step = "loop"]
                               ELSE [@ EXCEPT !.step = "own"]]
  /\ UNCHANGED <<sessionVars, ownSubscribe, undoVars>>

\* What the session follows, afterwards.
OwnForgotten(c) == ownSubscribe[job[c].self.id]
Followed(c) == IF job[c].op = "sub"
               THEN ownSubscribe[job[c].self.id] \cup {job[c].peer.Own}
               ELSE ownSubscribe[job[c].self.id] \ {job[c].peer.Own}
UpdateOwn(c) ==
  /\ At(c, "own")
  /\ ownSubscribe' = [ownSubscribe EXCEPT ![job[c].self.id] = Followed(c)]
  /\ job' = [job EXCEPT ![c].peer = None, ![c].step = "loop"]
  /\ UNCHANGED <<sessionVars, subscribe, by, undoVars>>

EndRequest(c) ==
  /\ At(c, "loop") /\ job[c].todo = {}
  /\ job' = [job EXCEPT ![c] = None]
  /\ UNCHANGED <<sessionVars, subVars, undoVars>>
-----------------------------------------------------------------------------
(* The timer.                                                              *)

\* A session taken away takes its subscriptions back.
StartUndoing ==
  /\ DeleteSession
  /\ stodo' = ownSubscribe[info.id]
  /\ UNCHANGED <<subVars, job, tsess>>

\* Range passes over what is no longer followed, the loop over who is offline.
SkipFollowed(p) ==
  /\ phase = "clean" /\ tsess = None /\ p \in stodo
  /\ p \notin ownSubscribe[info.id] \/ GUserSession[p] = None
  /\ stodo' = stodo \ {p}
  /\ UNCHANGED <<sessionVars, subVars, job, tsess>>

LoadFollowed(p) ==
  /\ phase = "clean" /\ tsess = None /\ p \in stodo
  /\ p \in ownSubscribe[info.id] /\ GUserSession[p] # None
  /\ stodo' = stodo \ {p}
  /\ tsess' = GUserSession[p]
  /\ UNCHANGED <<sessionVars, subVars, job>>

\* The key deleted from the followers of peer is peer itself.
Unfollow ==
  /\ tsess # None
  /\ subscribe' = [subscribe EXCEPT ![tsess.id] = @ \ {tsess.Own}]
  /\ by' = [by EXCEPT ![tsess.id][tsess.Own] = None]
  /\ tsess' = None
  /\ UNCHANGED <<sessionVars, ownSubscribe, job, stodo>>
-----------------------------------------------------------------------------
\* What logins and connections do, next to their steps in Sessions.
SessionStep(c) ==
  /\ job[c] = None
  /\ \/ Connect(c) \/ RefuseOnline(c) \/ PassOnline(c) \/ RejectLogin(c) \/ BindSession(c)
  /\ UNCHANGED <<subVars, job, undoVars>>

PacketStep(c) ==
  /\ Disconnect(c) \/ \E u \in Users : Receive(c, u)
  /\ UNCHANGED <<subVars, job, undoVars>>

\* A new session follows nobody and nobody follows it.
LoginStep(c) ==
  /\ StoreSession(c)
  /\ LET i == new'[c].id
     IN  /\ \A d \in Conns : job[d] # None => (job[d].peer # None => job[d].peer.id # i)
         /\ tsess # None => tsess.id # i
         /\ subscribe' = [subscribe EXCEPT ![i] = {}]
         /\ ownSubscribe' = [ownSubscribe EXCEPT ![i] = {}]
         /\ by' = [j \in Ids |-> [u \in Users |-> IF j = i \/ by[j][u] = i THEN None
                                                  ELSE by[j][u]]]
  /\ UNCHANGED <<job, undoVars>>

TimerStep ==
  /\ \/ Tick \/ EndRange \/ SweepGroups
     \/ \E u \in Users : SkipSession(u) \/ FindDead(u)
     \/ CleanRelations /\ stodo = {} /\ tsess = None
  /\ UNCHANGED <<subVars, job, undoVars>>

Handler(c) == \/ UpdatePeer(c) \/ UpdateOwn(c) \/ EndRequest(c)
              \/ \E p \in Users : SkipPeer(c, p) \/ LoadPeer(c, p)

SubTimer == \/ TimerStep \/ StartUndoing \/ Unfollow
            \/ \E p \in Users : SkipFollowed(p) \/ LoadFollowed(p)

Next ==
  \/ \E c \in Conns :
       \/ SessionStep(c) \/ PacketStep(c) \/ LoginStep(c) \/ Handler(c)
       \/ \E op \in SubOps, peers \in SUBSET Users : Request(c, op, peers)
  \/ SubTimer

Spec == Init /\ [][Next]_vars
-----------------------------------------------------------------------------
(* Properties.                                                             *)

SubsTypeOK ==
  /\ TypeOK
  /\ subscribe \in [Ids -> SUBSET Users]
  /\ ownSubscribe \in [Ids -> SUBSET Users]
  /\ by \in [Ids -> [Users -> Ids \cup {None}]]
  /\ job \in [Conns -> Job \cup {None}]
  /\ stodo \in SUBSET Users
  /\ tsess \in SessionOrNone
  /\ \A c \in Conns : job[c] # None => (job[c].step # "loop" <=> job[c].peer # None)

\* The two records agree for a client that is connected: where its session put
\* its user among the followers of somebody online, that session has him among
\* those it follows, or is about to enter him; so a follower he is shown (line
\* 647) takes messages from him (line 258), whichever subscriptions and
\* cancellations (lines 374-381, 439-448) were overtaken by a new login of his or
\* by the timer.  It says nothing of entries whose session is gone: those stay
\* (UnfollowsWhenOffline), and the next session of that user is shown as a
\* follower though it follows nobody.
RecordsAgree ==
  \A b \in Online, c \in Conns :
    LET i == GUserSession[b].id  a == Self[c].id
    IN  (/\ valid[c] /\ Self[c] # None
         /\ Self[c].Own \in subscribe[i] /\ by[i][Self[c].Own] = a)
        => \/ b \in ownSubscribe[a]
           \/ At(c, "own") /\ job[c].peer.Own = b

\* A user taken offline is unsubscribed from those he follows (comment at
\* handler.go line 53): when the timer is through with one of them, he is not
\* among the followers there.
UnfollowsWhenOffline == [][Unfollow => info.Own \notin subscribe'[tsess.id]]_vars
=============================================================================
