------------------------------ MODULE Messages ------------------------------
(***************************************************************************)
(* What users are sent: personal and world messages, group messages and    *)
(* the news that somebody joined or left a group.  Extends Sessions: the   *)
(* worker of a connection loads the sessions of those who are to get it,   *)
(* and hands the task pool a task for each that sends on the connection of *)
(* the session it has loaded, whatever has become of it by then.           *)
(*                                                                         *)
(* The pool is what KeyedTasks promises: the tasks of a key in order.  Who *)
(* is a member of a group is the matter of Groups, how a subscription is   *)
(* kept that of Subscriptions; ownSubscribe is changed in one step here.   *)
(* A client fills the field own with the uid it is logged in with.         *)
(***************************************************************************)
EXTENDS Sessions

CONSTANTS
  Kinds,       \* what clients send in this instance
  Memberships  \* and the groups of users it goes to

ASSUME MessagesAssumption ==
  /\ Kinds \subseteq {"personal", "world", "group", "change"}
  /\ Memberships \subseteq SUBSET Users

VARIABLES
  ownSubscribe,      \* ownSubscribe[i]: whom session i follows
  IsSubscribeWorld,  \* IsSubscribeWorld[i]: session i listens to the world channel
  cooling,           \* cooling[i]: its last world message is less than 15 seconds ago
  job,               \* the request a worker is at, or None
  tasks,             \* tasks[k]: the tasks of key k yet to run
  number,            \* number[c]: how many requests to send c has made
  last,              \* history: last[u][c] is the last of them u has been sent
  been,              \* history: been[c] have logged in on c since it was opened
  stable             \* history: stable[c] have listened, with the same session and
                     \* a live connection, since the world message of c began

flagVars == <<ownSubscribe, IsSubscribeWorld, cooling>>
poolVars == <<tasks, last>>
vars == <<sessionVars, flagVars, job, poolVars, number, been, stable>>

\* A task for a user: the connection it sends on, and the request it is for.
Task == [to: Users, conn: Conns, from: Conns, n: Nat]

\* peer is the user the worker is at, sess the session it has loaded for him.
Job == [kind: Kinds, self: Session, n: Nat, peer: Users \cup {None},
        sess: Session \cup {None}, step: {"load", "start", "range", "send"},
        todo: SUBSET Users, sent: SUBSET Users]

ASSUME NoneIsNoJob == None \notin Job

Init ==
  /\ SessionsInit
  /\ ownSubscribe = [i \in Ids |-> {}]
  /\ IsSubscribeWorld = [i \in Ids |-> FALSE]
  /\ cooling = [i \in Ids |-> FALSE]
  /\ job = [c \in Conns |-> None]
  /\ tasks = [k \in Users |-> << >>]
  /\ number = [c \in Conns |-> 0]
  /\ last = [u \in Users |-> [c \in Conns |-> 0]]
  /\ been = [c \in Conns |-> {}]
  /\ stable = [c \in Conns |-> {}]
-----------------------------------------------------------------------------
(* Requests of a client that is logged in.                                 *)

\* The worker of c may take one, also when the connection has died since it came.
Free(c) == pc[c] = "idle" /\ job[c] = None /\ Self[c] # None

NewJob(c, kind, step, peer, members) ==
  /\ number' = [number EXCEPT ![c] = @ + 1]
  /\ job' = [job EXCEPT ![c] =
       [kind |-> kind, self |-> Self[c], n |-> number[c] + 1, peer |-> peer, sess |-> None,
        step |-> step, todo |-> members, sent |-> {}]]
  /\ UNCHANGED <<sessionVars, flagVars, poolVars, been>>

RequestPersonal(c, peer) ==
  Free(c) /\ "personal" \in Kinds /\ NewJob(c, "personal", "load", peer, {})

RequestWorld(c) ==
  Free(c) /\ "world" \in Kinds /\ NewJob(c, "world", "start", None, {})

\* A message to a group, a join or a departure comes to its fan-out.
RequestGroup(c, kind, members) ==
  /\ Free(c) /\ kind \in {"group", "change"}
  /\ NewJob(c, kind, "range", None, members)

\* A subscription, its end, and ops 2 and 3 of HandleSubscribePersonalRQ.
Follow(c, p) ==
  /\ Free(c) /\ p # Self[c].Own /\ GUserSession[p] # None
  /\ ownSubscribe' = [ownSubscribe EXCEPT ![Self[c].id] = @ \cup {p}]
  /\ UNCHANGED <<sessionVars, IsSubscribeWorld, cooling, job, poolVars, number, been>>

Unfollow(c, p) ==
  /\ Free(c) /\ p # Self[c].Own /\ GUserSession[p] # None
  /\ ownSubscribe' = [ownSubscribe EXCEPT ![Self[c].id] = @ \ {p}]
  /\ UNCHANGED <<sessionVars, IsSubscribeWorld, cooling, job, poolVars, number, been>>

SubscribeWorld(c, op) ==
  /\ Free(c)
  /\ IsSubscribeWorld' = [IsSubscribeWorld EXCEPT ![Self[c].id] = (op = 2)]
  /\ UNCHANGED <<sessionVars, ownSubscribe, cooling, job, poolVars, number, been>>
-----------------------------------------------------------------------------
At(c, step) == job[c] # None /\ job[c].step = step
Own(c) == job[c].self.Own
Done(c) == job' = [job EXCEPT ![c] = None]

\* The user the worker is at; for a world message, by the session it has loaded.
Visited(c) == IF job[c].kind = "world" THEN job[c].sess.Own ELSE job[c].peer

\* The task for him, under his key.
SendersKey(c) == IF job[c].kind = "world" THEN Own(c) ELSE job[c].peer
Key(c) == Visited(c)
SendersSession(c) == job[c].self
Loaded(c) == job[c].sess
SendTask(c) ==
  tasks' = [tasks EXCEPT ![Key(c)] = Append(@,
              [to |-> job[c].peer, conn |-> Loaded(c).conn, from |-> c, n |-> job[c].n])]

\* HandleSendToPersonalRQ: the peer is offline, ...
RefuseOffline(c) ==
  /\ At(c, "load") /\ GUserSession[job[c].peer] = None
  /\ Done(c)
  /\ UNCHANGED <<sessionVars, flagVars, poolVars, number, been>>

LoadPeer(c) ==
  /\ At(c, "load") /\ GUserSession[job[c].peer] # None
  /\ job' = [job EXCEPT ![c].sess = GUserSession[job[c].peer], ![c].step = "send"]
  /\ UNCHANGED <<sessionVars, flagVars, poolVars, number, been>>

\* ... does not follow the sender, or gets a task.
RefuseStranger(c) ==
  /\ At(c, "send") /\ job[c].kind = "personal"
  /\ Own(c) \notin ownSubscribe[job[c].sess.id]
  /\ Done(c)
  /\ UNCHANGED <<sessionVars, flagVars, poolVars, number, been>>

SendPersonal(c) ==
  /\ At(c, "send") /\ job[c].kind = "personal"
  /\ Own(c) \in ownSubscribe[job[c].sess.id]
  /\ SendTask(c)
  /\ Done(c)
  /\ UNCHANGED <<sessionVars, flagVars, last, number, been>>

\* HandleSendWorldMsgRQ: too soon after the one before, ...
RefuseWorld(c) ==
  /\ At(c, "start") /\ cooling[job[c].self.id]
  /\ Done(c)
  /\ UNCHANGED <<sessionVars, flagVars, poolVars, number, been>>

\* ... or on to everybody who is online.
StartWorld(c) ==
  /\ At(c, "start") /\ ~cooling[job[c].self.id]
  /\ cooling' = [cooling EXCEPT ![job[c].self.id] = TRUE]
  /\ job' = [job EXCEPT ![c].todo = Online, ![c].step = "range"]
  /\ UNCHANGED <<sessionVars, ownSubscribe, IsSubscribeWorld, poolVars, number, been>>

\* 15 seconds have passed.
CoolDown(i) ==
  /\ cooling[i]
  /\ cooling' = [cooling EXCEPT ![i] = FALSE]
  /\ UNCHANGED <<sessionVars, ownSubscribe, IsSubscribeWorld, job, poolVars, number, been>>
-----------------------------------------------------------------------------
(* The Range of the fan-outs: over GUserSession for a world message, over   *)
(* the members for the others.                                             *)

SkipOffline(c, u) ==
  /\ At(c, "range") /\ u \in job[c].todo
  /\ GUserSession[u] = None
  /\ job' = [job EXCEPT ![c].todo = @ \ {u}]
  /\ UNCHANGED <<sessionVars, flagVars, poolVars, number, been>>

LoadMember(c, u) ==
  /\ At(c, "range") /\ u \in job[c].todo
  /\ GUserSession[u] # None
  /\ job' = [job EXCEPT ![c].todo = @ \ {u}, ![c].peer = u, ![c].sess = GUserSession[u],
                        ![c].step = "send"]
  /\ UNCHANGED <<sessionVars, flagVars, poolVars, number, been>>

\* Nobody is sent his own message; a world message goes to listeners whose
\* connection is alive, the others are sent to dead ones as well.
Receives(c) ==
  /\ Visited(c) # Own(c)
  /\ job[c].kind = "world" => /\ valid[job[c].sess.conn]
                              /\ IsSubscribeWorld[job[c].sess.id]

\* Either way Range goes on.
LeftAfterStop(c) == IF Receives(c) THEN job[c].todo ELSE {}
LeftToVisit(c) == job[c].todo
NextVisit(c, sent) ==
  job' = [job EXCEPT ![c].todo = LeftToVisit(c), ![c].sent = @ \cup sent, ![c].peer = None,
                     ![c].sess = None, ![c].step = "range"]

SendToMember(c) ==
  /\ At(c, "send") /\ job[c].kind # "personal" /\ Receives(c)
  /\ SendTask(c)
  /\ NextVisit(c, {job[c].peer})
  /\ UNCHANGED <<sessionVars, flagVars, last, number, been>>

PassMember(c) ==
  /\ At(c, "send") /\ job[c].kind # "personal" /\ ~Receives(c)
  /\ NextVisit(c, {})
  /\ UNCHANGED <<sessionVars, flagVars, poolVars, number, been>>

EndFanOut(c) ==
  /\ At(c, "range") /\ job[c].todo = {}
  /\ Done(c)
  /\ UNCHANGED <<sessionVars, flagVars, poolVars, number, been>>

\* The pool runs the next task of a key; on a dead connection it fails.
RunTask(k) ==
  /\ tasks[k] # << >>
  /\ LET t == Head(tasks[k])
     IN  last' = IF valid[t.conn] THEN [last EXCEPT ![t.to][t.from] = t.n] ELSE last
  /\ tasks' = [tasks EXCEPT ![k] = Tail(@)]
  /\ UNCHANGED <<sessionVars, flagVars, job, number, been>>
-----------------------------------------------------------------------------
(* Sessions.                                                               *)

\* The session may be that of somebody a worker is at, and a task holds on to
\* its connection.
Held(i) == \E c \in Conns : job[c] # None /\ job[c].sess # None /\ job[c].sess.id = i
ConnHeld(d) ==
  \/ \E c \in Conns : job[c] # None /\ job[c].sess # None /\ job[c].sess.conn = d
  \/ \E k \in Users : \E j \in DOMAIN tasks[k] : tasks[k][j].conn = d

ConnectStep(c) ==
  /\ job[c] = None /\ ~ConnHeld(c)
  /\ Connect(c)
  /\ been' = [been EXCEPT ![c] = {}]
  /\ UNCHANGED <<flagVars, job, poolVars, number>>

WorkerStep(c) ==
  /\ job[c] = None
  /\ RefuseOnline(c) \/ PassOnline(c) \/ RejectLogin(c) \/ BindSession(c)
  /\ UNCHANGED <<flagVars, job, poolVars, number, been>>

PacketStep(c) ==
  /\ Disconnect(c) \/ \E u \in Users : Receive(c, u)
  /\ UNCHANGED <<flagVars, job, poolVars, number, been>>

\* A new session follows nobody and listens to the world channel.
LoginStep(c) ==
  /\ StoreSession(c)
  /\ LET i == new'[c].id
     IN  /\ ~Held(i)
         /\ ownSubscribe' = [ownSubscribe EXCEPT ![i] = {}]
         /\ IsSubscribeWorld' = [IsSubscribeWorld EXCEPT ![i] = TRUE]
         /\ cooling' = [cooling EXCEPT ![i] = FALSE]
  /\ been' = [been EXCEPT ![c] = @ \cup {req[c]}]
  /\ UNCHANGED <<job, poolVars, number>>

TimerStep == Timer /\ UNCHANGED <<flagVars, job, poolVars, number, been>>
-----------------------------------------------------------------------------
Act(c) ==
  \/ RequestWorld(c)
  \/ \E p \in Users : RequestPersonal(c, p) \/ Follow(c, p) \/ Unfollow(c, p)
  \/ \E kind \in Kinds, members \in Memberships : RequestGroup(c, kind, members)
  \/ \E op \in {2, 3} : SubscribeWorld(c, op)

Handler(c) ==
  \/ RefuseOffline(c) \/ LoadPeer(c) \/ RefuseStranger(c) \/ SendPersonal(c)
  \/ RefuseWorld(c) \/ StartWorld(c) \/ SendToMember(c) \/ PassMember(c) \/ EndFanOut(c)
  \/ \E u \in Users : SkipOffline(c, u) \/ LoadMember(c, u)

Step ==
  \/ \E c \in Conns : \/ ConnectStep(c) \/ WorkerStep(c) \/ PacketStep(c) \/ LoginStep(c)
                      \/ Act(c) \/ Handler(c)
  \/ TimerStep
  \/ \E k \in Users : RunTask(k)
  \/ \E i \in Ids : CoolDown(i)

Listens(u) == /\ GUserSession[u] # None
              /\ valid[GUserSession[u].conn] /\ IsSubscribeWorld[GUserSession[u].id]

Track ==
  stable' = [c \in Conns |->
    IF job'[c] = None \/ job'[c].kind # "world" \/ job'[c].step = "start" THEN {}
    ELSE {u \in (IF job[c].step = "start" THEN job'[c].todo ELSE stable[c]) :
            Listens(u) /\ Listens(u)' /\ GUserSession'[u] = GUserSession[u]}]

Next == Step /\ Track

Spec == Init /\ [][Next]_vars
-----------------------------------------------------------------------------
(* Properties.                                                             *)

\* Type invariant.
MsgTypeOK ==
  /\ TypeOK
  /\ ownSubscribe \in [Ids -> SUBSET Users]
  /\ IsSubscribeWorld \in [Ids -> BOOLEAN]
  /\ cooling \in [Ids -> BOOLEAN]
  /\ job \in [Conns -> Job \cup {None}]
  /\ \A c \in Conns : job[c] # None =>
       /\ job[c].step = "send" => job[c].sess \in Session
       /\ job[c].step = "send" \/ job[c].kind = "personal" => job[c].peer \in Users
  /\ tasks \in [Users -> Seq(Task)]
  /\ number \in [Conns -> Nat]
  /\ last \in [Users -> [Conns -> Nat]]
  /\ been \in [Conns -> SUBSET Users]
  /\ stable \in [Conns -> SUBSET Users]

\* Whatever is sent to a user goes to a connection he has logged in on since it
\* was opened, however long the task waits, whoever logs in there or elsewhere
\* meanwhile and whichever entries the timer takes away (the sessions the tasks
\* of handler.go lines 265 and 722 and of send.go lines 24 and 67 hold on to).
OnlyAddressees ==
  \A k \in Users : \A j \in DOMAIN tasks[k] : tasks[k][j].to \in been[tasks[k][j].conn]

\* What one client sends to one user arrives in the order it was sent in, and
\* once, personal, world and group messages alike: they share his key in the
\* pool (handler.go lines 265 and 722, send.go lines 24 and 67).
PairOrder ==
  \A k \in Users : \A j \in DOMAIN tasks[k] :
    LET t == tasks[k][j]
    IN  /\ last[t.to][t.from] < t.n
        /\ \A i \in 1 .. j - 1 : tasks[k][i].to = t.to /\ tasks[k][i].from = t.from
                                   => tasks[k][i].n < t.n

\* A world message misses nobody who was there: when its Range has ended, all
\* others who have listened throughout have a task in the pool
\* (HandleSendWorldMsgRQ, while others log in, are reaped and turn the channel
\* on and off).
WorldReaches ==
  \A c \in Conns : At(c, "range") /\ job[c].kind = "world" =>
    stable[c] \ {Own(c)} \subseteq job[c].todo \cup job[c].sent
=============================================================================
