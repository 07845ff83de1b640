------------------------------- MODULE Groups -------------------------------
(***************************************************************************)
(* Discussion groups: creation, joining, leaving, group messages, and what *)
(* the timer does to them.  Extends Sessions: the same workers and the     *)
(* same timer goroutine run these handlers, one request at a time per      *)
(* connection, with no lock across two accesses to the maps.               *)
(*                                                                         *)
(* A client fills the field own of its requests with the uid it is logged  *)
(* in with (SpeaksForItself of Daemon), so own is Self.Own here. Refusals  *)
(* that change nothing (not logged in, wrong code) are left out. The       *)
(* notification tasks of joins and departures are left to the task pool.   *)
(***************************************************************************)
EXTENDS Sessions

CONSTANTS
  GroupIds,   \* the ids GenGroup can return: for the code's constants, only -1
  Objs,       \* identities of TempGroupInfo objects, reused once unreachable
  GroupOps    \* the requests clients make in this instance

ASSUME GroupsAssumption ==
  /\ None \notin Objs
  /\ GroupOps \subseteq {"create", "join", "quit", "send", "cancelAll"}

VARIABLES
  GGroupMap,    \* group id -> TempGroupInfo object or None
  Members,      \* Members[o]: the uids in o.Members
  ownJoinGroup, \* ownJoinGroup[i]: the groups session i has joined
  job,          \* the group request a worker is at, or None
  gtodo,        \* groups the timer's current Range has yet to visit
  scan,         \* the group whose members the timer is looking at, or None
  stable,       \* history: who has been a member and online, with the same
                \* session, since the broadcast of c began
  stayed        \* history: who has been a member and online since scan began

groupVars == <<GGroupMap, Members, ownJoinGroup>>
sweepVars == <<gtodo, scan>>
vars == <<sessionVars, groupVars, job, sweepVars, stable, stayed>>

Job == [op: GroupOps, self: Session, group: GroupIds, obj: Objs \cup {None},
        step: {"load", "check", "store", "own", "range"}, todo: SUBSET Users,
        groups: SUBSET GroupIds, sent: SUBSET Users]
Scan == [group: GroupIds, obj: Objs, todo: SUBSET Users, flag: BOOLEAN]

ASSUME NoneIsNoJob == None \notin Job /\ None \notin Scan

Init ==
  /\ SessionsInit
  /\ GGroupMap = [g \in GroupIds |-> None]
  /\ Members = [o \in Objs |-> {}]
  /\ ownJoinGroup = [i \in Ids |-> {}]
  /\ job = [c \in Conns |-> None]
  /\ gtodo = {}
  /\ scan = None
  /\ stable = [c \in Conns |-> {}]
  /\ stayed = {}

Existing == {g \in GroupIds : GGroupMap[g] # None}
-----------------------------------------------------------------------------
(* Requests.                                                               *)

\* The worker of c takes a group request of the client that is logged in there,
\* also one that has waited until the connection was dead.
Request(c, op, g) ==
  /\ pc[c] = "idle" /\ job[c] = None
  /\ Self[c] # None
  /\ job' = [job EXCEPT ![c] =
       [op |-> op, self |-> Self[c], group |-> g, obj |-> None, step |-> "load",
        todo |-> {}, groups |-> IF op = "cancelAll" THEN ownJoinGroup[Self[c].id] ELSE {},
        sent |-> {}]]
  /\ UNCHANGED <<sessionVars, groupVars, sweepVars>>

At(c, ops, step) == job[c] # None /\ job[c].op \in ops /\ job[c].step = step
Own(c) == job[c].self.Own
Done(c) == job' = [job EXCEPT ![c] = None]

Unused(o) == /\ \A g \in GroupIds : GGroupMap[g] # o
             /\ \A c \in Conns : job[c] # None => job[c].obj # o
             /\ scan # None => scan.obj # o

\* HandleCreateGroupRQ: the creator is the first member; the id GenGroup gave
\* is stored over whatever group has it.
CreateGroup(c) ==
  /\ At(c, {"create"}, "load")
  /\ \E o \in Objs :
       /\ Unused(o)
       /\ Members' = [Members EXCEPT ![o] = {Own(c)}]
       /\ GGroupMap' = [GGroupMap EXCEPT ![job[c].group] = o]
  /\ Done(c)
  /\ UNCHANGED <<sessionVars, ownJoinGroup, sweepVars>>

GroupUnchecked(c) == TRUE
Found(c) == GGroupMap[job[c].group] # None

Admitted(c) == IF job[c].op = "join" THEN Own(c) \notin Members[job[c].obj]
                                     ELSE Own(c) \in Members[job[c].obj]

\* A join, quit or send is refused when there is no such group, ...
RefuseGroup(c) ==
  /\ At(c, {"join", "quit", "send"}, "load")
  /\ ~Found(c)
  /\ Done(c)
  /\ UNCHANGED <<sessionVars, groupVars, sweepVars>>

\* ... goes on with the object it has found, whatever becomes of the group, ...
FindGroup(c) ==
  /\ At(c, {"join", "quit", "send"}, "load")
  /\ Found(c)
  /\ job' = [job EXCEPT ![c].obj = GGroupMap[job[c].group], ![c].step = "check"]
  /\ UNCHANGED <<sessionVars, groupVars, sweepVars>>

\* ... and is refused when own is none of its members (join: is one already).
RefuseMember(c) ==
  /\ At(c, {"join", "quit", "send"}, "check")
  /\ ~Admitted(c)
  /\ Done(c)
  /\ UNCHANGED <<sessionVars, groupVars, sweepVars>>

PassMember(c) ==
  /\ At(c, {"join", "quit", "send"}, "check")
  /\ Admitted(c)
  /\ job' = [job EXCEPT ![c].step = "store"]
  /\ UNCHANGED <<sessionVars, groupVars, sweepVars>>

UpdateMembers(c) ==
  /\ At(c, {"join", "quit"}, "store")
  /\ Members' = [Members EXCEPT ![job[c].obj] =
                   IF job[c].op = "join" THEN @ \cup {Own(c)} ELSE @ \ {Own(c)}]
  /\ job' = [job EXCEPT ![c].step = "own"]
  /\ UNCHANGED <<sessionVars, GGroupMap, ownJoinGroup, sweepVars>>

UpdateOwn(c) ==
  /\ At(c, {"join", "quit"}, "own")
  /\ ownJoinGroup' = [ownJoinGroup EXCEPT ![job[c].self.id] =
       IF job[c].op = "join" THEN @ \cup {job[c].group} ELSE @ \ {job[c].group}]
  /\ Done(c)
  /\ UNCHANGED <<sessionVars, GGroupMap, Members, sweepVars>>

\* Members once u is taken out of the group g names, if it names one.
WithoutMember(g, u) == IF GGroupMap[g] = None THEN Members
                       ELSE [Members EXCEPT ![GGroupMap[g]] = @ \ {u}]

\* HandleCancelSubscribeAllRQ, groups: own leaves each group its session
\* joined; the session's own record of them is left as it is.
CancelGroup(c, g) ==
  /\ At(c, {"cancelAll"}, "load") /\ g \in job[c].groups
  /\ Members' = WithoutMember(g, Own(c))
  /\ job' = [job EXCEPT ![c].groups = @ \ {g}]
  /\ UNCHANGED <<sessionVars, GGroupMap, ownJoinGroup, sweepVars>>

EndCancel(c) ==
  /\ At(c, {"cancelAll"}, "load") /\ job[c].groups = {}
  /\ Done(c)
  /\ UNCHANGED <<sessionVars, groupVars, sweepVars>>
-----------------------------------------------------------------------------
(* AsyncSendToGroup: Range visits every key that is there throughout, once. *)

StartCast(c) ==
  /\ At(c, {"send"}, "store")
  /\ job' = [job EXCEPT ![c].step = "range", ![c].todo = Members[job[c].obj]]
  /\ UNCHANGED <<sessionVars, groupVars, sweepVars>>

\* A task for u is handed to the pool unless u is the sender, has left since
\* or is offline; either way Range goes on.
Receives(c, u) == u # Own(c) /\ u \in Members[job[c].obj] /\ GUserSession[u] # None

AfterStoppingAtSkip(c, u) == IF Receives(c, u) THEN job[c].todo \ {u} ELSE {}
AfterVisit(c, u) == job[c].todo \ {u}

Visit(c, u) ==
  /\ At(c, {"send"}, "range") /\ u \in job[c].todo
  /\ job' = [job EXCEPT ![c].todo = AfterVisit(c, u),
                        ![c].sent = IF Receives(c, u) THEN @ \cup {u} ELSE @]
  /\ UNCHANGED <<sessionVars, groupVars, sweepVars>>

EndCast(c) ==
  /\ At(c, {"send"}, "range") /\ job[c].todo = {}
  /\ Done(c)
  /\ UNCHANGED <<sessionVars, groupVars, sweepVars>>
-----------------------------------------------------------------------------
(* The timer.                                                              *)

\* A session taken away leaves the groups it joined.
StartLeaving ==
  /\ DeleteSession
  /\ gtodo' = ownJoinGroup[info.id]
  /\ UNCHANGED <<groupVars, job, scan>>

LeaveGroup(g) ==
  /\ phase = "clean" /\ g \in gtodo
  /\ Members' = IF g \in ownJoinGroup[info.id] THEN WithoutMember(g, info.Own) ELSE Members
  /\ gtodo' = gtodo \ {g}
  /\ UNCHANGED <<sessionVars, GGroupMap, ownJoinGroup, job, scan>>

\* The Range over the groups begins once the one over the sessions has ended.
StartSweep ==
  /\ EndRange
  /\ gtodo' = Existing
  /\ UNCHANGED <<groupVars, job, scan>>

StartScan(g) ==
  /\ phase = "groups" /\ scan = None /\ g \in gtodo
  /\ scan' = [group |-> g, obj |-> GGroupMap[g], todo |-> Members[GGroupMap[g]],
              flag |-> FALSE]
  /\ gtodo' = gtodo \ {g}
  /\ UNCHANGED <<sessionVars, groupVars, job>>

\* One member that is online is enough to keep the group.
Here(u) == u \in Members[scan.obj] /\ GUserSession[u] # None
LastDecides(u) == Here(u)
SomeoneHere(u) == scan.flag \/ Here(u)
ScanMember(u) ==
  /\ scan # None /\ u \in scan.todo
  /\ scan' = [scan EXCEPT !.todo = @ \ {u}, !.flag = SomeoneHere(u)]
  /\ UNCHANGED <<sessionVars, groupVars, job, gtodo>>

\* A group without one is deleted, by its id.
EmptyKept == GGroupMap
AfterScan == IF scan.flag THEN GGroupMap ELSE [GGroupMap EXCEPT ![scan.group] = None]
EndScan ==
  /\ scan # None /\ scan.todo = {}
  /\ GGroupMap' = AfterScan
  /\ scan' = None
  /\ UNCHANGED <<sessionVars, Members, ownJoinGroup, job, gtodo>>
-----------------------------------------------------------------------------
\* What logins and connections do, next to their steps in Sessions.
SessionStep(c) ==
  /\ job[c] = None
  /\ \/ Connect(c) \/ RefuseOnline(c) \/ PassOnline(c) \/ RejectLogin(c) \/ BindSession(c)
  /\ UNCHANGED <<groupVars, job, sweepVars>>

PacketStep(c) ==
  /\ Disconnect(c) \/ \E u \in Users : Receive(c, u)
  /\ UNCHANGED <<groupVars, job, sweepVars>>

\* A new session has joined no group.
LoginStep(c) ==
  /\ StoreSession(c)
  /\ ownJoinGroup' = [ownJoinGroup EXCEPT ![new'[c].id] = {}]
  /\ UNCHANGED <<GGroupMap, Members, job, sweepVars>>

TimerStep ==
  /\ \/ Tick
     \/ \E u \in Users : SkipSession(u) \/ FindDead(u)
     \/ CleanRelations /\ gtodo = {}
     \/ SweepGroups /\ gtodo = {} /\ scan = None
  /\ UNCHANGED <<groupVars, job, sweepVars>>

GroupTimer == \/ TimerStep \/ StartLeaving \/ StartSweep \/ EndScan
              \/ \E g \in GroupIds : LeaveGroup(g) \/ StartScan(g)
              \/ \E u \in Users : ScanMember(u)

Handler(c) == \/ CreateGroup(c) \/ RefuseGroup(c) \/ FindGroup(c) \/ RefuseMember(c)
              \/ PassMember(c) \/ UpdateMembers(c) \/ UpdateOwn(c)
              \/ StartCast(c) \/ EndCast(c) \/ EndCancel(c)
              \/ \E g \in GroupIds : CancelGroup(c, g)
              \/ \E u \in Users : Visit(c, u)

Step ==
  \/ \E c \in Conns :
       \/ SessionStep(c) \/ PacketStep(c) \/ LoginStep(c) \/ Handler(c)
       \/ \E op \in GroupOps, g \in GroupIds : Request(c, op, g)
  \/ GroupTimer

Track ==
  stable' = [c \in Conns |->
    IF job'[c] = None \/ job'[c].step # "range" THEN {}
    ELSE {u \in (IF job[c].step = "store" THEN job'[c].todo ELSE stable[c]) :
            /\ u \in Members'[job'[c].obj]
            /\ GUserSession[u] # None /\ GUserSession'[u] = GUserSession[u]}]

TrackScan ==
  stayed' = IF scan' = None THEN {}
            ELSE {u \in (IF scan = None THEN scan'.todo ELSE stayed) :
                    u \in Members'[scan'.obj] /\ GUserSession'[u] # None}

History == Track /\ TrackScan

Next == Step /\ History

Spec == Init /\ [][Next]_vars

\* The ticker and the Go scheduler keep the timer goroutine running; nothing
\* forces a client to act or a worker to be fast.
Fair == Spec /\ WF_vars(GroupTimer /\ History)
-----------------------------------------------------------------------------
(* Properties.                                                             *)

GroupsTypeOK ==
  /\ TypeOK
  /\ GGroupMap \in [GroupIds -> Objs \cup {None}]
  /\ Members \in [Objs -> SUBSET Users]
  /\ ownJoinGroup \in [Ids -> SUBSET GroupIds]
  /\ job \in [Conns -> Job \cup {None}]
  /\ \A c \in Conns :
       job[c] # None => (job[c].step \in {"check", "store", "own", "range"} => job[c].obj \in Objs)
  /\ gtodo \in SUBSET GroupIds
  /\ scan \in Scan \cup {None}
  /\ stable \in [Conns -> SUBSET Users]
  /\ stayed \in SUBSET Users

\* A group message misses nobody who was there: when its Range has ended,
\* everyone else who stayed a member and online throughout has a task in the
\* pool (AsyncSendToGroup, while others join, quit, log in and are reaped).
BroadcastReaches ==
  \A c \in Conns : At(c, {"send"}, "range") =>
    stable[c] \ {Own(c)} \subseteq job[c].todo \cup job[c].sent

\* The timer's look at a group, entry by entry while members join, leave, log
\* in and are reaped, does not overlook who was there all along: when it ends
\* without having seen anybody, and the group is deleted, no user has been a
\* member and online from its first step to its last (lines 94-106).
ScanSeesWhoStays ==
  scan # None /\ scan.todo = {} /\ ~scan.flag => stayed = {}

\* A group nobody online belongs to does not stay: again and again it is gone
\* or has a member online (handler.go lines 92-114).
SomeoneOnline(g) == \E u \in Members[GGroupMap[g]] : GUserSession[u] # None
AbandonedIsDisbanded ==
  \A g \in GroupIds : []<>(GGroupMap[g] = None \/ SomeoneOnline(g))

\* The users who have joined g and are online over a connection that works.
Joined(g) == {u \in Members[GGroupMap[g]] :
                /\ GUserSession[u] # None /\ valid[GUserSession[u].conn]
                /\ g \in ownJoinGroup[GUserSession[u].id]}

\* The timer disbands groups that have no user left (comments at handler.go
\* lines 92 and 105): no user of a group it deletes is connected whose join has
\* succeeded.
DisbandsOnlyEmpty ==
  [][\A g \in Existing : (EndScan /\ GGroupMap'[g] = None) => Joined(g) = {}]_vars

=============================================================================
