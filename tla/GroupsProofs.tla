---------------------------- MODULE GroupsProofs ----------------------------
(***************************************************************************)
(* What holds of groups for any number of users, connections, sessions,    *)
(* groups and group objects.                                               *)
(***************************************************************************)
EXTENDS Groups, SessionsProofs

\* Whatever handlers and timer do to groups, to the registry they do a step of
\* Sessions or nothing.
LEMMA StepRefines == [Next]_vars => [SessionsNext]_sessionVars
<1> SUFFICES ASSUME [Next]_vars PROVE [SessionsNext]_sessionVars
  OBVIOUS
<1>1. ASSUME NEW c \in Conns, SessionStep(c) PROVE SessionsNext
  BY <1>1 DEF SessionStep, SessionsNext, Login
<1>2. ASSUME NEW c \in Conns, PacketStep(c) PROVE SessionsNext
  BY <1>2 DEF PacketStep, SessionsNext
<1>3. ASSUME NEW c \in Conns, LoginStep(c) PROVE SessionsNext
  BY <1>3 DEF LoginStep, SessionsNext, Login
<1>4. ASSUME NEW c \in Conns, Handler(c) PROVE UNCHANGED sessionVars
  BY <1>4 DEF Handler, CreateGroup, RefuseGroup, FindGroup, RefuseMember, PassMember,
              UpdateMembers, UpdateOwn, StartCast, EndCast, EndCancel, CancelGroup, Visit
<1>5. ASSUME NEW c \in Conns, NEW op \in GroupOps, NEW g \in GroupIds, Request(c, op, g)
      PROVE  UNCHANGED sessionVars
  BY <1>5 DEF Request
<1>6. ASSUME GroupTimer PROVE [SessionsNext]_sessionVars
  <2>1. CASE TimerStep
    BY <2>1 DEF TimerStep, SessionsNext, Timer
  <2>2. CASE StartLeaving \/ StartSweep
    BY <2>2 DEF StartLeaving, StartSweep, SessionsNext, Timer
  <2>3. CASE EndScan \/ (\E g \in GroupIds : LeaveGroup(g) \/ StartScan(g))
               \/ (\E u \in Users : ScanMember(u))
    BY <2>3 DEF EndScan, LeaveGroup, StartScan, ScanMember
  <2>4. QED
    BY <1>6, <2>1, <2>2, <2>3 DEF GroupTimer
<1>7. CASE UNCHANGED vars
  BY <1>7 DEF vars
<1>8. QED
  BY <1>1, <1>2, <1>3, <1>4, <1>5, <1>6, <1>7 DEF Next, Step

\* The chat service with its groups implements the session registry, so all
\* that SessionsProofs shows of the registry holds with groups at work too.
THEOREM GroupsImplementSessions == Spec => SessionsSpec
<1>1. Init => SessionsInit
  BY DEF Init
<1>2. QED
  BY <1>1, StepRefines, PTL DEF Spec, SessionsSpec

\* Messages to a group are routed through GUserSession: each goes to the
\* connection that is logged in as the member it is for.
COROLLARY GroupsRegistry == Spec => []RegisteredIsCurrent
  BY GroupsImplementSessions, RegistryIsCurrent, PTL

\* Nobody who is still connected is reaped, with groups at work, when no account
\* is used from two connections.
COROLLARY GroupsKeepLive == Spec => []LiveIsRegistered
  BY GroupsImplementSessions, LiveStaysRegistered, PTL

\* Nor does anything groups do make somebody come or go.
COROLLARY GroupsKeepPresence == ASSUME ExclusiveAccounts PROVE Spec => KeepsPresence
  BY GroupsImplementSessions, RegistryKeepsPresence
-----------------------------------------------------------------------------
(* Types, and that a group message misses nobody.                          *)

\* The timer knows the session it cleans up after; a group it has yet to look
\* at is there (nobody but the timer disbands groups); a scan is of a group it
\* has ticked off, in the second half of a tick.
TimerKnows ==
  /\ phase \in {"delete", "clean"} => info # None
  /\ phase = "groups" => \A g \in gtodo : GGroupMap[g] # None
  /\ scan # None => phase = "groups" /\ scan.group \notin gtodo

GInv == GroupsTypeOK /\ Bound /\ TimerKnows

LEMMA InitGInv == Init => GInv /\ BroadcastReaches
<1> SUFFICES ASSUME Init PROVE GInv /\ BroadcastReaches
  OBVIOUS
<1>1. TypeOK /\ Bound
  BY InitIInv DEF Init, IInv
<1>2. QED
  BY <1>1 DEF Init, SessionsInit, GInv, GroupsTypeOK, TimerKnows, BroadcastReaches, At

LEMMA StepSessions == GInv /\ [Next]_vars => TypeOK' /\ Bound'
  BY StepRefines, StepTypeOK, StepBound DEF GInv, GroupsTypeOK

LEMMA StepTimerKnows == GInv /\ [Next]_vars => TimerKnows'
<1> SUFFICES ASSUME GInv, [Next]_vars PROVE TimerKnows'
  OBVIOUS
<1> USE DEF GInv, GroupsTypeOK, TypeOK, TimerKnows, loginVars, timerVars, groupVars,
            sweepVars, sessionVars
<1>1. ASSUME NEW c \in Conns, SessionStep(c) \/ PacketStep(c) \/ LoginStep(c)
      PROVE  TimerKnows'
  <2>1. UNCHANGED <<timerVars, GGroupMap, sweepVars>>
    BY <1>1 DEF SessionStep, PacketStep, LoginStep, Connect, RefuseOnline, PassOnline,
                RejectLogin, BindSession, StoreSession, Disconnect, Receive
  <2>2. QED
    BY <2>1
<1>2. ASSUME NEW c \in Conns, CreateGroup(c) PROVE TimerKnows'
  BY <1>2, GroupsAssumption DEF CreateGroup
<1>3. ASSUME NEW c \in Conns, Handler(c), ~CreateGroup(c) PROVE TimerKnows'
  BY <1>3 DEF Handler, RefuseGroup, FindGroup, RefuseMember, PassMember,
              UpdateMembers, UpdateOwn, StartCast, EndCast, EndCancel, CancelGroup, Visit
<1>4. ASSUME NEW c \in Conns, NEW op \in GroupOps, NEW g \in GroupIds, Request(c, op, g)
      PROVE  TimerKnows'
  BY <1>4 DEF Request
<1>5. ASSUME TimerStep PROVE TimerKnows'
  <2>1. CASE Tick \/ CleanRelations
    BY <1>5, <2>1 DEF TimerStep, Tick, CleanRelations
  <2>2. ASSUME NEW u \in Users, SkipSession(u) \/ FindDead(u) PROVE TimerKnows'
    BY <1>5, <2>2 DEF TimerStep, SkipSession, FindDead, Dead
  <2>3. CASE SweepGroups /\ gtodo = {} /\ scan = None
    BY <1>5, <2>3 DEF TimerStep, SweepGroups
  <2>4. QED
    BY <1>5, <2>1, <2>2, <2>3 DEF TimerStep
<1>6. ASSUME StartLeaving PROVE TimerKnows'
  BY <1>6 DEF StartLeaving, DeleteSession
<1>7. ASSUME StartSweep PROVE TimerKnows'
  BY <1>7 DEF StartSweep, EndRange, Existing
<1>8. ASSUME NEW g \in GroupIds, LeaveGroup(g) PROVE TimerKnows'
  BY <1>8 DEF LeaveGroup
<1>9. ASSUME NEW g \in GroupIds, StartScan(g) PROVE TimerKnows'
  BY <1>9 DEF StartScan
<1>10. ASSUME NEW u \in Users, ScanMember(u) PROVE TimerKnows'
  BY <1>10 DEF ScanMember, Scan
<1>11. ASSUME EndScan PROVE TimerKnows'
  BY <1>11 DEF EndScan, AfterScan, Scan
<1>12. CASE UNCHANGED vars
  BY <1>12 DEF vars
<1>13. QED
  BY <1>1, <1>2, <1>3, <1>4, <1>5, <1>6, <1>7, <1>8, <1>9, <1>10, <1>11, <1>12
     DEF Next, Step, GroupTimer

LEMMA StepJob == GInv /\ [Next]_vars =>
  /\ job' \in [Conns -> Job \cup {None}]
  /\ \A c \in Conns : job'[c] # None =>
       (job'[c].step \in {"check", "store", "own", "range"} => job'[c].obj \in Objs)
<1> DEFINE JobOK == /\ job \in [Conns -> Job \cup {None}]
                    /\ \A c \in Conns : job[c] # None =>
                         (job[c].step \in {"check", "store", "own", "range"}
                            => job[c].obj \in Objs)
<1> SUFFICES ASSUME GInv, [Next]_vars PROVE JobOK'
  OBVIOUS
<1>0. JobOK
  BY DEF GInv, GroupsTypeOK
<1> USE DEF GInv, GroupsTypeOK, TypeOK, SessionOrNone, groupVars, sessionVars, sweepVars
<1>1. CASE UNCHANGED job
  BY <1>0, <1>1
<1>2. ASSUME NEW c \in Conns, NEW op \in GroupOps, NEW g \in GroupIds, Request(c, op, g)
      PROVE  JobOK'
  <2>1. Self[c] \in Session
    BY <1>2 DEF Request
  <2>2. ownJoinGroup[Self[c].id] \subseteq GroupIds
    BY <2>1 DEF Session
  <2> DEFINE gs == IF op = "cancelAll" THEN ownJoinGroup[Self[c].id] ELSE {}
             j == [op |-> op, self |-> Self[c], group |-> g, obj |-> None,
                   step |-> "load", todo |-> {}, groups |-> gs, sent |-> {}]
  <2>3. gs \in SUBSET GroupIds
    BY <2>2
  <2>4. j \in Job /\ j.step = "load"
    <3> HIDE DEF gs
    <3>1. QED
      BY <2>1, <2>3 DEF Job
  <2>5. job' = [job EXCEPT ![c] = j]
    BY <1>2 DEF Request
  <2>6. QED
    <3> HIDE DEF j
    <3>1. QED
      BY <1>0, <2>4, <2>5
<1>3. ASSUME NEW c \in Conns,
             \/ CreateGroup(c) \/ RefuseGroup(c) \/ RefuseMember(c)
             \/ UpdateOwn(c) \/ EndCast(c) \/ EndCancel(c)
      PROVE  JobOK'
  BY <1>0, <1>3 DEF CreateGroup, RefuseGroup, RefuseMember, UpdateOwn, EndCast, EndCancel,
                    Done
<1>4. ASSUME NEW c \in Conns, FindGroup(c) PROVE JobOK'
  <2>1. job[c] \in Job /\ GGroupMap[job[c].group] \in Objs
    BY <1>0, <1>4 DEF FindGroup, Found, At, Job
  <2>2. [job[c] EXCEPT !.obj = GGroupMap[job[c].group], !.step = "check"] \in Job
    BY <2>1 DEF Job
  <2>3. QED
    BY <1>0, <1>4, <2>1, <2>2 DEF FindGroup, Job
<1>5. ASSUME NEW c \in Conns, PassMember(c) \/ UpdateMembers(c) PROVE JobOK'
  <2>1. job[c] \in Job /\ job[c].obj \in Objs
    BY <1>0, <1>5 DEF PassMember, UpdateMembers, At
  <2>2. PICK st \in {"store", "own"} : job' = [job EXCEPT ![c].step = st]
    BY <1>5 DEF PassMember, UpdateMembers
  <2>3. QED
    BY <1>0, <2>1, <2>2 DEF Job
<1>6. ASSUME NEW c \in Conns, NEW g \in GroupIds, CancelGroup(c, g) PROVE JobOK'
  <2>1. job[c] \in Job
    BY <1>0, <1>6 DEF CancelGroup, At
  <2>2. job[c].groups \ {g} \in SUBSET GroupIds
    BY <2>1 DEF Job
  <2>3. PICK S \in SUBSET GroupIds : job' = [job EXCEPT ![c].groups = S]
    BY <1>6, <2>2 DEF CancelGroup
  <2>4. PICK j \in Job : j = [job[c] EXCEPT !.groups = S]
    BY <2>1 DEF Job
  <2>5. j.step = job[c].step /\ j.obj = job[c].obj
    BY <2>1, <2>4 DEF Job
  <2>6. job' = [job EXCEPT ![c] = j]
    BY <2>3, <2>4
  <2>7. QED
    <3>1. job[c] # None
      BY <1>6 DEF CancelGroup, At
    <3>2. QED
      BY <1>0, <2>5, <2>6, <3>1
<1>7. ASSUME NEW c \in Conns, StartCast(c) PROVE JobOK'
  <2>1. job[c] \in Job /\ job[c].obj \in Objs
    BY <1>0, <1>7 DEF StartCast, At
  <2>2. QED
    BY <1>0, <1>7, <2>1 DEF StartCast, Job
<1>8. ASSUME NEW c \in Conns, NEW u \in Users, Visit(c, u) PROVE JobOK'
  <2>1. job[c] \in Job /\ job[c].obj \in Objs
    BY <1>0, <1>8 DEF Visit, At
  <2>2. AfterVisit(c, u) \subseteq Users
    BY <2>1 DEF AfterVisit, Job
  <2>3. PICK S \in SUBSET Users :
          job' = [job EXCEPT ![c].todo = AfterVisit(c, u), ![c].sent = S]
    <3>1. job[c].sent \in SUBSET Users
      BY <2>1 DEF Job
    <3>2. CASE Receives(c, u)
      BY <1>8, <3>1, <3>2 DEF Visit
    <3>3. CASE ~Receives(c, u)
      BY <1>8, <3>1, <3>3 DEF Visit
    <3>4. QED
      BY <3>2, <3>3
  <2>4. QED
    BY <1>0, <2>1, <2>2, <2>3 DEF Job
<1>9. ASSUME NEW c \in Conns, SessionStep(c) \/ PacketStep(c) \/ LoginStep(c) PROVE UNCHANGED job
  BY <1>9 DEF SessionStep, PacketStep, LoginStep
<1>10. ASSUME GroupTimer PROVE UNCHANGED job
  BY <1>10 DEF GroupTimer, TimerStep, StartLeaving, StartSweep, EndScan, LeaveGroup, StartScan,
               ScanMember
<1>11. QED
  BY <1>1, <1>2, <1>3, <1>4, <1>5, <1>6, <1>7, <1>8, <1>9, <1>10
     DEF Next, Step, Handler, vars

\* The maps of the groups and what the timer notes about them.
GroupMapsOK ==
  /\ GGroupMap \in [GroupIds -> Objs \cup {None}]
  /\ Members \in [Objs -> SUBSET Users]
  /\ ownJoinGroup \in [Ids -> SUBSET GroupIds]
  /\ gtodo \in SUBSET GroupIds
  /\ scan \in Scan \cup {None}

LEMMA WithoutMemberType ==
  ASSUME GroupMapsOK, NEW g \in GroupIds, NEW u
  PROVE  WithoutMember(g, u) \in [Objs -> SUBSET Users]
  BY DEF GroupMapsOK, WithoutMember

LEMMA StepGroupMaps == GInv /\ [Next]_vars => GroupMapsOK'
<1> SUFFICES ASSUME GInv, [Next]_vars PROVE GroupMapsOK'
  OBVIOUS
<1>0. GroupMapsOK
  BY DEF GInv, GroupsTypeOK, GroupMapsOK
<1>a. \A c \in Conns : job[c] # None => job[c] \in Job
  BY DEF GInv, GroupsTypeOK
<1> USE DEF GroupMapsOK, groupVars, sweepVars
<1>1. CASE UNCHANGED <<groupVars, sweepVars>>
  BY <1>0, <1>1
<1>2. ASSUME NEW c \in Conns, LoginStep(c) PROVE GroupMapsOK'
  <2>1. PICK i \in Ids : new' = [new EXCEPT ![c] = SessInfo(c, i)]
    BY <1>2 DEF LoginStep, StoreSession
  <2>2. new'[c].id = i
    BY <2>1 DEF GInv, GroupsTypeOK, TypeOK, SessInfo
  <2>3. QED
    BY <1>0, <1>2, <2>2 DEF LoginStep
<1>3. ASSUME NEW c \in Conns, CreateGroup(c) PROVE GroupMapsOK'
  <2>1. job[c] \in Job
    BY <1>3, <1>a DEF CreateGroup, At
  <2>2. Own(c) \in Users /\ job[c].group \in GroupIds
    BY <2>1 DEF Job, Own, Session
  <2>3. QED
    BY <1>0, <1>3, <2>2 DEF CreateGroup
<1>4. ASSUME NEW c \in Conns, UpdateMembers(c) PROVE GroupMapsOK'
  <2>1. job[c] \in Job
    BY <1>4, <1>a DEF UpdateMembers, At
  <2>2. Own(c) \in Users
    BY <2>1 DEF Job, Own, Session
  <2>3. QED
    BY <1>0, <1>4, <2>2 DEF UpdateMembers
<1>5. ASSUME NEW c \in Conns, UpdateOwn(c) PROVE GroupMapsOK'
  <2>1. job[c] \in Job
    BY <1>5, <1>a DEF UpdateOwn, At
  <2>2. job[c].group \in GroupIds
    BY <2>1 DEF Job
  <2>3. QED
    BY <1>0, <1>5, <2>2 DEF UpdateOwn
<1>6. ASSUME NEW c \in Conns, NEW g \in GroupIds, CancelGroup(c, g) PROVE GroupMapsOK'
  BY <1>0, <1>6, WithoutMemberType DEF CancelGroup
<1>7. ASSUME StartLeaving PROVE GroupMapsOK'
  <2>1. info \in Session
    BY <1>7 DEF StartLeaving, DeleteSession, GInv, TimerKnows, GroupsTypeOK, TypeOK,
                SessionOrNone
  <2>2. info.id \in Ids
    BY <2>1 DEF Session
  <2>3. QED
    BY <1>0, <1>7, <2>2 DEF StartLeaving
<1>8. ASSUME NEW g \in GroupIds, LeaveGroup(g) PROVE GroupMapsOK'
  BY <1>0, <1>8, WithoutMemberType DEF LeaveGroup
<1>9. ASSUME StartSweep PROVE GroupMapsOK'
  BY <1>0, <1>9 DEF StartSweep, Existing
<1>10. ASSUME NEW g \in GroupIds, StartScan(g) PROVE GroupMapsOK'
  <2>1. GGroupMap[g] \in Objs
    BY <1>0, <1>10 DEF StartScan, GInv, TimerKnows
  <2>2. QED
    BY <1>0, <1>10, <2>1 DEF StartScan, Scan
<1>11. ASSUME NEW u \in Users, ScanMember(u) PROVE GroupMapsOK'
  <2>1. scan \in Scan
    BY <1>0, <1>11 DEF ScanMember
  <2>2. PICK b \in BOOLEAN : scan' = [scan EXCEPT !.todo = @ \ {u}, !.flag = b]
    <3>1. scan.flag \in BOOLEAN
      BY <2>1 DEF Scan
    <3> DEFINE b == scan.flag \/ (u \in Members[scan.obj] /\ GUserSession[u] # None)
    <3>2. b \in BOOLEAN
      BY <3>1
    <3>3. scan' = [scan EXCEPT !.todo = @ \ {u}, !.flag = b]
      BY <1>11 DEF ScanMember, SomeoneHere, Here
    <3>4. QED
      BY <3>2, <3>3
  <2>3. scan' \in Scan
    BY <2>1, <2>2 DEF Scan
  <2>4. QED
    BY <1>0, <1>11, <2>3 DEF ScanMember
<1>12. ASSUME EndScan PROVE GroupMapsOK'
  BY <1>0, <1>12 DEF EndScan, AfterScan, Scan
<1>13. ASSUME NEW c \in Conns, SessionStep(c) \/ PacketStep(c)
       PROVE  UNCHANGED <<groupVars, sweepVars>>
  BY <1>13 DEF SessionStep, PacketStep
<1>14. ASSUME NEW c \in Conns,
              \/ RefuseGroup(c) \/ FindGroup(c) \/ RefuseMember(c) \/ PassMember(c)
              \/ StartCast(c) \/ EndCast(c) \/ EndCancel(c) \/ \E u \in Users : Visit(c, u)
       PROVE  UNCHANGED <<groupVars, sweepVars>>
  BY <1>14 DEF RefuseGroup, FindGroup, RefuseMember, PassMember, StartCast, EndCast,
               EndCancel, Visit
<1>15. ASSUME NEW c \in Conns, NEW op \in GroupOps, NEW g \in GroupIds, Request(c, op, g)
       PROVE  UNCHANGED <<groupVars, sweepVars>>
  BY <1>15 DEF Request
<1>16. ASSUME TimerStep PROVE UNCHANGED <<groupVars, sweepVars>>
  BY <1>16 DEF TimerStep
<1>17. QED
  BY <1>1, <1>2, <1>3, <1>4, <1>5, <1>6, <1>7, <1>8, <1>9, <1>10, <1>11, <1>12, <1>13,
     <1>14, <1>15, <1>16 DEF Next, Step, Handler, GroupTimer, vars

\* stable is a set of users, and on Track's own terms.
LEMMA StepStable ==
  GInv /\ [Next]_vars /\ job' \in [Conns -> Job \cup {None}]
    => stable' \in [Conns -> SUBSET Users]
<1> SUFFICES ASSUME GInv, [Next]_vars, job' \in [Conns -> Job \cup {None}]
             PROVE  stable' \in [Conns -> SUBSET Users]
  OBVIOUS
<1>1. CASE UNCHANGED vars
  BY <1>1 DEF vars, GInv, GroupsTypeOK
<1>2. CASE Next
  <2>1. ASSUME NEW c \in Conns PROVE stable'[c] \subseteq Users
    <3>1. stable[c] \subseteq Users
      BY DEF GInv, GroupsTypeOK
    <3>2. CASE job'[c] = None \/ job'[c].step # "range"
      BY <1>2, <3>2 DEF Next, History, Track
    <3>3. CASE job'[c] # None /\ job'[c].step = "range"
      <4>1. job'[c].todo \subseteq Users
        BY <3>3 DEF Job
      <4>2. QED
        BY <1>2, <3>1, <3>3, <4>1 DEF Next, History, Track
    <3>4. QED
      BY <3>2, <3>3
  <2>2. stable' = [c \in Conns |-> stable'[c]]
    BY <1>2 DEF Next, History, Track
  <2>3. QED
    BY <2>1, <2>2
<1>3. QED
  BY <1>1, <1>2

LEMMA StepStayed ==
  GInv /\ [Next]_vars /\ scan' \in Scan \cup {None} => stayed' \in SUBSET Users
<1> SUFFICES ASSUME GInv, [Next]_vars, scan' \in Scan \cup {None}
             PROVE  stayed' \in SUBSET Users
  OBVIOUS
<1>1. CASE UNCHANGED vars
  BY <1>1 DEF vars, GInv, GroupsTypeOK
<1>2. CASE Next /\ scan' = None
  BY <1>2 DEF Next, History, TrackScan
<1>3. CASE Next /\ scan' # None
  <2>1. scan'.todo \subseteq Users /\ stayed \subseteq Users
    BY <1>3 DEF Scan, GInv, GroupsTypeOK
  <2>2. QED
    BY <1>3, <2>1 DEF Next, History, TrackScan
<1>4. QED
  BY <1>1, <1>2, <1>3

LEMMA StepGInv == GInv /\ [Next]_vars => GInv'
  BY StepSessions, StepTimerKnows, StepJob, StepGroupMaps, StepStable, StepStayed
     DEF GInv, GroupsTypeOK, GroupMapsOK

\* Type correctness of the maps, the requests in progress and the timer.
THEOREM GroupsTypeCorrect == Spec => []GroupsTypeOK
<1>1. Spec => []GInv
  BY InitGInv, StepGInv, PTL DEF Spec
<1>2. QED
  BY <1>1, PTL DEF GInv

\* A Range under way has each stable member still ahead of it or served.
Served(c) == stable[c] \ {Own(c)} \subseteq job[c].todo \cup job[c].sent

LEMMA StepBroadcast ==
  GInv /\ GInv' /\ BroadcastReaches /\ [Next]_vars => BroadcastReaches'
<1> SUFFICES ASSUME GInv, GInv', BroadcastReaches, [Next]_vars,
                    NEW c \in Conns, At(c, {"send"}, "range")'
             PROVE  Served(c)'
  BY DEF BroadcastReaches, Served
<1>a. job'[c] # None /\ job'[c].step = "range" /\ job'[c].op = "send"
  BY DEF At
<1>b. /\ job \in [Conns -> Job \cup {None}]
      /\ job' \in [Conns -> Job \cup {None}]
      /\ job'[c] \in Job
  BY <1>a DEF GInv, GroupsTypeOK
<1>1. CASE UNCHANGED vars
  <2>1. At(c, {"send"}, "range")
    BY <1>1, <1>a DEF vars, At
  <2>2. Served(c)
    BY <2>1 DEF BroadcastReaches, Served
  <2>3. QED
    BY <1>1, <2>2 DEF vars, Served, Own
<1>2. CASE Next
  \* stable only shrinks, or starts as part of the keys to visit.
  <2>1. stable'[c] = {u \in (IF job[c].step = "store" THEN job'[c].todo ELSE stable[c]) :
                        /\ u \in Members'[job'[c].obj]
                        /\ GUserSession[u] # None /\ GUserSession'[u] = GUserSession[u]}
    BY <1>2, <1>a DEF Next, History, Track
  <2>2. CASE job'[c] = job[c]
    <3>1. At(c, {"send"}, "range")
      BY <2>2, <1>a DEF At
    <3>2. Served(c)
      BY <3>1 DEF BroadcastReaches, Served
    <3>3. job[c].step # "store" /\ stable'[c] \subseteq stable[c]
      BY <2>1, <2>2, <1>a
    <3>4. QED
      BY <2>2, <3>2, <3>3 DEF Served, Own
  <2>3. CASE StartCast(c)
    <3>1. job[c].step = "store"
      BY <2>3 DEF StartCast, At
    <3>2. QED
      BY <2>1, <3>1 DEF Served
  <2>4. ASSUME NEW u \in Users, Visit(c, u) PROVE Served(c)'
    <3>1. At(c, {"send"}, "range") /\ job[c] \in Job
      BY <2>4, <1>b DEF Visit, At
    <3>2. /\ job'[c].todo = job[c].todo \ {u}
          /\ job'[c].sent = IF Receives(c, u) THEN job[c].sent \cup {u} ELSE job[c].sent
          /\ job'[c].obj = job[c].obj
          /\ job'[c].self = job[c].self
      BY <2>4, <3>1, <1>b DEF Visit, AfterVisit, Job
    <3>3. Members' = Members
      BY <2>4 DEF Visit, groupVars
    <3>4. Served(c)
      BY <3>1 DEF BroadcastReaches, Served
    <3>5. stable'[c] \subseteq stable[c]
      BY <2>1, <3>1 DEF At
    <3>6. u \in stable'[c] /\ u # Own(c) => Receives(c, u)
      BY <2>1, <3>2, <3>3 DEF Receives
    <3>7. QED
      BY <3>2, <3>4, <3>5, <3>6 DEF Served, Own
  <2>5. ASSUME job'[c] # job[c] PROVE StartCast(c) \/ \E u \in Users : Visit(c, u)
    <3>1. ASSUME NEW d \in Conns, d # c, job' = [job EXCEPT ![d] = job'[d]] PROVE FALSE
      BY <2>5, <3>1, <1>b
    <3>2. ASSUME UNCHANGED job PROVE FALSE
      BY <2>5, <3>2
    <3>3. ~GroupTimer
      BY <3>2 DEF GroupTimer, TimerStep, StartLeaving, StartSweep, EndScan, LeaveGroup,
                  StartScan, ScanMember
    <3>4. ASSUME NEW d \in Conns, SessionStep(d) \/ PacketStep(d) \/ LoginStep(d) PROVE FALSE
      BY <3>2, <3>4 DEF SessionStep, PacketStep, LoginStep
    <3>5. ASSUME NEW d \in Conns, NEW op \in GroupOps, NEW g \in GroupIds, Request(d, op, g)
          PROVE  FALSE
      <4>1. job'[d].step = "load"
        BY <3>5, <1>b DEF Request
      <4>2. QED
        BY <3>1, <3>5, <4>1, <1>a, <1>b DEF Request
    <3>6. ASSUME NEW d \in Conns, d # c, Handler(d) PROVE FALSE
      BY <3>1, <3>2, <3>6, <1>b
         DEF Handler, CreateGroup, RefuseGroup, FindGroup, RefuseMember, PassMember,
             UpdateMembers, UpdateOwn, StartCast, EndCast, EndCancel, CancelGroup, Visit, Done
    <3>7. ASSUME \/ CreateGroup(c) \/ RefuseGroup(c) \/ RefuseMember(c) \/ UpdateOwn(c)
                 \/ EndCast(c) \/ EndCancel(c)
          PROVE  FALSE
      BY <3>7, <1>a, <1>b DEF CreateGroup, RefuseGroup, RefuseMember, UpdateOwn, EndCast,
                              EndCancel, Done
    <3>8. ASSUME FindGroup(c) \/ PassMember(c) \/ UpdateMembers(c)
                 \/ \E g \in GroupIds : CancelGroup(c, g)
          PROVE  job'[c].step # "range"
      <4>1. job[c] \in Job
        BY <3>8, <1>b DEF FindGroup, PassMember, UpdateMembers, CancelGroup, At
      <4>2. CASE FindGroup(c)
        BY <4>1, <4>2, <1>b DEF FindGroup, Job
      <4>3. CASE PassMember(c) \/ UpdateMembers(c)
        BY <4>1, <4>3, <1>b DEF PassMember, UpdateMembers, Job
      <4>4. ASSUME NEW g \in GroupIds, CancelGroup(c, g) PROVE job'[c].step # "range"
        BY <4>1, <4>4, <1>b DEF CancelGroup, At, Job
      <4>5. QED
        BY <3>8, <4>2, <4>3, <4>4
    <3>9. QED
      BY <1>2, <1>a, <3>3, <3>4, <3>5, <3>6, <3>7, <3>8 DEF Next, Step, Handler
  <2>6. QED
    BY <2>2, <2>3, <2>4, <2>5
<1>3. QED
  BY <1>1, <1>2

\* A group message misses nobody who is a member and online throughout, with
\* any number of handlers, logins and disconnections and the timer at work.
THEOREM BroadcastMissesNobody == Spec => []BroadcastReaches
<1>1. GInv /\ BroadcastReaches /\ [Next]_vars => (GInv /\ BroadcastReaches)'
  BY StepGInv, StepBroadcast
<1>2. Spec => [](GInv /\ BroadcastReaches)
  BY <1>1, InitGInv, PTL DEF Spec
<1>3. QED
  BY <1>2, PTL
-----------------------------------------------------------------------------
(* The timer's look at a group.                                            *)

\* Whoever has stayed is yet to be looked at, or somebody has been seen.
ScanInv == scan # None /\ ~scan.flag => stayed \subseteq scan.todo

LEMMA StepScan == GInv /\ GInv' /\ ScanInv /\ [Next]_vars => ScanInv'
<1> SUFFICES ASSUME GInv, GInv', ScanInv, [Next]_vars, scan' # None, ~scan'.flag
             PROVE  stayed' \subseteq scan'.todo
  BY DEF ScanInv
<1>a. scan \in Scan \cup {None} /\ scan' \in Scan
  BY DEF GInv, GroupsTypeOK
<1>1. CASE UNCHANGED vars
  BY <1>1 DEF vars, sweepVars, ScanInv
<1>2. CASE Next
  <2>1. stayed' = {u \in (IF scan = None THEN scan'.todo ELSE stayed) :
                     u \in Members'[scan'.obj] /\ GUserSession'[u] # None}
    BY <1>2 DEF Next, History, TrackScan
  <2>2. CASE scan = None
    BY <2>1, <2>2
  <2>3. CASE scan' = scan
    BY <2>1, <2>3 DEF ScanInv
  <2>4. ASSUME NEW u \in Users, ScanMember(u)
        PROVE  stayed' \subseteq scan'.todo
    <3>1. /\ scan # None /\ scan \in Scan /\ UNCHANGED <<Members, GUserSession>>
          /\ scan' = [scan EXCEPT !.todo = @ \ {u}, !.flag = SomeoneHere(u)]
      BY <2>4, <1>a DEF ScanMember, groupVars, sessionVars
    <3>2. scan'.todo = scan.todo \ {u} /\ scan'.obj = scan.obj /\ scan'.flag = SomeoneHere(u)
      BY <3>1 DEF Scan
    <3>3. ~scan.flag /\ ~Here(u)
      BY <3>2 DEF SomeoneHere
    <3>4. stayed \subseteq scan.todo
      BY <3>1, <3>3 DEF ScanInv
    <3>5. u \notin stayed'
      BY <2>1, <3>1, <3>2, <3>3 DEF Here
    <3>6. QED
      BY <2>1, <3>1, <3>2, <3>4, <3>5
  <2>5. ASSUME scan # None, scan' # scan PROVE \E u \in Users : ScanMember(u)
    <3>1. ASSUME NEW c \in Conns, SessionStep(c) \/ PacketStep(c) \/ LoginStep(c) \/ Handler(c)
          PROVE  scan' = scan
      BY <3>1 DEF SessionStep, PacketStep, LoginStep, Handler, CreateGroup, RefuseGroup,
                  FindGroup, RefuseMember, PassMember, UpdateMembers, UpdateOwn, StartCast,
                  EndCast, EndCancel, CancelGroup, Visit, sweepVars
    <3>2. ASSUME NEW c \in Conns, NEW op \in GroupOps, NEW g \in GroupIds, Request(c, op, g)
          PROVE  scan' = scan
      BY <3>2 DEF Request, sweepVars
    <3>3. ASSUME TimerStep \/ StartLeaving \/ StartSweep \/ \E g \in GroupIds : LeaveGroup(g)
          PROVE  scan' = scan
      BY <3>3 DEF TimerStep, StartLeaving, StartSweep, LeaveGroup, sweepVars
    <3>4. ~EndScan /\ \A g \in GroupIds : ~StartScan(g)
      BY <2>5 DEF EndScan, StartScan
    <3>5. QED
      BY <1>2, <2>5, <3>1, <3>2, <3>3, <3>4 DEF Next, Step, GroupTimer
  <2>6. QED
    BY <2>2, <2>3, <2>4, <2>5
<1>3. QED
  BY <1>1, <1>2

\* The timer never disbands a group with a user who was a member and online
\* from the first step of its scan to the last, whatever others do meanwhile:
\* what groups_disband shows can befall only those who come during the scan.
THEOREM TimerSparesWhoStays == Spec => []ScanSeesWhoStays
<1>1. GInv /\ ScanInv /\ [Next]_vars => (GInv /\ ScanInv)'
  BY StepGInv, StepScan
<1>2. Init => ScanInv
  BY DEF Init, ScanInv
<1>3. Spec => [](GInv /\ ScanInv)
  BY <1>1, <1>2, InitGInv, PTL DEF Spec
<1>4. ScanInv => ScanSeesWhoStays
  BY DEF ScanInv, ScanSeesWhoStays
<1>5. QED
  BY <1>3, <1>4, PTL
=============================================================================
