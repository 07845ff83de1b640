--------------------------- MODULE MessagesProofs ---------------------------
(***************************************************************************)
(* What holds of messages for any number of users, connections, sessions   *)
(* and messages.                                                           *)
(***************************************************************************)
EXTENDS Messages, SessionsProofs, Integers

\* The steps, by what they do to jobs.
RegistryStep ==
  \/ TimerStep
  \/ \E c \in Conns : ConnectStep(c) \/ WorkerStep(c) \/ PacketStep(c) \/ LoginStep(c)
FlagStep ==
  \/ \E i \in Ids : CoolDown(i)
  \/ \E c \in Conns : \/ \E p \in Users : Follow(c, p) \/ Unfollow(c, p)
                      \/ \E op \in {2, 3} : SubscribeWorld(c, op)
NewJobStep(c) ==
  \/ RequestWorld(c)
  \/ \E p \in Users : RequestPersonal(c, p)
  \/ \E kind \in Kinds, members \in Memberships : RequestGroup(c, kind, members)
EndStep(c) == RefuseOffline(c) \/ RefuseStranger(c) \/ RefuseWorld(c) \/ EndFanOut(c)
LoadStep(c) == LoadPeer(c) \/ \E u \in Users : LoadMember(c, u)
SkipStep(c) == PassMember(c) \/ \E u \in Users : SkipOffline(c, u)

\* The steps, by what they change.
LEMMA StepCases ==
  ASSUME Step
  PROVE  \/ RegistryStep \/ FlagStep
         \/ \E k \in Users : RunTask(k)
         \/ \E c \in Conns : \/ NewJobStep(c) \/ EndStep(c) \/ LoadStep(c) \/ SkipStep(c)
                             \/ SendPersonal(c) \/ SendToMember(c) \/ StartWorld(c)
  BY DEF Step, RegistryStep, FlagStep, Act, Handler, NewJobStep, EndStep, LoadStep, SkipStep

\* However a request begins, it begins as NewJob says.
LEMMA NewJobBegins ==
  ASSUME NEW c \in Conns, NewJobStep(c)
  PROVE  \E kind \in Kinds, step \in {"load", "start", "range"}, peer \in Users \cup {None},
            members \in SUBSET Users : Free(c) /\ NewJob(c, kind, step, peer, members)
<1>1. CASE RequestWorld(c)
  BY <1>1 DEF RequestWorld
<1>2. ASSUME NEW p \in Users, RequestPersonal(c, p)
      PROVE  Free(c) /\ "personal" \in Kinds /\ NewJob(c, "personal", "load", p, {})
  BY <1>2 DEF RequestPersonal
<1>3. ASSUME NEW kind \in Kinds, NEW members \in Memberships, RequestGroup(c, kind, members)
      PROVE  Free(c) /\ NewJob(c, kind, "range", None, members) /\ members \in SUBSET Users
  BY <1>3, MessagesAssumption DEF RequestGroup
<1>4. QED
  BY <1>1, <1>2, <1>3 DEF NewJobStep, RequestWorld

\* Whatever handlers and the pool do, to the registry they do nothing.
LEMMA MsgStepRefines == [Next]_vars => [SessionsNext]_sessionVars
<1> SUFFICES ASSUME [Next]_vars PROVE [SessionsNext]_sessionVars
  OBVIOUS
<1>1. CASE UNCHANGED vars
  BY <1>1 DEF vars
<1>2. CASE RegistryStep
  BY <1>2 DEF RegistryStep, TimerStep, ConnectStep, WorkerStep, PacketStep, LoginStep,
              SessionsNext, Login
<1>3. CASE FlagStep
  BY <1>3 DEF FlagStep, CoolDown, Follow, Unfollow, SubscribeWorld
<1>4. ASSUME NEW k \in Users, RunTask(k) PROVE UNCHANGED sessionVars
  BY <1>4 DEF RunTask
<1>5. ASSUME NEW c \in Conns,
             \/ NewJobStep(c) \/ EndStep(c) \/ LoadStep(c) \/ SkipStep(c)
             \/ SendPersonal(c) \/ SendToMember(c) \/ StartWorld(c)
      PROVE  UNCHANGED sessionVars
  BY <1>5 DEF NewJobStep, RequestWorld, RequestPersonal, RequestGroup, NewJob, EndStep,
         RefuseOffline, RefuseStranger, RefuseWorld, EndFanOut, LoadStep, LoadPeer,
         LoadMember, SkipStep, PassMember, SkipOffline, SendPersonal, SendToMember, StartWorld
<1>6. QED
  BY <1>1, <1>2, <1>3, <1>4, <1>5, StepCases DEF Next

\* What SessionsProofs shows of the registry holds with messages at work too.
THEOREM MessagesImplementSessions == Spec => SessionsSpec
<1>1. Init => SessionsInit
  BY DEF Init
<1>2. QED
  BY <1>1, MsgStepRefines, PTL DEF Spec, SessionsSpec

\* So a registered session is the current one of its connection while messages are at work,
COROLLARY MessagesRegistry == Spec => []RegisteredIsCurrent
  BY MessagesImplementSessions, RegistryIsCurrent, PTL

\* and when no account is used from two connections the registry keeps presence.
COROLLARY MessagesKeepPresence == ASSUME ExclusiveAccounts PROVE Spec => KeepsPresence
  BY MessagesImplementSessions, RegistryKeepsPresence
-----------------------------------------------------------------------------
(* Jobs.                                                                   *)

\* What a job holds at each of its steps.
Shape ==
  \A c \in Conns : job[c] # None =>
    /\ job[c].n = number[c]
    /\ job[c].step = "load" => job[c].kind = "personal" /\ job[c].peer \in Users
    /\ job[c].step = "start" => job[c].kind = "world"
    /\ job[c].step = "range" => job[c].kind # "personal"
    /\ job[c].step \in {"load", "start"} => job[c].todo = {} /\ job[c].sent = {}
    /\ job[c].todo \cap job[c].sent = {}
    /\ job[c].step = "send" => /\ job[c].sess \in Session /\ job[c].sess.Own = job[c].peer
                               /\ job[c].peer \notin job[c].todo \cup job[c].sent

MInv == MsgTypeOK /\ Bound /\ RegisteredIsCurrent /\ Shape

\* The local state of the handlers keeps its type and shape.
LEMMA StepShape ==
  MInv /\ [Next]_vars => job' \in [Conns -> Job \cup {None}] /\ Shape'
<1> SUFFICES ASSUME MInv, [Next]_vars
             PROVE  job' \in [Conns -> Job \cup {None}] /\ Shape'
  OBVIOUS
<1> DEFINE Good == job' \in [Conns -> Job \cup {None}] /\ Shape'
<1> USE NoneIsNoJob, NoneIsNoSession DEF MInv, MsgTypeOK
<1>0. ASSUME UNCHANGED <<job, number>> PROVE Good
  BY <1>0 DEF Shape
<1>1. CASE UNCHANGED vars
  BY <1>0, <1>1 DEF vars
<1>2. CASE RegistryStep \/ FlagStep
  BY <1>0, <1>2 DEF RegistryStep, TimerStep, ConnectStep, WorkerStep, PacketStep, LoginStep,
                    FlagStep, CoolDown, Follow, Unfollow, SubscribeWorld
<1>3. ASSUME NEW k \in Users, RunTask(k) PROVE Good
  BY <1>0, <1>3 DEF RunTask
\* Only the job of c changes, and it keeps its shape.
<1>4. ASSUME NEW c \in Conns, NEW j \in Job, NEW num,
             job' = [job EXCEPT ![c] = j], number' = [number EXCEPT ![c] = num],
             j.n = num,
             j.step = "load" => j.kind = "personal" /\ j.peer \in Users,
             j.step = "start" => j.kind = "world",
             j.step = "range" => j.kind # "personal",
             j.step \in {"load", "start"} => j.todo = {} /\ j.sent = {},
             j.todo \cap j.sent = {},
             j.step = "send" => /\ j.sess \in Session /\ j.sess.Own = j.peer
                                /\ j.peer \notin j.todo \cup j.sent
      PROVE  Good
  BY <1>4 DEF Shape
<1>5. ASSUME NEW c \in Conns, NewJobStep(c) PROVE Good
  <2>1. Self[c] \in Session /\ number[c] + 1 \in Nat
    BY <1>5 DEF NewJobStep, RequestWorld, RequestPersonal, RequestGroup, Free, TypeOK,
           SessionOrNone
  <2>2. ASSUME RequestWorld(c) PROVE Good
    BY <1>4, <2>1, <2>2 DEF RequestWorld, NewJob, Job
  <2>3. ASSUME NEW p \in Users, RequestPersonal(c, p) PROVE Good
    BY <1>4, <2>1, <2>3 DEF RequestPersonal, NewJob, Job
  <2>4. ASSUME NEW kind \in Kinds, NEW members \in Memberships, RequestGroup(c, kind, members)
        PROVE  Good
    <3>1. members \in SUBSET Users
      BY MessagesAssumption
    <3>2. QED
      BY <1>4, <2>1, <2>4, <3>1 DEF RequestGroup, NewJob, Job
  <2>5. QED
    BY <1>5, <2>2, <2>3, <2>4 DEF NewJobStep
<1>6. ASSUME NEW c \in Conns, job' = [job EXCEPT ![c] = None], UNCHANGED number PROVE Good
  BY <1>6 DEF Shape
<1>7. ASSUME NEW c \in Conns, EndStep(c) \/ SendPersonal(c) PROVE Good
  BY <1>6, <1>7 DEF EndStep, RefuseOffline, RefuseStranger, RefuseWorld, EndFanOut,
                    SendPersonal, Done
<1>8. ASSUME NEW c \in Conns, LoadStep(c) PROVE Good
  <2>1. job[c] \in Job
    BY <1>8 DEF LoadStep, LoadPeer, LoadMember, At
  <2>2. CASE LoadPeer(c)
    <3> DEFINE s == GUserSession[job[c].peer]
               j == [job[c] EXCEPT !.sess = s, !.step = "send"]
    <3>1. job[c].step = "load" /\ s # None /\ job' = [job EXCEPT ![c] = j]
          /\ number' = [number EXCEPT ![c] = number[c]]
      BY <2>1, <2>2 DEF LoadPeer, At
    <3>2. s \in Session /\ s.Own = job[c].peer
      BY <2>1, <3>1 DEF Shape, TypeOK, SessionOrNone, RegisteredIsCurrent
    <3>3. j \in Job
      BY <2>1, <3>2 DEF Job
    <3>4. /\ j.n = number[c] /\ j.step = "send" /\ j.sess = s /\ j.peer = job[c].peer
          /\ j.todo = {} /\ j.sent = {}
      BY <2>1, <3>1 DEF Job, Shape
    <3> HIDE DEF j, s
    <3>5. QED
      BY <1>4, <3>1, <3>2, <3>3, <3>4
  <2>3. ASSUME NEW u \in Users, LoadMember(c, u) PROVE Good
    <3> DEFINE s == GUserSession[u]
               j == [job[c] EXCEPT !.todo = @ \ {u}, !.peer = u, !.sess = s, !.step = "send"]
    <3>1. /\ job[c].step = "range" /\ u \in job[c].todo /\ s # None
          /\ job' = [job EXCEPT ![c] = j]
          /\ number' = [number EXCEPT ![c] = number[c]]
      BY <2>1, <2>3 DEF LoadMember, At
    <3>2. s \in Session /\ s.Own = u
      BY <3>1 DEF TypeOK, SessionOrNone, RegisteredIsCurrent
    <3>3. j \in Job
      BY <2>1, <3>2 DEF Job
    <3>4. /\ j.n = number[c] /\ j.step = "send" /\ j.sess = s /\ j.peer = u
          /\ j.todo = job[c].todo \ {u} /\ j.sent = job[c].sent
          /\ job[c].todo \cap job[c].sent = {}
      BY <2>1, <3>1 DEF Job, Shape
    <3> HIDE DEF j, s
    <3>5. QED
      BY <1>4, <3>1, <3>2, <3>3, <3>4
  <2>4. QED
    BY <1>8, <2>2, <2>3 DEF LoadStep
<1>9. ASSUME NEW c \in Conns, SkipStep(c) \/ SendToMember(c) \/ StartWorld(c) PROVE Good
  <2>1. job[c] \in Job
    BY <1>9 DEF SkipStep, PassMember, SkipOffline, SendToMember, StartWorld, At
  <2>2. ASSUME NEW sent \in SUBSET Users, At(c, "send"), job[c].kind # "personal",
               NextVisit(c, sent), UNCHANGED number, sent \subseteq {job[c].peer}
        PROVE  Good
    <3> DEFINE j == [job[c] EXCEPT !.todo = job[c].todo, !.sent = @ \cup sent, !.peer = None,
                                   !.sess = None, !.step = "range"]
    <3>1. job' = [job EXCEPT ![c] = j] /\ number' = [number EXCEPT ![c] = number[c]]
      BY <2>1, <2>2 DEF NextVisit, LeftToVisit
    <3>2. j \in Job
      BY <2>1 DEF Job
    <3>3. /\ j.n = number[c] /\ j.step = "range" /\ j.kind # "personal"
          /\ j.todo = job[c].todo /\ j.sent = job[c].sent \cup sent
      BY <2>1, <2>2 DEF Job, Shape, At
    <3>4. j.todo \cap j.sent = {}
      BY <2>1, <2>2, <3>3 DEF Shape, At
    <3> HIDE DEF j
    <3>5. QED
      BY <1>4, <3>1, <3>2, <3>3, <3>4
  <2>3. CASE PassMember(c)
    BY <2>2, <2>3 DEF PassMember
  <2>4. CASE SendToMember(c)
    <3>1. {job[c].peer} \in SUBSET Users
      BY <2>4 DEF SendToMember, At
    <3>2. QED
      BY <2>2, <2>4, <3>1 DEF SendToMember
  <2>5. ASSUME NEW u \in Users, SkipOffline(c, u) PROVE Good
    <3> DEFINE j == [job[c] EXCEPT !.todo = @ \ {u}]
    <3>1. job' = [job EXCEPT ![c] = j] /\ number' = [number EXCEPT ![c] = number[c]]
          /\ job[c].step = "range"
      BY <2>1, <2>5 DEF SkipOffline, At
    <3>2. j \in Job
      BY <2>1 DEF Job
    <3>3. /\ j.n = number[c] /\ j.step = "range" /\ j.kind # "personal"
          /\ j.todo \cap j.sent = {}
      BY <2>1, <3>1 DEF Job, Shape
    <3> HIDE DEF j
    <3>4. QED
      BY <1>4, <3>1, <3>2, <3>3
  <2>6. CASE StartWorld(c)
    <3> DEFINE j == [job[c] EXCEPT !.todo = Online, !.step = "range"]
    <3>1. job' = [job EXCEPT ![c] = j] /\ number' = [number EXCEPT ![c] = number[c]]
          /\ job[c].step = "start"
      BY <2>1, <2>6 DEF StartWorld, At
    <3>2. j \in Job
      BY <2>1 DEF Job, Online
    <3>3. /\ j.n = number[c] /\ j.step = "range" /\ j.kind # "personal"
          /\ j.todo \cap j.sent = {}
      BY <2>1, <3>1 DEF Job, Shape
    <3> HIDE DEF j
    <3>4. QED
      BY <1>4, <3>1, <3>2, <3>3
  <2>7. QED
    BY <1>9, <2>3, <2>4, <2>5, <2>6 DEF SkipStep
<1>10. QED
  BY <1>1, <1>2, <1>3, <1>5, <1>7, <1>8, <1>9, StepCases DEF Next
-----------------------------------------------------------------------------
(* The other types.                                                        *)

\* The task of a handler that is sending, under the key of the one it is for.
LEMMA TaskSent ==
  ASSUME NEW c \in Conns, MInv, SendPersonal(c) \/ SendToMember(c)
  PROVE  LET u == job[c].peer
             t == [to |-> u, conn |-> job[c].sess.conn, from |-> c, n |-> number[c]]
         IN  /\ u \in Users /\ u \notin job[c].sent /\ job[c].sess \in Session
             /\ t \in Task
             /\ tasks' = [tasks EXCEPT ![u] = Append(@, t)]
             /\ job' = [job EXCEPT ![c] = job'[c]]
             /\ job'[c] # None => job'[c].sent = job[c].sent \cup {u}
             /\ job[c] \in Job /\ job[c].step = "send"
             /\ UNCHANGED <<sessionVars, flagVars, last, number, been>>
<1> USE NoneIsNoJob, NoneIsNoSession DEF MInv, MsgTypeOK
<1> DEFINE u == job[c].peer
           t == [to |-> u, conn |-> job[c].sess.conn, from |-> c, n |-> number[c]]
<1>1. job[c] \in Job /\ job[c].step = "send"
  BY DEF SendPersonal, SendToMember, At
<1>2. /\ u \in Users /\ u \notin job[c].sent /\ job[c].sess \in Session
      /\ job[c].sess.Own = u /\ job[c].n = number[c]
  BY <1>1 DEF Shape
<1>3. Key(c) = u
  BY <1>2 DEF Key, Visited
<1>4. tasks' = [tasks EXCEPT ![u] = Append(@, t)]
  BY <1>2, <1>3 DEF SendPersonal, SendToMember, SendTask, Loaded
<1>5. t \in Task
  BY <1>2 DEF Task, Session
<1>6. /\ job' = [job EXCEPT ![c] = job'[c]]
      /\ job'[c] # None => job'[c].sent = job[c].sent \cup {u}
  <2>1. CASE SendPersonal(c)
    BY <2>1 DEF SendPersonal, Done
  <2>2. CASE SendToMember(c)
    BY <1>1, <2>2 DEF SendToMember, NextVisit, Job
  <2>3. QED
    BY <2>1, <2>2
<1>7. UNCHANGED <<sessionVars, flagVars, last, number, been>>
  BY DEF SendPersonal, SendToMember
<1>8. QED
  BY <1>1, <1>2, <1>4, <1>5, <1>6, <1>7

\* The steps that leave the pool alone.
LEMMA PoolQuiet ==
  ASSUME Step, \A c \in Conns : ~SendPersonal(c) /\ ~SendToMember(c),
         \A k \in Users : ~RunTask(k)
  PROVE  UNCHANGED poolVars
<1>1. CASE RegistryStep \/ FlagStep
  BY <1>1 DEF RegistryStep, TimerStep, ConnectStep, WorkerStep, PacketStep, LoginStep,
              FlagStep, CoolDown, Follow, Unfollow, SubscribeWorld
<1>2. ASSUME NEW c \in Conns,
             NewJobStep(c) \/ EndStep(c) \/ LoadStep(c) \/ SkipStep(c) \/ StartWorld(c)
      PROVE  UNCHANGED poolVars
  BY <1>2 DEF NewJobStep, RequestWorld, RequestPersonal, RequestGroup, NewJob, EndStep,
         RefuseOffline, RefuseStranger, RefuseWorld, EndFanOut, LoadStep, LoadPeer,
         LoadMember, SkipStep, PassMember, SkipOffline, StartWorld
<1>3. QED
  BY <1>1, <1>2, StepCases

\* The tasks and what users have been sent keep their types.
LEMMA StepPoolType ==
  MInv /\ [Next]_vars => /\ tasks' \in [Users -> Seq(Task)]
                         /\ last' \in [Users -> [Conns -> Nat]]
<1> SUFFICES ASSUME MInv, [Next]_vars
             PROVE  /\ tasks' \in [Users -> Seq(Task)]
                    /\ last' \in [Users -> [Conns -> Nat]]
  OBVIOUS
<1> USE DEF MInv, MsgTypeOK
<1>1. CASE UNCHANGED poolVars
  BY <1>1 DEF poolVars
<1>2. ASSUME NEW c \in Conns, SendPersonal(c) \/ SendToMember(c)
      PROVE  tasks' \in [Users -> Seq(Task)] /\ UNCHANGED last
  <2>1. PICK u \in Users, t \in Task : tasks' = [tasks EXCEPT ![u] = Append(@, t)]
    BY <1>2, TaskSent
  <2>2. Append(tasks[u], t) \in Seq(Task)
    OBVIOUS
  <2>3. QED
    BY <1>2, <2>1, <2>2 DEF SendPersonal, SendToMember
<1>3. ASSUME NEW k \in Users, RunTask(k)
      PROVE  tasks' \in [Users -> Seq(Task)] /\ last' \in [Users -> [Conns -> Nat]]
  <2>1. Head(tasks[k]) \in Task /\ Tail(tasks[k]) \in Seq(Task)
    BY <1>3 DEF RunTask
  <2>2. QED
    BY <1>3, <2>1 DEF RunTask, Task
<1>4. QED
  BY <1>1, <1>2, <1>3, PoolQuiet DEF Next, vars

\* So do the flags of the sessions, the counters and the history of logins.
LEMMA StepFlagType ==
  MInv /\ [Next]_vars => /\ ownSubscribe' \in [Ids -> SUBSET Users]
                         /\ IsSubscribeWorld' \in [Ids -> BOOLEAN]
                         /\ cooling' \in [Ids -> BOOLEAN]
                         /\ number' \in [Conns -> Nat]
                         /\ been' \in [Conns -> SUBSET Users]
<1> DEFINE Good == /\ ownSubscribe' \in [Ids -> SUBSET Users]
                   /\ IsSubscribeWorld' \in [Ids -> BOOLEAN]
                   /\ cooling' \in [Ids -> BOOLEAN]
                   /\ number' \in [Conns -> Nat]
                   /\ been' \in [Conns -> SUBSET Users]
<1> SUFFICES ASSUME MInv, [Next]_vars PROVE Good
  OBVIOUS
<1> USE DEF MInv, MsgTypeOK
<1>1. CASE UNCHANGED <<flagVars, number, been>>
  BY <1>1 DEF flagVars
<1>2. ASSUME NEW c \in Conns, LoginStep(c) PROVE Good
  <2>1. req[c] \in Users
    BY <1>2 DEF LoginStep, StoreSession, Bound
  <2>2. UNCHANGED number /\ been' \in [Conns -> SUBSET Users]
    BY <1>2, <2>1 DEF LoginStep
  <2>3. /\ ownSubscribe' \in [Ids -> SUBSET Users]
        /\ IsSubscribeWorld' \in [Ids -> BOOLEAN] /\ cooling' \in [Ids -> BOOLEAN]
    BY <1>2 DEF LoginStep
  <2>4. QED
    BY <2>2, <2>3
<1>3. ASSUME NEW c \in Conns, ConnectStep(c) PROVE Good
  BY <1>3 DEF ConnectStep, flagVars
<1>4. CASE TimerStep \/ \E c \in Conns : WorkerStep(c) \/ PacketStep(c)
  BY <1>1, <1>4 DEF TimerStep, WorkerStep, PacketStep
<1>5. ASSUME NEW i \in Ids, CoolDown(i) PROVE Good
  BY <1>5 DEF CoolDown
<1>6. ASSUME NEW c \in Conns, NEW p \in Users, Follow(c, p) \/ Unfollow(c, p) PROVE Good
  <2> DEFINE i == Self[c].id
  <2>0. i \in Ids
    BY <1>6 DEF Follow, Unfollow, Free, TypeOK, SessionOrNone, Session
  <2>1. ownSubscribe' \in [Ids -> SUBSET Users]
    <3>1. \/ ownSubscribe' = [ownSubscribe EXCEPT ![i] = @ \cup {p}]
          \/ ownSubscribe' = [ownSubscribe EXCEPT ![i] = @ \ {p}]
      BY <1>6 DEF Follow, Unfollow
    <3> HIDE DEF i
    <3>2. ownSubscribe[i] \cup {p} \in SUBSET Users /\ ownSubscribe[i] \ {p} \in SUBSET Users
      BY <2>0
    <3>3. QED
      BY <2>0, <3>1, <3>2
  <2>2. UNCHANGED <<IsSubscribeWorld, cooling, number, been>>
    BY <1>6 DEF Follow, Unfollow
  <2>3. QED
    BY <2>1, <2>2
<1>7. ASSUME NEW c \in Conns, NEW op \in {2, 3}, SubscribeWorld(c, op) PROVE Good
  BY <1>7 DEF SubscribeWorld
<1>8. ASSUME NEW k \in Users, RunTask(k) PROVE Good
  BY <1>1, <1>8 DEF RunTask
<1>9. ASSUME NEW c \in Conns, NewJobStep(c) PROVE Good
  <2>1. number' = [number EXCEPT ![c] = @ + 1] /\ UNCHANGED <<flagVars, been>>
    BY <1>9 DEF NewJobStep, RequestWorld, RequestPersonal, RequestGroup, NewJob
  <2>2. QED
    BY <2>1 DEF flagVars
<1>10. ASSUME NEW c \in Conns, StartWorld(c) PROVE Good
  BY <1>10 DEF StartWorld
<1>11. ASSUME NEW c \in Conns, \/ EndStep(c) \/ LoadStep(c) \/ SkipStep(c)
                               \/ SendPersonal(c) \/ SendToMember(c)
       PROVE  Good
  BY <1>1, <1>11 DEF EndStep, RefuseOffline, RefuseStranger, RefuseWorld, EndFanOut,
         LoadStep, LoadPeer, LoadMember, SkipStep, PassMember, SkipOffline, SendPersonal,
         SendToMember
<1>12. CASE UNCHANGED vars
  BY <1>1, <1>12 DEF vars
<1>13. QED
  BY <1>2, <1>3, <1>4, <1>5, <1>6, <1>7, <1>8, <1>9, <1>10, <1>11, <1>12, StepCases
     DEF Next, RegistryStep, FlagStep
\* stable is a set of users, on Track's own terms.
LEMMA StepStable ==
  MInv /\ [Next]_vars /\ job' \in [Conns -> Job \cup {None}]
    => stable' \in [Conns -> SUBSET Users]
<1> SUFFICES ASSUME MInv, [Next]_vars, job' \in [Conns -> Job \cup {None}]
             PROVE  stable' \in [Conns -> SUBSET Users]
  OBVIOUS
<1>1. CASE UNCHANGED vars
  BY <1>1 DEF vars, MInv, MsgTypeOK
<1>2. CASE Next
  <2>1. ASSUME NEW c \in Conns PROVE stable'[c] \subseteq Users
    <3>1. stable[c] \subseteq Users
      BY DEF MInv, MsgTypeOK
    <3>2. CASE job'[c] = None \/ job'[c].kind # "world" \/ job'[c].step = "start"
      BY <1>2, <3>2 DEF Next, Track
    <3>3. CASE ~(job'[c] = None \/ job'[c].kind # "world" \/ job'[c].step = "start")
      <4>1. job'[c].todo \subseteq Users
        BY <3>3 DEF Job
      <4>2. QED
        BY <1>2, <3>1, <3>3, <4>1 DEF Next, Track
    <3>4. QED
      BY <3>2, <3>3
  <2>2. stable' = [c \in Conns |-> stable'[c]]
    BY <1>2 DEF Next, Track
  <2>3. QED
    BY <2>1, <2>2
<1>3. QED
  BY <1>1, <1>2

\* MInv is inductive.
LEMMA StepMInv == MInv /\ [Next]_vars => MInv'
<1> SUFFICES ASSUME MInv, [Next]_vars PROVE MInv'
  OBVIOUS
<1>1. TypeOK' /\ Bound' /\ RegisteredIsCurrent'
  BY MsgStepRefines, StepTypeOK, StepBound, StepRegistered DEF MInv, MsgTypeOK, IInv
<1>2. job' \in [Conns -> Job \cup {None}] /\ Shape'
  BY StepShape
<1>3. \A c \in Conns : job'[c] # None =>
        /\ job'[c].step = "send" => job'[c].sess \in Session
        /\ job'[c].step = "send" \/ job'[c].kind = "personal" => job'[c].peer \in Users
  BY <1>2 DEF Shape, Session, Job
<1>4. QED
  BY <1>1, <1>2, <1>3, StepPoolType, StepFlagType, StepStable DEF MInv, MsgTypeOK

\* MInv holds at the start.
LEMMA InitMInv == Init => MInv
<1> SUFFICES ASSUME Init PROVE MInv
  OBVIOUS
<1>1. TypeOK /\ Bound /\ RegisteredIsCurrent
  BY InitIInv DEF Init, IInv
<1>2. job = [c \in Conns |-> None] /\ stable = [c \in Conns |-> {}]
  BY DEF Init
<1>3. QED
  BY <1>1, <1>2 DEF Init, MInv, MsgTypeOK, Shape

\* Type correctness of requests in progress, of tasks and of what is sent.
THEOREM MessagesTypeCorrect == Spec => []MsgTypeOK
<1>1. Spec => []MInv
  BY InitMInv, StepMInv, PTL DEF Spec
<1>2. MInv => MsgTypeOK
  BY DEF MInv
<1>3. QED
  BY <1>1, <1>2, PTL
-----------------------------------------------------------------------------
(* Who gets a message.                                                     *)

\* Each task in a queue is a task.
LEMMA TasksTyped ==
  ASSUME MsgTypeOK, NEW k \in Users, NEW j \in DOMAIN tasks[k]
  PROVE  tasks[k][j] \in Task /\ tasks[k][j].conn \in Conns
<1>1. tasks[k] \in Seq(Task)
  BY DEF MsgTypeOK
<1>2. tasks[k][j] \in Task
  BY <1>1
<1>3. QED
  BY <1>2 DEF Task

\* Whom the registry, the handlers and the pool have on a connection has logged
\* in on it.
Known ==
  /\ \A u \in Users : GUserSession[u] # None => u \in been[GUserSession[u].conn]
  /\ \A c \in Conns : job[c] # None /\ job[c].step = "send"
                        => job[c].peer \in been[job[c].sess.conn]
  /\ OnlyAddressees

\* Known is kept: who is on a connection has logged in on it, and a connection is
\* opened anew only when nobody holds on to it.
LEMMA StepKnown == MInv /\ MInv' /\ Known /\ [Next]_vars => Known'
<1> SUFFICES ASSUME MInv, MInv', Known, [Next]_vars PROVE Known'
  OBVIOUS
<1> USE NoneIsNoJob, NoneIsNoSession
\* been keeps whom a connection has seen, unless it is opened anew.
<1> DEFINE Keeps(d) == been[d] \subseteq been'[d]
<1>1. ASSUME \A d \in Conns : Keeps(d),
             \A u \in Users : GUserSession'[u] # None =>
               \/ GUserSession'[u] = GUserSession[u]
               \/ u \in been'[GUserSession'[u].conn],
             \A c \in Conns : job'[c] # None /\ job'[c].step = "send" =>
               \/ job'[c] = job[c]
               \/ job'[c].peer \in been'[job'[c].sess.conn],
             \A k \in Users : \A j \in DOMAIN tasks'[k] :
               \/ \E i \in DOMAIN tasks[k] : tasks'[k][j] = tasks[k][i]
               \/ tasks'[k][j].to \in been'[tasks'[k][j].conn]
      PROVE  Known'
  <2>1. \A u \in Users : GUserSession'[u] # None => u \in been'[GUserSession'[u].conn]
    <3>1. \A u \in Users : GUserSession[u] # None => GUserSession[u].conn \in Conns
      BY DEF MInv, MsgTypeOK, TypeOK, SessionOrNone, Session
    <3>2. QED
      BY <1>1, <3>1 DEF Known
  <2>2. \A c \in Conns : job'[c] # None /\ job'[c].step = "send"
                           => job'[c].peer \in been'[job'[c].sess.conn]
    BY <1>1 DEF Known, MInv, Shape, Session
  <2>3. \A k \in Users : \A j \in DOMAIN tasks[k] : tasks[k][j].conn \in Conns
    BY TasksTyped DEF MInv
  <2>4. OnlyAddressees'
    BY <1>1, <2>3 DEF Known, OnlyAddressees
  <2>5. QED
    BY <2>1, <2>2, <2>4 DEF Known
<1>2. ASSUME UNCHANGED <<GUserSession, job, tasks, been>> PROVE Known'
  BY <1>1, <1>2
<1>3. CASE UNCHANGED vars
  BY <1>2, <1>3 DEF vars, sessionVars, poolVars
<1>4. CASE TimerStep \/ \E c \in Conns : WorkerStep(c) \/ PacketStep(c)
  <2>1. UNCHANGED <<job, tasks, been>>
    BY <1>4 DEF TimerStep, WorkerStep, PacketStep, poolVars
  <2>2. \A u \in Users : GUserSession'[u] # None => GUserSession'[u] = GUserSession[u]
    <3>1. CASE UNCHANGED GUserSession
      BY <3>1
    <3>2. ASSUME NEW c \in Conns, BindSession(c)
          PROVE  \A u \in Users : GUserSession'[u] # None => GUserSession'[u] = GUserSession[u]
      BY <3>2 DEF BindSession, WithoutOldSession, MInv, MsgTypeOK, TypeOK
    <3>3. CASE DeleteSession
      BY <3>3 DEF DeleteSession, WithoutDead, MInv, MsgTypeOK, TypeOK
    <3>4. QED
      BY <1>4, <3>1, <3>2, <3>3 DEF TimerStep, Timer, Tick, CleanRelations, EndRange,
         SweepGroups, SkipSession, FindDead, WorkerStep, RefuseOnline, PassOnline,
         RejectLogin, PacketStep, Disconnect, Receive
  <2>3. QED
    BY <1>1, <2>1, <2>2
<1>5. ASSUME NEW c \in Conns, LoginStep(c) PROVE Known'
  <2>1. PICK i \in Ids : GUserSession' = [GUserSession EXCEPT ![req[c]] = SessInfo(c, i)]
    BY <1>5 DEF LoginStep, StoreSession
  <2>2. been' = [been EXCEPT ![c] = @ \cup {req[c]}] /\ UNCHANGED <<job, tasks>>
    BY <1>5 DEF LoginStep, poolVars
  <2>3. \A u \in Users : GUserSession'[u] # None =>
          GUserSession'[u] = GUserSession[u] \/ u \in been'[GUserSession'[u].conn]
    BY <2>1, <2>2 DEF SessInfo, MInv, MsgTypeOK, TypeOK
  <2>4. \A d \in Conns : Keeps(d)
    BY <2>2 DEF MInv, MsgTypeOK
  <2>5. QED
    BY <1>1, <2>2, <2>3, <2>4
<1>6. ASSUME NEW c \in Conns, ConnectStep(c) PROVE Known'
  <2>1. /\ been' = [been EXCEPT ![c] = {}] /\ UNCHANGED <<job, tasks, GUserSession>>
        /\ \A u \in Users : GUserSession[u] # None => GUserSession[u].conn # c
        /\ ~ConnHeld(c)
    BY <1>6 DEF ConnectStep, Connect, poolVars
  <2>2. \A d \in Conns : d # c => been'[d] = been[d]
    BY <2>1 DEF MInv, MsgTypeOK
  <2>3. \A u \in Users : GUserSession'[u] # None => u \in been'[GUserSession'[u].conn]
    <3>1. \A u \in Users : GUserSession[u] # None => GUserSession[u].conn \in Conns
      BY DEF MInv, MsgTypeOK, TypeOK, SessionOrNone, Session
    <3>2. QED
      BY <2>1, <2>2, <3>1 DEF Known
  <2>4. ASSUME NEW d \in Conns, job'[d] # None, job'[d].step = "send"
        PROVE  job'[d].peer \in been'[job'[d].sess.conn]
    <3>1. job[d].sess \in Session /\ job[d].sess.conn \in Conns
      BY <2>1, <2>4 DEF MInv, Shape, Session
    <3>2. job[d].sess.conn # c
      BY <2>1, <2>4, <3>1 DEF ConnHeld
    <3>3. QED
      BY <2>1, <2>2, <2>4, <3>1, <3>2 DEF Known
  <2>5. OnlyAddressees'
    <3>1. \A k \in Users : \A j \in DOMAIN tasks[k] :
            tasks[k][j].conn \in Conns /\ tasks[k][j].conn # c
      BY <2>1, TasksTyped DEF ConnHeld, MInv
    <3>2. QED
      BY <2>1, <2>2, <3>1 DEF Known, OnlyAddressees
  <2>6. QED
    BY <2>3, <2>4, <2>5 DEF Known
<1>7. CASE FlagStep
  BY <1>2, <1>7 DEF FlagStep, CoolDown, Follow, Unfollow, SubscribeWorld, sessionVars, poolVars
\* A handler that loads no session sends to nobody but whom it has been sending to.
<1>8. ASSUME NEW c \in Conns, UNCHANGED <<GUserSession, tasks, been>>,
             job' = [job EXCEPT ![c] = job'[c]],
             job'[c] = None \/ job'[c].step # "send" \/
               /\ GUserSession[job'[c].peer] = job'[c].sess /\ job'[c].sess # None
               /\ job'[c].peer \in Users
      PROVE  Known'
  <2>1. \A d \in Conns : d # c => job'[d] = job[d]
    BY <1>8 DEF MInv, MsgTypeOK
  <2>2. QED
    BY <1>1, <1>8, <2>1 DEF Known
<1>9. ASSUME NEW c \in Conns, NewJobStep(c) PROVE Known'
  <2>1. /\ UNCHANGED <<GUserSession, tasks, been>> /\ job' = [job EXCEPT ![c] = job'[c]]
    BY <1>9 DEF NewJobStep, RequestWorld, RequestPersonal, RequestGroup, NewJob, sessionVars,
           poolVars
  <2>2. job'[c].step # "send"
    BY <1>9 DEF NewJobStep, RequestWorld, RequestPersonal, RequestGroup, NewJob, MInv, MsgTypeOK
  <2>3. QED
    BY <1>8, <2>1, <2>2
<1>10. ASSUME NEW c \in Conns, EndStep(c) PROVE Known'
  BY <1>8, <1>10 DEF EndStep, RefuseOffline, RefuseStranger, RefuseWorld, EndFanOut, Done,
         sessionVars, poolVars, MInv, MsgTypeOK
<1>11. ASSUME NEW c \in Conns, LoadStep(c) PROVE Known'
  <2>1. job[c] \in Job /\ UNCHANGED <<GUserSession, tasks, been>>
    BY <1>11 DEF LoadStep, LoadPeer, LoadMember, At, MInv, MsgTypeOK, sessionVars, poolVars
  <2>2. CASE LoadPeer(c)
    <3> DEFINE j == [job[c] EXCEPT !.sess = GUserSession[job[c].peer], !.step = "send"]
    <3>1. job' = [job EXCEPT ![c] = j] /\ job[c].step = "load" /\ GUserSession[job[c].peer] # None
      BY <2>2 DEF LoadPeer, At
    <3>2. j.peer = job[c].peer /\ j.sess = GUserSession[job[c].peer] /\ j.peer \in Users
      BY <2>1, <3>1 DEF Job, MInv, Shape
    <3> HIDE DEF j
    <3>3. job'[c] = j /\ job' = [job EXCEPT ![c] = job'[c]]
      BY <3>1 DEF MInv, MsgTypeOK
    <3>4. QED
      BY <1>8, <2>1, <3>1, <3>2, <3>3
  <2>3. ASSUME NEW u \in Users, LoadMember(c, u) PROVE Known'
    <3> DEFINE j == [job[c] EXCEPT !.todo = @ \ {u}, !.peer = u, !.sess = GUserSession[u],
                                   !.step = "send"]
    <3>1. job' = [job EXCEPT ![c] = j] /\ GUserSession[u] # None
      BY <2>3 DEF LoadMember
    <3>2. j.peer = u /\ j.sess = GUserSession[u]
      BY <2>1 DEF Job
    <3> HIDE DEF j
    <3>3. job'[c] = j /\ job' = [job EXCEPT ![c] = job'[c]]
      BY <3>1 DEF MInv, MsgTypeOK
    <3>4. QED
      BY <1>8, <2>1, <3>1, <3>2, <3>3
  <2>4. QED
    BY <1>11, <2>2, <2>3 DEF LoadStep
<1>12. ASSUME NEW c \in Conns, SkipStep(c) \/ StartWorld(c) PROVE Known'
  <2>1. job[c] \in Job /\ UNCHANGED <<GUserSession, tasks, been>>
    BY <1>12 DEF SkipStep, PassMember, SkipOffline, StartWorld, At, MInv, MsgTypeOK,
            sessionVars, poolVars
  <2>2. job' = [job EXCEPT ![c] = job'[c]]
    BY <1>12 DEF SkipStep, PassMember, NextVisit, SkipOffline, StartWorld
  <2>3. job'[c].step # "send"
    BY <1>12, <2>1 DEF SkipStep, PassMember, NextVisit, SkipOffline, StartWorld, At, Job,
                       MInv, MsgTypeOK
  <2>4. QED
    BY <1>8, <2>1, <2>2, <2>3
<1>13. ASSUME NEW c \in Conns, SendPersonal(c) \/ SendToMember(c) PROVE Known'
  <2> DEFINE u == job[c].peer
             t == [to |-> u, conn |-> job[c].sess.conn, from |-> c, n |-> number[c]]
  <2>1. /\ u \in Users /\ tasks' = [tasks EXCEPT ![u] = Append(@, t)]
        /\ job' = [job EXCEPT ![c] = job'[c]]
        /\ job[c] \in Job /\ job[c].step = "send"
        /\ UNCHANGED <<GUserSession, been>>
    BY <1>13, TaskSent DEF sessionVars
  <2>2. job'[c] = None \/ job'[c].step # "send"
    BY <1>13, <2>1 DEF SendPersonal, SendToMember, Done, NextVisit, Job, MInv, MsgTypeOK
  <2>3. t.to \in been[t.conn]
    BY <2>1 DEF Known
  <2> HIDE DEF t, u
  <2>4. \A k \in Users : \A j \in DOMAIN tasks'[k] :
          \/ \E i \in DOMAIN tasks[k] : tasks'[k][j] = tasks[k][i]
          \/ tasks'[k][j].to \in been[tasks'[k][j].conn]
    <3>1. ASSUME NEW j \in DOMAIN Append(tasks[u], t)
          PROVE  \/ Append(tasks[u], t)[j] = t
                 \/ j \in DOMAIN tasks[u] /\ Append(tasks[u], t)[j] = tasks[u][j]
      BY <2>1 DEF MInv, MsgTypeOK
    <3>2. QED
      BY <2>1, <2>3, <3>1 DEF MInv, MsgTypeOK
  <2>5. \A d \in Conns : d # c => job'[d] = job[d]
    BY <2>1 DEF MInv, MsgTypeOK
  <2>6. QED
    BY <1>1, <2>1, <2>2, <2>4, <2>5
<1>14. ASSUME NEW k \in Users, RunTask(k) PROVE Known'
  <2>1. /\ tasks' = [tasks EXCEPT ![k] = Tail(@)] /\ tasks[k] # << >>
        /\ UNCHANGED <<GUserSession, job, been>>
    BY <1>14 DEF RunTask, sessionVars
  <2>2. \A j \in DOMAIN Tail(tasks[k]) : j + 1 \in DOMAIN tasks[k]
                                          /\ Tail(tasks[k])[j] = tasks[k][j + 1]
    BY <2>1 DEF MInv, MsgTypeOK
  <2>3. \A l \in Users : \A j \in DOMAIN tasks'[l] :
          \E i \in DOMAIN tasks[l] : tasks'[l][j] = tasks[l][i]
    BY <2>1, <2>2 DEF MInv, MsgTypeOK
  <2>4. QED
    BY <1>1, <2>1, <2>3
<1>15. QED
  BY <1>3, <1>4, <1>5, <1>6, <1>7, <1>9, <1>10, <1>11, <1>12, <1>13, <1>14, StepCases
     DEF Next, RegistryStep

\* A task for a user sends on a connection he has logged in on, whatever
\* happens while it waits.
THEOREM MessagesReachOnlyAddressees == Spec => []OnlyAddressees
<1>1. Init => Known
  BY DEF Init, SessionsInit, Known, OnlyAddressees
<1>2. MInv /\ Known /\ [Next]_vars => (MInv /\ Known)'
  BY StepMInv, StepKnown
<1>3. Spec => [](MInv /\ Known)
  BY InitMInv, <1>1, <1>2, PTL DEF Spec
<1>4. Known => OnlyAddressees
  BY DEF Known
<1>5. QED
  BY <1>3, <1>4, PTL
-----------------------------------------------------------------------------
(* The order of messages.                                                  *)

\* The last request of d that u may have been given a task for.
Mark(u, d) == IF job[d] # None /\ u \notin job[d].sent THEN number[d] - 1 ELSE number[d]

\* The number up to which a client may have sent to a user only grows.
LEMMA MarkGrows ==
  ASSUME MInv, MInv', [Next]_vars, NEW u \in Users, NEW d \in Conns
  PROVE  Mark(u, d) \in Int /\ Mark(u, d)' \in Int /\ Mark(u, d) <= Mark(u, d)'
<1> USE NoneIsNoJob, NoneIsNoSession
<1>1. /\ number[d] \in Nat /\ number'[d] \in Nat
      /\ DOMAIN job = Conns /\ DOMAIN number = Conns
  BY DEF MInv, MsgTypeOK
<1>2. Mark(u, d) \in Int /\ Mark(u, d)' \in Int
  BY <1>1 DEF Mark
<1> DEFINE Grows == Mark(u, d) <= Mark(u, d)'
<1>3. ASSUME job' = job, number' = number PROVE Grows
  BY <1>1, <1>3 DEF Mark
\* Only the job of c changes.
<1>4. ASSUME NEW c \in Conns, job' = [job EXCEPT ![c] = job'[c]], number' = number,
             job'[c] = None \/ (job[c] # None /\ job[c].sent \subseteq job'[c].sent)
      PROVE  Grows
  <2>1. CASE c = d
    BY <1>1, <1>4, <2>1 DEF Mark
  <2>2. CASE c # d
    <3>1. job'[d] = job[d]
      BY <1>1, <1>4, <2>2
    <3>2. QED
      BY <1>1, <1>4, <3>1 DEF Mark
  <2>3. QED
    BY <2>1, <2>2
<1>5. ASSUME UNCHANGED vars PROVE Grows
  BY <1>3, <1>5 DEF vars
<1>6. ASSUME RegistryStep \/ FlagStep \/ \E k \in Users : RunTask(k) PROVE Grows
  <2>1. job' = job /\ number' = number
    BY <1>6 DEF RegistryStep, TimerStep, ConnectStep, WorkerStep, PacketStep, LoginStep,
           FlagStep, CoolDown, Follow, Unfollow, SubscribeWorld, RunTask
  <2>2. QED
    BY <1>3, <2>1
<1>7. ASSUME NEW c \in Conns, NewJobStep(c) PROVE Grows
  <2>1. PICK kind \in Kinds, step \in {"load", "start", "range"}, peer \in Users \cup {None},
             members \in SUBSET Users :
          Free(c) /\ NewJob(c, kind, step, peer, members)
    BY <1>7, NewJobBegins
  <2> DEFINE j == [kind |-> kind, self |-> Self[c], n |-> number[c] + 1, peer |-> peer,
                   sess |-> None, step |-> step, todo |-> members, sent |-> {}]
  <2>2. /\ job[c] = None /\ job' = [job EXCEPT ![c] = j] /\ j.sent = {}
        /\ number' = [number EXCEPT ![c] = @ + 1]
    BY <2>1 DEF NewJob, Free
  <2> HIDE DEF j
  <2>3. CASE c = d
    <3>1. job'[d] = j /\ number'[d] = number[d] + 1
      BY <1>1, <2>2, <2>3
    <3>2. QED
      BY <1>1, <2>2, <2>3, <3>1 DEF Mark
  <2>4. CASE c # d
    <3>1. job'[d] = job[d] /\ number'[d] = number[d]
      BY <1>1, <2>2, <2>4
    <3>2. QED
      BY <1>1, <3>1 DEF Mark
  <2>5. QED
    BY <2>3, <2>4
<1>8. ASSUME NEW c \in Conns, EndStep(c) PROVE Grows
  <2>1. job' = [job EXCEPT ![c] = None] /\ number' = number
    BY <1>8 DEF EndStep, RefuseOffline, RefuseStranger, RefuseWorld, EndFanOut, Done
  <2>2. job'[c] = None
    BY <1>1, <2>1
  <2>3. QED
    BY <1>4, <2>1, <2>2
<1>9. ASSUME NEW c \in Conns, LoadStep(c) \/ SkipStep(c) \/ StartWorld(c) PROVE Grows
  <2>1. job[c] \in Job /\ job' = [job EXCEPT ![c] = job'[c]] /\ number' = number
    BY <1>9 DEF LoadStep, LoadPeer, LoadMember, SkipStep, PassMember, SkipOffline, NextVisit,
           StartWorld, At, MInv, MsgTypeOK
  <2>2. job'[c].sent = job[c].sent
    <3>1. CASE LoadPeer(c) \/ StartWorld(c)
      BY <1>1, <2>1, <3>1 DEF LoadPeer, StartWorld, Job
    <3>2. ASSUME NEW v \in Users, LoadMember(c, v) \/ SkipOffline(c, v)
          PROVE  job'[c].sent = job[c].sent
      BY <1>1, <2>1, <3>2 DEF LoadMember, SkipOffline, Job
    <3>3. CASE PassMember(c)
      BY <1>1, <2>1, <3>3 DEF PassMember, NextVisit, Job
    <3>4. QED
      BY <1>9, <3>1, <3>2, <3>3 DEF LoadStep, SkipStep
  <2>3. QED
    BY <1>4, <2>1, <2>2
<1>10. ASSUME NEW c \in Conns, SendPersonal(c) \/ SendToMember(c) PROVE Grows
  <2>1. /\ job' = [job EXCEPT ![c] = job'[c]] /\ number' = number /\ job[c] # None
        /\ job'[c] # None => job[c].sent \subseteq job'[c].sent
    BY <1>10, TaskSent
  <2>2. QED
    BY <1>4, <2>1
<1>11. QED
  BY <1>2, <1>5, <1>6, <1>7, <1>8, <1>9, <1>10, StepCases DEF Next

\* s are tasks for u, all due after what he has been sent (by d: last[d]), in the
\* order of the requests, and none later than mark.
InLine(u, s, upto, mark) ==
  /\ \A j \in DOMAIN s :
       /\ s[j].to = u
       /\ upto[s[j].from] < s[j].n /\ s[j].n <= mark[s[j].from]
       /\ \A i \in 1 .. j - 1 : s[i].from = s[j].from => s[i].n < s[j].n
  /\ \A d \in Conns : upto[d] <= mark[d]

\* Of a queue that is not empty.
LEMMA HeadIsFirst ==
  ASSUME NEW s \in Seq(Task), s # << >>
  PROVE  1 \in DOMAIN s /\ Head(s) = s[1] /\ Head(s) \in Task
  OBVIOUS

\* A queue stays in line when the marks grow.
LEMMA LaterMark ==
  ASSUME NEW u, NEW s \in Seq(Task), NEW upto \in [Conns -> Nat],
         NEW mark \in [Conns -> Int], NEW after \in [Conns -> Int],
         \A d \in Conns : mark[d] <= after[d],
         InLine(u, s, upto, mark)
  PROVE  InLine(u, s, upto, after)
<1>1. \A j \in DOMAIN s : s[j] \in Task
  OBVIOUS
<1>2. \A j \in DOMAIN s : s[j].from \in Conns /\ s[j].n \in Nat
  BY <1>1 DEF Task
<1>3. QED
  BY <1>2 DEF InLine

\* It does when a task with the highest number of its sender is appended,
LEMMA LastInLine ==
  ASSUME NEW u, NEW s \in Seq(Task), NEW t \in Task, NEW upto \in [Conns -> Nat],
         NEW mark \in [Conns -> Int], t.to = u, mark[t.from] = t.n,
         \A j \in DOMAIN s : s[j].from = t.from => s[j].n < t.n,
         upto[t.from] < t.n,
         InLine(u, s, upto, mark)
  PROVE  InLine(u, Append(s, t), upto, mark)
<1> DEFINE r == Append(s, t)
<1>1. /\ r[Len(s) + 1] = t /\ DOMAIN r = 1 .. Len(s) + 1 /\ DOMAIN s = 1 .. Len(s)
      /\ Len(s) \in Nat
      /\ \A i \in 1 .. Len(s) : r[i] = s[i]
  OBVIOUS
<1> HIDE DEF r
<1>2. ASSUME NEW j \in DOMAIN r
      PROVE  /\ r[j].to = u
             /\ upto[r[j].from] < r[j].n /\ r[j].n <= mark[r[j].from]
             /\ \A i \in 1 .. j - 1 : r[i].from = r[j].from => r[i].n < r[j].n
  <2>1. CASE j \in 1 .. Len(s)
    <3>1. \A i \in 1 .. j - 1 : r[i] = s[i]
      BY <1>1, <2>1
    <3>2. QED
      BY <1>1, <2>1, <3>1 DEF InLine
  <2>2. CASE j = Len(s) + 1
    <3>1. \A i \in 1 .. j - 1 : i \in DOMAIN s /\ r[i] = s[i]
      BY <1>1, <2>2
    <3>2. t.n \in Nat
      BY DEF Task
    <3>3. r[j] = t /\ upto[t.from] < t.n /\ t.n <= mark[t.from]
      BY <1>1, <2>2, <3>2
    <3>4. QED
      BY <2>2, <3>1, <3>3
  <2>3. QED
    BY <1>1, <1>2, <2>1, <2>2
<1>3. QED
  BY <1>2 DEF InLine, r

\* and when the first task is run, which moves what was sent up to it.
LEMMA FirstInLine ==
  ASSUME NEW u, NEW s \in Seq(Task), s # << >>, NEW upto \in [Conns -> Nat],
         NEW upto2 \in [Conns -> Nat], NEW mark \in [Conns -> Int],
         \/ upto2 = upto
         \/ upto2 = [upto EXCEPT ![Head(s).from] = Head(s).n],
         InLine(u, s, upto, mark)
  PROVE  InLine(u, Tail(s), upto2, mark)
<1> DEFINE r == Tail(s)
           t == s[1]
<1>1. /\ DOMAIN s = 1 .. Len(s) /\ Len(s) \in Nat /\ Len(s) >= 1 /\ Head(s) = t
      /\ DOMAIN r = 1 .. Len(s) - 1 /\ \A j \in 1 .. Len(s) - 1 : r[j] = s[j + 1]
      /\ \A j \in 1 .. Len(s) : s[j] \in Task
  OBVIOUS
<1> HIDE DEF r
<1>2. /\ t.from \in Conns /\ t.n \in Nat /\ upto[t.from] < t.n /\ t.n <= mark[t.from]
      /\ \A j \in 2 .. Len(s) : s[j].from = t.from => t.n < s[j].n
  <2>1. 1 \in 1 .. Len(s) /\ \A j \in 2 .. Len(s) : j \in 1 .. Len(s) /\ 1 \in 1 .. j - 1
    BY <1>1
  <2>2. QED
    BY <1>1, <2>1 DEF InLine, Task
<1>3. \A d \in Conns : upto2[d] = upto[d] \/ (d = t.from /\ upto2[d] = t.n)
  BY <1>1, <1>2
<1> HIDE DEF t
<1>4. ASSUME NEW j \in DOMAIN r
      PROVE  /\ r[j].to = u
             /\ upto2[r[j].from] < r[j].n /\ r[j].n <= mark[r[j].from]
             /\ \A i \in 1 .. j - 1 : r[i].from = r[j].from => r[i].n < r[j].n
  <2>1. j + 1 \in 2 .. Len(s) /\ j + 1 \in DOMAIN s /\ r[j] = s[j + 1]
        /\ \A i \in 1 .. j - 1 : r[i] = s[i + 1] /\ i + 1 \in 1 .. (j + 1) - 1
    BY <1>1
  <2>2. r[j].from \in Conns /\ r[j].n \in Nat
    BY <1>1, <2>1 DEF Task
  <2>3. upto2[r[j].from] < r[j].n
    BY <1>2, <1>3, <2>1, <2>2 DEF InLine
  <2>4. QED
    BY <2>1, <2>3 DEF InLine
<1>5. \A d \in Conns : upto2[d] <= mark[d]
  BY <1>2, <1>3 DEF InLine
<1>6. QED
  BY <1>4, <1>5 DEF InLine, r

\* A request in progress comes after all of a user's tasks, unless he has got a
\* task of it.
Marks(u) == [d \in Conns |-> Mark(u, d)]
Ordered == \A u \in Users : InLine(u, tasks[u], last[u], Marks(u))

\* Ordered is kept.
LEMMA StepOrdered == MInv /\ MInv' /\ Ordered /\ [Next]_vars => Ordered'
<1> SUFFICES ASSUME MInv, MInv', Ordered, [Next]_vars, NEW u \in Users
             PROVE  InLine(u, tasks'[u], last'[u], Marks(u)')
  BY DEF Ordered
<1> USE NoneIsNoJob
<1>1. /\ Marks(u) \in [Conns -> Int] /\ Marks(u)' \in [Conns -> Int]
      /\ \A d \in Conns : /\ Marks(u)[d] = Mark(u, d) /\ (Marks(u)')[d] = Mark(u, d)'
                          /\ Marks(u)[d] <= (Marks(u)')[d]
  BY MarkGrows DEF Marks
<1>2. /\ tasks[u] \in Seq(Task) /\ last[u] \in [Conns -> Nat] /\ last'[u] \in [Conns -> Nat]
      /\ DOMAIN tasks = Users /\ DOMAIN last = Users
  BY DEF MInv, MsgTypeOK
<1>3. InLine(u, tasks[u], last[u], Marks(u)')
  BY <1>1, <1>2, LaterMark DEF Ordered
<1>4. CASE tasks'[u] = tasks[u] /\ last'[u] = last[u]
  BY <1>3, <1>4
<1>5. ASSUME NEW c \in Conns, SendPersonal(c) \/ SendToMember(c), u = job[c].peer
      PROVE  InLine(u, tasks'[u], last'[u], Marks(u)')
  <2> DEFINE t == [to |-> u, conn |-> job[c].sess.conn, from |-> c, n |-> number[c]]
  <2>1. /\ u \notin job[c].sent /\ t \in Task /\ tasks'[u] = Append(tasks[u], t)
        /\ job[c] # None
        /\ job'[c] # None => u \in job'[c].sent
        /\ last' = last /\ number' = number
    BY <1>2, <1>5, TaskSent
  <2>2. Mark(u, c) = number[c] - 1 /\ Mark(u, c)' = number[c] /\ number[c] \in Nat
    BY <2>1 DEF Mark, MInv, MsgTypeOK
  <2>3. t.to = u /\ t.from = c /\ t.n = number[c]
    OBVIOUS
  <2> HIDE DEF t
  <2>4. \A j \in DOMAIN tasks[u] : tasks[u][j].from = t.from => tasks[u][j].n < t.n
    <3>1. \A j \in DOMAIN tasks[u] : tasks[u][j].n \in Nat /\ tasks[u][j].from \in Conns
      BY TasksTyped DEF MInv, Task
    <3>2. QED
      BY <1>1, <2>2, <2>3, <3>1 DEF Ordered, InLine
  <2>5. last[u][t.from] < t.n
    BY <1>1, <1>2, <2>2, <2>3 DEF Ordered, InLine
  <2>6. InLine(u, Append(tasks[u], t), last[u], Marks(u)')
    BY <1>1, <1>2, <1>3, <2>1, <2>2, <2>3, <2>4, <2>5, LastInLine
  <2>7. QED
    BY <2>1, <2>6
<1>6. ASSUME RunTask(u) PROVE InLine(u, tasks'[u], last'[u], Marks(u)')
  <2> DEFINE t == Head(tasks[u])
  <2>1. /\ tasks'[u] = Tail(tasks[u]) /\ tasks[u] # << >>
        /\ last' = last \/ last' = [last EXCEPT ![t.to][t.from] = t.n]
    BY <1>2, <1>6 DEF RunTask
  <2>2. 1 \in DOMAIN tasks[u] /\ t = tasks[u][1] /\ t.to = u
    <3>1. 1 \in DOMAIN tasks[u] /\ t = tasks[u][1]
      BY <1>2, <2>1, HeadIsFirst
    <3>2. QED
      BY <3>1 DEF Ordered, InLine
  <2>3. last'[u] = last[u] \/ last'[u] = [last[u] EXCEPT ![t.from] = t.n]
    BY <1>2, <2>1, <2>2
  <2> HIDE DEF t
  <2>4. InLine(u, Tail(tasks[u]), last'[u], Marks(u)')
    <3>1. last'[u] = last[u] \/ last'[u] = [last[u] EXCEPT ![Head(tasks[u]).from] = Head(tasks[u]).n]
      BY <2>3 DEF t
    <3>2. QED
      BY <1>1, <1>2, <1>3, <2>1, <3>1, FirstInLine
  <2>5. QED
    BY <2>1, <2>4
<1>7. ASSUME NEW c \in Conns, SendPersonal(c) \/ SendToMember(c), u # job[c].peer
      PROVE  tasks'[u] = tasks[u] /\ last'[u] = last[u]
  BY <1>2, <1>7, TaskSent
<1>8. ASSUME NEW k \in Users, RunTask(k), u # k
      PROVE  tasks'[u] = tasks[u] /\ last'[u] = last[u]
  <2> DEFINE t == Head(tasks[k])
  <2>1. /\ tasks' = [tasks EXCEPT ![k] = Tail(@)] /\ tasks[k] # << >>
        /\ last' = last \/ last' = [last EXCEPT ![t.to][t.from] = t.n]
    BY <1>8 DEF RunTask
  <2>2. t.to = k
    BY <2>1 DEF Ordered, InLine, MInv, MsgTypeOK
  <2>3. QED
    BY <1>2, <1>8, <2>1, <2>2
<1>9. ASSUME UNCHANGED poolVars PROVE tasks'[u] = tasks[u] /\ last'[u] = last[u]
  BY <1>9 DEF poolVars
<1>10. QED
  BY <1>4, <1>5, <1>6, <1>7, <1>8, <1>9, PoolQuiet DEF Next, vars

\* What a client sends to a user arrives in order and once, whatever its kind
\* and whoever else sends meanwhile.
THEOREM MessagesKeepOrder == Spec => []PairOrder
<1>1. Init => Ordered
  BY DEF Init, Ordered, InLine, Marks, Mark
<1>2. MInv /\ Ordered /\ [Next]_vars => (MInv /\ Ordered)'
  BY StepMInv, StepOrdered
<1>3. Spec => [](MInv /\ Ordered)
  BY InitMInv, <1>1, <1>2, PTL DEF Spec
<1>4. MInv /\ Ordered => PairOrder
  BY DEF Ordered, InLine, PairOrder
<1>5. QED
  BY <1>3, <1>4, PTL
-----------------------------------------------------------------------------
(* Whom a world message reaches.                                           *)

\* Whoever has been there throughout is ahead of the Range, served, or being
\* visited by the session he is still registered with.
Ahead(c) ==
  /\ job[c].step = "range" => stable[c] \ {Own(c)} \subseteq job[c].todo \cup job[c].sent
  /\ job[c].step = "send" =>
       /\ stable[c] \ {Own(c)} \subseteq job[c].todo \cup job[c].sent \cup {job[c].peer}
       /\ job[c].peer \in stable[c] => GUserSession[job[c].peer] = job[c].sess
Reaching ==
  \A c \in Conns : job[c] # None /\ job[c].kind = "world" /\ job[c].step # "start" => Ahead(c)

\* What may become of the request of a worker.
LEMMA JobOf ==
  ASSUME MInv, Step, NEW c \in Conns
  PROVE  \/ job'[c] = job[c] \/ job'[c] = None
         \/ NewJobStep(c) \/ LoadStep(c) \/ SkipStep(c) \/ SendToMember(c) \/ StartWorld(c)
<1>1. CASE RegistryStep \/ FlagStep \/ \E k \in Users : RunTask(k)
  <2>1. job' = job
    BY <1>1 DEF RegistryStep, TimerStep, ConnectStep, WorkerStep, PacketStep, LoginStep,
           FlagStep, CoolDown, Follow, Unfollow, SubscribeWorld, RunTask
  <2>2. QED
    BY <2>1
<1>2. ASSUME NEW d \in Conns, EndStep(d) \/ SendPersonal(d)
      PROVE  job'[c] = job[c] \/ job'[c] = None
  <2>1. job' = [job EXCEPT ![d] = None]
    BY <1>2 DEF EndStep, RefuseOffline, RefuseStranger, RefuseWorld, EndFanOut, SendPersonal,
                Done
  <2>2. QED
    BY <2>1 DEF MInv, MsgTypeOK
<1>3. ASSUME NEW d \in Conns, d # c,
             NewJobStep(d) \/ LoadStep(d) \/ SkipStep(d) \/ SendToMember(d) \/ StartWorld(d)
      PROVE  job'[c] = job[c]
  <2>1. job' = [job EXCEPT ![d] = job'[d]]
    <3>1. CASE NewJobStep(d)
      BY <3>1, NewJobBegins DEF NewJob
    <3>2. CASE ~NewJobStep(d)
      BY <1>3, <3>2 DEF LoadStep, LoadPeer, LoadMember, SkipStep, PassMember, SkipOffline,
                        SendToMember, StartWorld, NextVisit
    <3>3. QED
      BY <3>1, <3>2
  <2>2. QED
    BY <1>3, <2>1 DEF MInv, MsgTypeOK
<1>4. QED
  BY <1>1, <1>2, <1>3, StepCases

\* Reaching is kept: who is stable is yet to be visited, is being visited, or has
\* a task.
LEMMA StepReaching == MInv /\ MInv' /\ Reaching /\ [Next]_vars => Reaching'
<1> SUFFICES ASSUME MInv, MInv', Reaching, [Next]_vars, NEW c \in Conns,
                    job'[c] # None, job'[c].kind = "world", job'[c].step # "start"
             PROVE  Ahead(c)'
  BY DEF Reaching
<1> USE NoneIsNoJob, NoneIsNoSession
<1>1. CASE UNCHANGED vars
  BY <1>1 DEF vars, Reaching, Ahead, Own, sessionVars
<1>2. CASE Next
  <2>0. /\ job'[c] \in Job /\ DOMAIN job = Conns
        /\ job[c] # None => job[c] \in Job
    BY DEF MInv, MsgTypeOK
  \* stable only shrinks, or starts as part of the keys to visit.
  <2>1. stable'[c] = {u \in (IF job[c].step = "start" THEN job'[c].todo ELSE stable[c]) :
                        Listens(u) /\ Listens(u)' /\ GUserSession'[u] = GUserSession[u]}
    BY <1>2 DEF Next, Track
  <2>2. \A u \in stable'[c] : /\ Listens(u) /\ GUserSession'[u] = GUserSession[u]
                              /\ job[c].step # "start" => u \in stable[c]
    BY <2>1
  <2>3. CASE job'[c] = job[c]
    BY <2>2, <2>3 DEF Reaching, Ahead, Own
  <2>4. CASE StartWorld(c)
    <3>1. job[c].step = "start" /\ job'[c].step = "range"
      BY <2>0, <2>4 DEF StartWorld, At, Job
    <3>2. QED
      BY <2>1, <3>1 DEF Ahead
  <2>5. ASSUME NewJobStep(c) PROVE FALSE
    <3>1. CASE RequestWorld(c)
      BY <2>0, <3>1 DEF RequestWorld, NewJob
    <3>2. ASSUME NEW p \in Users, RequestPersonal(c, p) PROVE FALSE
      BY <2>0, <3>2 DEF RequestPersonal, NewJob
    <3>3. ASSUME NEW kind \in Kinds, NEW members \in Memberships, RequestGroup(c, kind, members)
          PROVE  FALSE
      BY <2>0, <3>3 DEF RequestGroup, NewJob
    <3>4. QED
      BY <2>5, <3>1, <3>2, <3>3 DEF NewJobStep
  <2>6. ASSUME LoadPeer(c) PROVE FALSE
    <3>1. job[c] \in Job /\ job[c].kind = "personal"
      BY <2>0, <2>6 DEF LoadPeer, At, MInv, Shape
    <3>2. job'[c].kind = job[c].kind
      BY <2>0, <2>6, <3>1 DEF LoadPeer, Job
    <3>3. QED
      BY <3>1, <3>2
  <2>7. ASSUME NEW u \in Users, LoadMember(c, u) PROVE Ahead(c)'
    <3>1. job[c] \in Job /\ job[c].step = "range"
      BY <2>0, <2>7 DEF LoadMember, At
    <3>2. /\ job'[c].todo = job[c].todo \ {u} /\ job'[c].peer = u /\ job'[c].step = "send"
          /\ job'[c].sess = GUserSession[u] /\ job'[c].sent = job[c].sent
          /\ job'[c].self = job[c].self /\ job'[c].kind = job[c].kind
      BY <2>0, <2>7, <3>1 DEF LoadMember, Job
    <3>3. QED
      BY <2>2, <3>1, <3>2 DEF Reaching, Ahead, Own
  <2>8. ASSUME NEW u \in Users, SkipOffline(c, u) PROVE Ahead(c)'
    <3>1. job[c] \in Job /\ job[c].step = "range" /\ ~Listens(u)
      BY <2>0, <2>8 DEF SkipOffline, At, Listens
    <3>2. /\ job'[c].todo = job[c].todo \ {u} /\ job'[c].step = "range"
          /\ job'[c].sent = job[c].sent
          /\ job'[c].self = job[c].self /\ job'[c].kind = job[c].kind
      BY <2>0, <2>8, <3>1 DEF SkipOffline, Job
    <3>3. QED
      BY <2>2, <3>1, <3>2 DEF Reaching, Ahead, Own
  <2>9. ASSUME SendToMember(c) \/ PassMember(c) PROVE Ahead(c)'
    <3>1. job[c] \in Job /\ job[c].step = "send"
      BY <2>0, <2>9 DEF SendToMember, PassMember, At
    <3>2. /\ job'[c].todo = job[c].todo /\ job'[c].step = "range"
          /\ job'[c].sent = IF Receives(c) THEN job[c].sent \cup {job[c].peer} ELSE job[c].sent
          /\ job'[c].self = job[c].self /\ job'[c].kind = job[c].kind
      <4>1. CASE SendToMember(c)
        BY <2>0, <3>1, <4>1 DEF SendToMember, NextVisit, LeftToVisit, Job
      <4>2. CASE PassMember(c)
        BY <2>0, <3>1, <4>2 DEF PassMember, NextVisit, LeftToVisit, Job
      <4>3. QED
        BY <2>9, <4>1, <4>2
    <3>3. Ahead(c) /\ job[c].sess.Own = job[c].peer
      BY <3>1, <3>2 DEF Reaching, MInv, Shape
    <3>4. job[c].peer \in stable'[c] /\ job[c].peer # Own(c) => Receives(c)
      BY <2>2, <3>1, <3>2, <3>3 DEF Ahead, Receives, Visited, Listens
    <3>5. QED
      BY <2>2, <3>1, <3>2, <3>3, <3>4 DEF Ahead, Own
  <2>10. QED
    BY <1>2, <2>3, <2>4, <2>5, <2>6, <2>7, <2>8, <2>9, JobOf DEF Next, LoadStep, SkipStep
<1>3. QED
  BY <1>1, <1>2

\* A world message misses nobody who listens throughout, with any number of
\* logins, disconnections and other messages meanwhile.
THEOREM WorldMissesNobody == Spec => []WorldReaches
<1>1. Init => Reaching
  BY DEF Init, Reaching
<1>2. MInv /\ Reaching /\ [Next]_vars => (MInv /\ Reaching)'
  BY StepMInv, StepReaching
<1>3. Spec => [](MInv /\ Reaching)
  BY InitMInv, <1>1, <1>2, PTL DEF Spec
<1>4. Reaching => WorldReaches
  BY DEF Reaching, Ahead, WorldReaches, At
<1>5. QED
  BY <1>3, <1>4, PTL
=============================================================================
