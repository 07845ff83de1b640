------------------------ MODULE SubscriptionsProofs ------------------------
(***************************************************************************)
(* Proofs about Subscriptions, for any users, connections and sessions.    *)
(***************************************************************************)
EXTENDS Subscriptions, SessionsProofs

\* Every step of Subscriptions is a step of Sessions or leaves it alone.
LEMMA SubStepRefines == [Next]_vars => [SessionsNext]_sessionVars
<1> SUFFICES ASSUME [Next]_vars PROVE [SessionsNext]_sessionVars
  OBVIOUS
<1>1. CASE UNCHANGED vars
  BY <1>1 DEF vars
<1>2. ASSUME NEW c \in Conns, SessionStep(c) \/ PacketStep(c) \/ LoginStep(c)
      PROVE  SessionsNext
  BY <1>2 DEF SessionStep, PacketStep, LoginStep, SessionsNext, Login
<1>3. ASSUME NEW c \in Conns,
             Handler(c) \/ \E op \in SubOps, peers \in SUBSET Users : Request(c, op, peers)
      PROVE  UNCHANGED sessionVars
  BY <1>3 DEF Handler, UpdatePeer, UpdateOwn, EndRequest, SkipPeer, LoadPeer, Request
<1>4. CASE SubTimer
  BY <1>4 DEF SubTimer, TimerStep, StartUndoing, Unfollow, SkipFollowed, LoadFollowed,
         SessionsNext, Timer
<1>5. QED
  BY <1>1, <1>2, <1>3, <1>4 DEF Next

\* Subscriptions change nothing about who is online (handler.go lines 53-75,
\* 325-413 and 439-448 touch no session but its relations).
THEOREM SubscriptionsImplementSessions == Spec => SessionsSpec
<1>1. Init => SessionsInit
  BY DEF Init
<1>2. QED
  BY <1>1, SubStepRefines, PTL DEF Spec, SessionsSpec

\* So a registered session is the current one of its connection while subscriptions are at work,
COROLLARY SubscriptionsRegistry == Spec => []RegisteredIsCurrent
  BY SubscriptionsImplementSessions, RegistryIsCurrent, PTL

\* and when no account is used from two connections the registry keeps presence.
COROLLARY SubscriptionsKeepPresence == ASSUME ExclusiveAccounts PROVE Spec => KeepsPresence
  BY SubscriptionsImplementSessions, RegistryKeepsPresence
-----------------------------------------------------------------------------
(* Types.                                                                  *)

\* The timer knows the session whose subscriptions it takes back.
TimerKnows == phase = "delete" => info # None

LEMMA StepTimerKnows == TypeOK /\ TimerKnows /\ [SessionsNext]_sessionVars => TimerKnows'
  BY DEF TimerKnows, TypeOK, SessionsNext, sessionVars, loginVars, timerVars, Login, Timer,
         Connect, Disconnect, Receive, RefuseOnline, PassOnline, RejectLogin, StoreSession,
         BindSession, Tick, SkipSession, FindDead, Dead, DeleteSession, CleanRelations,
         EndRange, SweepGroups

\* What the first half of a request changes: one entry of one session.
LEMMA PeerUpdated ==
  ASSUME NEW c \in Conns, SubsTypeOK, UpdatePeer(c)
  PROVE  LET i == job[c].peer.id
         IN  /\ job[c].self \in Session /\ job[c].peer \in Session /\ job[c].op \in SubOps
             /\ subscribe' \in [Ids -> SUBSET Users]
             /\ by' \in [Ids -> [Users -> Ids \cup {None}]]
             /\ \A j \in Ids, u \in Users : j # i \/ u # Own(c) =>
                  by'[j][u] = by[j][u] /\ (u \in subscribe'[j] <=> u \in subscribe[j])
             /\ IF job[c].op = "sub"
                THEN by'[i][Own(c)] = job[c].self.id
                ELSE by'[i][Own(c)] = None /\ Own(c) \notin subscribe'[i]
<1> DEFINE i == job[c].peer.id
           u == Own(c)
           a == job[c].self.id
<1>1. job[c].self \in Session /\ job[c].peer \in Session /\ job[c].op \in SubOps
  BY DEF UpdatePeer, At, SubsTypeOK, Job
<1>2. i \in Ids /\ u \in Users /\ a \in Ids
  BY <1>1 DEF Own, Session
<1>3. IF job[c].op = "sub"
      THEN /\ subscribe' = [subscribe EXCEPT ![i] = @ \cup {u}]
           /\ by' = [by EXCEPT ![i][u] = a]
      ELSE /\ subscribe' = [subscribe EXCEPT ![i] = @ \ {u}]
           /\ by' = [by EXCEPT ![i][u] = None]
  BY DEF UpdatePeer
<1>4. subscribe \in [Ids -> SUBSET Users] /\ by \in [Ids -> [Users -> Ids \cup {None}]]
  BY DEF SubsTypeOK
<1> HIDE DEF i, u, a
<1>5. /\ subscribe' \in [Ids -> SUBSET Users]
      /\ \A j \in Ids, v \in Users : j # i \/ v # u => (v \in subscribe'[j] <=> v \in subscribe[j])
      /\ job[c].op # "sub" => u \notin subscribe'[i]
  BY <1>2, <1>3, <1>4
<1>6. by[i] \in [Users -> Ids \cup {None}]
  BY <1>2, <1>4
<1> DEFINE v == IF job[c].op = "sub" THEN a ELSE None
           row == [by[i] EXCEPT ![u] = v]
<1>7. by' = [by EXCEPT ![i] = row]
  BY <1>3
<1>8. /\ row \in [Users -> Ids \cup {None}]
      /\ row[u] = v
      /\ \A w \in Users : w # u => row[w] = by[i][w]
  BY <1>2, <1>6
<1> HIDE DEF row
<1>9. /\ by' \in [Ids -> [Users -> Ids \cup {None}]]
      /\ \A j \in Ids, w \in Users : j # i \/ w # u => by'[j][w] = by[j][w]
      /\ by'[i][u] = v
  BY <1>2, <1>4, <1>7, <1>8
<1>10. QED
  BY <1>1, <1>5, <1>9 DEF i, u, a

LEMMA StepSubsTypeOK ==
  SubsTypeOK /\ Bound /\ TimerKnows /\ [Next]_vars => SubsTypeOK'
<1> SUFFICES ASSUME SubsTypeOK, Bound, TimerKnows, [Next]_vars PROVE SubsTypeOK'
  OBVIOUS
<1>1. TypeOK /\ TypeOK'
  BY SubStepRefines, StepTypeOK DEF SubsTypeOK
<1>2. ASSUME UNCHANGED <<subVars, job>>, stodo' \in SUBSET Users, tsess' \in SessionOrNone
      PROVE  SubsTypeOK'
  BY <1>1, <1>2 DEF SubsTypeOK, subVars
<1>3. ASSUME NEW c \in Conns, SessionStep(c) \/ PacketStep(c) PROVE SubsTypeOK'
  BY <1>2, <1>3 DEF SessionStep, PacketStep, undoVars, SubsTypeOK
<1>4. ASSUME NEW c \in Conns, LoginStep(c) PROVE SubsTypeOK'
  <2>1. new'[c].id \in Ids
    BY <1>1, <1>4 DEF LoginStep, StoreSession, SessInfo, TypeOK
  <2>2. QED
    BY <1>1, <1>4, <2>1 DEF LoginStep, SubsTypeOK, undoVars
<1>5. ASSUME NEW c \in Conns, NEW op \in SubOps, NEW peers \in SUBSET Users,
             Request(c, op, peers)
      PROVE  SubsTypeOK'
  <2>1. Self[c] \in Session
    BY <1>1, <1>5 DEF Request, TypeOK, SessionOrNone
  <2>2. job'[c] \in Job /\ job'[c].step = "loop" /\ job'[c].peer = None
    BY <1>5, <2>1 DEF Request, SubsTypeOK, Job, Session
  <2>3. QED
    BY <1>1, <1>5, <2>2, NoneIsNoJob DEF Request, SubsTypeOK, subVars, undoVars
<1>6. ASSUME NEW c \in Conns, Handler(c) PROVE SubsTypeOK'
  <2>1. ASSUME NEW p \in Users, SkipPeer(c, p) PROVE SubsTypeOK'
    BY <1>1, <2>1, NoneIsNoJob DEF SkipPeer, At, SubsTypeOK, Job, subVars, undoVars
  <2>2. ASSUME NEW p \in Users, LoadPeer(c, p) PROVE SubsTypeOK'
    BY <1>1, <2>2, NoneIsNoJob
       DEF LoadPeer, At, SubsTypeOK, TypeOK, SessionOrNone, Job, subVars, undoVars
  <2>3. CASE UpdatePeer(c)
    <3>1. /\ job[c] \in Job /\ job[c].peer \in Session /\ job[c].self \in Session
          /\ job[c].peer.id \in Ids /\ job[c].self.id \in Ids /\ Own(c) \in Users
      BY <2>3 DEF UpdatePeer, At, SubsTypeOK, Job, Session, Own
    <3>2. subscribe' \in [Ids -> SUBSET Users] /\ by' \in [Ids -> [Users -> Ids \cup {None}]]
      BY <2>3, PeerUpdated
    <3>3. /\ job' \in [Conns -> Job \cup {None}]
          /\ \A d \in Conns : job'[d] # None => (job'[d].step # "loop" <=> job'[d].peer # None)
      BY <2>3, <3>1, NoneIsNoJob DEF UpdatePeer, At, SubsTypeOK, Job
    <3>4. QED
      BY <1>1, <2>3, <3>2, <3>3 DEF UpdatePeer, SubsTypeOK, undoVars
  <2>4. CASE UpdateOwn(c)
    <3>1. /\ job[c] \in Job /\ job[c].peer \in Session /\ job[c].self \in Session
          /\ job[c].peer.Own \in Users /\ job[c].self.id \in Ids
      BY <2>4 DEF UpdateOwn, At, SubsTypeOK, Job, Session
    <3>2. Followed(c) \in SUBSET Users
      BY <3>1 DEF Followed, SubsTypeOK
    <3>3. /\ job' \in [Conns -> Job \cup {None}]
          /\ \A d \in Conns : job'[d] # None => (job'[d].step # "loop" <=> job'[d].peer # None)
      BY <2>4, <3>1, NoneIsNoJob DEF UpdateOwn, At, SubsTypeOK, Job
    <3>4. QED
      BY <1>1, <2>4, <3>2, <3>3 DEF UpdateOwn, SubsTypeOK, undoVars
  <2>5. CASE EndRequest(c)
    BY <1>1, <2>5 DEF EndRequest, SubsTypeOK, subVars, undoVars
  <2>6. QED
    BY <1>6, <2>1, <2>2, <2>3, <2>4, <2>5 DEF Handler
<1>7. ASSUME SubTimer PROVE SubsTypeOK'
  <2>1. CASE TimerStep
    BY <1>2, <2>1 DEF TimerStep, undoVars, SubsTypeOK
  <2>2. CASE StartUndoing
    <3>1. info.id \in Ids
      BY <1>1, <2>2 DEF StartUndoing, DeleteSession, TimerKnows, TypeOK, SessionOrNone, Session
    <3>2. QED
      BY <1>2, <2>2, <3>1 DEF StartUndoing, SubsTypeOK
  <2>3. CASE Unfollow
    <3>1. tsess.id \in Ids /\ tsess.Own \in Users
      BY <2>3 DEF Unfollow, SubsTypeOK, SessionOrNone, Session
    <3>2. QED
      BY <1>1, <2>3, <3>1 DEF Unfollow, SubsTypeOK, SessionOrNone
  <2>4. ASSUME NEW p \in Users, SkipFollowed(p) \/ LoadFollowed(p) PROVE SubsTypeOK'
    BY <1>1, <1>2, <2>4 DEF SkipFollowed, LoadFollowed, SubsTypeOK, TypeOK
  <2>5. QED
    BY <1>7, <2>1, <2>2, <2>3, <2>4 DEF SubTimer
<1>8. CASE UNCHANGED vars
  BY <1>2, <1>8 DEF vars, undoVars, SubsTypeOK
<1>9. QED
  BY <1>3, <1>4, <1>5, <1>6, <1>7, <1>8 DEF Next
-----------------------------------------------------------------------------
(* The two records of a subscription.                                      *)

\* The sessions whose relations a handler may still write to.
Held(s) ==
  \/ \E u \in Users : s = GUserSession[u]
  \/ \E c \in Conns : \/ s \in {Self[c], new[c]}
                      \/ job[c] # None /\ s = job[c].peer

\* An id stands for one of them.
Distinct == \A s, t \in Session : Held(s) /\ Held(t) /\ s.id = t.id => s = t

\* A request is one of the session its connection is logged in with; there is
\* no login there before it ends.
AtWork == \A c \in Conns : job[c] # None =>
            pc[c] = "idle" /\ Self[c] # None /\ job[c].self = Self[c]

\* A session puts its own user into the followers of others, and does so only
\* once it is bound.
Attributed ==
  \A c \in Conns, i \in Ids, u \in Users :
    /\ new[c] # None => by[i][u] # new[c].id
    /\ Self[c] # None /\ by[i][u] = Self[c].id => u = Self[c].Own

\* Session a has put a follower into session s.
Entry(s, a) == \E u \in Users : u \in subscribe[s.id] /\ by[s.id][u] = a

\* While it takes a subscription back, the session that asked has no entry with
\* the peer's user, but for the one it is about to take away.
Pending ==
  \A c \in Conns : At(c, "peer") \/ At(c, "own") =>
    LET s == GUserSession[job[c].peer.Own]
    IN  job[c].op # "sub" /\ s # None /\ Entry(s, job[c].self.id)
          => job[c].step = "peer" /\ s = job[c].peer

\* Session a follows b, or is about to have it on record.
Recorded(a, b) ==
  \/ b \in ownSubscribe[a]
  \/ \E c \in Conns : /\ At(c, "own") /\ job[c].op = "sub"
                      /\ job[c].self.id = a /\ job[c].peer.Own = b

AllRecorded == \A b \in Online, a \in Ids : Entry(GUserSession[b], a) => Recorded(a, b)

Known == SubsTypeOK /\ IInv /\ TimerKnows /\ Distinct /\ AtWork
FInv == Known /\ Attributed /\ Pending /\ AllRecorded

LEMMA InitFInv == Init => FInv
<1> SUFFICES ASSUME Init PROVE FInv
  OBVIOUS
<1>1. IInv
  BY InitIInv DEF Init
<1>2. SubsTypeOK
  BY <1>1, NoneIsNoJob DEF Init, SubsTypeOK, IInv, SessionOrNone
<1>3. Distinct
  BY NoneIsNoSession DEF Init, SessionsInit, Distinct, Held
<1>4. QED
  BY <1>1, <1>2, <1>3
     DEF Init, SessionsInit, FInv, Known, TimerKnows, AtWork, Attributed, Pending, At,
         AllRecorded, Online

\* A handler goes on with the request of its own connection, and loads the
\* sessions of peers from the registry.
LEMMA HandlerJob ==
  ASSUME SubsTypeOK, NEW c \in Conns, Handler(c)
  PROVE  /\ UNCHANGED sessionVars
         /\ job[c] \in Job
         /\ \A d \in Conns : d # c => job'[d] = job[d]
         /\ job'[c] # None => /\ job'[c].self = job[c].self /\ job'[c].op = job[c].op
                              /\ \/ job'[c].peer \in {None, job[c].peer}
                                 \/ \E p \in Users : job'[c].peer = GUserSession[p]
<1> DEFINE Goal == /\ UNCHANGED sessionVars
                   /\ \A d \in Conns : d # c => job'[d] = job[d]
                   /\ job'[c].self = job[c].self /\ job'[c].op = job[c].op
                   /\ \/ job'[c].peer \in {None, job[c].peer}
                      \/ \E p \in Users : job'[c].peer = GUserSession[p]
<1>1. job[c] \in Job /\ job \in [Conns -> Job \cup {None}]
  BY DEF Handler, SkipPeer, LoadPeer, UpdatePeer, UpdateOwn, EndRequest, At, SubsTypeOK
<1>2. ASSUME NEW p \in Users, SkipPeer(c, p) PROVE Goal
  BY <1>1, <1>2 DEF SkipPeer, Job
<1>3. ASSUME NEW p \in Users, LoadPeer(c, p) PROVE Goal
  BY <1>1, <1>3 DEF LoadPeer, Job
<1>4. CASE UpdatePeer(c)
  BY <1>1, <1>4 DEF UpdatePeer, Job
<1>5. CASE UpdateOwn(c)
  BY <1>1, <1>5 DEF UpdateOwn, Job
<1>6. CASE EndRequest(c)
  BY <1>1, <1>6 DEF EndRequest
<1>7. QED
  BY <1>1, <1>2, <1>3, <1>4, <1>5, <1>6 DEF Handler

\* Nothing but a login makes a session that was not there.
LEMMA StepHeld ==
  ASSUME SubsTypeOK, [Next]_vars, NEW s \in Session, Held(s)'
  PROVE  Held(s) \/ \E c \in Conns : LoginStep(c) /\ s = new'[c]
<1> USE NoneIsNoSession DEF SubsTypeOK, TypeOK, SessionOrNone, Held, loginVars, timerVars,
      sessionVars
<1>1. ASSUME NEW c \in Conns, SessionStep(c) PROVE Held(s)
  BY <1>1 DEF SessionStep, Connect, RefuseOnline, PassOnline, RejectLogin, BindSession,
              WithoutOldSession
<1>2. ASSUME NEW c \in Conns, PacketStep(c) PROVE Held(s)
  BY <1>2 DEF PacketStep, Disconnect, Receive
<1>3. ASSUME NEW c \in Conns, LoginStep(c) PROVE Held(s) \/ s = new'[c]
  BY <1>3 DEF LoginStep, StoreSession
<1>4. ASSUME NEW c \in Conns, Handler(c) PROVE Held(s)
  <2>1. /\ UNCHANGED <<GUserSession, Self, new>>
        /\ job[c] # None
        /\ \A d \in Conns : job'[d] # None =>
             job[d] # None /\ \/ job'[d].peer \in {None, job[d].peer}
                              \/ \E p \in Users : job'[d].peer = GUserSession[p]
    BY <1>4, HandlerJob, NoneIsNoJob
  <2>2. QED
    BY <2>1
<1>5. ASSUME NEW c \in Conns, NEW op \in SubOps, NEW peers \in SUBSET Users,
             Request(c, op, peers)
      PROVE  Held(s)
  BY <1>5 DEF Request
<1>6. ASSUME SubTimer PROVE Held(s)
  <2>1. CASE TimerStep \/ StartUndoing
    BY <2>1 DEF TimerStep, StartUndoing, Tick, EndRange, SweepGroups, SkipSession, FindDead,
                CleanRelations, DeleteSession, WithoutDead
  <2>2. CASE Unfollow \/ \E p \in Users : SkipFollowed(p) \/ LoadFollowed(p)
    BY <2>2 DEF Unfollow, SkipFollowed, LoadFollowed
  <2>3. QED
    BY <1>6, <2>1, <2>2 DEF SubTimer
<1>7. CASE UNCHANGED vars
  BY <1>7 DEF vars
<1>8. QED
  BY <1>1, <1>2, <1>3, <1>4, <1>5, <1>6, <1>7 DEF Next
LEMMA StepDistinct ==
  ASSUME SubsTypeOK, AtWork, Distinct, [Next]_vars
  PROVE  Distinct'
<1> SUFFICES ASSUME NEW s \in Session, NEW t \in Session, Held(s)', Held(t)', s.id = t.id
             PROVE  s = t
  BY DEF Distinct
<1>1. CASE Held(s) /\ Held(t)
  BY <1>1 DEF Distinct
<1>2. ASSUME NEW r \in Session, Held(r), NEW c \in Conns, LoginStep(c)
      PROVE  r.id # new'[c].id
  <2>1. ASSUME NEW d \in Conns, job[d] # None, r = job[d].peer PROVE r.id # new'[c].id
    BY <1>2, <2>1, NoneIsNoSession DEF LoginStep
  <2>2. CASE r \in Reachable
    <3>1. PICK i \in Ids : FreshId(i) /\ new' = [new EXCEPT ![c] = SessInfo(c, i)]
      BY <1>2 DEF LoginStep, StoreSession
    <3>2. new'[c].id = i
      BY <3>1 DEF SessInfo, SubsTypeOK, TypeOK
    <3>3. QED
      BY <2>2, <3>1, <3>2 DEF FreshId
  <2>3. QED
    BY <1>2, <2>1, <2>2, NoneIsNoSession DEF Held, Reachable
<1>3. ASSUME NEW c \in Conns, LoginStep(c), NEW d \in Conns, LoginStep(d)
      PROVE  c = d
  BY <1>3 DEF LoginStep, StoreSession, SubsTypeOK, TypeOK
<1>4. QED
  BY <1>1, <1>2, <1>3, StepHeld

LEMMA StepAtWork ==
  ASSUME SubsTypeOK, AtWork, [Next]_vars
  PROVE  AtWork'
<1> USE NoneIsNoJob DEF SubsTypeOK, TypeOK, AtWork, loginVars, timerVars, sessionVars
<1>1. ASSUME NEW c \in Conns, SessionStep(c) PROVE AtWork'
  BY <1>1 DEF SessionStep, Connect, RefuseOnline, PassOnline, RejectLogin, BindSession
<1>2. ASSUME NEW c \in Conns, PacketStep(c) PROVE AtWork'
  BY <1>2 DEF PacketStep, Disconnect, Receive
<1>3. ASSUME NEW c \in Conns, LoginStep(c) PROVE AtWork'
  BY <1>3 DEF LoginStep, StoreSession
<1>4. ASSUME NEW c \in Conns, Handler(c) PROVE AtWork'
  BY <1>4, HandlerJob
<1>5. ASSUME NEW c \in Conns, NEW op \in SubOps, NEW peers \in SUBSET Users,
             Request(c, op, peers)
      PROVE  AtWork'
  BY <1>5 DEF Request
<1>6. ASSUME SubTimer PROVE AtWork'
  <2>1. UNCHANGED <<pc, Self, job>>
    BY <1>6 DEF SubTimer, TimerStep, StartUndoing, Tick, EndRange, SweepGroups, SkipSession,
                FindDead, CleanRelations, DeleteSession, Unfollow, SkipFollowed, LoadFollowed
  <2>2. QED
    BY <2>1
<1>7. CASE UNCHANGED vars
  BY <1>7 DEF vars
<1>8. QED
  BY <1>1, <1>2, <1>3, <1>4, <1>5, <1>6, <1>7 DEF Next

LEMMA StepKnown == Known /\ [Next]_vars => Known'
<1> SUFFICES ASSUME Known, [Next]_vars PROVE Known'
  OBVIOUS
<1>1. SubsTypeOK' /\ TimerKnows'
  BY SubStepRefines, StepSubsTypeOK, StepTimerKnows DEF Known, IInv
<1>2. IInv'
  BY SubStepRefines, StepTypeOK, StepBound, StepRegistered DEF Known, IInv
<1>3. Distinct' /\ AtWork'
  BY StepDistinct, StepAtWork DEF Known
<1>4. QED
  BY <1>1, <1>2, <1>3 DEF Known
\* Steps that write to no relation and go no further than to the next peer.
LEMMA QuietStep ==
  ASSUME FInv, UNCHANGED subVars,
         \A b \in Users : GUserSession'[b] \in {None, GUserSession[b]},
         \A c \in Conns : /\ Self'[c] \in {None, Self[c], new[c]}
                          /\ new'[c] \in {None, new[c]}
                          /\ job'[c] # job[c] =>
                               /\ job[c] = None \/ job[c].step = "loop"
                               /\ job'[c] = None \/ job'[c].step = "loop"
  PROVE  Attributed' /\ Pending' /\ AllRecorded'
<1> USE DEF FInv, subVars
<1>1. Attributed'
  BY DEF Attributed
<1>2. Pending'
  <2>1. ASSUME NEW c \in Conns, At(c, "peer")' \/ At(c, "own")'
        PROVE  /\ job'[c] = job[c] /\ (At(c, "peer") \/ At(c, "own"))
               /\ job[c].peer.Own \in Users
    BY <2>1 DEF At, Known, SubsTypeOK, Job, Session
  <2>2. ASSUME NEW s, NEW a PROVE Entry(s, a)' <=> Entry(s, a)
    BY DEF Entry
  <2>3. QED
    BY <2>1, <2>2 DEF Pending
<1>3. ASSUME NEW a \in Ids, NEW b \in Users, Recorded(a, b) PROVE Recorded(a, b)'
  BY <1>3 DEF Recorded, At
<1>4. AllRecorded'
  BY <1>3 DEF AllRecorded, Online, Entry
<1>5. QED
  BY <1>1, <1>2, <1>4

\* The session at work on c is told from the others by its id.
LEMMA OwnId ==
  ASSUME Known, NEW c \in Conns, job[c] # None
  PROVE  LET a == job[c].self.id
         IN  /\ a \in Ids /\ Self[c].id = a /\ Own(c) = Self[c].Own
             /\ \A d \in Conns : d # c /\ Self[d] # None => Self[d].id # a
             /\ \A d \in Conns : new[d] # None => new[d].id # a
             /\ \A d \in Conns : d # c /\ job[d] # None => job[d].self.id # a
<1> DEFINE a == job[c].self.id
<1>1. /\ Self[c] \in Session /\ job[c].self = Self[c] /\ Self[c].conn = c
      /\ pc[c] = "idle" /\ new[c] = None
  BY DEF Known, AtWork, IInv, Bound, TypeOK, SessionOrNone
<1>2. a \in Ids /\ Self[c].id = a /\ Own(c) = Self[c].Own
  BY <1>1 DEF Own, Session
<1>3. ASSUME NEW d \in Conns, d # c, Self[d] # None PROVE Self[d].id # a
  <2>1. Self[d] \in Session /\ Self[d].conn = d
    BY <1>3 DEF Known, IInv, Bound, TypeOK, SessionOrNone
  <2>2. QED
    BY <1>1, <1>2, <1>3, <2>1 DEF Known, Distinct, Held
<1>4. ASSUME NEW d \in Conns, new[d] # None PROVE new[d].id # a
  <2>1. new[d] \in Session /\ new[d].conn = d /\ d # c
    BY <1>1, <1>4 DEF Known, IInv, Bound, TypeOK, SessionOrNone
  <2>2. QED
    BY <1>1, <1>2, <2>1 DEF Known, Distinct, Held
<1>5. ASSUME NEW d \in Conns, d # c, job[d] # None PROVE job[d].self.id # a
  BY <1>3, <1>5 DEF Known, AtWork
<1>6. QED
  BY <1>2, <1>3, <1>4, <1>5

\* Who is registered with the id of a session that was loaded is that session.
LEMMA PeerId ==
  ASSUME Known, NEW c \in Conns, job[c] # None, job[c].peer # None,
         NEW b \in Online, GUserSession[b].id = job[c].peer.id
  PROVE  GUserSession[b] = job[c].peer /\ b = job[c].peer.Own
<1>1. GUserSession[b] \in Session /\ job[c].peer \in Session
  BY DEF Known, SubsTypeOK, TypeOK, SessionOrNone, Online, Job
<1>2. GUserSession[b].Own = b
  BY DEF Known, IInv, RegisteredIsCurrent, Online
<1>3. QED
  BY <1>1, <1>2 DEF Known, Distinct, Held, Online
\* Loading the next peer: the session that was loaded is the registered one.
LEMMA LoadKeeps ==
  ASSUME FInv, NEW c \in Conns, NEW p \in Users, LoadPeer(c, p)
  PROVE  Attributed' /\ Pending' /\ AllRecorded'
<1>1. /\ UNCHANGED <<sessionVars, subVars>>
      /\ job[c] \in Job /\ job[c].step = "loop"
      /\ \A d \in Conns : d # c => job'[d] = job[d]
      /\ job'[c] # None /\ job'[c].op = job[c].op /\ job'[c].self = job[c].self
      /\ job'[c].step = "peer" /\ job'[c].peer = GUserSession[p]
  BY NoneIsNoJob DEF LoadPeer, At, FInv, Known, SubsTypeOK, Job
<1>2. GUserSession[p].Own = p
  BY DEF LoadPeer, FInv, Known, IInv, RegisteredIsCurrent
<1>3. Attributed'
  BY <1>1 DEF FInv, Attributed, subVars, sessionVars, loginVars
<1>4. Pending'
  BY <1>1, <1>2 DEF FInv, Pending, At, Entry, subVars, sessionVars
<1>5. ASSUME NEW a \in Ids, NEW b \in Users, Recorded(a, b) PROVE Recorded(a, b)'
  BY <1>1, <1>5 DEF Recorded, At, subVars
<1>6. AllRecorded'
  BY <1>1, <1>5 DEF FInv, AllRecorded, Online, Entry, subVars, sessionVars
<1>7. QED
  BY <1>3, <1>4, <1>6

\* The first half of a request.
LEMMA PeerKeeps ==
  ASSUME FInv, NEW c \in Conns, UpdatePeer(c)
  PROVE  Attributed' /\ Pending' /\ AllRecorded'
<1> DEFINE i == job[c].peer.id
           a == job[c].self.id
           EntryAfter(s, e) == \E u \in Users : u \in subscribe'[s.id] /\ by'[s.id][u] = e
<1> USE DEF FInv
<1>1. /\ job[c] \in Job /\ job[c] # None /\ job[c].step = "peer" /\ job[c].peer # None
      /\ job[c].peer \in Session /\ job[c].self \in Session
      /\ i \in Ids /\ a \in Ids /\ Own(c) \in Users /\ job[c].peer.Own \in Users
  BY DEF UpdatePeer, At, Known, SubsTypeOK, Job, Session, Own
<1>2. /\ UNCHANGED <<sessionVars, ownSubscribe>>
      /\ \A d \in Conns : d # c => job'[d] = job[d]
      /\ job'[c] # None /\ job'[c].op = job[c].op /\ job'[c].self = job[c].self
      /\ IF job[c].op = "cancelAll" THEN job'[c].step = "loop"
         ELSE job'[c].step = "own" /\ job'[c].peer = job[c].peer
  BY <1>1, NoneIsNoJob DEF UpdatePeer, Known, SubsTypeOK, Job
<1>3. /\ subscribe' \in [Ids -> SUBSET Users] /\ by' \in [Ids -> [Users -> Ids \cup {None}]]
      /\ \A j \in Ids, u \in Users : j # i \/ u # Own(c) =>
           by'[j][u] = by[j][u] /\ (u \in subscribe'[j] <=> u \in subscribe[j])
      /\ IF job[c].op = "sub" THEN by'[i][Own(c)] = a
         ELSE by'[i][Own(c)] = None /\ Own(c) \notin subscribe'[i]
  BY PeerUpdated DEF Known
<1>4. /\ Self[c].id = a /\ Own(c) = Self[c].Own
      /\ \A d \in Conns : d # c /\ Self[d] # None => Self[d].id # a
      /\ \A d \in Conns : new[d] # None => new[d].id # a
      /\ \A d \in Conns : d # c /\ job[d] # None => job[d].self.id # a
  BY <1>1, OwnId
<1> HIDE DEF i, a
<1>5. ASSUME NEW s \in Session, NEW e \in Ids, EntryAfter(s, e), e # a \/ s.id # i
      PROVE  Entry(s, e)
  BY <1>3, <1>5 DEF Entry, Session
<1>6. Attributed'
  <2>1. \A d \in Conns, j \in Ids, u \in Users : new[d] # None => by'[j][u] # new[d].id
    <3> SUFFICES ASSUME NEW d \in Conns, NEW j \in Ids, NEW u \in Users, new[d] # None
                 PROVE  by'[j][u] # new[d].id
      OBVIOUS
    <3>1. new[d].id \in Ids
      BY DEF Known, SubsTypeOK, TypeOK, SessionOrNone, Session
    <3>2. QED
      BY <1>3, <1>4, <3>1, NoneIsNoJob DEF Attributed
  <2>2. \A d \in Conns, j \in Ids, u \in Users :
          Self[d] # None /\ by'[j][u] = Self[d].id => u = Self[d].Own
    <3> SUFFICES ASSUME NEW d \in Conns, NEW j \in Ids, NEW u \in Users,
                        Self[d] # None, by'[j][u] = Self[d].id
                 PROVE  u = Self[d].Own
      OBVIOUS
    <3>1. Self[d].id \in Ids
      BY DEF Known, SubsTypeOK, TypeOK, SessionOrNone, Session
    <3>2. QED
      BY <1>3, <1>4, <3>1, NoneIsNoJob DEF Attributed
  <2>3. QED
    BY <1>2, <2>1, <2>2 DEF Attributed, sessionVars, loginVars
<1>7. Pending'
  <2> SUFFICES ASSUME NEW d \in Conns, At(d, "peer")' \/ At(d, "own")', job'[d].op # "sub",
                      GUserSession[job'[d].peer.Own] # None,
                      EntryAfter(GUserSession[job'[d].peer.Own], job'[d].self.id)
               PROVE  /\ job'[d].step = "peer"
                      /\ GUserSession[job'[d].peer.Own] = job'[d].peer
    BY <1>2 DEF Pending, Entry, sessionVars
  <2>1. CASE d # c
    <3>1. /\ job'[d] = job[d] /\ job[d] # None /\ job[d].self.id # a
          /\ job[d].self.id \in Ids /\ job[d].peer.Own \in Users
      BY <1>2, <1>4, <2>1 DEF At, Known, SubsTypeOK, Job, Session
    <3>2. GUserSession[job[d].peer.Own] \in Session
      BY <3>1 DEF Known, SubsTypeOK, TypeOK, SessionOrNone
    <3>3. Entry(GUserSession[job[d].peer.Own], job[d].self.id)
      BY <1>5, <3>1, <3>2
    <3>4. QED
      BY <3>1, <3>3 DEF Pending, At
  <2>2. CASE d = c
    <3> DEFINE s == GUserSession[job[c].peer.Own]
    <3>1. /\ job[c].op # "sub" /\ job'[c].peer = job[c].peer
          /\ s \in Session /\ s.id \in Ids
      BY <1>1, <1>2, <2>2 DEF At, Known, SubsTypeOK, TypeOK, SessionOrNone, Session
    <3>2. EntryAfter(s, a)
      BY <1>2, <2>2, <3>1 DEF a
    <3>3. PICK u \in Users : u \in subscribe'[s.id] /\ by'[s.id][u] = a
      BY <3>2
    <3>4. s.id # i \/ u # Own(c)
      BY <1>3, <3>1, <3>3
    <3>5. u \in subscribe[s.id] /\ by[s.id][u] = a
      BY <1>3, <3>1, <3>3, <3>4
    <3>6. s = job[c].peer
      <4>1. s # None /\ Entry(s, a) /\ At(c, "peer")
        BY <1>1, <3>1, <3>5, NoneIsNoSession DEF Entry, At
      <4>2. QED
        BY <3>1, <4>1 DEF Pending, a
    <3>7. u = Own(c)
      <4>1. Self[c] # None
        BY <1>1 DEF Known, AtWork
      <4>2. QED
        BY <1>4, <3>1, <3>5, <4>1 DEF Attributed
    <3>8. QED
      BY <3>4, <3>6, <3>7 DEF i
  <2>3. QED
    BY <2>1, <2>2
<1>8. ASSUME NEW e \in Ids, NEW b \in Users, Recorded(e, b) PROVE Recorded(e, b)'
  BY <1>1, <1>2, <1>8 DEF Recorded, At
<1>9. AllRecorded'
  <2> SUFFICES ASSUME NEW b \in Online, NEW e \in Ids, EntryAfter(GUserSession[b], e)
               PROVE  Recorded(e, b)'
    BY <1>2 DEF AllRecorded, Entry, Online, sessionVars
  <2>1. GUserSession[b] \in Session /\ b \in Users
    BY DEF Online, Known, SubsTypeOK, TypeOK, SessionOrNone
  <2>2. CASE e # a \/ GUserSession[b].id # i
    <3>1. Entry(GUserSession[b], e)
      BY <1>5, <2>1, <2>2
    <3>2. QED
      BY <1>8, <2>1, <3>1 DEF AllRecorded
  <2>3. CASE e = a /\ GUserSession[b].id = i
    <3>1. b = job[c].peer.Own
      BY <1>1, <2>3, PeerId DEF i
    <3>2. CASE job[c].op = "sub"
      BY <1>1, <1>2, <2>3, <3>1, <3>2 DEF Recorded, At, a
    <3>3. CASE job[c].op # "sub"
      <4>1. PICK u \in Users : u \in subscribe'[i] /\ by'[i][u] = a
        BY <2>3
      <4>2. u # Own(c) /\ by[i][u] = a
        BY <1>1, <1>3, <3>3, <4>1
      <4>3. QED
        BY <1>1, <1>4, <4>2 DEF Attributed, Known, AtWork
    <3>4. QED
      BY <3>2, <3>3
  <2>4. QED
    BY <2>2, <2>3
<1>10. QED
  BY <1>6, <1>7, <1>9
\* The second half of a request.
LEMMA OwnKeeps ==
  ASSUME FInv, NEW c \in Conns, UpdateOwn(c)
  PROVE  Attributed' /\ Pending' /\ AllRecorded'
<1> DEFINE a == job[c].self.id
           p == job[c].peer.Own
<1> USE DEF FInv
<1>1. /\ job[c] \in Job /\ job[c] # None /\ job[c].step = "own"
      /\ job[c].peer \in Session /\ a \in Ids /\ p \in Users
  BY DEF UpdateOwn, At, Known, SubsTypeOK, Job, Session
<1>2. /\ UNCHANGED <<sessionVars, subscribe, by>>
      /\ \A d \in Conns : d # c => job'[d] = job[d]
      /\ job'[c].step = "loop"
  BY <1>1 DEF UpdateOwn, Known, SubsTypeOK, Job
<1>3. /\ \A e \in Ids : e # a => ownSubscribe'[e] = ownSubscribe[e]
      /\ ownSubscribe'[a] = IF job[c].op = "sub" THEN ownSubscribe[a] \cup {p}
                                                 ELSE ownSubscribe[a] \ {p}
  BY <1>1 DEF UpdateOwn, Followed, Known, SubsTypeOK
<1> HIDE DEF a, p
<1>4. Attributed'
  BY <1>2 DEF Attributed, sessionVars, loginVars
<1>5. Pending'
  BY <1>2 DEF Pending, At, Entry, sessionVars
<1>6. AllRecorded'
  <2> SUFFICES ASSUME NEW b \in Online, NEW e \in Ids, Entry(GUserSession[b], e)
               PROVE  Recorded(e, b)'
    BY <1>2 DEF AllRecorded, Online, Entry, sessionVars
  <2>1. Recorded(e, b) /\ b \in Users /\ GUserSession[b] # None
    BY DEF AllRecorded, Online
  <2>2. CASE e = a /\ b = p
    <3>1. job[c].op = "sub"
      BY <1>1, <2>1, <2>2 DEF Pending, At, a, p
    <3>2. QED
      BY <1>3, <2>2, <3>1 DEF Recorded
  <2>3. CASE ~(e = a /\ b = p)
    <3>1. CASE b \in ownSubscribe[e]
      BY <1>3, <2>3, <3>1 DEF Recorded
    <3>2. ASSUME NEW d \in Conns, At(d, "own"), job[d].op = "sub", job[d].self.id = e,
                 job[d].peer.Own = b
          PROVE  Recorded(e, b)'
      <4>1. d # c
        BY <2>3, <3>2 DEF a, p
      <4>2. QED
        BY <1>2, <3>2, <4>1 DEF Recorded, At
    <3>3. QED
      BY <2>1, <3>1, <3>2 DEF Recorded
  <2>4. QED
    BY <2>2, <2>3
<1>7. QED
  BY <1>4, <1>5, <1>6

\* A new session has no followers, follows nobody and has put nobody anywhere.
LEMMA LoginKeeps ==
  ASSUME FInv, NEW c \in Conns, LoginStep(c)
  PROVE  Attributed' /\ Pending' /\ AllRecorded'
<1> USE DEF FInv
<1>1. PICK i \in Ids :
        /\ FreshId(i)
        /\ new' = [new EXCEPT ![c] = SessInfo(c, i)]
        /\ GUserSession' = [GUserSession EXCEPT ![req[c]] = SessInfo(c, i)]
  BY DEF LoginStep, StoreSession
<1>2. /\ SessInfo(c, i).id = i /\ SessInfo(c, i).Own = req[c] /\ req[c] \in Users
      /\ new'[c] = SessInfo(c, i)
      /\ \A d \in Conns : d # c => new'[d] = new[d]
      /\ GUserSession'[req[c]] = SessInfo(c, i)
      /\ \A b \in Users : b # req[c] => GUserSession'[b] = GUserSession[b]
  BY <1>1 DEF LoginStep, StoreSession, SessInfo, Known, SubsTypeOK, IInv, Bound, TypeOK
<1>3. UNCHANGED <<Self, job>> /\ new'[c].id = i
  BY <1>2 DEF LoginStep, StoreSession
<1>4. /\ subscribe'[i] = {}
      /\ \A j \in Ids : j # i => /\ subscribe'[j] = subscribe[j]
                                 /\ ownSubscribe'[j] = ownSubscribe[j]
      /\ \A j \in Ids, u \in Users : by'[j][u] \in {None, by[j][u]} /\ by'[j][u] # i
  BY <1>3, NoneIsNoJob DEF LoginStep, Known, SubsTypeOK
<1>5. /\ \A d \in Conns : Self[d] # None => Self[d].id # i
      /\ \A d \in Conns : new[d] # None => new[d].id # i
      /\ \A b \in Online : GUserSession[b].id # i
  BY <1>1 DEF FreshId, Reachable, Online
<1>6. ASSUME NEW s \in Session, NEW e \in Ids,
             \E u \in Users : u \in subscribe'[s.id] /\ by'[s.id][u] = e
      PROVE  Entry(s, e) /\ s.id # i /\ e # i
  BY <1>4, <1>6, NoneIsNoJob DEF Entry, Session
<1>7. Attributed'
  <2>1. ASSUME NEW d \in Conns, NEW j \in Ids, NEW u \in Users, new'[d] # None
        PROVE  by'[j][u] # new'[d].id
    <3>1. CASE d = c
      BY <1>2, <1>4, <3>1
    <3>2. CASE d # c
      <4>1. new[d].id \in Ids
        BY <1>2, <2>1, <3>2 DEF Known, SubsTypeOK, TypeOK, SessionOrNone, Session
      <4>2. QED
        BY <1>2, <1>4, <2>1, <3>2, <4>1, NoneIsNoJob DEF Attributed
    <3>3. QED
      BY <3>1, <3>2
  <2>2. ASSUME NEW d \in Conns, NEW j \in Ids, NEW u \in Users, Self[d] # None,
               by'[j][u] = Self[d].id
        PROVE  u = Self[d].Own
    <3>1. Self[d].id \in Ids
      BY <2>2 DEF Known, SubsTypeOK, TypeOK, SessionOrNone, Session
    <3>2. QED
      BY <1>4, <2>2, <3>1, NoneIsNoJob DEF Attributed
  <2>3. QED
    BY <1>3, <2>1, <2>2 DEF Attributed
<1>8. Pending'
  <2> SUFFICES ASSUME NEW d \in Conns, At(d, "peer") \/ At(d, "own"), job[d].op # "sub",
                      GUserSession'[job[d].peer.Own] # None,
                      \E u \in Users : /\ u \in subscribe'[GUserSession'[job[d].peer.Own].id]
                                       /\ by'[GUserSession'[job[d].peer.Own].id][u] = job[d].self.id
               PROVE  job[d].step = "peer" /\ GUserSession'[job[d].peer.Own] = job[d].peer
    BY <1>3 DEF Pending, At, Entry
  <2>1. job[d].peer.Own \in Users /\ job[d].self.id \in Ids
    BY DEF At, Known, SubsTypeOK, Job, Session
  <2>2. job[d].peer.Own # req[c]
    BY <1>2, <1>4
  <2>3. /\ GUserSession'[job[d].peer.Own] = GUserSession[job[d].peer.Own]
        /\ GUserSession[job[d].peer.Own] \in Session
    BY <1>2, <2>1, <2>2 DEF Known, SubsTypeOK, TypeOK, SessionOrNone
  <2>4. Entry(GUserSession[job[d].peer.Own], job[d].self.id)
    BY <1>6, <2>1, <2>3
  <2>5. QED
    BY <2>3, <2>4 DEF Pending
<1>9. AllRecorded'
  <2> SUFFICES ASSUME NEW b \in Users, GUserSession'[b] # None, NEW e \in Ids,
                      \E u \in Users : /\ u \in subscribe'[GUserSession'[b].id]
                                       /\ by'[GUserSession'[b].id][u] = e
               PROVE  Recorded(e, b)'
    BY DEF AllRecorded, Online, Entry
  <2>1. b # req[c]
    BY <1>2, <1>4
  <2>2. GUserSession'[b] = GUserSession[b] /\ GUserSession[b] \in Session
    BY <1>2, <2>1 DEF Known, SubsTypeOK, TypeOK, SessionOrNone
  <2>3. Entry(GUserSession[b], e) /\ e # i
    BY <1>6, <2>2
  <2>4. Recorded(e, b)
    BY <2>2, <2>3 DEF AllRecorded, Online
  <2>5. QED
    BY <1>3, <1>4, <2>3, <2>4 DEF Recorded, At
<1>10. QED
  BY <1>7, <1>8, <1>9
\* The timer takes an entry away.
LEMMA UnfollowKeeps ==
  ASSUME FInv, Unfollow
  PROVE  Attributed' /\ Pending' /\ AllRecorded'
<1> USE DEF FInv
<1>1. tsess.id \in Ids /\ tsess.Own \in Users
  BY DEF Unfollow, Known, SubsTypeOK, SessionOrNone, Session
<1>2. UNCHANGED <<sessionVars, ownSubscribe, job>>
  BY DEF Unfollow
<1>3. \A j \in Ids, u \in Users : /\ by'[j][u] \in {None, by[j][u]}
                                  /\ u \in subscribe'[j] => u \in subscribe[j]
  BY <1>1 DEF Unfollow, Known, SubsTypeOK
<1>4. ASSUME NEW s \in Session, NEW e \in Ids,
             \E u \in Users : u \in subscribe'[s.id] /\ by'[s.id][u] = e
      PROVE  Entry(s, e)
  BY <1>3, <1>4, NoneIsNoJob DEF Entry, Session
<1>5. Attributed'
  <2>1. \A d \in Conns : /\ new[d] # None => new[d].id \in Ids
                         /\ Self[d] # None => Self[d].id \in Ids
    BY DEF Known, SubsTypeOK, TypeOK, SessionOrNone, Session
  <2>2. QED
    BY <1>2, <1>3, <2>1, NoneIsNoJob DEF Attributed, sessionVars, loginVars
<1>6. Pending'
  <2> SUFFICES ASSUME NEW d \in Conns, At(d, "peer") \/ At(d, "own"), job[d].op # "sub",
                      GUserSession[job[d].peer.Own] # None,
                      \E u \in Users : /\ u \in subscribe'[GUserSession[job[d].peer.Own].id]
                                       /\ by'[GUserSession[job[d].peer.Own].id][u] = job[d].self.id
               PROVE  job[d].step = "peer" /\ GUserSession[job[d].peer.Own] = job[d].peer
    BY <1>2 DEF Pending, At, Entry, sessionVars
  <2>1. job[d].self.id \in Ids /\ GUserSession[job[d].peer.Own] \in Session
    BY DEF At, Known, SubsTypeOK, TypeOK, SessionOrNone, Job, Session
  <2>2. Entry(GUserSession[job[d].peer.Own], job[d].self.id)
    BY <1>4, <2>1
  <2>3. QED
    BY <2>2 DEF Pending
<1>7. AllRecorded'
  <2> SUFFICES ASSUME NEW b \in Online, NEW e \in Ids,
                      \E u \in Users : /\ u \in subscribe'[GUserSession[b].id]
                                       /\ by'[GUserSession[b].id][u] = e
               PROVE  Recorded(e, b)'
    BY <1>2 DEF AllRecorded, Online, Entry, sessionVars
  <2>1. GUserSession[b] \in Session
    BY DEF Online, Known, SubsTypeOK, TypeOK, SessionOrNone
  <2>2. Recorded(e, b)
    BY <1>4, <2>1 DEF AllRecorded
  <2>3. QED
    BY <1>2, <2>2 DEF Recorded, At
<1>8. QED
  BY <1>5, <1>6, <1>7

LEMMA StepFInv == FInv /\ [Next]_vars => FInv'
<1> SUFFICES ASSUME FInv, [Next]_vars PROVE FInv'
  OBVIOUS
<1> DEFINE Goal == Attributed' /\ Pending' /\ AllRecorded'
<1>1. ASSUME UNCHANGED <<subVars, job>>,
             \A b \in Users : GUserSession'[b] \in {None, GUserSession[b]},
             \A c \in Conns : /\ Self'[c] \in {None, Self[c], new[c]}
                              /\ new'[c] \in {None, new[c]}
      PROVE  Goal
  BY <1>1, QuietStep
<1>2. ASSUME UNCHANGED <<sessionVars, subVars>>, NEW c \in Conns,
             \A d \in Conns : d # c => job'[d] = job[d],
             job[c] = None \/ job[c].step = "loop",
             job'[c] = None \/ job'[c].step = "loop"
      PROVE  Goal
  BY <1>2, QuietStep DEF sessionVars, loginVars
<1> USE DEF FInv, Known, SubsTypeOK
<1>3. ASSUME NEW c \in Conns, SessionStep(c) \/ PacketStep(c) PROVE Goal
  <2> HIDE DEF Goal
  <2>1. /\ UNCHANGED <<subVars, job>>
        /\ \A b \in Users : GUserSession'[b] \in {None, GUserSession[b]}
        /\ \A d \in Conns : /\ Self'[d] \in {None, Self[d], new[d]}
                            /\ new'[d] \in {None, new[d]}
    BY <1>3 DEF SessionStep, PacketStep, Connect, Disconnect, Receive, RefuseOnline, PassOnline,
                RejectLogin, BindSession, WithoutOldSession, TypeOK, loginVars
  <2>2. QED
    BY <1>1, <2>1
<1>4. ASSUME NEW c \in Conns, LoginStep(c) PROVE Goal
  BY <1>4, LoginKeeps
<1>5. ASSUME NEW c \in Conns, Handler(c) PROVE Goal
  <2>1. ASSUME NEW p \in Users, SkipPeer(c, p) PROVE Goal
    <3>1. job[c] \in Job
      BY <2>1 DEF SkipPeer, At
    <3>2. QED
      BY <1>2, <2>1, <3>1 DEF SkipPeer, At, Job
  <2>2. ASSUME NEW p \in Users, LoadPeer(c, p) PROVE Goal
    BY <2>2, LoadKeeps
  <2>3. CASE UpdatePeer(c)
    BY <2>3, PeerKeeps
  <2>4. CASE UpdateOwn(c)
    BY <2>4, OwnKeeps
  <2>5. CASE EndRequest(c)
    BY <1>2, <2>5 DEF EndRequest, At
  <2>6. QED
    BY <1>5, <2>1, <2>2, <2>3, <2>4, <2>5 DEF Handler
<1>6. ASSUME NEW c \in Conns, NEW op \in SubOps, NEW peers \in SUBSET Users,
             Request(c, op, peers)
      PROVE  Goal
  BY <1>2, <1>6 DEF Request
<1>7. ASSUME SubTimer PROVE Goal
  <2>1. CASE TimerStep \/ StartUndoing \/ \E p \in Users : SkipFollowed(p) \/ LoadFollowed(p)
    <3> HIDE DEF Goal
    <3>1. /\ UNCHANGED <<subVars, job, Self, new>>
          /\ \A b \in Users : GUserSession'[b] \in {None, GUserSession[b]}
      BY <2>1 DEF TimerStep, StartUndoing, SkipFollowed, LoadFollowed, Tick, EndRange,
                  SweepGroups, SkipSession, FindDead, CleanRelations, DeleteSession,
                  WithoutDead, TypeOK, sessionVars, loginVars
    <3>2. QED
      BY <1>1, <3>1
  <2>2. CASE Unfollow
    BY <2>2, UnfollowKeeps
  <2>3. QED
    BY <1>7, <2>1, <2>2 DEF SubTimer
<1>8. ASSUME UNCHANGED vars PROVE Goal
  BY <1>1, <1>8 DEF vars, sessionVars, loginVars
<1>9. Goal
  BY <1>3, <1>4, <1>5, <1>6, <1>7, <1>8 DEF Next
<1> HIDE DEF FInv, Known, SubsTypeOK
<1>10. Known'
  BY StepKnown DEF FInv
<1>11. QED
  BY <1>9, <1>10 DEF FInv

\* In every reachable state.
LEMMA FollowInvariance == Spec => []FInv
  BY InitFInv, StepFInv, PTL DEF Spec
-----------------------------------------------------------------------------
\* The variables keep their types (handler.go lines 53-75, 325-413, 439-448).
THEOREM SubsTypeCorrect == Spec => []SubsTypeOK
<1>1. FInv => SubsTypeOK
  BY DEF FInv, Known
<1>2. QED
  BY FollowInvariance, <1>1, PTL

\* However subscriptions, logins and the timer interleave: where the session of
\* a connected client put its user among the followers of somebody online, it
\* has that peer among those it follows, or is about to enter him.
THEOREM RecordsOfConnectedAgree == Spec => []RecordsAgree
<1>1. FInv => RecordsAgree
  <2> SUFFICES ASSUME FInv, NEW b \in Online, NEW c \in Conns, Self[c] # None,
                      Self[c].Own \in subscribe[GUserSession[b].id],
                      by[GUserSession[b].id][Self[c].Own] = Self[c].id,
                      b \notin ownSubscribe[Self[c].id]
               PROVE  At(c, "own") /\ job[c].peer.Own = b
    BY DEF RecordsAgree
  <2>1. Self[c] \in Session /\ Self[c].conn = c
    BY DEF FInv, Known, IInv, Bound, SubsTypeOK, TypeOK, SessionOrNone
  <2>2. Self[c].id \in Ids /\ Self[c].Own \in Users
    BY <2>1 DEF Session
  <2>3. Recorded(Self[c].id, b)
    BY <2>2 DEF FInv, AllRecorded, Entry
  <2>4. PICK d \in Conns : At(d, "own") /\ job[d].self.id = Self[c].id /\ job[d].peer.Own = b
    BY <2>3 DEF Recorded
  <2>5. job[d].self = Self[d] /\ Self[d] # None
    BY <2>4 DEF FInv, Known, AtWork, At
  <2>6. Self[d] \in Session /\ Self[d].conn = d
    BY <2>5 DEF FInv, Known, IInv, Bound, SubsTypeOK, TypeOK, SessionOrNone
  <2>7. Self[d] = Self[c]
    BY <2>1, <2>4, <2>5, <2>6 DEF FInv, Known, Distinct, Held
  <2>8. QED
    BY <2>1, <2>4, <2>6, <2>7
<1>2. QED
  BY FollowInvariance, <1>1, PTL
=============================================================================
