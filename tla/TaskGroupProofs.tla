-------------------------- MODULE TaskGroupProofs --------------------------
(***************************************************************************)
(* Proofs about TaskGroup, for any number of tasks, channels, workers and  *)
(* calls of Stop.                                                          *)
(***************************************************************************)
EXTENDS TaskGroup, TLAPS

\* A channel is closed, and a slot cleared, only once exit is closed; a call
\* that has read a nil will therefore see exit closed.
ClosedAfterExit ==
  /\ \A p \in Pipes : slot[p] = "nil" => closed[p]
  /\ \A p \in Pipes : closed[p] => exit
  /\ \A t \in Tasks : call[t] = "read" /\ handle[t] = "nil" => exit

\* A worker that has left has drained its closed channel.
LeftIsDrained ==
  \A p \in Pipes :
    /\ worker[p] \in {"left", "gone"} => closed[p] /\ buf[p] = << >>
    /\ worker[p] # "running" => cur[p] = None

\* Of all the calls of Stop one closes channels, each channel once.
OneCloses ==
  /\ exit \/ next = 0
  /\ \A s \in Stoppers : stop[s] = "closing" => exit /\ next < Pipeline
  /\ \A s, r \in Stoppers : stop[s] = "closing" /\ stop[r] = "closing" => s = r

TGInv == TGTypeOK /\ ClosedAfterExit /\ LeftIsDrained /\ OneCloses /\ NeverStuckOnNil

LEMMA PipeIsPipe == \A t \in Tasks : Pipe(t) \in Pipes
<1>1. \A t \in Tasks : Shard[t] \in Nat
  BY TaskGroupAssumption
<1>2. \A n \in Nat : n % Pipeline \in 0 .. Pipeline - 1
  BY TaskGroupAssumption
<1>3. QED
  BY <1>1, <1>2 DEF Pipe, PipeOf, Pipes

LEMMA InitTGInv == Init => TGInv
<1>1. ASSUME Init PROVE TGTypeOK
  <2>1. << >> \in Seq(Tasks) /\ Len(<< >>) <= Cap /\ 0 \in 0 .. Pipeline
    BY TaskGroupAssumption
  <2>2. buf \in [Pipes -> Seq(Tasks)] /\ \A p \in Pipes : Len(buf[p]) <= Cap
    BY <1>1, <2>1 DEF Init
  <2>3. QED
    BY <1>1, <2>1, <2>2 DEF Init, TGTypeOK
<1>2. Init => ClosedAfterExit /\ LeftIsDrained /\ OneCloses /\ NeverStuckOnNil
  BY TaskGroupAssumption DEF Init, ClosedAfterExit, LeftIsDrained, OneCloses, NeverStuckOnNil
<1>3. QED
  BY <1>1, <1>2 DEF TGInv

\* A call that puts its task into a channel.
LEMMA PutKeeps ==
  ASSUME TGInv, NEW t \in Tasks, call[t] \in {"read", "checked"}, Put(t),
         UNCHANGED <<handle, workVars, stopVars>>
  PROVE  TGInv'
<1> USE PipeIsPipe DEF TGInv, workVars, stopVars
<1>1. /\ Pipe(t) \in Pipes /\ ~closed[Pipe(t)] /\ Len(buf[Pipe(t)]) < Cap
      /\ buf[Pipe(t)] \in Seq(Tasks)
  BY DEF Put, CanPut, Room, TGTypeOK
<1>2. /\ Append(buf[Pipe(t)], t) \in Seq(Tasks)
      /\ Len(Append(buf[Pipe(t)], t)) <= Cap
  BY <1>1, TaskGroupAssumption
<1>3. TGTypeOK'
  BY <1>1, <1>2 DEF TGTypeOK, Put, EndCall
<1>4. ClosedAfterExit' /\ OneCloses' /\ NeverStuckOnNil'
  BY DEF ClosedAfterExit, OneCloses, NeverStuckOnNil, TGTypeOK, Put, EndCall
<1>5. LeftIsDrained'
  BY <1>1 DEF LeftIsDrained, TGTypeOK, Put, EndCall
<1>6. QED
  BY <1>3, <1>4, <1>5

\* A call that ends without putting anything.
LEMMA EndKeeps ==
  ASSUME TGInv, NEW t \in Tasks, NEW how \in {"stopped", "full", "panicked"},
         EndCall(t, how), UNCHANGED <<buf, handle, workVars, stopVars>>
  PROVE  TGInv'
BY DEF TGInv, workVars, stopVars, TGTypeOK, ClosedAfterExit, LeftIsDrained, OneCloses,
       NeverStuckOnNil, EndCall

LEMMA CallKeeps ==
  ASSUME TGInv, NEW t \in Tasks,
         ReadChannel(t) \/ CheckExit(t) \/ Send(t) \/ TrySend(t)
  PROVE  TGInv'
<1>1. CASE ReadChannel(t)
  BY <1>1, PipeIsPipe DEF ReadChannel, TGInv, workVars, stopVars, TGTypeOK, ClosedAfterExit,
         LeftIsDrained, OneCloses, NeverStuckOnNil
<1>2. CASE CheckExit(t)
  BY <1>2 DEF CheckExit, EndCall, TGInv, workVars, stopVars, TGTypeOK, ClosedAfterExit,
         LeftIsDrained, OneCloses, NeverStuckOnNil
<1>3. CASE Send(t)
  BY <1>3, PutKeeps, EndKeeps DEF Send, PutPanics
<1>4. CASE TrySend(t)
  BY <1>4, PutKeeps, EndKeeps DEF TrySend, PutPanics
<1>5. QED
  BY <1>1, <1>2, <1>3, <1>4

LEMMA WorkKeeps ==
  ASSUME TGInv, NEW p \in Pipes, Work(p)
  PROVE  TGInv'
<1> USE DEF TGInv, TGTypeOK, ClosedAfterExit, LeftIsDrained, OneCloses, NeverStuckOnNil,
            Goto, sendVars, stopVars
<1>1. CASE BeginWorker(p)
  BY <1>1 DEF BeginWorker
<1>2. CASE Take(p)
  <2>1. /\ Head(buf[p]) \in Tasks /\ Tail(buf[p]) \in Seq(Tasks)
        /\ Len(Tail(buf[p])) <= Cap
    BY <1>2, TaskGroupAssumption DEF Take
  <2>2. QED
    BY <1>2, <2>1 DEF Take, Oldest
<1>3. CASE Finish(p)
  <2>1. worker' = [worker EXCEPT ![p] = "idle"]
    BY <1>3 DEF Finish
  <2>2. TGTypeOK'
    BY <1>3, <2>1 DEF Finish
  <2>3. LeftIsDrained'
    BY <1>3, <2>1 DEF Finish
  <2>4. ClosedAfterExit' /\ OneCloses' /\ NeverStuckOnNil'
    BY <1>3 DEF Finish
  <2>5. QED
    BY <2>2, <2>3, <2>4
<1>4. CASE Leave(p)
  BY <1>4 DEF Leave, Drained
<1>5. CASE Done(p)
  BY <1>5 DEF Done
<1>6. QED
  BY <1>1, <1>2, <1>3, <1>4, <1>5 DEF Work

LEMMA StopKeeps ==
  ASSUME TGInv, NEW s \in Stoppers, Stop(s)
  PROVE  TGInv'
<1> USE TaskGroupAssumption
    DEF TGInv, TGTypeOK, ClosedAfterExit, LeftIsDrained, OneCloses, NeverStuckOnNil,
        EndStop, sendVars, workVars
<1>1. CASE CheckStopped(s)
  BY <1>1 DEF CheckStopped
<1>2. CASE CloseExit(s)
  BY <1>2 DEF CloseExit, ExitClosed
<1>3. CASE CloseExitPanics(s)
  BY <1>3 DEF CloseExitPanics
<1>4. CASE CloseChannel(s)
  <2>1. exit /\ next < Pipeline /\ next + 1 \in 0 .. Pipeline
    BY <1>4 DEF CloseChannel
  <2>2. TGTypeOK'
    BY <1>4, <2>1 DEF CloseChannel
  <2>3. ClosedAfterExit' /\ LeftIsDrained' /\ NeverStuckOnNil'
    BY <1>4, <2>1 DEF CloseChannel
  <2>4. OneCloses'
    BY <1>4, <2>1 DEF CloseChannel
  <2>5. QED
    BY <2>2, <2>3, <2>4
<1>5. CASE Waited(s)
  BY <1>5 DEF Waited
<1>6. QED
  BY <1>1, <1>2, <1>3, <1>4, <1>5 DEF Stop

LEMMA TGInvariant == Spec => []TGInv
<1>1. TGInv /\ [Next]_vars => TGInv'
  <2>1. CASE UNCHANGED vars
    BY <2>1 DEF vars, sendVars, workVars, stopVars, TGInv, TGTypeOK, ClosedAfterExit,
           LeftIsDrained, OneCloses, NeverStuckOnNil
  <2>2. QED
    BY <2>1, CallKeeps, WorkKeeps, StopKeeps DEF Next
<1>2. QED
  BY InitTGInv, <1>1, PTL DEF Spec

\* The type invariant, with the bound of each channel's buffer (taskgroup.go
\* lines 18-22 and 27-96).
THEOREM TaskGroupTypeCorrect == Spec => []TGTypeOK
BY TGInvariant, PTL DEF TGInv

\* No SendTask goes on to send on a nil channel: the worker clears its slot
\* only when its channel is closed, which is after exit (lines 29-34, 65, 91).
THEOREM NoSendOnNil == Spec => []NeverStuckOnNil
BY TGInvariant, PTL DEF TGInv

\* Everything a channel took has run when its worker leaves (lines 67-71).
THEOREM WorkersDrain == Spec => []NothingLeftBehind
<1>1. TGInv => NothingLeftBehind
  BY DEF TGInv, LeftIsDrained, NothingLeftBehind
<1>2. QED
  BY TGInvariant, <1>1, PTL
-----------------------------------------------------------------------------
(* The pool implements KeyedTasks.                                         *)

\* A channel holds tasks that were sent to it, each once; its worker runs a
\* task of its own, and has one exactly while it is running.
Placed ==
  \A p \in Pipes :
    /\ \A i \in 1 .. Len(buf[p]) : Pipe(buf[p][i]) = p /\ call[buf[p][i]] = "sent"
    /\ \A i, j \in 1 .. Len(buf[p]) : buf[p][i] = buf[p][j] => i = j
    /\ worker[p] = "running" => cur[p] \in Tasks /\ Pipe(cur[p]) = p

LEMMA InitPlaced == Init => Placed
<1>1. Len(<< >>) = 0 /\ 1 .. 0 = {}
  OBVIOUS
<1>2. QED
  BY <1>1 DEF Init, Placed

\* The positions of a channel after a put, and after a take.
LEMMA PositionsPut ==
  ASSUME NEW q \in Seq(Tasks), NEW t \in Tasks
  PROVE  /\ Append(q, t) \in Seq(Tasks)
         /\ Len(q) \in Nat /\ Len(Append(q, t)) = Len(q) + 1
         /\ DOMAIN q = 1 .. Len(q)
         /\ DOMAIN Append(q, t) = 1 .. Len(q) + 1
         /\ \A i \in 1 .. Len(q) : Append(q, t)[i] = q[i] /\ q[i] \in Tasks
         /\ Append(q, t)[Len(q) + 1] = t
OBVIOUS

LEMMA PositionsTake ==
  ASSUME NEW q \in Seq(Tasks), q # << >>
  PROVE  /\ Tail(q) \in Seq(Tasks) /\ Head(q) = q[1] /\ q[1] \in Tasks
         /\ Len(q) \in Nat \ {0} /\ Len(Tail(q)) = Len(q) - 1
         /\ DOMAIN q = 1 .. Len(q)
         /\ DOMAIN Tail(q) = 1 .. Len(q) - 1
         /\ \A i \in 1 .. Len(q) - 1 : Tail(q)[i] = q[i + 1]
         /\ \A i \in 1 .. Len(q) : q[i] \in Tasks
OBVIOUS

\* What a step that puts t does to the state the properties speak of.
PutStep(t) ==
  /\ t \in Tasks /\ call[t] \in {"read", "checked"}
  /\ buf' = [buf EXCEPT ![Pipe(t)] = Append(@, t)]
  /\ call' = [call EXCEPT ![t] = "sent"]
  /\ UNCHANGED <<worker, cur>>

\* A step of a call that does not put anything.
CallStep(t) ==
  /\ t \in Tasks /\ call[t] \in {"new", "read", "checked"}
  /\ \E how \in {"read", "checked", "stopped", "full", "panicked"} :
       call' = [call EXCEPT ![t] = how]
  /\ UNCHANGED <<buf, worker, cur>>

\* A step of a worker that leaves channel and task alone, or a step of Stop.
QuietStep ==
  /\ UNCHANGED <<buf, call, cur>>
  /\ worker' = worker \/ \E p \in Pipes, where \in {"idle", "left", "gone"} :
                            worker' = [worker EXCEPT ![p] = where]

LEMMA StepKinds ==
  ASSUME TGInv, [Next]_vars
  PROVE  \/ \E t \in Tasks : PutStep(t) \/ CallStep(t)
         \/ \E p \in Pipes : Take(p) \/ Finish(p)
         \/ QuietStep
<1> USE DEF sendVars, workVars, stopVars
<1>1. CASE UNCHANGED vars
  BY <1>1 DEF vars, QuietStep
<1>2. ASSUME NEW t \in Tasks, ReadChannel(t) \/ CheckExit(t)
      PROVE  CallStep(t)
  BY <1>2 DEF ReadChannel, CheckExit, EndCall, CallStep
<1>3. ASSUME NEW t \in Tasks, Send(t) \/ TrySend(t)
      PROVE  PutStep(t) \/ CallStep(t)
  BY <1>3 DEF Send, TrySend, Put, PutPanics, EndCall, CallStep, PutStep
<1>4. ASSUME NEW p \in Pipes, Work(p)
      PROVE  Take(p) \/ Finish(p) \/ QuietStep
  BY <1>4 DEF Work, BeginWorker, Leave, Done, Goto, QuietStep
<1>5. ASSUME NEW s \in Stoppers, Stop(s)
      PROVE  QuietStep
  BY <1>5 DEF Stop, CheckStopped, CloseExit, CloseExitPanics, CloseChannel, Waited, QuietStep
<1>6. QED
  BY <1>1, <1>2, <1>3, <1>4, <1>5 DEF Next

LEMMA PlacedInvariant == Spec => []Placed
<1>1. ASSUME TGInv, Placed, [Next]_vars
      PROVE  Placed'
  <2> USE <1>1 DEF TGInv, TGTypeOK
  <2>1. ASSUME NEW t \in Tasks, PutStep(t)
        PROVE  Placed'
    <3> DEFINE q == buf[Pipe(t)]
    <3>1. /\ Pipe(t) \in Pipes /\ q \in Seq(Tasks)
          /\ \A i \in 1 .. Len(q) : q[i] # t
      BY <2>1, PipeIsPipe DEF Placed, PutStep
    <3>2. ASSUME NEW p \in Pipes, p # Pipe(t)
          PROVE  buf'[p] = buf[p]
      BY <2>1, <3>2 DEF PutStep
    <3>3. buf'[Pipe(t)] = Append(q, t)
      BY <2>1, <3>1 DEF PutStep
    <3>4. /\ \A u \in Tasks : u # t => call'[u] = call[u]
          /\ call'[t] = "sent" /\ worker' = worker /\ cur' = cur
      BY <2>1 DEF PutStep
    <3> HIDE DEF q
    <3>5. /\ \A i \in 1 .. Len(buf'[Pipe(t)]) :
               Pipe(buf'[Pipe(t)][i]) = Pipe(t) /\ call'[buf'[Pipe(t)][i]] = "sent"
          /\ \A i, j \in 1 .. Len(buf'[Pipe(t)]) :
               buf'[Pipe(t)][i] = buf'[Pipe(t)][j] => i = j
      <4>1. /\ \A i \in 1 .. Len(q) : Pipe(q[i]) = Pipe(t) /\ call[q[i]] = "sent"
            /\ \A i, j \in 1 .. Len(q) : q[i] = q[j] => i = j
        BY <3>1 DEF Placed, q
      <4>2. QED
        BY <3>1, <3>3, <3>4, <4>1, PositionsPut
    <3>6. ASSUME NEW p \in Pipes, p # Pipe(t), NEW i \in 1 .. Len(buf'[p])
          PROVE  Pipe(buf'[p][i]) = p /\ call'[buf'[p][i]] = "sent"
      <4>1. /\ buf'[p] = buf[p] /\ buf[p] \in Seq(Tasks)
            /\ Pipe(buf[p][i]) = p /\ call[buf[p][i]] = "sent"
        BY <3>2, <3>6 DEF Placed
      <4>2. buf[p][i] \in Tasks
        BY <3>6, <4>1
      <4>3. QED
        BY <3>4, <4>1, <4>2
    <3>7. \A p \in Pipes : p # Pipe(t) =>
             \A i, j \in 1 .. Len(buf'[p]) : buf'[p][i] = buf'[p][j] => i = j
      BY <3>2 DEF Placed
    <3>8. \A p \in Pipes : worker'[p] = "running" => cur'[p] \in Tasks /\ Pipe(cur'[p]) = p
      BY <3>4 DEF Placed
    <3>9. QED
      BY <3>1, <3>5, <3>6, <3>7, <3>8 DEF Placed
  <2>2. ASSUME NEW t \in Tasks, CallStep(t)
        PROVE  Placed'
    BY <2>2 DEF Placed, CallStep
  <2>3. ASSUME NEW p \in Pipes, Take(p)
        PROVE  Placed'
    <3> DEFINE q == buf[p]
    <3>1. /\ q \in Seq(Tasks) /\ q # << >>
          /\ \A i \in 1 .. Len(q) : Pipe(q[i]) = p /\ call[q[i]] = "sent"
          /\ \A i, j \in 1 .. Len(q) : q[i] = q[j] => i = j
      BY <2>3 DEF Placed, Take
    <3>2. /\ buf'[p] = Tail(q) /\ cur'[p] = Head(q) /\ call' = call
          /\ \A r \in Pipes : r # p => /\ buf'[r] = buf[r] /\ cur'[r] = cur[r]
                                       /\ worker'[r] = worker[r]
      BY <2>3 DEF Take, Goto, Oldest, sendVars
    <3> HIDE DEF q
    <3>3. /\ \A i \in 1 .. Len(buf'[p]) : Pipe(buf'[p][i]) = p /\ call'[buf'[p][i]] = "sent"
          /\ \A i, j \in 1 .. Len(buf'[p]) : buf'[p][i] = buf'[p][j] => i = j
          /\ cur'[p] \in Tasks /\ Pipe(cur'[p]) = p
      BY <3>1, <3>2, PositionsTake
    <3>4. ASSUME NEW r \in Pipes, r # p
          PROVE  /\ \A i \in 1 .. Len(buf'[r]) :
                      Pipe(buf'[r][i]) = r /\ call'[buf'[r][i]] = "sent"
                 /\ \A i, j \in 1 .. Len(buf'[r]) : buf'[r][i] = buf'[r][j] => i = j
                 /\ worker'[r] = "running" => cur'[r] \in Tasks /\ Pipe(cur'[r]) = r
      BY <3>2, <3>4 DEF Placed
    <3>5. QED
      BY <3>3, <3>4 DEF Placed
  <2>4. ASSUME NEW p \in Pipes, Finish(p)
        PROVE  Placed'
    BY <2>4 DEF Placed, Finish, Goto, sendVars
  <2>5. CASE QuietStep
    BY <2>5 DEF Placed, QuietStep
  <2>6. QED
    BY <2>1, <2>2, <2>3, <2>4, <2>5, StepKinds
<1>2. QED
  BY InitPlaced, <1>1, TGInvariant, PTL DEF Spec

LEMMA InitRefines == Init => ByKey!Init
<1>1. ASSUME Init
      PROVE  \A p \in Pipes : buf[p] = << >> /\ DOMAIN buf[p] = {}
  BY <1>1 DEF Init
<1>2. ASSUME Init
      PROVE  Buffered = {} /\ \A t \in Tasks : Ahead(t) = {}
  BY <1>1, <1>2, PipeIsPipe DEF Buffered, Ahead
<1>3. ASSUME Init, NEW k \in Keys
      PROVE  Running(k) = None
  <2>1. PICK t \in Tasks : k = Shard[t]
    BY DEF Keys
  <2>2. PipeOf(k) \in Pipes
    BY <2>1, PipeIsPipe DEF Pipe
  <2>3. QED
    BY <1>3, <2>2, TaskGroupAssumption DEF Init, Running
<1>4. Init => {t \in Tasks : call[t] = "sent"} = {}
  BY DEF Init
<1>5. QED
  BY <1>2, <1>3, <1>4 DEF ByKey!Init

\* The tasks of one key are in one channel.
LEMMA BufferedAt ==
  ASSUME TGInv, Placed, NEW t \in Tasks
  PROVE  t \in Buffered <=> \E i \in 1 .. Len(buf[Pipe(t)]) : buf[Pipe(t)][i] = t
<1>1. \A p \in Pipes : DOMAIN buf[p] = 1 .. Len(buf[p])
  BY DEF TGInv, TGTypeOK
<1>2. QED
  BY <1>1, PipeIsPipe DEF Buffered, Placed

LEMMA BufferedIn ==
  \A v : v \in Buffered <=> \E p \in Pipes : \E i \in DOMAIN buf[p] : buf[p][i] = v
BY DEF Buffered

LEMMA PutRefines ==
  ASSUME TGInv, Placed, Placed', TGInv', NEW t \in Tasks, PutStep(t)
  PROVE  ByKey!Accept(t)
<1> DEFINE q == buf[Pipe(t)]
<1>1. /\ Pipe(t) \in Pipes /\ q \in Seq(Tasks)
      /\ \A i \in 1 .. Len(q) : q[i] # t
  BY PipeIsPipe DEF Placed, PutStep, TGInv, TGTypeOK
<1>2. /\ buf'[Pipe(t)] = Append(q, t)
      /\ \A p \in Pipes : p # Pipe(t) => buf'[p] = buf[p]
  BY <1>1 DEF PutStep, TGInv, TGTypeOK
<1>3. /\ t \notin {u \in Tasks : call[u] = "sent"}
      /\ {u \in Tasks : call'[u] = "sent"} = {u \in Tasks : call[u] = "sent"} \cup {t}
  BY DEF PutStep, TGInv, TGTypeOK
<1>4. Buffered' = Buffered \cup {t}
  <2>1. ASSUME NEW v
        PROVE  (\E i \in DOMAIN buf'[Pipe(t)] : buf'[Pipe(t)][i] = v)
                 <=> (\E i \in DOMAIN q : q[i] = v) \/ v = t
    <3> HIDE DEF q
    <3> QED
      BY <1>1, <1>2, PositionsPut
  <2>2. ASSUME NEW v
        PROVE  v \in Buffered' <=> v \in Buffered \/ v = t
    <3>1. v \in Buffered' <=> \E p \in Pipes : \E i \in DOMAIN buf'[p] : buf'[p][i] = v
      BY DEF Buffered
    <3>2. (\E p \in Pipes : \E i \in DOMAIN buf'[p] : buf'[p][i] = v)
            <=> \/ \E i \in DOMAIN buf'[Pipe(t)] : buf'[Pipe(t)][i] = v
                \/ \E p \in Pipes : p # Pipe(t) /\ \E i \in DOMAIN buf[p] : buf[p][i] = v
      BY <1>1, <1>2
    <3>3. v \in Buffered
            <=> \/ \E i \in DOMAIN q : q[i] = v
                \/ \E p \in Pipes : p # Pipe(t) /\ \E i \in DOMAIN buf[p] : buf[p][i] = v
      BY <1>1, BufferedIn
    <3>4. QED
      BY <2>1, <3>1, <3>2, <3>3
  <2>3. QED
    BY <2>2
<1>5. ASSUME NEW u \in Tasks, u # t
      PROVE  Ahead(u)' = Ahead(u)
  <2>1. CASE Pipe(u) = Pipe(t)
    <3>1. ASSUME NEW v \in Tasks
          PROVE  (\E j \in DOMAIN buf'[Pipe(t)] :
                     /\ buf'[Pipe(t)][j] = u
                     /\ \E i \in 1 .. j - 1 : buf'[Pipe(t)][i] = v)
                 <=> (\E j \in DOMAIN q : q[j] = u /\ \E i \in 1 .. j - 1 : q[i] = v)
      <4> HIDE DEF q
      <4> QED
        BY <1>1, <1>2, <1>5, PositionsPut
    <3>2. QED
      BY <2>1, <3>1 DEF Ahead
  <2>2. CASE Pipe(u) # Pipe(t)
    BY <1>2, <2>2, PipeIsPipe DEF Ahead
  <2>3. QED
    BY <2>1, <2>2
<1>6. Ahead(t)' = {u \in Buffered : Shard[u] = Shard[t]}
  <2>1. ASSUME NEW u \in Tasks
        PROVE  (\E j \in DOMAIN buf'[Pipe(t)] :
                   /\ buf'[Pipe(t)][j] = t
                   /\ \E i \in 1 .. j - 1 : buf'[Pipe(t)][i] = u)
               <=> \E i \in 1 .. Len(q) : q[i] = u
    <3> HIDE DEF q
    <3> QED
      BY <1>1, <1>2, PositionsPut
  <2>2. \A u \in Tasks : Shard[u] = Shard[t] => Pipe(u) = Pipe(t)
    BY DEF Pipe
  <2>3. Buffered \subseteq Tasks
    BY DEF Buffered, TGInv, TGTypeOK
  <2>4. QED
    BY <2>1, <2>2, <2>3, BufferedAt DEF Ahead
<1>7. \A k : Running(k)' = Running(k)
  BY DEF Running, PutStep
<1>8. [u \in Tasks |-> Ahead(u)'] =
        [[u \in Tasks |-> Ahead(u)] EXCEPT ![t] = {u \in Buffered : Shard[u] = Shard[t]}]
  BY <1>5, <1>6
<1>9. QED
  BY <1>3, <1>4, <1>7, <1>8 DEF ByKey!Accept

LEMMA TakeRefines ==
  ASSUME TGInv, Placed, NEW p \in Pipes, Take(p)
  PROVE  ByKey!Start(Head(buf[p]))
<1> DEFINE q == buf[p]
<1>1. /\ q \in Seq(Tasks) /\ q # << >>
      /\ \A i \in 1 .. Len(q) : Pipe(q[i]) = p
      /\ \A i, j \in 1 .. Len(q) : q[i] = q[j] => i = j
      /\ \A r \in Pipes : DOMAIN buf[r] = 1 .. Len(buf[r])
  BY DEF Placed, TGInv, TGTypeOK, Take
<1>0. PICK t \in Tasks : t = q[1]
  BY <1>1, PositionsTake
<1>2. /\ buf'[p] = Tail(q) /\ \A r \in Pipes : r # p => buf'[r] = buf[r]
      /\ cur'[p] = t /\ \A r \in Pipes : r # p => cur'[r] = cur[r]
      /\ call' = call
      /\ t \in Tasks /\ t = Head(q) /\ Pipe(t) = p
      /\ cur[p] = None
  BY <1>0, <1>1, PositionsTake DEF Take, Oldest, sendVars, TGInv, TGTypeOK, LeftIsDrained
<1>3. t \in Buffered
  <2>1. 1 \in DOMAIN q
    BY <1>1, PositionsTake
  <2>2. QED
    BY <1>0, <2>1 DEF Buffered
<1>4. Ahead(t) = {}
  <2>1. \A j \in DOMAIN q : q[j] = t => j = 1
    BY <1>0, <1>1, PositionsTake
  <2>2. QED
    BY <1>2, <2>1 DEF Ahead
<1>5. Buffered' = Buffered \ {t}
  <2>1. ASSUME NEW r \in Pipes, r # p, NEW i \in DOMAIN buf[r]
        PROVE  buf[r][i] # t
    BY <1>0, <1>1, <1>2, <2>1 DEF Placed
  <2>2. ASSUME NEW v
        PROVE  (\E i \in DOMAIN buf'[p] : buf'[p][i] = v)
                 <=> (\E i \in DOMAIN q : q[i] = v) /\ v # t
    <3> HIDE DEF q
    <3>1. /\ Len(q) \in Nat \ {0} /\ DOMAIN q = 1 .. Len(q)
          /\ DOMAIN buf'[p] = 1 .. Len(q) - 1
          /\ \A i \in 1 .. Len(q) - 1 : buf'[p][i] = q[i + 1]
      BY <1>1, <1>2, PositionsTake
    <3>2. ASSUME NEW i \in 1 .. Len(q) - 1
          PROVE  i + 1 \in 1 .. Len(q) /\ q[i + 1] # t
      BY <1>0, <1>1, <3>1
    <3>3. ASSUME NEW i \in 1 .. Len(q), q[i] # t
          PROVE  i - 1 \in 1 .. Len(q) - 1 /\ buf'[p][i - 1] = q[i]
      BY <1>0, <3>1, <3>3
    <3>4. QED
      BY <3>1, <3>2, <3>3
  <2>3. ASSUME NEW v
        PROVE  v \in Buffered' <=> v \in Buffered /\ v # t
    <3>1. v \in Buffered' <=> \E r \in Pipes : \E i \in DOMAIN buf'[r] : buf'[r][i] = v
      BY DEF Buffered
    <3>2. (\E r \in Pipes : \E i \in DOMAIN buf'[r] : buf'[r][i] = v)
            <=> \/ \E i \in DOMAIN buf'[p] : buf'[p][i] = v
                \/ \E r \in Pipes : r # p /\ \E i \in DOMAIN buf[r] : buf[r][i] = v
      BY <1>2
    <3>3. v \in Buffered
            <=> \/ \E i \in DOMAIN q : q[i] = v
                \/ \E r \in Pipes : r # p /\ \E i \in DOMAIN buf[r] : buf[r][i] = v
      BY BufferedIn
    <3>4. QED
      BY <2>1, <2>2, <3>1, <3>2, <3>3
  <2>4. QED
    BY <2>3
<1>6. ASSUME NEW u \in Tasks
      PROVE  Ahead(u)' = Ahead(u) \ {t}
  <2>1. CASE Pipe(u) = p
    <3>1. ASSUME NEW v \in Tasks
          PROVE  (\E j \in DOMAIN buf'[p] :
                     buf'[p][j] = u /\ \E i \in 1 .. j - 1 : buf'[p][i] = v)
                 <=> /\ \E j \in DOMAIN q : q[j] = u /\ \E i \in 1 .. j - 1 : q[i] = v
                     /\ v # t
      <4> HIDE DEF q
      <4>1. Len(q) \in Nat \ {0} /\ DOMAIN q = 1 .. Len(q) /\ DOMAIN buf'[p] = 1 .. Len(q) - 1
            /\ \A i \in 1 .. Len(q) - 1 : buf'[p][i] = q[i + 1]
        BY <1>1, <1>2, PositionsTake
      <4>2. ASSUME NEW j \in 1 .. Len(q) - 1, NEW i \in 1 .. j - 1,
                   buf'[p][j] = u, buf'[p][i] = v
            PROVE  /\ j + 1 \in 1 .. Len(q) /\ q[j + 1] = u
                   /\ i + 1 \in 1 .. (j + 1) - 1 /\ q[i + 1] = v /\ q[i + 1] # q[1]
        BY <1>1, <4>1, <4>2
      <4>3. ASSUME NEW j \in 1 .. Len(q), NEW i \in 1 .. j - 1,
                   q[j] = u, q[i] = v, v # q[1]
            PROVE  /\ j - 1 \in 1 .. Len(q) - 1 /\ buf'[p][j - 1] = u
                   /\ i - 1 \in 1 .. (j - 1) - 1 /\ buf'[p][i - 1] = v
        <5>1. i # 1 /\ i \in 2 .. j - 1 /\ j \in 3 .. Len(q)
          BY <4>1, <4>3
        <5>2. QED
          BY <4>1, <4>3, <5>1
      <4>4. ASSUME NEW j \in DOMAIN buf'[p], buf'[p][j] = u,
                   NEW i \in 1 .. j - 1, buf'[p][i] = v
            PROVE  (\E k \in DOMAIN q : q[k] = u /\ \E h \in 1 .. k - 1 : q[h] = v) /\ v # t
        BY <1>0, <4>1, <4>2, <4>4
      <4>5. ASSUME NEW j \in DOMAIN q, q[j] = u, NEW i \in 1 .. j - 1, q[i] = v, v # t
            PROVE  \E k \in DOMAIN buf'[p] :
                      buf'[p][k] = u /\ \E h \in 1 .. k - 1 : buf'[p][h] = v
        BY <1>0, <4>1, <4>3, <4>5
      <4>6. QED
        BY <4>4, <4>5
    <3>2. QED
      BY <2>1, <3>1 DEF Ahead
  <2>2. CASE Pipe(u) # p
    <3>1. Ahead(u)' = Ahead(u)
      BY <1>2, <2>2, PipeIsPipe DEF Ahead
    <3>2. t \notin Ahead(u)
      BY <1>2, <2>2 DEF Ahead, Pipe
    <3>3. QED
      BY <3>1, <3>2
  <2>3. QED
    BY <2>1, <2>2
<1>7. Running(Shard[t]) = None
  BY <1>2, TaskGroupAssumption DEF Running, Pipe
<1>8. [k \in Keys |-> Running(k)'] = [[k \in Keys |-> Running(k)] EXCEPT ![Shard[t]] = t]
  <2>1. Running(Shard[t])' = t
    BY <1>2 DEF Running, Pipe
  <2>2. ASSUME NEW k \in Keys, k # Shard[t]
        PROVE  Running(k)' = Running(k)
    <3>1. PICK u \in Tasks : k = Shard[u]
      BY DEF Keys
    <3>2. PipeOf(k) \in Pipes
      BY <3>1, PipeIsPipe DEF Pipe
    <3>3. CASE PipeOf(k) = p
      BY <1>2, <2>2, <3>3, TaskGroupAssumption DEF Running
    <3>4. CASE PipeOf(k) # p
      BY <1>2, <3>2, <3>4 DEF Running
    <3>5. QED
      BY <3>3, <3>4
  <2>3. QED
    BY <2>1, <2>2
<1>9. Shard[t] \in Keys
  BY <1>2 DEF Keys
<1>10. [u \in Tasks |-> Ahead(u)'] = [u \in Tasks |-> [v \in Tasks |-> Ahead(v)][u] \ {t}]
  BY <1>6
<1>11. ByKey!Start(t)
  BY <1>2, <1>3, <1>4, <1>5, <1>7, <1>8, <1>9, <1>10 DEF ByKey!Start
<1>12. QED
  BY <1>2, <1>11

LEMMA FinishRefines ==
  ASSUME TGInv, Placed, NEW p \in Pipes, Finish(p)
  PROVE  ByKey!Finish(Shard[cur[p]])
<1>0. PICK t \in Tasks : t = cur[p]
  BY DEF Finish, Placed
<1>1. /\ t \in Tasks /\ Pipe(t) = p /\ cur'[p] = None
      /\ \A r \in Pipes : r # p => cur'[r] = cur[r]
      /\ call' = call /\ buf' = buf
  BY <1>0 DEF Finish, Placed, sendVars, TGInv, TGTypeOK
<1>2. Running(Shard[t]) = t /\ Running(Shard[t])' = None /\ Shard[t] \in Keys /\ t # None
  BY <1>0, <1>1, TaskGroupAssumption DEF Running, Pipe, Keys
<1>3. ASSUME NEW k \in Keys, k # Shard[t]
      PROVE  Running(k)' = Running(k)
  <2>1. PICK u \in Tasks : k = Shard[u]
    BY DEF Keys
  <2>2. PipeOf(k) \in Pipes
    BY <2>1, PipeIsPipe DEF Pipe
  <2>3. QED
    BY <1>0, <1>1, <1>3, <2>2, TaskGroupAssumption DEF Running
<1>4. Buffered' = Buffered /\ \A u : Ahead(u)' = Ahead(u)
  BY <1>1 DEF Buffered, Ahead
<1>5. [k \in Keys |-> Running(k)'] = [[k \in Keys |-> Running(k)] EXCEPT ![Shard[t]] = None]
  BY <1>2, <1>3
<1>6. ByKey!Finish(Shard[t])
  BY <1>1, <1>2, <1>4, <1>5 DEF ByKey!Finish
<1>7. QED
  BY <1>0, <1>6

LEMMA QuietRefines ==
  ASSUME TGInv, QuietStep \/ \E t \in Tasks : CallStep(t)
  PROVE  UNCHANGED ByKey!keyedVars
<1>1. UNCHANGED <<buf, cur>> /\ {t \in Tasks : call'[t] = "sent"} = {t \in Tasks : call[t] = "sent"}
  BY DEF QuietStep, CallStep, TGInv, TGTypeOK
<1>2. Buffered' = Buffered /\ (\A u : Ahead(u)' = Ahead(u)) /\ \A k : Running(k)' = Running(k)
  BY <1>1 DEF Buffered, Ahead, Running
<1>3. QED
  BY <1>1, <1>2 DEF ByKey!keyedVars

\* The pool serves each user's tasks as KeyedTasks says, whatever users share a
\* channel, however senders, workers and Stop interleave (lines 27-96).
THEOREM PoolServesEachKey == Spec => ServesEachKeyInOrder
<1>1. ASSUME TGInv, TGInv', Placed, Placed', [Next]_vars
      PROVE  [ByKey!Next]_(ByKey!keyedVars)
  <2>1. ASSUME NEW t \in Tasks, PutStep(t)
        PROVE  ByKey!Next
    BY <1>1, <2>1, PutRefines DEF ByKey!Next
  <2>2. ASSUME NEW p \in Pipes, Take(p)
        PROVE  ByKey!Next
    <3>1. Head(buf[p]) \in Tasks
      BY <1>1, <2>2, PositionsTake DEF Take, TGInv, TGTypeOK
    <3>2. QED
      BY <1>1, <2>2, <3>1, TakeRefines DEF ByKey!Next
  <2>3. ASSUME NEW p \in Pipes, Finish(p)
        PROVE  ByKey!Next
    <3>1. Shard[cur[p]] \in Keys
      BY <1>1, <2>3 DEF Finish, Placed, Keys
    <3>2. QED
      BY <1>1, <2>3, <3>1, FinishRefines DEF ByKey!Next
  <2>4. QED
    BY <1>1, <2>1, <2>2, <2>3, QuietRefines, StepKinds
<1>2. QED
  BY InitRefines, <1>1, TGInvariant, PlacedInvariant, PTL
     DEF Spec, ServesEachKeyInOrder, ByKey!Spec
=============================================================================
