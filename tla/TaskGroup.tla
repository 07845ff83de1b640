----------------------------- MODULE TaskGroup -----------------------------
(***************************************************************************)
(* The pool of service/taskgroup: a fixed number of worker goroutines, a   *)
(* buffered channel for each, a task sent to the channel its sharding      *)
(* number selects.  The service sends to it each message for a user, with  *)
(* the uid as the number.  Stop closes the pool down; nothing keeps a      *)
(* SendTask from running while Stop does.                                  *)
(*                                                                         *)
(* Each task is sent by one call, and a call is a process: what handlers   *)
(* and timer do before and after it does not matter to the pool.           *)
(***************************************************************************)
EXTENDS Naturals, Sequences

CONSTANTS
  Tasks,
  Shard,     \* Shard[t]: the sharding number t is sent with
  Pipeline,  \* number of channels and workers
  Cap,       \* tasks a channel buffers
  Stoppers,  \* the calls of Stop
  None

ASSUME TaskGroupAssumption ==
  /\ Pipeline \in Nat \ {0} /\ Cap \in Nat \ {0}
  /\ Shard \in [Tasks -> Nat]
  /\ None \notin Tasks

VARIABLES
  slot,    \* processChan[p]: "chan", or "nil" once its worker has left
  buf,     \* what the channel of p buffers
  closed,  \* closed[p]: the channel of p is closed
  exit,    \* the exit channel is closed
  call,    \* the call that sends t: new, read, checked, then how it ended
  handle,  \* the channel that call has read from processChan, "nil" before
  worker,  \* the worker of p: start, idle, running, left, gone
  cur,     \* the task it runs, or None
  stop,    \* each call of Stop: new, checked, closing, waiting, then the end
  next     \* the channel the loop of Stop closes next

sendVars == <<call, handle>>
workVars == <<slot, worker, cur>>
stopVars == <<exit, closed, stop, next>>
vars == <<buf, sendVars, workVars, stopVars>>

Pipes == 0 .. Pipeline - 1
PipeOf(n) == n % Pipeline
Pipe(t) == PipeOf(Shard[t])

Init ==
  /\ slot = [p \in Pipes |-> "chan"]
  /\ buf = [p \in Pipes |-> << >>]
  /\ closed = [p \in Pipes |-> FALSE]
  /\ exit = FALSE
  /\ call = [t \in Tasks |-> "new"]
  /\ handle = [t \in Tasks |-> "nil"]
  /\ worker = [p \in Pipes |-> "start"]
  /\ cur = [p \in Pipes |-> None]
  /\ stop = [s \in Stoppers |-> "new"]
  /\ next = 0
-----------------------------------------------------------------------------
(* SendTask and SendStripTask.                                             *)

EndCall(t, how) == call' = [call EXCEPT ![t] = how]

Unbounded(p) == TRUE
Room(p) == Len(buf[p]) < Cap

\* Either call begins by reading the channel from processChan.
ReadChannel(t) ==
  /\ call[t] = "new"
  /\ handle' = [handle EXCEPT ![t] = slot[Pipe(t)]]
  /\ call' = [call EXCEPT ![t] = "read"]
  /\ UNCHANGED <<buf, workVars, stopVars>>

\* SendTask looks at exit ...
CheckExit(t) ==
  /\ call[t] = "read"
  /\ EndCall(t, IF exit THEN "stopped" ELSE "checked")
  /\ UNCHANGED <<buf, handle, workVars, stopVars>>

\* ... and then sends: it waits for room, for ever on a nil channel, and
\* panics on a closed one.
CanPut(t) == handle[t] = "chan" /\ ~closed[Pipe(t)] /\ Room(Pipe(t))
CanPanic(t) == handle[t] = "chan" /\ closed[Pipe(t)]

Put(t) ==
  /\ CanPut(t)
  /\ buf' = [buf EXCEPT ![Pipe(t)] = Append(@, t)]
  /\ EndCall(t, "sent")

PutPanics(t) == CanPanic(t) /\ EndCall(t, "panicked") /\ UNCHANGED buf

Send(t) ==
  /\ call[t] = "checked"
  /\ Put(t) \/ PutPanics(t)
  /\ UNCHANGED <<handle, workVars, stopVars>>

\* The select of SendStripTask takes any case that is ready, else default.
TrySend(t) ==
  /\ call[t] = "read"
  /\ \/ Put(t) \/ PutPanics(t)
     \/ exit /\ EndCall(t, "stopped") /\ UNCHANGED buf
     \/ ~exit /\ ~CanPut(t) /\ ~CanPanic(t) /\ EndCall(t, "full") /\ UNCHANGED buf
  /\ UNCHANGED <<handle, workVars, stopVars>>
-----------------------------------------------------------------------------
(* The worker of channel p.                                                *)

Goto(p, where) == worker' = [worker EXCEPT ![p] = where]

Newest(p) == buf[p][Len(buf[p])]
Oldest(p) == Head(buf[p])

NotDrained(p) == TRUE
Drained(p) == buf[p] = << >>

\* The goroutine gets to run and counts itself into the WaitGroup.
BeginWorker(p) ==
  /\ worker[p] = "start"
  /\ Goto(p, "idle")
  /\ UNCHANGED <<slot, cur, buf, sendVars, stopVars>>

Take(p) ==
  /\ worker[p] = "idle" /\ buf[p] # << >>
  /\ cur' = [cur EXCEPT ![p] = Oldest(p)]
  /\ buf' = [buf EXCEPT ![p] = Tail(@)]
  /\ Goto(p, "running")
  /\ UNCHANGED <<slot, sendVars, stopVars>>

\* The task returns, or panics and is recovered from: either way it is over.
Finish(p) ==
  /\ worker[p] = "running"
  /\ cur' = [cur EXCEPT ![p] = None]
  /\ Goto(p, "idle")
  /\ UNCHANGED <<slot, buf, sendVars, stopVars>>

\* The channel is closed and empty: the deferred calls clear the slot ...
Leave(p) ==
  /\ worker[p] = "idle" /\ closed[p] /\ Drained(p)
  /\ slot' = [slot EXCEPT ![p] = "nil"]
  /\ Goto(p, "left")
  /\ UNCHANGED <<cur, buf, sendVars, stopVars>>

\* ... and then tell the WaitGroup.
Done(p) ==
  /\ worker[p] = "left"
  /\ Goto(p, "gone")
  /\ UNCHANGED <<slot, cur, buf, sendVars, stopVars>>

NeverDone == {p \in Pipes : worker[p] # "start"}

\* The counter of the WaitGroup is the number of these.
Counted == {p \in Pipes : worker[p] \in {"idle", "running", "left"}}
-----------------------------------------------------------------------------
(* Stop.                                                                   *)

EndStop(s, how) == stop' = [stop EXCEPT ![s] = how]

ExitLeftOpen == exit
ExitClosed == TRUE

CheckStopped(s) ==
  /\ stop[s] = "new"
  /\ EndStop(s, IF exit THEN "returned" ELSE "checked")
  /\ UNCHANGED <<exit, closed, next, buf, sendVars, workVars>>

\* Closing exit a second time panics.
CloseExit(s) ==
  /\ stop[s] = "checked" /\ ~exit
  /\ exit' = ExitClosed
  /\ EndStop(s, "closing")
  /\ UNCHANGED <<closed, next, buf, sendVars, workVars>>

CloseExitPanics(s) ==
  /\ stop[s] = "checked" /\ exit
  /\ EndStop(s, "panicked")
  /\ UNCHANGED <<exit, closed, next, buf, sendVars, workVars>>

\* One round of the loop over processChan.
CloseChannel(s) ==
  /\ stop[s] = "closing"
  /\ closed' = [closed EXCEPT ![next] = TRUE]
  /\ next' = next + 1
  /\ EndStop(s, IF next + 1 = Pipeline THEN "waiting" ELSE "closing")
  /\ UNCHANGED <<exit, buf, sendVars, workVars>>

Waited(s) ==
  /\ stop[s] = "waiting" /\ Counted = {}
  /\ EndStop(s, "returned")
  /\ UNCHANGED <<exit, closed, next, buf, sendVars, workVars>>
-----------------------------------------------------------------------------
Work(p) == BeginWorker(p) \/ Take(p) \/ Finish(p) \/ Leave(p) \/ Done(p)

Stop(s) == CheckStopped(s) \/ CloseExit(s) \/ CloseExitPanics(s)
             \/ CloseChannel(s) \/ Waited(s)

Next ==
  \/ \E t \in Tasks : ReadChannel(t) \/ CheckExit(t) \/ Send(t) \/ TrySend(t)
  \/ \E p \in Pipes : Work(p)
  \/ \E s \in Stoppers : Stop(s)

Spec == Init /\ [][Next]_vars

\* Goroutines that can run do run, and tasks end.  A sender that waits is
\* woken as room appears: the waiting senders of a Go channel are a queue.
Fair ==
  /\ Spec
  /\ \A t \in Tasks : WF_vars(Send(t))
  /\ \A p \in Pipes : WF_vars(Work(p))
  /\ \A s \in Stoppers : WF_vars(CloseChannel(s) \/ Waited(s))
-----------------------------------------------------------------------------
(* Properties.                                                             *)

\* Type invariant.
TGTypeOK ==
  /\ slot \in [Pipes -> {"chan", "nil"}]
  /\ buf \in [Pipes -> Seq(Tasks)]
  /\ closed \in [Pipes -> BOOLEAN]
  /\ exit \in BOOLEAN
  /\ call \in [Tasks -> {"new", "read", "checked", "sent", "stopped", "full", "panicked"}]
  /\ handle \in [Tasks -> {"chan", "nil"}]
  /\ worker \in [Pipes -> {"start", "idle", "running", "left", "gone"}]
  /\ cur \in [Pipes -> Tasks \cup {None}]
  /\ stop \in [Stoppers -> {"new", "checked", "closing", "waiting", "returned", "panicked"}]
  /\ next \in 0 .. Pipeline
  /\ \A p \in Pipes : Len(buf[p]) <= Cap

\* A SendTask that has seen exit open never holds the nil that a worker leaves
\* in processChan (taskgroup.go lines 29-34 against 65 and 91-94): a send on
\* it would block its caller, a handler or the timer, for ever.
NeverStuckOnNil == \A t \in Tasks : call[t] = "checked" => handle[t] = "chan"

\* A worker leaves nothing behind: whatever its channel had taken, before or
\* during Stop, has run when it goes (lines 67-71 against 34 and 93).
NothingLeftBehind ==
  \A p \in Pipes : worker[p] \in {"left", "gone"} => buf[p] = << >> /\ cur[p] = None

\* No call waits for ever: a SendTask past its check ends, and so does a Stop
\* that has begun to close, whatever the tasks do (a panic is recovered from,
\* lines 72-79).
CallsEnd ==
  /\ \A t \in Tasks : call[t] = "checked" ~> call[t] \in {"sent", "panicked"}
  /\ \A s \in Stoppers : stop[s] = "closing" ~> stop[s] = "returned"

\* Seen by the users whose uid the tasks are sent with, the pool is a set of
\* queues, one per uid: the tasks of one user run in order, one at a time and
\* once, though users share channels (lines 28, 34 and 68).
Keys == {Shard[t] : t \in Tasks}
Buffered == UNION {{buf[p][i] : i \in DOMAIN buf[p]} : p \in Pipes}
Ahead(t) == {u \in Tasks : /\ Shard[u] = Shard[t]
                           /\ \E j \in DOMAIN buf[Pipe(t)] :
                                /\ buf[Pipe(t)][j] = t
                                /\ \E i \in 1 .. j - 1 : buf[Pipe(t)][i] = u}
Running(k) == LET t == cur[PipeOf(k)]
              IN  IF t \in Tasks /\ Shard[t] = k THEN t ELSE None

ByKey == INSTANCE KeyedTasks WITH
           taken <- {t \in Tasks : call[t] = "sent"},
           waiting <- Buffered,
           ahead <- [t \in Tasks |-> Ahead(t)],
           running <- [k \in Keys |-> Running(k)]

ServesEachKeyInOrder == ByKey!Spec

\* Each task a channel took does run, and ends, also when Stop comes in
\* between: the worker drains what the closed channel holds (lines 67-79).
EachTaskRuns == ByKey!EachRuns

=============================================================================
