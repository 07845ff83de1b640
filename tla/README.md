# Verification of the terminal chat service

TLA+ models of the chat service in `src/service` and of its client in
`src/client`, the TLC configurations that check them on small instances, and
theorems about them that TLAPS proves for every instance.

## 1. The system

The service is a TCP server on the `ccat` framework: packets of a connection
are handled one at a time by the handlers of `service/process`, all connections
run concurrently, and everything the handlers share is in memory, in `sync.Map`s
without a lock that would span two accesses. Only accounts are on disk
(leveldb). Users talk to it through a client daemon on their machine
(`src/client`), which the command line (`src/client/command`) reaches over HTTP.

| component | state | operations | touches |
|---|---|---|---|
| session registry (`handler.go` 15-26, 36, 39-52, 172-228) | `GUserSession` uid -> session; `Self` of each connection | `HandleLoginRQ`; the 30-second timer, which takes the sessions of dead connections away | everybody reads it to route messages |
| discussion groups (`handler.go` 28-37, 77-114, 283-323, 420-612; `send.go`) | `GGroupMap` id -> group with `Members`; `ownJoinGroup` of each session | create, join, quit, group message, cancel all, list members; the timer takes dead users out and disbands groups nobody online is in | registry, id pool, task pool |
| subscriptions (`handler.go` 20-22, 53-75, 325-449) | `subscribe` and `ownSubscribe` of each session | subscribe, unsubscribe, cancel all; the timer takes the subscriptions of dead sessions back | registry, task pool |
| id pools (`util.go` 42-123) | `genUidMap`, `genGroupMap` | `GenUID`, `GenGroup`; the timer frees group ids | registration, groups |
| registration and account store (`handler.go` 137-170, `util.go` 22-40, 86-151) | leveldb `e:u:<uid>` and `user:info:<uid>` | `HandleRegisterRQ`, `OnInitUtil` at start-up | id pool; login reads it |
| task pool (`taskgroup.go`) | channels, workers, `exit` | `SendTask`, `SendStripTask`, the workers, `Stop` | carries each message to its receiver |
| personal and world messages (`handler.go` 230-281, 683-739) | `LastSendWorldMsgTime`, `IsSubscribeWorld` | send to a user, send to everybody | registry, subscriptions, task pool |
| queries (`handler.go` 562-612, 614-681) | none | members of a group, relations of a user | read only |
| client daemon (`client/*.go`) | connection, login state, lists of friends, followers and groups | HTTP commands, the one-minute ticker, notifications from the service, reconnect | service |
| command line (`client/command`) | none | checks its arguments and sends one HTTP request | client daemon |
| start-up and routes, wire format (`service/main.go`, `init.go`, `route.go`, `pb`, `pack`) | none | which answer belongs to which request | |

### What is hard about it

* *Check, then act.* Every handler reads a shared map, decides, and writes
  later. Two logins pass the same check; the timer deletes by key what it looked
  at before; a group is judged empty and then deleted.
* *Two records of one fact.* A subscription is in two sessions, a membership in
  the group and in the session. They are written one after the other, by a
  worker, and undone by the timer, by another worker or not at all.
* *Objects that outlive their entry.* A handler keeps the session or group it
  has loaded while another takes its place under the same key.
* *Broadcasts over a changing map*, with `sync.Map.Range`.
* *Crashes and failed writes* between the two records of an account.
* *Bounds*: growing id ranges, full channels, `Stop` against senders.
* *Messages that wait.* A handler loads the session of the receiver and leaves
  a task with the pool; by the time it runs the session may be gone and its
  connection somebody else's.
* *A client without a lock.* HTTP requests, the ticker and notifications change
  the login state and the lists at once; answers come late or never, and each
  query empties the lists before it fills them.

`PROJECT.json` lists these hazards one by one, each at its line.

## 2. The modules

| module | models | extends |
|---|---|---|
| `Presence` | abstract: what the registry promises when accounts are not shared | |
| `Sessions` | registry, login, connections, the timer's walk over the sessions | instance of `Presence` |
| `Groups` | requests about groups, the broadcast, the timer's part | `Sessions` |
| `Subscriptions` | requests about subscriptions, the timer's part | `Sessions` |
| `IdPool` | the loop `GenUID` and `GenGroup` share | |
| `Accounts` | abstract: what registration promises | |
| `Registration` | registering, failing writes, crash and restart | `IdPool`, instance of `Accounts` |
| `KeyedTasks` | abstract: what the task pool promises, a queue per user | |
| `TaskGroup` | the task pool | instance of `KeyedTasks` |
| `Messages` | personal, world and group messages, from the request to the connection they are sent on | `Sessions` |
| `CommandLine` | operators: what the command line accepts and the headers it sends | |
| `HttpApi` | operators: the packet the daemon builds from the headers; packet types and routes | `CommandLine` |
| `Daemon` | the client daemon, its connection, and the service as that connection sees it | `HttpApi` |
| `MCSessions`, `MCGroups`, `MCSubscriptions`, `MCRegistration`, `MCTaskGroup`, `MCMessages`, `MCDaemon` | values of the constants, bounds, symmetry | |
| `SessionsProofs`, `GroupsProofs`, `SubscriptionsProofs`, `IdPoolProofs`, `RegistrationProofs`, `TaskGroupProofs`, `MessagesProofs`, `DaemonProofs` | the theorems | |

How state and actions correspond to the code, line by line, is the `map` of
`PROJECT.json`. In short:

* **Sessions.** A `*UserSession` is a record of its immutable fields with an
  identity `id`. `HandleLoginRQ` is the steps `PassOnline`/`RefuseOnline` (the
  `Load`), `RejectLogin` or `StoreSession` (account check and `Store`) and
  `BindSession` (`Delete` of the previous user, `SetProperty`). The timer is
  `Tick`, then `SkipSession`/`FindDead`, `DeleteSession` and `CleanRelations`
  for each key `Range` visits, then `EndRange` and `SweepGroups`. `go.mod` says
  Go 1.17, whose `Range` walks over a snapshot of the keys and reads each entry
  as it comes to it. From the framework the model takes: a context per
  connection, packets of one connection handled in order by one worker,
  packets queued before a connection died still handled. Names of connections
  and identities of sessions are reused when nothing knows them any more, so
  runs of any length fit into a finite instance. `OnlineWith` maps the registry
  to `Presence`: a user is online from the `BindSession` of his login to the
  deletion of his entry; the entry `StoreSession` writes before that does not
  count yet.
* **Groups.** `job[c]` is the local state of the handler that runs for
  connection `c`. `History` goes with each step and keeps the variables only
  properties read: `Track` keeps `stable` for `BroadcastReaches`, `TrackScan`
  keeps in `stayed` the members who have been online and in the group since the
  timer began to look at it, for `ScanSeesWhoStays`. `Load` of the group and `Delete` from its `Members`
  are one step in `CancelGroup` and `LeaveGroup`, and so are looking up a
  member's session and handing the task to the pool in `Visit`.
* **Subscriptions.** `LoadPeer`, `UpdatePeer` and `UpdateOwn` are the three
  accesses of one round of the loop of `HandleSubscribePersonalRQ`; cancel all
  does the first two. `by` is history: which session wrote an entry.
* **IdPool.** `Wrap` is the arithmetic of an int64, `Share` the truncating 75 %.
* **Registration.** A `Put` that fails may have written or not. `Crash` loses
  memory, `Restart` is `OnInitUtil`. `Book` maps it to `Accounts`: the owner of
  an account is whose record is on disk, and the clients that were told are
  `Told`.
* **TaskGroup.** `handle[t]` is the channel a call has read from `processChan`
  before it looks at `exit`; `Stop` closes `exit` and then channel by channel.
  `ByKey` maps it to `KeyedTasks`: what waits are the tasks in the buffers, what
  is ahead of a task are the tasks of its user nearer to the worker.
* **Messages.** `job[c]` is the request the worker of connection `c` is at: the
  peer it has come to, the session it has loaded for him (`LoadPeer`,
  `LoadMember`, apart from the step that looks at the session and leaves the
  task), and whom `Range` has yet to visit. The fan-outs of `send.go` and of
  `HandleSendWorldMsgRQ` are one set of actions; `Receives` has what tells them
  apart. The pool is what `KeyedTasks` promises and `TaskGroup` is shown to
  keep: the tasks of a key in order. A task holds the connection, and fails if
  that is dead when it runs. `been`, `number`, `last` and `stable` are history.
  Which group a user is in, and that a subscription is two records, is left to
  `Groups` and `Subscriptions`: a group message goes to any of the sets in
  `Memberships`, `ownSubscribe` changes in one step. A task may wait for its
  turn while the worker of its receiver is busy, but never for ever.
* **CommandLine and HttpApi.** `check`, `deal` (`Calls`) and `SendCommand` as
  functions of the line; each case of `ServeHTTP` up to `NetSend` as a function
  of the headers, a set with the packet or the empty set when the request is
  refused. Texts are empty, usual or too long; the list `-ps` is a set in which
  `Junk` stands for what is no number.
* **Daemon.** `pc[t]`, `packet[t]` and `answer[t]` are the local state of the
  goroutine of an HTTP request or of the ticker: `ToSend` marshals the packet
  (with the `Own` of that moment), `Send` gives it to the connection, the
  service serves the requests of a connection in order (`Serve...`), and the
  `Finish...` actions are what comes after `NetSend`. `ClearLists` and
  `StoreLists` are the two halves of `QuerySelfRelation`, between which anything
  may happen. `TimeOut` and `TooLate` are the 3 seconds of `NetSend`; an answer
  nobody waits for is dropped, as is everything on a connection that is lost
  (`Drop`) or reset (`Reset`, `Dial`). The service is here as one connection
  sees it; that accounts, groups and peers be as a request needs them is left
  to chance, since the other modules have it.

## 3. The runs

Passing:

| run | question | instance and why it is enough |
|---|---|---|
| `groups_cast` | Does a broadcast miss anybody? Does the timer take a group for empty though a member stayed? | Two users with a device each, two group objects under one id (all `GenGroup` can return), all group requests; clients act at most `Budget` = 9 times, enough for two logins, create, join, two broadcasts, a quit or a death and a new login. That groups leave the registry alone holds by the way the actions are built from those of `Sessions`; it is a theorem and not a run. |
| `groups_live` | Is a dead user released and an abandoned group disbanded, and nobody live logged out? Does the registry implement `Presence`? | One connection used by two users in turn, who create, join and quit one group, without any bound on what the clients do. |
| `subs_follow` | Is what the registry says of a connection true of it? Does a connected client that is shown as a follower follow? | Two connections with the same two accounts, four session identities, 8 client acts: two connections and logins, subscribe, a death, a new connection and a new login of the one who was reaped; or unsubscribe, cancel and further logins instead; overlapping logins of one account, logins as the other user on the same connection, names reused after a death, the timer anywhere in between. |
| `registration` | Are promises kept and records final, does registration implement `Accounts`, and does every draw find an id? | Five registrations, two ids in the first range, one widening before the limit (Lo = 1, Hi = 2, radix 4, largest integer 8), any number of failing writes and crashes. |
| `taskgroup` | Is the pool a queue per user, and does every call end? | Two channels of capacity 2, three tasks of two users who share one of them, so that a sender has to wait; two calls of `Stop`, so that one finds `exit` closed under it. Deadlock is not checked: when every task is done, the pool rests. |
| `messages` | Do messages go to those they are for, in order, and does a world message reach everybody who listens? | Alice on a connection of her own, Bob and Carol on another; three session identities; at most `Events` = 5 connections, deaths and logins, `Sent` = 2 messages and `Turns` = 1 change of a subscription, of the channel or of the 15 seconds. Enough for a task to wait while the connection it holds dies or is logged in on as somebody else, and for a second message to overtake the first if it could. The timer ticks only when somebody is dead. Deadlock is not checked: with nothing left to do, the clients rest. |
| `daemon` | Whom does the daemon speak for? Does it understand what the command line lets pass? | Two goroutines for requests and the ticker; four lines out of two logins, a reset, odd and usual ones, so that two logins and two requests can overlap or a login can follow a reset; one lost connection or late answer. Deadlock is not checked: when all lines are typed and answered, nothing need happen. |
| `daemon_live` | Is every request answered? Do the lists come to agree with the service? | One goroutine and the ticker; three lines, among them subscribe, unsubscribe, create, join and reset; one mishap, two acts of peers or other users. What a list has wrong needs one request, one query and one notification to cross. |

Violations, each a statement of the repository that the code does not live up to:

| run | statement | what happens |
|---|---|---|
| `sessions_single` | a user who is online is refused a second login (`handler.go` 184-185) | two logins pass the check at line 183 before either stores its session |
| `groups_disband` | the timer disbands groups without users (`handler.go` 92, 105) | somebody online and connected completes a join after the timer has begun to look at the members, and the group is deleted under him |
| `subs_offline` | a user taken offline is unsubscribed from those he followed (`handler.go` 53) | line 61 deletes the wrong key: he stays on record there, and his next session, which follows nobody and refuses messages (line 258), is shown as a follower |
| `pool_group` | digits are appended when too many ids are in use (`util.go` 105) | the bounds are crossed at line 102: `GenGroup` always returns -1, and all groups share that id |

More of the kind was met and is in the models, without a run of its own: a group
created under the id of the one the timer is looking at is deleted in the same
way as the one in `groups_disband`, which has one group object and shows the
join; the creator of a group has no entry for it in `ownJoinGroup`, so neither
the timer nor cancel all takes him out of it; the timer's `Delete(key)` at line
51 may hit a session that has been registered since line 48, when the user of a
dead connection has been let go by a login queued there (`LiveIsRegistered`
needs accounts that are not shared for that reason, and so does `KeepsPresence`:
they are silent about a client that reconnects on a new connection, where the
same deletion can hit its new session); a `SendTask` that overlaps with `Stop`
panics on the closed channel.

* Cancel all (`HandleCancelSubscribeAllRQ`) takes its sender out of the records
  of the others and leaves his own `ownSubscribe` and `ownJoinGroup` as they
  were, and with them the right of others to message him, though the help at
  `client/command/main.go` 60 says that all subscriptions are cancelled.
* Unsubscribing leaves the peer in the list of the client (`httphandler.go` 322
  deletes under a pointer) until the next query of the ticker; so does cancel
  all, for ever. `StaleEntriesGo` holds because the query empties the lists.
* The creator of a group has it in the list of his client until the next query,
  which has no entry for it; then he may not look at its members any more.
* A login whose answer is late is reported as failed, though the service has
  logged the user in; logins that overlap can leave the daemon with the user of
  one and the service with that of the other. Requests then carry a uid that is
  not the one of the session: `Groups`, `Subscriptions` and `Messages` take the
  two to be the same, and `SpeaksForItself` says when they are.
* `ReConn` keeps the user and the lists, so that requests are sent which the
  service refuses; if dialling fails, the HTTP answer is success all the same.
  `reset` (`httphandler.go` 34), which would forget them, is never called.
* A line with a number below 0 may be accepted and lead to no request at all
  (`-n -p -1`) or to one the daemon refuses; so group -1, the only one
  `GenGroup` hands out, cannot be joined or written to from the command line.
* The notice that a follower has gone offline (lines 61-73) reaches the client
  while the record of the service keeps him (`PeerReaped`): he leaves the list
  of the client and is back in it after the next query.
* A message on its way to a user goes to the connection he had when it was sent.
  If somebody else is logged in there by the time its task runs, he gets it;
  `OnlyAddressees` only says that the receiver has been logged in there since
  the connection was opened.
* The pace of world messages is per session: after a new login, or with the two
  sessions of `sessions_single`, a user may send twice within 15 seconds.
* `switch req.GetOwn()` at `handler.go` 330 is about `GetOp()`, so the text of
  the answer is empty.

### Fairness

`groups_live` assumes that the timer goroutine keeps going: `time.NewTicker`
wakes it and it waits for nothing but the runtime. Nothing is assumed about
clients, nor about workers. `daemon_live` assumes that goroutines with something
to do go on, that the service answers what has arrived, that notifications are
handled and that the ticker goes off while somebody is logged in; nothing about
those who type, about peers or about the network, so a request may also end with
a time-out. `taskgroup` assumes that workers and a `Stop` that
can move do, that tasks end, and that a sender for whose task there is room
(or whose channel is closed) goes on; Go queues the senders of a channel in
order, so none is overtaken for ever.

## 4. The proofs

All theorems are for arbitrary constants under the assumptions named in the
modules: accounts are sets of users, `None` is none of the things it stands
for, capacities are positive.

* **Sessions.** `IInv` is `TypeOK`, `Bound` (a session in `Self` or `new` of a
  connection belongs to it, and who is registered with a connection during a
  login there) and `RegisteredIsCurrent`. `RegisteredIsCurrent` is not
  inductive alone: `BindSession` replaces `Self`, and only because the previous
  session's user is deleted in the same step does no entry point to it.
  `LiveStaysRegistered` adds `Owned` and `Undisturbed`: with exclusive accounts
  the session the timer is about to delete is still the one it found dead.
  `RegistryKeepsPresence` (with exclusive accounts; with shared ones
  `sessions_single` shows a login that takes the place of another) is a
  refinement: `LogIn` of `Presence` happens in `BindSession`, `GoOffline` in
  `DeleteSession`, and every other step of a login or of the timer is a stutter.
  It needs `Sole`, which holds on dead connections too: while a login looks at
  the account there is no entry for it, and until it binds its session there is
  no other. A login queued on a connection that dies may be overtaken by the
  timer or be for the user the connection stood for already; its `BindSession`
  is then somebody going offline, or a stutter.
* **Groups.** Each step is a step of `Sessions` or leaves it alone
  (`StepRefines`), so that the theorems about the registry carry over
  (`GroupsRegistry`, `GroupsKeepLive`, `GroupsKeepPresence`, and the like for
  `Subscriptions` and `Messages`). `TimerSparesWhoStays` is what remains of the
  promise that `groups_disband` refutes: `ScanInv` has who stayed still to be
  visited, unless the flag of the scan is up. That a broadcast misses nobody
  needs `Served`: until the `Range` starts nothing is promised, and from then on
  who is stable is yet to be visited or has been served.
* **Subscriptions.** `SubscriptionsImplementSessions`, along the same argument;
  then `RecordsOfConnectedAgree`, which is about the entries that sessions of
  connected clients have made. It says nothing of entries whose session is gone:
  the timer does not take those away (`subs_offline`), so a user whose dead
  session was reaped is still on record as a follower when he logs in again, and
  his new session does not follow. The property itself is not inductive, as a
  request in progress could be one that takes away just the record it relies on.
  `FInv` says instead that each entry a session has with an online user is on
  its own record or about to be written there by a subscription (`AllRecorded`),
  and what a half-done unsubscription guarantees (`Pending`): after the first of
  the two writes of `HandleSubscribePersonalRQ` the session that asked has no
  entry with the peer's user any more, even if the peer has logged in again
  meanwhile. That rests on ids telling apart all sessions a handler may still
  write to (`Distinct`), on a connection not logging in during its own request
  (`AtWork`), and on a session's entries being under its own user
  (`Attributed`).
* **IdPool.** With `Lo <= Hi` each widening multiplies both ends, the capacity
  never exceeds the ids of all ranges so far, and the size of the current range
  is more than the sum: so a call that stops widening finds a free id.
  `CrossedPoolAlwaysFails` is about the bounds as `GenGroup` has them: if the
  sequence of widenings from `Lo` > `Hi` stays within the integers and keeps the
  capacity negative, which the numbers 9999 and 1000 do, no call returns an id.
* **Registration.** An account that was promised has its uid and record on
  disk; while a registration is under way its uid is reserved by it alone, in
  memory or on disk; what is in use in memory includes what is on disk. No
  record is then written over, restarts included. `RegistrationKeepsAccounts`
  adds `Unrecorded`, that a request has no record before `Save`: `Save`, also
  one that reports a failure, is `Make`, `Reply` is `Tell`, and all the rest,
  `Crash` and `Restart` included, is a stutter of `Accounts`.
* **TaskGroup.** A slot is nil only when its channel is closed, and a channel
  is closed only when `exit` is; so a call that read a nil finds `exit` closed.
  Of several calls of `Stop` one closes channels (`OneCloses`).
  `PoolServesEachKey` is the refinement of `KeyedTasks`. Its invariant `Placed`
  says that a channel holds tasks of its own users that were sent to it, each
  once, and that its worker runs a task of its own. It speaks of positions, so
  that no induction over sequences is needed: `Append` puts a task behind those
  of its user, and the head of a channel has none of its user before it.
* **Messages.** Again each step is one of `Sessions` or leaves it alone
  (`MsgStepRefines`). `OnlyAddressees` follows from `Known`: whom the registry,
  a handler or a task has on a connection has logged in there since it was
  opened, which is kept because no connection is opened under a name that a
  handler or a task still holds. `PairOrder` needs `Ordered`: the tasks of a key
  from one client lie between what was run last and the number of the request
  its worker is at. `WorldReaches` needs to know that a listener who stays is
  loaded with the session he has (`Reaching`).
* **Daemon.** `OwnIsSelf` speaks of moments without a login under way. `OwnInv`
  says what holds in between, as long as no login was overlapped or late: there
  is one login at most and nothing on behalf of anybody beside it, somebody
  waits for it unless its connection is gone (`LostLogin`), the service changes
  its user only when it grants one, and then the daemon has been told or will be
  (`GrantedLogin`); nothing on behalf of a user is in line behind a login
  (`Behind`), and what is in line has his name (`SentForSelf`, `AskedForSelf`).
  With the types, with each request in line being that of the goroutine that
  waits for it (`InLine`) and each answer of the type it asked for
  (`AnswersFit`), it is inductive; TLC has checked it on the instance of
  `daemon` first. `AcceptedLinesAreServed` goes from the line through `check`,
  `deal` and `SendCommand` to each case of `ServeHTTP`, for all lines.

Only model-checked, because the prover knows nothing of fairness: liveness, that
is `DeadIsReaped`, `AbandonedIsDisbanded`, `CallsEnd`, `EachTaskRuns` (the part
of `KeyedTasks` that is no safety), `RequestsEnd`, `StaleEntriesGo` and
`EntriesComeBack`. The four statements that are violated are no theorems, but
`CrossedPoolAlwaysFails` proves the one of `pool_group` wrong in general.

## 5. Not modelled

* A field `own` that is not the user of the session: `Groups`, `Subscriptions`
  and `Messages` have `own = Self.Own`, while the code trusts `req.GetOwn()`
  (`handler.go` 313, 375, 379, 446, 457, 494, 536-551). The client of this
  repository sends another only after logins that overlap or come too late, as
  `SpeaksForItself` says; a client that does otherwise is outside.
* An error of the leveldb iterator at start-up, which `OnInitUtil` (`util.go`
  30-39) does not ask for: `Loaded` is everything on disk. With a load cut short
  `PromiseKept` and `RecordsAreFinal` need not hold.
* `client/util.go`, the colours in `members` and the texts that are printed or
  sent: formatting, which no property is about. `getStatus`, which prints the
  lists. Names, contents and timestamps of messages.
* `all.pb.go`, generated by protoc; a packet is a record of the fields used.
* Start-up: flags, pid file and daemon mode of `client/main.go`, opening leveldb,
  logging. They run before anything the models are about.
* The framework `ccat` is not in the repository. Contexts, connections, queues
  and `client.Send` are modelled from how `src/` uses them and marked external.
* `LastSendWorldMsgTime` is the flag `cooling`; no clock is modelled, so that 15
  seconds may pass at any moment. What the timer's 30 and the ticker's 60
  seconds are to each other matters to no property.
