------------------------------- MODULE Daemon -------------------------------
(***************************************************************************)
(* The client daemon: HTTP requests of the command line and the one-minute *)
(* ticker, each in a goroutine of its own and without a lock, talk to the  *)
(* service over one connection and keep copies of what it knows about the  *)
(* user: the groups he has joined, whom he follows, who follows him.       *)
(*                                                                         *)
(* The service is here as one connection sees it: the session logged in on *)
(* it, answers in the order of the requests, notifications in the order of *)
(* the events.  Whether an account, a group or a peer is as a request      *)
(* needs it is the matter of Sessions, Groups and Subscriptions; a request *)
(* may be granted or refused here.                                         *)
(*                                                                         *)
(* The framework's client is not in the repository.  As src/ uses it: Send *)
(* returns the answer with the session number of the request, or an error  *)
(* within 3 seconds, or at once without a connection; an answer nobody     *)
(* waits for any more is no notification, and is dropped; notifications go *)
(* to HandlerNotify, in order.  GetSessionID gives no number twice, so a   *)
(* request is marked here with the goroutine that waits for its answer.    *)
(***************************************************************************)
EXTENDS HttpApi, Sequences

CONSTANTS
  Users,    \* the accounts its user logs in with
  Peers,    \* other users
  Groups,   \* ids of groups
  Slots,    \* goroutines that serve HTTP requests
  Ticker,   \* the goroutine of the ticker
  Lines     \* the lines that are typed

ASSUME DaemonAssumption ==
  /\ Users \subseteq Int \ {0} /\ Peers \subseteq Int /\ Groups \subseteq Int
  /\ Ticker \notin Slots /\ None \notin Slots \cup {Ticker}
  /\ Lines \subseteq LineParams

Threads == Slots \cup {Ticker}

VARIABLES
  IsLogin, Own,             \* ClientHttpHandler: the user, as the daemon believes,
  JoinGroup,                \* his groups,
  SubscribePeers,           \* whom he follows
  Followers,                \* and who follows him
  pc, packet,               \* of each goroutine: where it is, its request,
  answer,                   \* the answer it has got and not dealt with,
  line,                     \* and the line whose headers it refuses
  linked,                   \* GCli has a connection
  requests, notes,          \* what is on its way over it
  self,                     \* the service: the user logged in on it, None,
  ownSubscribe, subscribe,  \* whom he follows, who follows him,
  ownJoinGroup,             \* the groups he has joined
  GGroupMap,                \* and the groups there are
  muddled                   \* history: a login was overlapped or came too late

lists == <<JoinGroup, SubscribePeers, Followers>>
user == <<IsLogin, Own>>
goroutines == <<pc, packet, answer, line>>
wire == <<linked, requests, notes>>
relations == <<ownSubscribe, subscribe, ownJoinGroup>>
service == <<self, relations, GGroupMap>>
vars == <<user, lists, goroutines, wire, service, muddled>>

\* to is None once nobody waits any more; a peer follows (0) or no longer does (1).
Request == [to: Threads \cup {None}, p: Packet]
Note == [peer: Peers, op: {0, 1}]
Answer == [type: AnswerTypes, ok: BOOLEAN, groups: SUBSET Groups, peers: SUBSET Peers,
           followers: SUBSET Peers]

ASSUME NoneIsNothing == None \notin Packet /\ None \notin Answer /\ None \notin LineParams

Init ==
  /\ IsLogin = FALSE /\ Own = 0
  /\ JoinGroup = {} /\ SubscribePeers = {} /\ Followers = {}
  /\ pc = [t \in Threads |-> "idle"]
  /\ packet = [t \in Threads |-> None]
  /\ answer = [t \in Threads |-> None]
  /\ line = [t \in Threads |-> None]
  /\ linked = TRUE /\ requests = << >> /\ notes = << >>
  /\ self = None
  /\ ownSubscribe = {} /\ subscribe = {} /\ ownJoinGroup = {} /\ GGroupMap = {}
  /\ muddled = FALSE
-----------------------------------------------------------------------------
(* An HTTP request arrives (ServeHTTP).                                    *)

\* Its sender may ask this: he is logged in, and only looks at his own groups.
Permitted(h) == /\ NeedsLogin(h) => IsLogin
                /\ h.command = "GroupMembers" => h.group \in JoinGroup

Done(t) == /\ pc' = [pc EXCEPT ![t] = "idle"]
           /\ packet' = [packet EXCEPT ![t] = None]
           /\ answer' = [answer EXCEPT ![t] = None]
           /\ UNCHANGED line

\* The packet is marshalled with the Own of the moment; it is not sent yet.
OwnForgotten(p, own) == p
Marshalled(p, own) ==
  IF p.type \in {"LoginRQ", "RegisterRQ"} THEN p ELSE [p EXCEPT !.own = own]

ToSend(t, p, own) == /\ pc' = [pc EXCEPT ![t] = "send"]
                     /\ packet' = [packet EXCEPT ![t] = Marshalled(p, own)]
                     /\ answer' = [answer EXCEPT ![t] = None]
                     /\ UNCHANGED line

\* These ask for something on behalf of own.
OnBehalf == PacketTypes \ {"RegisterRQ", "LoginRQ", "SelfRelationRQ"}

Busy(t, phases, types) == pc[t] \in phases /\ packet[t].type \in types

\* A login and what is asked on behalf of the user, or another login, at once.
Overlaps(p) ==
  \E t \in Threads :
    \/ /\ p.type \in OnBehalf \cup {"LoginRQ"}
       /\ Busy(t, {"send", "wait", "got"}, {"LoginRQ"})
    \/ p.type = "LoginRQ" /\ Busy(t, {"send"}, OnBehalf)

\* The headers the daemon gets for a line that is accepted.
Headers(lp) == {SendCommand(a) : a \in {a \in Calls(lp) : check(lp)}}

\* A packet can be built from the headers.
Arrive(s, lp) ==
  /\ pc[s] = "idle"
  /\ \E h \in Headers(lp) :
       /\ h.command \in Remote /\ Permitted(h)
       /\ \E p \in Packets(h) : /\ ToSend(s, p, Own)
                                /\ muddled' = (muddled \/ Overlaps(p))
  /\ UNCHANGED <<user, lists, wire, service>>

\* No packet can be built from the headers: the sender is told so.
Refuse(s, lp) ==
  /\ pc[s] = "idle"
  /\ \E h \in Headers(lp) : h.command \in Remote /\ Permitted(h) /\ Packets(h) = {}
  /\ pc' = [pc EXCEPT ![s] = "refused"]
  /\ line' = [line EXCEPT ![s] = lp]
  /\ UNCHANGED <<user, lists, packet, answer, wire, service, muddled>>

EndRefusal(s) ==
  /\ pc[s] = "refused"
  /\ pc' = [pc EXCEPT ![s] = "idle"]
  /\ line' = [line EXCEPT ![s] = None]
  /\ UNCHANGED <<user, lists, packet, answer, wire, service, muddled>>

\* The ticker goes off, and asks for the lists when somebody is logged in.
Tick ==
  /\ pc[Ticker] = "idle" /\ IsLogin
  /\ ToSend(Ticker, SelfRelationRQ, Own)
  /\ UNCHANGED <<user, lists, wire, service, muddled>>
-----------------------------------------------------------------------------
(* NetSend.                                                                *)

Send(t) ==
  /\ pc[t] = "send" /\ linked
  /\ requests' = Append(requests, [to |-> t, p |-> packet[t]])
  /\ pc' = [pc EXCEPT ![t] = "wait"]
  /\ UNCHANGED <<user, lists, packet, answer, line, linked, notes, service, muddled>>

SendFails(t) ==
  /\ pc[t] = "send" /\ ~linked
  /\ Done(t)
  /\ UNCHANGED <<user, lists, wire, service, muddled>>

InFlight(t) == \E i \in DOMAIN requests : requests[i].to = t

\* The answer can come no more, and 3 seconds pass.
NeverHopeless(t) == FALSE
Hopeless(t) == pc[t] = "wait" /\ ~InFlight(t)
TimeOut(t) ==
  /\ Hopeless(t)
  /\ Done(t)
  /\ UNCHANGED <<user, lists, wire, service, muddled>>

GivenUp(t) == [i \in DOMAIN requests |->
                 IF requests[i].to = t THEN [requests[i] EXCEPT !.to = None] ELSE requests[i]]

\* The 3 seconds are over before the answer is there.
TooLate(t) ==
  /\ (pc[t] = "wait" /\ InFlight(t)) \/ pc[t] = "got"
  /\ Done(t)
  /\ requests' = GivenUp(t)
  /\ muddled' = (muddled \/ packet[t].type = "LoginRQ")
  /\ UNCHANGED <<user, lists, linked, notes, service>>
-----------------------------------------------------------------------------
(* What the goroutine does with the answer.                                *)

\* The packet is of the type asked for, and the code in it is CodeOK.
CodeIgnored(t) == answer[t].type = packet[t].rsp
Accepted(t) == answer[t].type = packet[t].rsp /\ answer[t].ok

Got(t, type) == pc[t] = "got" /\ packet[t].type = type /\ Accepted(t)

\* The user is recorded and his lists are asked for.
FinishLogin(t) ==
  /\ Got(t, "LoginRQ")
  /\ Own' = packet[t].own /\ IsLogin' = TRUE
  /\ ToSend(t, SelfRelationRQ, Own')
  /\ UNCHANGED <<lists, wire, service, muddled>>

FinishJoin(t) ==
  /\ Got(t, "JoinGroupRQ")
  /\ JoinGroup' = IF packet[t].op = 0 THEN JoinGroup \cup {packet[t].group}
                                      ELSE JoinGroup \ {packet[t].group}
  /\ Done(t)
  /\ UNCHANGED <<user, SubscribePeers, Followers, wire, service, muddled>>

\* Unsubscribing deletes nothing: Delete is given a *PeerInfo, the keys are uids.
FinishSubscribe(t) ==
  /\ Got(t, "SubscribePersonalMsgRQ")
  /\ SubscribePeers' = IF packet[t].op = 0 THEN SubscribePeers \cup answer[t].peers
                                           ELSE SubscribePeers
  /\ Done(t)
  /\ UNCHANGED <<user, JoinGroup, Followers, wire, service, muddled>>

FinishCreate(t) ==
  /\ Got(t, "CreateGroupRQ")
  /\ JoinGroup' = JoinGroup \cup answer[t].groups
  /\ Done(t)
  /\ UNCHANGED <<user, SubscribePeers, Followers, wire, service, muddled>>

\* The other answers, and errors, are only shown.
FinishShown(t) ==
  /\ pc[t] = "got"
  /\ ~Accepted(t) \/ packet[t].type \in {"RegisterRQ", "CancelSubscribeAllRQ",
       "SendToPersonalRQ", "SendToGroupRQ", "GroupMemberRQ", "SendWorldMsgRQ"}
  /\ Done(t)
  /\ UNCHANGED <<user, lists, wire, service, muddled>>

\* QuerySelfRelation: the lists are emptied, ...
NotEmptied(list) == list
Emptied(list) == {}
ClearLists(t) ==
  /\ Got(t, "SelfRelationRQ")
  /\ JoinGroup' = Emptied(JoinGroup)
  /\ SubscribePeers' = Emptied(SubscribePeers)
  /\ Followers' = Emptied(Followers)
  /\ pc' = [pc EXCEPT ![t] = "store"]
  /\ UNCHANGED <<user, packet, answer, line, wire, service, muddled>>

\* ... and what the answer has is added to what is in them by now.
StoreLists(t) ==
  /\ pc[t] = "store"
  /\ JoinGroup' = JoinGroup \cup answer[t].groups
  /\ SubscribePeers' = SubscribePeers \cup answer[t].peers
  /\ Followers' = Followers \cup answer[t].followers
  /\ Done(t)
  /\ UNCHANGED <<user, wire, service, muddled>>

\* HandlerPublishSubscribe.
HandleNote ==
  /\ notes # << >>
  /\ LET n == Head(notes)
     IN  Followers' = IF n.op = 0 THEN Followers \cup {n.peer} ELSE Followers \ {n.peer}
  /\ notes' = Tail(notes)
  /\ UNCHANGED <<user, JoinGroup, SubscribePeers, goroutines, linked, requests, service,
                 muddled>>
-----------------------------------------------------------------------------
(* The connection.                                                         *)

\* What is on its way is lost, and the service forgets the user.
Disconnected ==
  /\ linked' = FALSE
  /\ requests' = << >> /\ notes' = << >>
  /\ self' = None
  /\ ownSubscribe' = {} /\ subscribe' = {} /\ ownJoinGroup' = {}

\* Answers may be lost as well; whoever waits for them waits on.
Drop ==
  /\ linked
  /\ Disconnected
  /\ \E lost \in SUBSET {t \in Threads : pc[t] = "got"} :
       /\ pc' = [t \in Threads |-> IF t \in lost THEN "wait" ELSE pc[t]]
       /\ answer' = [t \in Threads |-> IF t \in lost THEN None ELSE answer[t]]
  /\ UNCHANGED <<user, lists, packet, line, GGroupMap, muddled>>

\* ReConn closes the connection, whatever is on it, ...
Reset(s, lp) ==
  /\ pc[s] = "idle"
  /\ \E h \in Headers(lp) : h.command = "reConn"
  /\ Disconnected
  /\ pc' = [pc EXCEPT ![s] = "closed"]
  /\ UNCHANGED <<user, lists, packet, answer, line, GGroupMap, muddled>>

\* ... and dials, which may fail; whoever was logged in still is, for the daemon.
Dial(s) ==
  /\ pc[s] = "closed"
  /\ linked' \in BOOLEAN
  /\ Done(s)
  /\ UNCHANGED <<user, lists, requests, notes, service, muddled>>
-----------------------------------------------------------------------------
(* The service.                                                            *)

NextRequest(types) == requests # << >> /\ Head(requests).p.type \in types

\* The request at the head is answered and done with.
Reply(ok, groups, peers, followers) ==
  LET r == Head(requests)
      a == [type |-> Route[r.p.type], ok |-> ok, groups |-> groups, peers |-> peers,
            followers |-> followers]
  IN  /\ requests' = Tail(requests)
      /\ pc' = [t \in Threads |-> IF t = r.to THEN "got" ELSE pc[t]]
      /\ answer' = [t \in Threads |-> IF t = r.to THEN a ELSE answer[t]]
      /\ UNCHANGED <<user, lists, packet, line, linked, notes, muddled>>

\* These are never refused to somebody who is logged in.
Granted == {"SubscribePersonalMsgRQ", "CancelSubscribeAllRQ", "SelfRelationRQ"}

\* A request that is refused changes nothing.
ServeRefusal ==
  /\ requests # << >>
  /\ self # None => ~NextRequest(Granted)
  /\ Reply(FALSE, {}, {}, {})
  /\ UNCHANGED service

\* A user who is online is refused; a new session has no relations.  The user the
\* connection stands for may pass too: the timer may have reaped another session of
\* his (Sessions).
ServeLogin ==
  /\ NextRequest({"LoginRQ"})
  /\ LET u == Head(requests).p.own
     IN  u \in Users /\ self' = u
  /\ ownSubscribe' = {} /\ subscribe' = {} /\ ownJoinGroup' = {}
  /\ Reply(TRUE, {}, {}, {})
  /\ UNCHANGED GGroupMap

ServeJoin ==
  /\ NextRequest({"JoinGroupRQ"}) /\ self # None
  /\ LET p == Head(requests).p
     IN  /\ p.group \in GGroupMap
         /\ ownJoinGroup' = IF p.op = 0 THEN ownJoinGroup \cup {p.group}
                                        ELSE ownJoinGroup \ {p.group}
  /\ Reply(TRUE, {}, {}, {})
  /\ UNCHANGED <<self, ownSubscribe, subscribe, GGroupMap>>

\* Peers who are offline are passed over; ops 2 and 3 are about the world channel.
ServeSubscribe ==
  /\ NextRequest({"SubscribePersonalMsgRQ"}) /\ self # None
  /\ LET p == Head(requests).p
     IN  \E found \in SUBSET (IF p.op \in {0, 1} THEN p.peers \cap Peers ELSE {}) :
           /\ ownSubscribe' = IF p.op = 0 THEN ownSubscribe \cup found
                                          ELSE ownSubscribe \ found
           /\ Reply(TRUE, {}, found, {})
  /\ UNCHANGED <<self, subscribe, ownJoinGroup, GGroupMap>>

\* The creator has no entry for the group in ownJoinGroup.
ServeCreate ==
  /\ NextRequest({"CreateGroupRQ"}) /\ self # None
  /\ \E g \in Groups : /\ GGroupMap' = GGroupMap \cup {g}
                       /\ Reply(TRUE, {g}, {}, {})
  /\ UNCHANGED <<self, relations>>

\* HandleSelfRelationRQ: groups that are gone are left out.
ServeQuery ==
  /\ NextRequest({"SelfRelationRQ"}) /\ self # None
  /\ Reply(TRUE, ownJoinGroup \cap GGroupMap, ownSubscribe, subscribe)
  /\ UNCHANGED service

\* Requests that leave what is modelled here alone.  Cancelling all does: it
\* clears the records of the others only.
ServeOther ==
  /\ \/ NextRequest({"RegisterRQ"})
     \/ self # None /\ NextRequest({"CancelSubscribeAllRQ", "SendToPersonalRQ",
                                    "SendToGroupRQ", "GroupMemberRQ", "SendWorldMsgRQ"})
  /\ Reply(TRUE, {}, {}, {})
  /\ UNCHANGED service

\* A peer follows the user or ceases to, and the user is notified; cancelling
\* all his subscriptions, a peer does so without a notification.
PeerFollows(p, op) ==
  /\ self # None
  /\ subscribe' = IF op = 0 THEN subscribe \cup {p} ELSE subscribe \ {p}
  /\ notes' = Append(notes, [peer |-> p, op |-> op])
  /\ UNCHANGED <<user, lists, goroutines, linked, requests, self, ownSubscribe, ownJoinGroup,
                 GGroupMap, muddled>>

PeerCancels(p) ==
  /\ p \in subscribe
  /\ subscribe' = subscribe \ {p}
  /\ UNCHANGED <<user, lists, goroutines, wire, self, ownSubscribe, ownJoinGroup, GGroupMap,
                 muddled>>

\* The timer takes a peer away who follows, or did, and notifies the user; what
\* it deletes is not the peer's entry (UnfollowsWhenOffline), which stays.
PeerReaped(p) ==
  /\ self # None
  /\ notes' = Append(notes, [peer |-> p, op |-> 1])
  /\ UNCHANGED <<user, lists, goroutines, linked, requests, service, muddled>>

\* Others create groups, the timer disbands them.
GroupComes(g) ==
  /\ GGroupMap' = GGroupMap \cup {g}
  /\ UNCHANGED <<user, lists, goroutines, wire, self, relations, muddled>>

GroupGoes(g) ==
  /\ GGroupMap' = GGroupMap \ {g}
  /\ UNCHANGED <<user, lists, goroutines, wire, self, relations, muddled>>
-----------------------------------------------------------------------------
\* A line is typed.
Type(s) == \E lp \in Lines : Arrive(s, lp) \/ Refuse(s, lp) \/ Reset(s, lp)

\* What a goroutine does once it has been given something to do.
Run(t) == \/ Send(t) \/ SendFails(t) \/ TimeOut(t)
          \/ FinishLogin(t) \/ FinishJoin(t) \/ FinishSubscribe(t) \/ FinishCreate(t)
          \/ FinishShown(t) \/ ClearLists(t) \/ StoreLists(t)
          \/ EndRefusal(t) \/ Dial(t)

Serve == \/ ServeRefusal \/ ServeLogin \/ ServeJoin \/ ServeSubscribe \/ ServeCreate
         \/ ServeQuery \/ ServeOther

\* What the network may do,
Mishap == Drop \/ \E t \in Threads : TooLate(t)

\* and what other users and the timers of the groups do.
PeersAct == \/ \E p \in Peers : \/ PeerCancels(p) \/ PeerReaped(p)
                                \/ \E op \in {0, 1} : PeerFollows(p, op)
            \/ \E g \in Groups : GroupComes(g) \/ GroupGoes(g)

Next == \/ \E s \in Slots : Type(s)
        \/ \E t \in Threads : Run(t)
        \/ Tick \/ HandleNote
        \/ Serve \/ Mishap \/ PeersAct

Spec == Init /\ [][Next]_vars
-----------------------------------------------------------------------------
(* Properties.                                                             *)

\* Type invariant.
DaemonTypeOK ==
  /\ IsLogin \in BOOLEAN /\ Own \in Int
  /\ JoinGroup \subseteq Int /\ SubscribePeers \subseteq Peers /\ Followers \subseteq Peers
  /\ pc \in [Threads -> {"idle", "refused", "send", "wait", "got", "store", "closed"}]
  /\ packet \in [Threads -> Packet \cup {None}]
  /\ answer \in [Threads -> Answer \cup {None}]
  /\ line \in [Threads -> LineParams \cup {None}]
  /\ \A t \in Threads : /\ pc[t] \in {"send", "wait", "got", "store"} => packet[t] \in Packet
                        /\ pc[t] \in {"got", "store"} => answer[t] \in Answer
  /\ linked \in BOOLEAN
  /\ requests \in Seq(Request)
  /\ notes \in Seq(Note)
  /\ self \in Users \cup {None}
  /\ ownSubscribe \subseteq Peers /\ subscribe \subseteq Peers
  /\ ownJoinGroup \subseteq Groups /\ GGroupMap \subseteq Groups
  /\ muddled \in BOOLEAN

\* Only a login that overlaps with another request or whose answer comes too
\* late can make the daemon take its user for somebody else than the service
\* does; a login that is refused, a reset or a lost connection cannot (lines
\* 157-167 of httphandler.go against HandleLoginRQ).
OwnIsSelf ==
  self # None /\ ~muddled /\ (\A t \in Threads : ~Busy(t, {"wait", "got"}, {"LoginRQ"}))
    => IsLogin /\ Own = self

\* Nor can anything else make it ask for something on behalf of a user who is
\* not the one its connection is logged in as, though the service goes by own
\* in some places and by its session in others.
SpeaksForItself ==
  self # None /\ ~muddled =>
    \A i \in DOMAIN requests : requests[i].p.type \in OnBehalf => requests[i].p.own = self

\* The service knows the user on the connection the daemon has.
Current == IsLogin /\ linked /\ self # None

\* What is no longer so at the service goes from the lists for good, whichever
\* notifications, answers and cancellations crossed: an unsubscribed peer, whom
\* line 322 of httphandler.go leaves in; a follower whose notification was
\* overtaken; a group that was disbanded, or that its creator never had joined.
StaleEntriesGo ==
  /\ \A p \in Peers : <>[](Current /\ p \notin ownSubscribe) => <>[](p \notin SubscribePeers)
  /\ \A p \in Peers : <>[](Current /\ p \notin subscribe) => <>[](p \notin Followers)
  /\ \A g \in Groups : <>[](Current /\ g \notin ownJoinGroup \cap GGroupMap)
                          => <>[](g \notin JoinGroup)

\* What stays so at the service is in the lists again and again, though each
\* query empties them first (lines 582-617 of httphandler.go).
EntriesComeBack ==
  /\ \A p \in Peers : <>[](Current /\ p \in ownSubscribe) => []<>(p \in SubscribePeers)
  /\ \A p \in Peers : <>[](Current /\ p \in subscribe) => []<>(p \in Followers)
  /\ \A g \in Groups : <>[](Current /\ g \in ownJoinGroup \cap GGroupMap)
                          => []<>(g \in JoinGroup)

\* Every HTTP request is answered, whatever becomes of the connection.
RequestsEnd == \A s \in Slots : pc[s] # "idle" ~> pc[s] = "idle"

\* Numbers below 0, names that are too long and lists without a number.
Odd(lp) == \/ \E x \in {lp.Own, lp.Peer, lp.Group, lp.VerifyCode} : x < 0
           \/ "long" \in {lp.Name, lp.Passwd, lp.Email}
           \/ lp.Peers = {Junk}

\* What check lets pass, the daemon can make a request of, unless the line is
\* odd: the tests of check, the headers SendCommand sets and the tests of
\* ServeHTTP agree.
AcceptedIsServed == \A s \in Slots : pc[s] = "refused" => Odd(line[s])
=============================================================================
