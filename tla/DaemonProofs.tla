---------------------------- MODULE DaemonProofs ----------------------------
(***************************************************************************)
(* What holds of the command line and of the client daemon for any users,  *)
(* peers, groups, lines and number of requests at a time.                  *)
(***************************************************************************)
EXTENDS Daemon, SequenceTheorems, TLAPS

-----------------------------------------------------------------------------
(* The command line and the headers.                                       *)

\* The headers for a line that the daemon looks at, by command.
HeadersFor(lp, h) ==
  \/ h.command \notin Remote
  \/ /\ h.command = "register"
     /\ h.name = lp.Name /\ h.passwd = lp.Passwd /\ h.email = lp.Email
     /\ h.verifyCode = Positive(lp.VerifyCode)
  \/ /\ h.command = "login" /\ lp.Own # 0 /\ lp.Passwd # ""
     /\ h.own = Positive(lp.Own) /\ h.passwd = lp.Passwd
  \/ /\ h.command = "createGroup" /\ lp.VerifyCode # 0
     /\ h.verifyCode = Positive(lp.VerifyCode)
  \/ /\ h.command = "subscribePersonal"
     /\ lp.Peers # {} \/ lp.Peer # 0
     /\ h.op = 0 /\ h.peers = PeersToFollow(lp)
  \/ /\ h.command = "subscribePersonal" /\ PeersToLeave(lp) # {}
     /\ h.op = 1 /\ h.peers = PeersToLeave(lp)
  \/ h.command = "subscribePersonal" /\ h.op \in {2, 3} /\ h.peers = {}
  \/ /\ h.command = "join" /\ lp.Group # 0
     /\ h.op \in {0, 1} /\ h.group = Positive(lp.Group)
     /\ h.verifyCode \in {Positive(lp.VerifyCode), Positive(0)}
  \/ h.command = "cancelAllSubscribe"
  \/ /\ h.command = "sendToPersonal" /\ lp.Peer > 0 /\ lp.Content # ""
     /\ h.peer = Positive(lp.Peer) /\ h.content = lp.Content
  \/ /\ h.command = "sendToGroup"
     /\ lp.Peer # 0 \/ lp.Group # 0
     /\ lp.Peer <= 0 /\ lp.Content # ""
     /\ h.group = Positive(lp.Group) /\ h.content = lp.Content
  \/ /\ h.command = "GroupMembers" /\ lp.Group > 0 /\ h.group = Positive(lp.Group)
  \/ /\ h.command = "SendToWorld" /\ lp.Content # "" /\ h.content = lp.Content

\* What check, deal and SendCommand make of a line.
LEMMA HeadersAre ==
  ASSUME NEW lp \in LineParams, NEW h \in Headers(lp)
  PROVE  HeadersFor(lp, h)
<1>1. PICK a \in Calls(lp) : check(lp) /\ h = SendCommand(a)
  BY DEF Headers
<1>2. PICK o \in MainOptions : lp.opts = {o}
  BY <1>1 DEF check
<1>3. /\ lp.Group \in Int /\ lp.Peer \in Int
      /\ lp.Group <= 0 \/ lp.Group > 0
      /\ lp.Peer <= 0 \/ lp.Peer > 0
  BY DEF LineParams
<1>4. CASE o = "r"
  BY <1>1, <1>2, <1>4 DEF Calls, NoArguments, SendCommand, HeadersFor
<1>5. CASE o = "l"
  BY <1>1, <1>2, <1>5 DEF Calls, NoArguments, SendCommand, HeadersFor, check
<1>6. CASE o = "cg"
  BY <1>1, <1>2, <1>6 DEF Calls, NoArguments, SendCommand, HeadersFor, check
<1>7. CASE o = "jg"
  <2>1. /\ a.command = "join" /\ a.op = 0
        /\ a.group = lp.Group /\ a.verify = lp.VerifyCode
    BY <1>1, <1>2, <1>7 DEF Calls, NoArguments
  <2>2. h.op = 0
    BY <1>1, <2>1 DEF SendCommand
  <2>3. QED
    BY <1>1, <1>2, <1>7, <2>1, <2>2 DEF SendCommand, HeadersFor, check
<1>8. CASE o = "s"
  <2>1. CASE lp.Peer > 0
    BY <1>1, <1>2, <1>3, <1>8, <2>1 DEF Calls, NoArguments, SendCommand, HeadersFor, check
  <2>2. CASE lp.Peer <= 0
    BY <1>1, <1>2, <1>3, <1>8, <2>2 DEF Calls, NoArguments, SendCommand, HeadersFor, check
  <2>3. QED
    BY <1>3, <2>1, <2>2
<1>9. CASE o = "na"
  BY <1>1, <1>2, <1>9 DEF Calls, NoArguments, SendCommand, HeadersFor
<1>10. CASE o = "sp"
  <2>1. a.command = "subscribePersonal" /\ a.op = 0 /\ a.peers = PeersToFollow(lp)
    BY <1>1, <1>2, <1>10 DEF Calls, NoArguments
  <2>2. h.op = 0
    BY <1>1, <2>1 DEF SendCommand
  <2>3. QED
    BY <1>1, <1>2, <1>10, <2>1, <2>2 DEF SendCommand, HeadersFor, check
<1>11. CASE o = "n"
  <2>1. CASE PeersToLeave(lp) # {}
    <3>1. a.command = "subscribePersonal" /\ a.op = 1 /\ a.peers = PeersToLeave(lp)
      BY <1>1, <1>2, <1>11, <2>1 DEF Calls, NoArguments
    <3>2. h.op = 1
      BY <1>1, <3>1 DEF SendCommand
    <3>3. QED
      BY <1>1, <2>1, <3>1, <3>2 DEF SendCommand, HeadersFor
  <2>2. CASE PeersToLeave(lp) = {}
    <3>1. /\ lp.Group > 0 /\ a.command = "join" /\ a.op = 1
          /\ a.group = lp.Group /\ a.verify = 0
      BY <1>1, <1>2, <1>3, <1>11, <2>2 DEF Calls, NoArguments
    <3>2. h.op = 1
      BY <1>1, <3>1 DEF SendCommand
    <3>3. QED
      BY <1>1, <1>3, <3>1, <3>2 DEF SendCommand, HeadersFor
  <2>3. QED
    BY <2>1, <2>2
<1>12. CASE o = "reset"
  BY <1>1, <1>2, <1>12 DEF Calls, NoArguments, SendCommand, HeadersFor, Remote
<1>13. CASE o = "status"
  <2>1. CASE lp.Group > 0
    <3>1. a.command = "GroupMembers" /\ a.group = lp.Group
      BY <1>1, <1>2, <1>3, <1>13, <2>1 DEF Calls, NoArguments
    <3>2. QED
      BY <1>1, <2>1, <3>1 DEF SendCommand, HeadersFor
  <2>2. CASE lp.Group <= 0
    BY <1>1, <1>2, <1>3, <1>13, <2>2 DEF Calls, NoArguments, SendCommand, HeadersFor, Remote
  <2>3. QED
    BY <1>3, <2>1, <2>2
<1>14. CASE o \in {"w", "nw"}
  <2>1. a.command = "subscribePersonal" /\ a.op \in {2, 3} /\ a.peers = {}
    BY <1>1, <1>2, <1>14 DEF Calls, NoArguments
  <2>2. h.op = a.op
    BY <1>1, <2>1 DEF SendCommand
  <2>3. QED
    BY <1>1, <2>1, <2>2 DEF SendCommand, HeadersFor
<1>15. CASE o = "sw"
  BY <1>1, <1>2, <1>15 DEF Calls, NoArguments, SendCommand, HeadersFor, check
<1>16. QED
  BY <1>4, <1>5, <1>6, <1>7, <1>8, <1>9, <1>10, <1>11, <1>12, <1>13, <1>14, <1>15
     DEF MainOptions

\* Where the tests of check and of ServeHTTP disagree, the line is odd.
LEMMA ServedOrOdd ==
  ASSUME NEW lp \in LineParams, NEW h \in Headers(lp),
         h.command \in Remote, Packets(h) = {}
  PROVE  Odd(lp)
<1>1. /\ lp.Own \in Int /\ lp.Peer \in Int /\ lp.Group \in Int /\ lp.VerifyCode \in Int
      /\ lp.Peers \subseteq Int \cup {Junk}
      /\ lp.Name \in Text /\ lp.Passwd \in Text /\ lp.Email \in Text
      /\ Junk \notin Int /\ None \notin Int
  BY CommandLineAssumption DEF LineParams
<1>2. \A x \in Int : x # 0 /\ Positive(x) = None => x < 0
  BY <1>1 DEF Positive
<1>3. HeadersFor(lp, h)
  BY HeadersAre
<1>4. CASE h.command = "register"
  <2>1. h.name = lp.Name /\ h.passwd = lp.Passwd /\ h.email = lp.Email
    BY <1>3, <1>4 DEF HeadersFor, Remote, Commands
  <2>2. "long" \in {h.email, h.name, h.passwd}
    BY <1>4 DEF Packets, RegisterRQ
  <2>3. QED
    BY <2>1, <2>2 DEF Odd
<1>5. CASE h.command = "login"
  <2>1. /\ lp.Own # 0 /\ lp.Passwd # ""
        /\ h.own = Positive(lp.Own) /\ h.passwd = lp.Passwd
    BY <1>3, <1>5 DEF HeadersFor, Remote, Commands
  <2>2. h.own = None \/ h.passwd = ""
    BY <1>5 DEF Packets, LoginRQ
  <2>3. Positive(lp.Own) = None
    BY <2>1, <2>2
  <2>4. lp.Own < 0
    BY <1>1, <1>2, <2>1, <2>3
  <2>5. QED
    BY <2>4 DEF Odd
<1>6. CASE h.command = "createGroup"
  <2>1. lp.VerifyCode # 0 /\ h.verifyCode = Positive(lp.VerifyCode)
    BY <1>3, <1>6 DEF HeadersFor, Remote, Commands
  <2>2. h.verifyCode = None
    BY <1>6 DEF Packets, CreateTempGroupRQ
  <2>3. Positive(lp.VerifyCode) = None
    BY <2>1, <2>2
  <2>4. lp.VerifyCode < 0
    BY <1>1, <1>2, <2>1, <2>3
  <2>5. QED
    BY <2>4 DEF Odd
<1>7. CASE h.command = "subscribePersonal"
  <2>1. h.op \in {0, 1, 2, 3} /\ (h.op \in {0, 1} => lp.Peers \subseteq h.peers /\ h.peers # {})
        /\ (h.op \in {0, 1} => (lp.Peers # {} \/ lp.Peer \in h.peers))
    BY <1>3, <1>7 DEF HeadersFor, Remote, Commands, PeersToFollow, PeersToLeave
  <2>2. h.op = None \/ h.op \notin 0 .. 3 \/ (h.op \in {0, 1} /\ h.peers \ {Junk} = {})
    BY <1>7 DEF Packets, SubscribePersonRQ
  <2>3. h.op # None /\ h.op \in 0 .. 3
    BY <1>1, <2>1
  <2>4. h.op \in {0, 1} /\ h.peers \ {Junk} = {}
    BY <2>2, <2>3
  <2>5. lp.Peer \notin h.peers
    BY <1>1, <2>4
  <2>6. lp.Peers # {} /\ lp.Peers \subseteq {Junk}
    BY <2>1, <2>4, <2>5
  <2>7. lp.Peers = {Junk}
    BY <2>6
  <2>8. QED
    BY <2>7 DEF Odd
<1>8. CASE h.command = "join"
  <2>1. lp.Group # 0 /\ h.op \in {0, 1} /\ h.group = Positive(lp.Group)
    BY <1>3, <1>8 DEF HeadersFor, Remote, Commands
  <2>2. h.group = None
    BY <1>1, <1>8, <2>1 DEF Packets, JoinGroupRQ
  <2>3. Positive(lp.Group) = None
    BY <2>1, <2>2
  <2>4. lp.Group < 0
    BY <1>1, <1>2, <2>1, <2>3
  <2>5. QED
    BY <2>4 DEF Odd
<1>9. CASE h.command = "cancelAllSubscribe"
  BY <1>9 DEF Packets, CancelSubscribeAllRQ
<1>10. CASE h.command = "sendToPersonal"
  <2>1. /\ lp.Peer > 0 /\ lp.Content # ""
        /\ h.peer = Positive(lp.Peer) /\ h.content = lp.Content
    BY <1>3, <1>10 DEF HeadersFor, Remote, Commands
  <2>2. h.peer = None
    BY <1>10, <2>1 DEF Packets, SendToPersonalRQ
  <2>3. QED
    BY <1>1, <2>1, <2>2 DEF Positive
<1>11. CASE h.command = "sendToGroup"
  <2>1. /\ lp.Peer # 0 \/ lp.Group # 0
        /\ lp.Peer <= 0 /\ lp.Content # ""
        /\ h.group = Positive(lp.Group) /\ h.content = lp.Content
    BY <1>3, <1>11 DEF HeadersFor, Remote, Commands
  <2>2. h.group = None
    BY <1>11, <2>1 DEF Packets, SendToTempGroupRQ
  <2>3. Positive(lp.Group) = None
    BY <2>1, <2>2
  <2>4. CASE lp.Group # 0
    <3>1. lp.Group < 0
      BY <1>1, <1>2, <2>3, <2>4
    <3>2. QED
      BY <3>1 DEF Odd
  <2>5. CASE lp.Group = 0
    <3>1. lp.Peer # 0 /\ lp.Peer <= 0
      BY <2>1, <2>5
    <3>2. lp.Peer < 0
      BY <1>1, <3>1
    <3>3. QED
      BY <3>2 DEF Odd
  <2>6. QED
    BY <2>4, <2>5
<1>12. CASE h.command = "GroupMembers"
  <2>1. lp.Group > 0 /\ h.group = Positive(lp.Group)
    BY <1>3, <1>12 DEF HeadersFor, Remote, Commands
  <2>2. h.group = None
    BY <1>12 DEF Packets, GroupMembersRQ
  <2>3. QED
    BY <1>1, <2>1, <2>2 DEF Positive
<1>13. CASE h.command = "SendToWorld"
  <2>1. lp.Content # "" /\ h.content = lp.Content
    BY <1>3, <1>13 DEF HeadersFor, Remote, Commands
  <2>2. QED
    BY <1>13, <2>1 DEF Packets, SendWorldMessageRQ
<1>14. QED
  BY <1>4, <1>5, <1>6, <1>7, <1>8, <1>9, <1>10, <1>11, <1>12, <1>13 DEF Remote, Commands

\* The packet built from the headers for a line is one.
LEMMA PacketsTyped ==
  ASSUME NEW lp \in LineParams, NEW h \in Headers(lp), h.command \in Remote,
         NEW p \in Packets(h)
  PROVE  p \in Packet
<1>1. /\ lp.Own \in Int /\ lp.Peer \in Int /\ lp.Group \in Int /\ lp.VerifyCode \in Int
      /\ lp.Peers \subseteq Int \cup {Junk}
      /\ Junk \notin Int /\ None \notin Int
  BY CommandLineAssumption DEF LineParams
<1>2. \A x \in Int : Positive(x) # None => Positive(x) \in Int
  BY DEF Positive
<1>3. \A x \in Int : OrZero(Positive(x)) \in Int
  BY DEF Positive, OrZero
<1>4. HeadersFor(lp, h)
  BY HeadersAre
<1>5. CASE h.command = "register"
  <2>1. OrZero(h.verifyCode) \in Int
    BY <1>1, <1>3, <1>4, <1>5 DEF HeadersFor, Remote, Commands
  <2>2. p = [Blank("RegisterRQ", "RegisterRS") EXCEPT !.code = OrZero(h.verifyCode)]
    BY <1>5 DEF Packets, RegisterRQ
  <2>3. QED
    BY <2>1, <2>2 DEF Blank, Packet, PacketTypes, AnswerTypes
<1>6. CASE h.command = "login"
  <2>1. h.own = Positive(lp.Own)
    BY <1>4, <1>6 DEF HeadersFor, Remote, Commands
  <2>2. h.own # None /\ p = [Blank("LoginRQ", "LoginRS") EXCEPT !.own = h.own]
    BY <1>6 DEF Packets, LoginRQ
  <2>3. QED
    BY <1>1, <1>2, <2>1, <2>2 DEF Blank, Packet, PacketTypes, AnswerTypes
<1>7. CASE h.command = "createGroup"
  <2>1. h.verifyCode = Positive(lp.VerifyCode)
    BY <1>4, <1>7 DEF HeadersFor, Remote, Commands
  <2>2. /\ h.verifyCode # None
        /\ p = [Blank("CreateGroupRQ", "CreateGroupRS") EXCEPT !.code = h.verifyCode]
    BY <1>7 DEF Packets, CreateTempGroupRQ
  <2>3. QED
    BY <1>1, <1>2, <2>1, <2>2 DEF Blank, Packet, PacketTypes, AnswerTypes
<1>8. CASE h.command = "subscribePersonal"
  <2>1. /\ h.op \in {0, 1, 2, 3}
        /\ h.peers \subseteq Int \cup {Junk}
    BY <1>1, <1>4, <1>8 DEF HeadersFor, Remote, Commands, PeersToFollow, PeersToLeave
  <2>2. p = Subscription(h.op, h.peers \ {Junk})
    BY <1>8 DEF Packets, SubscribePersonRQ
  <2>3. h.peers \ {Junk} \subseteq Int
    BY <2>1
  <2>4. p = [type |-> "SubscribePersonalMsgRQ", rsp |-> "SubscribePersonalMsgRS",
             own |-> 0, peers |-> h.peers \ {Junk}, peer |-> 0, group |-> 0, code |-> 0,
             op |-> h.op]
    BY <2>2 DEF Subscription, Blank
  <2>5. h.op \in Int
    BY <2>1
  <2>6. QED
    BY <2>3, <2>4, <2>5 DEF Packet, PacketTypes, AnswerTypes
<1>9. CASE h.command = "join"
  <2>1. /\ h.op \in {0, 1} /\ h.group = Positive(lp.Group)
        /\ OrZero(h.verifyCode) \in Int
    BY <1>1, <1>3, <1>4, <1>9 DEF HeadersFor, Remote, Commands
  <2>2. /\ h.group # None
        /\ p = [Blank("JoinGroupRQ", "JoinGroupRS") EXCEPT
                  !.group = h.group, !.code = OrZero(h.verifyCode), !.op = h.op]
    BY <1>9 DEF Packets, JoinGroupRQ
  <2>3. h.group \in Int /\ h.op \in Int
    BY <1>1, <1>2, <2>1, <2>2
  <2>4. p = [type |-> "JoinGroupRQ", rsp |-> "JoinGroupRS", own |-> 0, peers |-> {},
             peer |-> 0, group |-> h.group, code |-> OrZero(h.verifyCode), op |-> h.op]
    BY <2>2 DEF Blank
  <2>5. QED
    BY <2>1, <2>3, <2>4 DEF Packet, PacketTypes, AnswerTypes
<1>10. CASE h.command = "cancelAllSubscribe"
  <2>1. p = Blank("CancelSubscribeAllRQ", "CancelSubscribeAllRS")
    BY <1>10 DEF Packets, CancelSubscribeAllRQ
  <2>2. QED
    BY <2>1 DEF Blank, Packet, PacketTypes, AnswerTypes
<1>11. CASE h.command = "sendToPersonal"
  <2>1. h.peer = Positive(lp.Peer)
    BY <1>4, <1>11 DEF HeadersFor, Remote, Commands
  <2>2. /\ h.peer # None
        /\ p = [Blank("SendToPersonalRQ", "SendToPersonalRS") EXCEPT !.peer = h.peer]
    BY <1>11 DEF Packets, SendToPersonalRQ
  <2>3. QED
    BY <1>1, <1>2, <2>1, <2>2 DEF Blank, Packet, PacketTypes, AnswerTypes
<1>12. CASE h.command = "sendToGroup"
  <2>1. h.group = Positive(lp.Group)
    BY <1>4, <1>12 DEF HeadersFor, Remote, Commands
  <2>2. /\ h.group # None
        /\ p = [Blank("SendToGroupRQ", "SendToGroupRS") EXCEPT !.group = h.group]
    BY <1>12 DEF Packets, SendToTempGroupRQ
  <2>3. QED
    BY <1>1, <1>2, <2>1, <2>2 DEF Blank, Packet, PacketTypes, AnswerTypes
<1>13. CASE h.command = "GroupMembers"
  <2>1. h.group = Positive(lp.Group)
    BY <1>4, <1>13 DEF HeadersFor, Remote, Commands
  <2>2. /\ h.group # None
        /\ p = [Blank("GroupMemberRQ", "GroupMemberRS") EXCEPT !.group = h.group]
    BY <1>13 DEF Packets, GroupMembersRQ
  <2>3. QED
    BY <1>1, <1>2, <2>1, <2>2 DEF Blank, Packet, PacketTypes, AnswerTypes
<1>14. CASE h.command = "SendToWorld"
  <2>1. p = Blank("SendWorldMsgRQ", "SendWorldMsgRS")
    BY <1>14 DEF Packets, SendWorldMessageRQ
  <2>2. QED
    BY <2>1 DEF Blank, Packet, PacketTypes, AnswerTypes
<1>15. QED
  BY <1>5, <1>6, <1>7, <1>8, <1>9, <1>10, <1>11, <1>12, <1>13, <1>14 DEF Remote, Commands
-----------------------------------------------------------------------------
(* Types.                                                                  *)

UserOK ==
  /\ IsLogin \in BOOLEAN /\ Own \in Int
  /\ JoinGroup \subseteq Int /\ SubscribePeers \subseteq Peers /\ Followers \subseteq Peers
GoroutinesOK ==
  /\ pc \in [Threads -> {"idle", "refused", "send", "wait", "got", "store", "closed"}]
  /\ packet \in [Threads -> Packet \cup {None}]
  /\ answer \in [Threads -> Answer \cup {None}]
  /\ line \in [Threads -> LineParams \cup {None}]
  /\ \A t \in Threads : /\ pc[t] \in {"send", "wait", "got", "store"} => packet[t] \in Packet
                        /\ pc[t] \in {"got", "store"} => answer[t] \in Answer
WireOK ==
  /\ linked \in BOOLEAN
  /\ requests \in Seq(Request)
  /\ notes \in Seq(Note)
ServiceOK ==
  /\ self \in Users \cup {None}
  /\ ownSubscribe \subseteq Peers /\ subscribe \subseteq Peers
  /\ ownJoinGroup \subseteq Groups /\ GGroupMap \subseteq Groups

\* The type invariant by its parts.
LEMMA TypeParts ==
  /\ DaemonTypeOK <=> /\ UserOK /\ GoroutinesOK /\ WireOK /\ ServiceOK
                      /\ muddled \in BOOLEAN
  /\ DaemonTypeOK' <=> /\ UserOK' /\ GoroutinesOK' /\ WireOK' /\ ServiceOK'
                       /\ muddled' \in BOOLEAN
  BY DEF DaemonTypeOK, UserOK, GoroutinesOK, WireOK, ServiceOK

\* A request in line that somebody waits for is the request of that goroutine,
\* which waits for its answer and has no other in line.
InLine ==
  \A i \in DOMAIN requests : requests[i].to # None =>
    /\ pc[requests[i].to] = "wait" /\ packet[requests[i].to] = requests[i].p
    /\ \A j \in DOMAIN requests : requests[j].to = requests[i].to => j = i

\* Nothing that is asked or answered for a goroutine upsets the others' types.
LEMMA DoneTyped ==
  ASSUME GoroutinesOK, NEW t \in Threads, Done(t)
  PROVE  GoroutinesOK'
  BY DEF GoroutinesOK, Done

\* A packet stays a packet when own is filled in.
LEMMA MarshalledTyped ==
  ASSUME NEW p \in Packet, NEW own \in Int
  PROVE  /\ Marshalled(p, own) \in Packet
         /\ Marshalled(p, own).type = p.type /\ Marshalled(p, own).rsp = p.rsp
         /\ p.type \in OnBehalf => Marshalled(p, own).own = own
         /\ p.type = "LoginRQ" => Marshalled(p, own) = p
  BY DEF Marshalled, Packet, OnBehalf

\* A goroutine that begins a request keeps the types of the goroutines.
LEMMA ToSendTyped ==
  ASSUME GoroutinesOK, NEW t \in Threads, NEW p \in Packet, NEW own \in Int,
         ToSend(t, p, own)
  PROVE  GoroutinesOK'
<1>1. Marshalled(p, own) \in Packet
  BY MarshalledTyped
<1>2. QED
  BY <1>1 DEF GoroutinesOK, ToSend

\* The request at the head is answered with a.
Answers(a) ==
  /\ requests # << >>
  /\ a.type = Route[Head(requests).p.type]
  /\ requests' = Tail(requests)
  /\ pc' = [t \in Threads |-> IF t = Head(requests).to THEN "got" ELSE pc[t]]
  /\ answer' = [t \in Threads |-> IF t = Head(requests).to THEN a ELSE answer[t]]
  /\ UNCHANGED <<user, lists, packet, line, linked, notes, muddled>>

\* Only a login that is granted changes whom the service takes the user for.
LogsInOnly(a) ==
  \/ self' = self /\ (Head(requests).p.type = "LoginRQ" => ~a.ok)
  \/ /\ Head(requests).p.type = "LoginRQ" /\ a.ok
     /\ self' = Head(requests).p.own

\* What the service answers is an answer,
LEMMA AnswerTyped ==
  ASSUME WireOK, requests # << >>, NEW ok \in BOOLEAN, NEW groups \in SUBSET Groups,
         NEW peers \in SUBSET Peers, NEW followers \in SUBSET Peers
  PROVE  [type |-> Route[Head(requests).p.type], ok |-> ok, groups |-> groups,
          peers |-> peers, followers |-> followers] \in Answer
<1>1. Head(requests) \in Request
  BY DEF WireOK
<1>2. Head(requests).p.type \in PacketTypes
  BY <1>1 DEF Request, Packet
<1>3. Route[Head(requests).p.type] \in AnswerTypes
  BY <1>2 DEF PacketTypes, AnswerTypes, Route
<1>4. QED
  BY <1>3 DEF Answer

\* What the service does is to answer the request at the head.
LEMMA ServeAnswers ==
  ASSUME WireOK, ServiceOK, Serve
  PROVE  ServiceOK' /\ \E a \in Answer : Answers(a) /\ LogsInOnly(a)
<1> DEFINE A(ok, groups, peers, followers) ==
             [type |-> Route[Head(requests).p.type], ok |-> ok, groups |-> groups,
              peers |-> peers, followers |-> followers]
<1>0. requests # << >>
  BY DEF Serve, ServeRefusal, ServeLogin, ServeJoin, ServeSubscribe, ServeCreate, ServeQuery,
         ServeOther, NextRequest
<1>1. CASE ServeRefusal
  <2>1. A(FALSE, {}, {}, {}) \in Answer
    BY <1>0, AnswerTyped DEF ServiceOK
  <2>2. Answers(A(FALSE, {}, {}, {}))
    BY <1>0, <1>1 DEF ServeRefusal, Reply, Answers
  <2>3. LogsInOnly(A(FALSE, {}, {}, {}))
    BY <1>1 DEF ServeRefusal, LogsInOnly, NextRequest, service, relations
  <2>4. ServiceOK'
    BY <1>1 DEF ServeRefusal, ServiceOK, service, relations
  <2>5. QED
    BY <2>1, <2>2, <2>3, <2>4
<1>2. CASE ServeLogin
  <2>1. A(TRUE, {}, {}, {}) \in Answer
    BY <1>0, AnswerTyped DEF ServiceOK
  <2>2. Answers(A(TRUE, {}, {}, {}))
    BY <1>0, <1>2 DEF ServeLogin, Reply, Answers
  <2>3. LogsInOnly(A(TRUE, {}, {}, {}))
    BY <1>2 DEF ServeLogin, LogsInOnly, NextRequest, service, relations
  <2>4. ServiceOK'
    BY <1>2 DEF ServeLogin, ServiceOK, service, relations
  <2>5. QED
    BY <2>1, <2>2, <2>3, <2>4
<1>3. CASE ServeJoin
  <2>1. A(TRUE, {}, {}, {}) \in Answer
    BY <1>0, AnswerTyped DEF ServiceOK
  <2>2. Answers(A(TRUE, {}, {}, {}))
    BY <1>0, <1>3 DEF ServeJoin, Reply, Answers
  <2>3. LogsInOnly(A(TRUE, {}, {}, {}))
    BY <1>3 DEF ServeJoin, LogsInOnly, NextRequest, service, relations
  <2>4. ServiceOK'
    BY <1>3 DEF ServeJoin, ServiceOK, service, relations
  <2>5. QED
    BY <2>1, <2>2, <2>3, <2>4
<1>4. CASE ServeSubscribe
  <2>1. PICK found \in SUBSET (IF Head(requests).p.op \in {0, 1}
                              THEN Head(requests).p.peers \cap Peers ELSE {}) :
           /\ ownSubscribe' = IF Head(requests).p.op = 0 THEN ownSubscribe \cup found
                                                        ELSE ownSubscribe \ found
           /\ Reply(TRUE, {}, found, {})
    BY <1>4 DEF ServeSubscribe
  <2>2. found \in SUBSET Peers
    OBVIOUS
  <2>3. A(TRUE, {}, found, {}) \in Answer
    BY <1>0, <2>2, AnswerTyped
  <2>4. Answers(A(TRUE, {}, found, {}))
    BY <1>0, <2>1 DEF Reply, Answers
  <2>5. LogsInOnly(A(TRUE, {}, found, {}))
    BY <1>4 DEF ServeSubscribe, LogsInOnly, NextRequest
  <2>6. ServiceOK'
    BY <1>4, <2>1, <2>2 DEF ServeSubscribe, ServiceOK
  <2>7. QED
    BY <2>3, <2>4, <2>5, <2>6
<1>5. CASE ServeCreate
  <2>1. PICK g \in Groups : GGroupMap' = GGroupMap \cup {g} /\ Reply(TRUE, {g}, {}, {})
    BY <1>5 DEF ServeCreate
  <2>2. A(TRUE, {g}, {}, {}) \in Answer
    BY <1>0, AnswerTyped
  <2>3. Answers(A(TRUE, {g}, {}, {}))
    BY <1>0, <2>1 DEF Reply, Answers
  <2>4. LogsInOnly(A(TRUE, {g}, {}, {}))
    BY <1>5 DEF ServeCreate, LogsInOnly, NextRequest
  <2>5. ServiceOK'
    BY <1>5, <2>1 DEF ServeCreate, ServiceOK, relations
  <2>6. QED
    BY <2>2, <2>3, <2>4, <2>5
<1>6. CASE ServeQuery
  <2>1. A(TRUE, ownJoinGroup \cap GGroupMap, ownSubscribe, subscribe) \in Answer
    BY <1>0, AnswerTyped DEF ServiceOK
  <2>2. Answers(A(TRUE, ownJoinGroup \cap GGroupMap, ownSubscribe, subscribe))
    BY <1>0, <1>6 DEF ServeQuery, Reply, Answers
  <2>3. LogsInOnly(A(TRUE, ownJoinGroup \cap GGroupMap, ownSubscribe, subscribe))
    BY <1>6 DEF ServeQuery, LogsInOnly, NextRequest, service, relations
  <2>4. ServiceOK'
    BY <1>6 DEF ServeQuery, ServiceOK, service, relations
  <2>5. QED
    BY <2>1, <2>2, <2>3, <2>4
<1>7. CASE ServeOther
  <2>1. A(TRUE, {}, {}, {}) \in Answer
    BY <1>0, AnswerTyped DEF ServiceOK
  <2>2. Answers(A(TRUE, {}, {}, {}))
    BY <1>0, <1>7 DEF ServeOther, Reply, Answers
  <2>3. LogsInOnly(A(TRUE, {}, {}, {}))
    BY <1>7 DEF ServeOther, LogsInOnly, NextRequest, service, relations
  <2>4. ServiceOK'
    BY <1>7 DEF ServeOther, ServiceOK, service, relations
  <2>5. QED
    BY <2>1, <2>2, <2>3, <2>4
<1>8. QED
  BY <1>1, <1>2, <1>3, <1>4, <1>5, <1>6, <1>7 DEF Serve

\* and a reply keeps the types of the goroutines and of the wire.
LEMMA AnswersTyped ==
  ASSUME GoroutinesOK, WireOK, InLine, NEW a \in Answer, Answers(a)
  PROVE  GoroutinesOK' /\ WireOK'
<1> DEFINE r == Head(requests)
<1>1. /\ 1 \in DOMAIN requests /\ r = requests[1] /\ r \in Request
      /\ Tail(requests) \in Seq(Request)
  BY DEF WireOK, Answers
<1>2. r.to \in Threads => packet[r.to] \in Packet
  <2>1. r.to \in Threads => r.to # None
    BY DaemonAssumption DEF Threads
  <2>2. r.p \in Packet
    BY <1>1 DEF Request
  <2>3. QED
    BY <1>1, <2>1, <2>2 DEF InLine
<1>3. WireOK'
  BY <1>1 DEF WireOK, Answers
<1> HIDE DEF r
<1>4. /\ pc' = [t \in Threads |-> IF t = r.to THEN "got" ELSE pc[t]]
      /\ answer' = [t \in Threads |-> IF t = r.to THEN a ELSE answer[t]]
      /\ UNCHANGED <<packet, line>>
  BY DEF Answers, r
<1>5. GoroutinesOK'
  BY <1>2, <1>4 DEF GoroutinesOK
<1>6. QED
  BY <1>3, <1>5

\* What is asked for once nobody waits for it is a sequence of requests.
LEMMA GivenUpTyped ==
  ASSUME requests \in Seq(Request), NEW t \in Threads
  PROVE  /\ GivenUp(t) \in Seq(Request) /\ DOMAIN GivenUp(t) = DOMAIN requests
         /\ \A i \in DOMAIN requests :
               /\ GivenUp(t)[i].p = requests[i].p
               /\ GivenUp(t)[i].to = IF requests[i].to = t THEN None ELSE requests[i].to
<1>1. \A i \in DOMAIN requests : requests[i] \in Request
  BY ElementOfSeq
<1>2. \A i \in DOMAIN requests :
        /\ GivenUp(t)[i] \in Request /\ GivenUp(t)[i].p = requests[i].p
        /\ GivenUp(t)[i].to = IF requests[i].to = t THEN None ELSE requests[i].to
  BY <1>1 DEF GivenUp, Request
<1>3. DOMAIN GivenUp(t) = 1 .. Len(requests) /\ Len(requests) \in Nat
      /\ GivenUp(t) = [i \in 1 .. Len(requests) |-> GivenUp(t)[i]]
      /\ DOMAIN requests = 1 .. Len(requests)
  BY DEF GivenUp
<1>4. GivenUp(t) \in [1 .. Len(requests) -> Request]
  BY <1>2, <1>3
<1>5. GivenUp(t) \in Seq(Request)
  BY <1>3, <1>4, SeqDef
<1>6. QED
  BY <1>2, <1>3, <1>5

\* A connection that goes keeps the types of the wire and of the service.
LEMMA DisconnectedTyped ==
  ASSUME ServiceOK, Disconnected, UNCHANGED GGroupMap
  PROVE  WireOK' /\ ServiceOK'
<1>1. << >> \in Seq(Request)
  BY EmptySeq
<1>2. << >> \in Seq(Note)
  BY EmptySeq
<1>3. WireOK'
  BY <1>1, <1>2 DEF Disconnected, WireOK
<1>4. ServiceOK'
  BY DEF Disconnected, ServiceOK
<1>5. QED
  BY <1>3, <1>4

\* Every step keeps the types.
LEMMA StepType ==
  ASSUME DaemonTypeOK, InLine, [Next]_vars
  PROVE  DaemonTypeOK'
<1> DEFINE TypedNext == /\ UserOK' /\ GoroutinesOK' /\ WireOK' /\ ServiceOK'
                        /\ muddled' \in BOOLEAN
<1> SUFFICES TypedNext
  BY TypeParts
<1>0. /\ UserOK /\ GoroutinesOK /\ WireOK /\ ServiceOK
      /\ muddled \in BOOLEAN
  BY TypeParts
<1> USE <1>0
<1> HIDE DEF TypedNext
<1>1. ASSUME NEW s \in Slots, NEW lp \in Lines, Arrive(s, lp)
      PROVE  TypedNext
  <2>1. PICK h \in Headers(lp) : h.command \in Remote /\ \E p \in Packets(h) : ToSend(s, p, Own)
    BY <1>1 DEF Arrive
  <2>2. PICK p \in Packets(h) : ToSend(s, p, Own)
    BY <2>1
  <2>3. p \in Packet
    BY <2>1, PacketsTyped, DaemonAssumption
  <2>4. GoroutinesOK'
    BY <2>2, <2>3, ToSendTyped DEF UserOK, Threads
  <2>5. muddled' \in BOOLEAN
    BY <1>1 DEF Arrive
  <2>6. QED
    BY <1>1, <2>4, <2>5 DEF Arrive, TypedNext, UserOK, WireOK, ServiceOK, user, lists, goroutines, wire, service, relations
<1>2. ASSUME NEW s \in Slots, NEW lp \in Lines, Refuse(s, lp)
      PROVE  TypedNext
  <2>1. GoroutinesOK'
    BY <1>2, DaemonAssumption DEF Refuse, GoroutinesOK, Threads
  <2>2. QED
    BY <1>2, <2>1 DEF Refuse, TypedNext, UserOK, WireOK, ServiceOK, user, lists, goroutines, wire, service, relations
<1>3. ASSUME NEW s \in Slots, NEW lp \in Lines, Reset(s, lp)
      PROVE  TypedNext
  <2>1. GoroutinesOK'
    BY <1>3 DEF Reset, GoroutinesOK, Threads
  <2>2. WireOK' /\ ServiceOK'
    BY <1>3, DisconnectedTyped DEF Reset
  <2>3. QED
    BY <1>3, <2>1, <2>2 DEF Reset, TypedNext, UserOK, user, lists
<1>4. ASSUME NEW t \in Threads, EndRefusal(t)
      PROVE  TypedNext
  <2>1. GoroutinesOK'
    BY <1>4 DEF EndRefusal, GoroutinesOK
  <2>2. QED
    BY <1>4, <2>1 DEF EndRefusal, TypedNext, UserOK, WireOK, ServiceOK, user, lists, goroutines, wire, service, relations
<1>5. ASSUME Tick
      PROVE  TypedNext
  <2>1. SelfRelationRQ \in Packet
    BY DEF SelfRelationRQ, Blank, Packet, PacketTypes, AnswerTypes
  <2>2. GoroutinesOK'
    BY <1>5, <2>1, ToSendTyped DEF Tick, UserOK, Threads
  <2>3. QED
    BY <1>5, <2>2 DEF Tick, TypedNext, UserOK, WireOK, ServiceOK, user, lists, goroutines, wire, service, relations
<1>6. ASSUME NEW t \in Threads, Send(t)
      PROVE  TypedNext
  <2>1. GoroutinesOK'
    BY <1>6 DEF Send, GoroutinesOK
  <2>2. [to |-> t, p |-> packet[t]] \in Request
    BY <1>6 DEF Send, GoroutinesOK, Request
  <2>3. WireOK'
    BY <1>6, <2>2 DEF Send, WireOK
  <2>4. QED
    BY <1>6, <2>1, <2>3 DEF Send, TypedNext, UserOK, ServiceOK, user, lists, goroutines, wire, service, relations
<1>7. ASSUME NEW t \in Threads, SendFails(t)
      PROVE  TypedNext
  <2>1. t \in Threads /\ Done(t)
    BY <1>7 DEF SendFails, Threads
  <2>2. GoroutinesOK'
    BY <2>1, DoneTyped
  <2>3. QED
    BY <1>7, <2>2 DEF SendFails, TypedNext, UserOK, WireOK, ServiceOK, user, lists, goroutines, wire, service, relations
<1>8. ASSUME NEW t \in Threads, TimeOut(t)
      PROVE  TypedNext
  <2>1. t \in Threads /\ Done(t)
    BY <1>8 DEF TimeOut, Threads
  <2>2. GoroutinesOK'
    BY <2>1, DoneTyped
  <2>3. QED
    BY <1>8, <2>2 DEF TimeOut, TypedNext, UserOK, WireOK, ServiceOK, user, lists, goroutines, wire, service, relations
<1>9. ASSUME NEW t \in Threads, TooLate(t)
      PROVE  TypedNext
  <2>1. Done(t)
    BY <1>9 DEF TooLate
  <2>2. GoroutinesOK'
    BY <2>1, DoneTyped
  <2>3. WireOK'
    BY <1>9, GivenUpTyped DEF TooLate, WireOK
  <2>4. muddled' \in BOOLEAN
    BY <1>9 DEF TooLate
  <2>5. QED
    BY <1>9, <2>2, <2>3, <2>4 DEF TooLate, TypedNext, UserOK, ServiceOK, user, lists, goroutines, wire, service, relations
<1>10. ASSUME NEW t \in Threads, FinishLogin(t)
      PROVE  TypedNext
  <2>1. packet[t] \in Packet
    BY <1>10 DEF FinishLogin, Got, GoroutinesOK
  <2>2. Own' \in Int
    BY <1>10, <2>1 DEF FinishLogin, Packet
  <2>3. SelfRelationRQ \in Packet
    BY DEF SelfRelationRQ, Blank, Packet, PacketTypes, AnswerTypes
  <2>4. ToSend(t, SelfRelationRQ, Own')
    BY <1>10 DEF FinishLogin
  <2>5. GoroutinesOK'
    BY <2>2, <2>3, <2>4, ToSendTyped
  <2>6. QED
    BY <1>10, <2>2, <2>5 DEF FinishLogin, TypedNext, UserOK, WireOK, ServiceOK, user, lists, goroutines, wire, service, relations
<1>11. ASSUME NEW t \in Threads, FinishJoin(t)
      PROVE  TypedNext
  <2>1. t \in Threads /\ Done(t)
    BY <1>11 DEF FinishJoin, Threads
  <2>2. GoroutinesOK'
    BY <2>1, DoneTyped
  <2>3. packet[t] \in Packet /\ answer[t] \in Answer
    BY <1>11 DEF FinishJoin, Got, GoroutinesOK
  <2>4. UserOK'
    BY <1>11, <2>3, DaemonAssumption DEF FinishJoin, UserOK, user, Packet, Answer
  <2>5. QED
    BY <1>11, <2>2, <2>4 DEF FinishJoin, TypedNext, UserOK, WireOK, ServiceOK, user, lists, goroutines, wire, service, relations
<1>12. ASSUME NEW t \in Threads, FinishSubscribe(t)
      PROVE  TypedNext
  <2>1. t \in Threads /\ Done(t)
    BY <1>12 DEF FinishSubscribe, Threads
  <2>2. GoroutinesOK'
    BY <2>1, DoneTyped
  <2>3. packet[t] \in Packet /\ answer[t] \in Answer
    BY <1>12 DEF FinishSubscribe, Got, GoroutinesOK
  <2>4. UserOK'
    BY <1>12, <2>3, DaemonAssumption DEF FinishSubscribe, UserOK, user, Packet, Answer
  <2>5. QED
    BY <1>12, <2>2, <2>4 DEF FinishSubscribe, TypedNext, UserOK, WireOK, ServiceOK, user, lists, goroutines, wire, service, relations
<1>13. ASSUME NEW t \in Threads, FinishCreate(t)
      PROVE  TypedNext
  <2>1. t \in Threads /\ Done(t)
    BY <1>13 DEF FinishCreate, Threads
  <2>2. GoroutinesOK'
    BY <2>1, DoneTyped
  <2>3. packet[t] \in Packet /\ answer[t] \in Answer
    BY <1>13 DEF FinishCreate, Got, GoroutinesOK
  <2>4. UserOK'
    BY <1>13, <2>3, DaemonAssumption DEF FinishCreate, UserOK, user, Packet, Answer
  <2>5. QED
    BY <1>13, <2>2, <2>4 DEF FinishCreate, TypedNext, UserOK, WireOK, ServiceOK, user, lists, goroutines, wire, service, relations
<1>14. ASSUME NEW t \in Threads, FinishShown(t)
      PROVE  TypedNext
  <2>1. t \in Threads /\ Done(t)
    BY <1>14 DEF FinishShown, Threads
  <2>2. GoroutinesOK'
    BY <2>1, DoneTyped
  <2>3. QED
    BY <1>14, <2>2 DEF FinishShown, TypedNext, UserOK, WireOK, ServiceOK, user, lists, goroutines, wire, service, relations
<1>15. ASSUME NEW t \in Threads, ClearLists(t)
      PROVE  TypedNext
  <2>1. GoroutinesOK'
    BY <1>15 DEF ClearLists, Got, GoroutinesOK
  <2>2. UserOK'
    BY <1>15 DEF ClearLists, Emptied, UserOK, user
  <2>3. QED
    BY <1>15, <2>1, <2>2 DEF ClearLists, TypedNext, UserOK, WireOK, ServiceOK, user, lists, goroutines, wire, service, relations
<1>16. ASSUME NEW t \in Threads, StoreLists(t)
      PROVE  TypedNext
  <2>1. t \in Threads /\ Done(t)
    BY <1>16 DEF StoreLists, Threads
  <2>2. GoroutinesOK'
    BY <2>1, DoneTyped
  <2>3. answer[t] \in Answer
    BY <1>16 DEF StoreLists, GoroutinesOK
  <2>4. UserOK'
    BY <1>16, <2>3, DaemonAssumption DEF StoreLists, UserOK, user, Answer
  <2>5. QED
    BY <1>16, <2>2, <2>4 DEF StoreLists, TypedNext, UserOK, WireOK, ServiceOK, user, lists, goroutines, wire, service, relations
<1>17. ASSUME HandleNote
      PROVE  TypedNext
  <2>1. Head(notes) \in Note /\ Tail(notes) \in Seq(Note)
    BY <1>17 DEF HandleNote, WireOK
  <2>2. UserOK'
    BY <1>17, <2>1 DEF HandleNote, Note, UserOK, user
  <2>3. WireOK'
    BY <1>17, <2>1 DEF HandleNote, WireOK
  <2>4. QED
    BY <1>17, <2>2, <2>3 DEF HandleNote, TypedNext, GoroutinesOK, ServiceOK, user, lists, goroutines, wire, service, relations
<1>18. ASSUME Drop
      PROVE  TypedNext
  <2>1. GoroutinesOK'
    BY <1>18 DEF Drop, GoroutinesOK
  <2>2. WireOK' /\ ServiceOK'
    BY <1>18, DisconnectedTyped DEF Drop
  <2>3. QED
    BY <1>18, <2>1, <2>2 DEF Drop, TypedNext, UserOK, user, lists
<1>19. ASSUME NEW t \in Threads, Dial(t)
      PROVE  TypedNext
  <2>1. t \in Threads /\ Done(t)
    BY <1>19 DEF Dial, Threads
  <2>2. GoroutinesOK'
    BY <2>1, DoneTyped
  <2>3. QED
    BY <1>19, <2>2 DEF Dial, TypedNext, UserOK, WireOK, ServiceOK, user, lists, goroutines, wire, service, relations
<1>20. ASSUME Serve
      PROVE  TypedNext
  <2>1. PICK a \in Answer : Answers(a)
    BY <1>20, ServeAnswers
  <2>2. GoroutinesOK' /\ WireOK'
    BY <2>1, AnswersTyped
  <2>3. ServiceOK'
    BY <1>20, ServeAnswers
  <2>4. QED
    BY <2>1, <2>2, <2>3 DEF Answers, TypedNext, UserOK, user, lists
<1>21. ASSUME NEW q \in Peers, NEW op \in {0, 1}, PeerFollows(q, op)
      PROVE  TypedNext
  <2>1. WireOK'
    BY <1>21 DEF PeerFollows, Note, WireOK
  <2>2. QED
    BY <1>21, <2>1 DEF PeerFollows, TypedNext, UserOK, GoroutinesOK, ServiceOK, user, lists, goroutines, wire, service, relations
<1>22. ASSUME NEW q \in Peers, PeerCancels(q)
      PROVE  TypedNext
  <2>1. ServiceOK'
    BY <1>22 DEF PeerCancels, ServiceOK, relations
  <2>2. QED
    BY <1>22, <2>1 DEF PeerCancels, TypedNext, UserOK, GoroutinesOK, WireOK, user, lists, goroutines, wire, service, relations
<1>23. ASSUME NEW g \in Groups, GroupComes(g)
      PROVE  TypedNext
  <2>1. ServiceOK'
    BY <1>23 DEF GroupComes, ServiceOK, relations
  <2>2. QED
    BY <1>23, <2>1 DEF GroupComes, TypedNext, UserOK, GoroutinesOK, WireOK, user, lists, goroutines, wire, service, relations
<1>24. ASSUME NEW g \in Groups, GroupGoes(g)
      PROVE  TypedNext
  <2>1. ServiceOK'
    BY <1>24 DEF GroupGoes, ServiceOK, relations
  <2>2. QED
    BY <1>24, <2>1 DEF GroupGoes, TypedNext, UserOK, GoroutinesOK, WireOK, user, lists, goroutines, wire, service, relations
<1>25. ASSUME NEW q \in Peers, PeerReaped(q)
      PROVE  TypedNext
  <2>1. WireOK'
    BY <1>25 DEF PeerReaped, Note, WireOK
  <2>2. QED
    BY <1>25, <2>1 DEF PeerReaped, TypedNext, UserOK, GoroutinesOK, ServiceOK, user, lists, goroutines, wire, service, relations
<1>26. CASE UNCHANGED vars
  BY <1>26 DEF vars, TypedNext, UserOK, GoroutinesOK, WireOK, ServiceOK, user, lists, goroutines, wire, service, relations
<1> QED
  BY <1>1, <1>2, <1>3, <1>4, <1>5, <1>6, <1>7, <1>8, <1>9, <1>10, <1>11, <1>12, <1>13, <1>14, <1>15, <1>16, <1>17, <1>18, <1>19, <1>20, <1>21, <1>22, <1>23, <1>24, <1>25, <1>26
     DEF Next, Type, Run, Mishap, PeersAct
-----------------------------------------------------------------------------
(* Whom the daemon speaks for.  The steps are few as far as this goes.     *)

\* A goroutine is given something to ask for.
Starts(t, p) ==
  /\ pc[t] = "idle" /\ p \in Packet /\ p.rsp = Route[p.type]
  /\ p.type \in OnBehalf => IsLogin
  /\ ToSend(t, p, Own)
  /\ muddled' = (muddled \/ Overlaps(p))
  /\ UNCHANGED <<user, requests, self>>

\* A goroutine neither waits any more nor has a login to deal with.
Ends(t) ==
  /\ ~(pc[t] = "wait" /\ InFlight(t)) /\ ~Got(t, "LoginRQ")
  /\ \E x \in {"idle", "refused", "store", "closed"} : pc' = [pc EXCEPT ![t] = x]
  /\ \A u \in Threads \ {t} : packet'[u] = packet[u] /\ answer'[u] = answer[u]
  /\ UNCHANGED <<user, requests, self, muddled>>

\* The connection is lost, and some of what has been answered with it.
Breaks ==
  /\ requests' = << >> /\ self' = None
  /\ \A t \in Threads : \/ pc'[t] = pc[t] /\ answer'[t] = answer[t]
                        \/ pc[t] = "got" /\ pc'[t] = "wait"
                        \/ pc[t] = "idle" /\ pc'[t] = "closed"
  /\ UNCHANGED <<user, packet, muddled>>

Quiet == UNCHANGED <<user, pc, packet, answer, requests, self, muddled>>

\* The answer type asked for is the one the service answers with.
LEMMA Routed ==
  ASSUME NEW h, h.command \in Remote, NEW p \in Packets(h)
  PROVE  /\ p.rsp = Route[p.type]
         /\ p.type \in OnBehalf => NeedsLogin(h)
<1>1. CASE h.command = "register"
  <2>1. p.type = "RegisterRQ" /\ p.rsp = "RegisterRS"
    BY <1>1 DEF Packets, RegisterRQ, Blank
  <2>2. QED
    BY <1>1, <2>1 DEF Route, OnBehalf, NeedsLogin
<1>2. CASE h.command = "login"
  <2>1. p.type = "LoginRQ" /\ p.rsp = "LoginRS"
    BY <1>2 DEF Packets, LoginRQ, Blank
  <2>2. QED
    BY <1>2, <2>1 DEF Route, OnBehalf, NeedsLogin
<1>3. CASE h.command = "join"
  <2>1. p.type = "JoinGroupRQ" /\ p.rsp = "JoinGroupRS"
    BY <1>3 DEF Packets, JoinGroupRQ, Blank
  <2>2. QED
    BY <1>3, <2>1 DEF Route, OnBehalf, NeedsLogin
<1>4. CASE h.command = "subscribePersonal"
  <2>1. p.type = "SubscribePersonalMsgRQ" /\ p.rsp = "SubscribePersonalMsgRS"
    BY <1>4 DEF Packets, SubscribePersonRQ, Subscription, Blank
  <2>2. QED
    BY <1>4, <2>1 DEF Route, OnBehalf, NeedsLogin
<1>5. CASE h.command = "cancelAllSubscribe"
  <2>1. p.type = "CancelSubscribeAllRQ" /\ p.rsp = "CancelSubscribeAllRS"
    BY <1>5 DEF Packets, CancelSubscribeAllRQ, Blank
  <2>2. QED
    BY <1>5, <2>1 DEF Route, OnBehalf, NeedsLogin
<1>6. CASE h.command = "sendToPersonal"
  <2>1. p.type = "SendToPersonalRQ" /\ p.rsp = "SendToPersonalRS"
    BY <1>6 DEF Packets, SendToPersonalRQ, Blank
  <2>2. QED
    BY <1>6, <2>1 DEF Route, OnBehalf, NeedsLogin
<1>7. CASE h.command = "sendToGroup"
  <2>1. p.type = "SendToGroupRQ" /\ p.rsp = "SendToGroupRS"
    BY <1>7 DEF Packets, SendToTempGroupRQ, Blank
  <2>2. QED
    BY <1>7, <2>1 DEF Route, OnBehalf, NeedsLogin
<1>8. CASE h.command = "createGroup"
  <2>1. p.type = "CreateGroupRQ" /\ p.rsp = "CreateGroupRS"
    BY <1>8 DEF Packets, CreateTempGroupRQ, Blank
  <2>2. QED
    BY <1>8, <2>1 DEF Route, OnBehalf, NeedsLogin
<1>9. CASE h.command = "GroupMembers"
  <2>1. p.type = "GroupMemberRQ" /\ p.rsp = "GroupMemberRS"
    BY <1>9 DEF Packets, GroupMembersRQ, Blank
  <2>2. QED
    BY <1>9, <2>1 DEF Route, OnBehalf, NeedsLogin
<1>10. CASE h.command = "SendToWorld"
  <2>1. p = Blank("SendWorldMsgRQ", "SendWorldMsgRS")
    BY <1>10 DEF Packets, SendWorldMessageRQ
  <2>2. p.type = "SendWorldMsgRQ" /\ p.rsp = "SendWorldMsgRS"
    BY <2>1 DEF Blank
  <2>3. QED
    BY <1>10, <2>2 DEF Route, OnBehalf, NeedsLogin
<1>11. QED
  BY <1>1, <1>2, <1>3, <1>4, <1>5, <1>6, <1>7, <1>8, <1>9, <1>10 DEF Remote, Commands

\* Every step is one of these.
LEMMA StepShape ==
  ASSUME DaemonTypeOK, [Next]_vars
  PROVE  \/ Quiet \/ Breaks
         \/ \E t \in Threads : \/ \E p \in Packet : Starts(t, p)
                               \/ Send(t) \/ Ends(t) \/ TooLate(t) \/ FinishLogin(t)
         \/ \E a \in Answer : Answers(a) /\ LogsInOnly(a)
<1> DEFINE Shape == \/ Quiet \/ Breaks
                    \/ \E t \in Threads : \/ \E p \in Packet : Starts(t, p)
                                          \/ Send(t) \/ Ends(t) \/ TooLate(t) \/ FinishLogin(t)
                    \/ \E a \in Answer : Answers(a) /\ LogsInOnly(a)
<1> SUFFICES Shape
  OBVIOUS
<1>0. /\ UserOK /\ GoroutinesOK /\ WireOK /\ ServiceOK
      /\ muddled \in BOOLEAN
  BY TypeParts
<1>1. ASSUME NEW s \in Slots, NEW lp \in Lines, Arrive(s, lp)
      PROVE  Shape
  <2>1. PICK h \in Headers(lp) : /\ h.command \in Remote /\ Permitted(h)
                                 /\ \E p \in Packets(h) : /\ ToSend(s, p, Own)
                                                          /\ muddled' = (muddled \/ Overlaps(p))
    BY <1>1 DEF Arrive
  <2>2. PICK p \in Packets(h) : ToSend(s, p, Own) /\ muddled' = (muddled \/ Overlaps(p))
    BY <2>1
  <2>3. p \in Packet
    BY <2>1, PacketsTyped, DaemonAssumption
  <2>4. p.rsp = Route[p.type] /\ (p.type \in OnBehalf => IsLogin)
    BY <2>1, Routed DEF Permitted
  <2>5. pc[s] = "idle" /\ UNCHANGED <<user, requests, self>>
    BY <1>1 DEF Arrive, wire, service
  <2>6. s \in Threads
    BY DEF Threads
  <2>7. Starts(s, p)
    BY <2>2, <2>3, <2>4, <2>5 DEF Starts
  <2>8. QED
    BY <2>3, <2>6, <2>7
<1>2. CASE Tick
  <2>1. SelfRelationRQ \in Packet
    BY DEF SelfRelationRQ, Blank, Packet, PacketTypes, AnswerTypes
  <2>2. SelfRelationRQ.type = "SelfRelationRQ" /\ SelfRelationRQ.rsp = "SelfRelationRS"
    BY DEF SelfRelationRQ, Blank
  <2>3. ~Overlaps(SelfRelationRQ) /\ SelfRelationRQ.type \notin OnBehalf
    BY <2>2 DEF Overlaps, OnBehalf
  <2>4. SelfRelationRQ.rsp = Route[SelfRelationRQ.type]
    BY <2>2 DEF Route
  <2>5. muddled' = (muddled \/ Overlaps(SelfRelationRQ))
    BY <1>0, <1>2, <2>3 DEF Tick
  <2>6. Starts(Ticker, SelfRelationRQ)
    BY <1>2, <2>1, <2>3, <2>4, <2>5 DEF Tick, Starts, wire, service
  <2>7. QED
    BY <2>1, <2>6 DEF Threads
<1>3. ASSUME NEW t \in Threads,
             \/ \E lp \in Lines : Refuse(t, lp)
             \/ EndRefusal(t) \/ SendFails(t) \/ TimeOut(t) \/ FinishJoin(t)
             \/ FinishSubscribe(t) \/ FinishCreate(t) \/ FinishShown(t) \/ ClearLists(t)
             \/ StoreLists(t) \/ Dial(t)
      PROVE  Shape
  <2>1. CASE \E lp \in Lines : Refuse(t, lp)
    <3>1. Ends(t)
      BY <2>1 DEF Refuse, Ends, Got, wire, service
    <3>2. QED
      BY <3>1
  <2>2. CASE EndRefusal(t)
    <3>1. Ends(t)
      BY <2>2 DEF EndRefusal, Ends, Got, wire, service
    <3>2. QED
      BY <3>1
  <2>3. ASSUME Done(t), UNCHANGED <<user, requests, self, muddled>>,
               ~(pc[t] = "wait" /\ InFlight(t)), ~Got(t, "LoginRQ")
        PROVE  Shape
    <3>1. \A u \in Threads \ {t} : packet'[u] = packet[u] /\ answer'[u] = answer[u]
      BY <1>0, <2>3 DEF Done, GoroutinesOK
    <3>2. Ends(t)
      BY <2>3, <3>1 DEF Done, Ends
    <3>3. QED
      BY <3>2
  <2>4. CASE SendFails(t)
    BY <2>3, <2>4 DEF SendFails, Got, wire, service
  <2>5. CASE TimeOut(t)
    BY <2>3, <2>5 DEF TimeOut, Hopeless, Got, wire, service
  <2>6. CASE FinishJoin(t)
    BY <2>3, <2>6 DEF FinishJoin, Got, wire, service
  <2>7. CASE FinishSubscribe(t)
    BY <2>3, <2>7 DEF FinishSubscribe, Got, wire, service
  <2>8. CASE FinishCreate(t)
    BY <2>3, <2>8 DEF FinishCreate, Got, wire, service
  <2>9. CASE FinishShown(t)
    BY <2>3, <2>9 DEF FinishShown, Got, wire, service
  <2>10. CASE ClearLists(t)
    <3>1. Ends(t)
      BY <2>10 DEF ClearLists, Ends, Got, wire, service
    <3>2. QED
      BY <3>1
  <2>11. CASE StoreLists(t)
    BY <2>3, <2>11 DEF StoreLists, Got, wire, service
  <2>12. CASE Dial(t)
    BY <2>3, <2>12 DEF Dial, Got, service
  <2>13. QED
    BY <1>3, <2>1, <2>2, <2>4, <2>5, <2>6, <2>7, <2>8, <2>9, <2>10, <2>11, <2>12
<1>4. CASE Drop
  <2>1. Breaks
    BY <1>0, <1>4 DEF Drop, Disconnected, Breaks, GoroutinesOK
  <2>2. QED
    BY <2>1
<1>5. ASSUME NEW s \in Slots, NEW lp \in Lines, Reset(s, lp)
      PROVE  Shape
  <2>1. Breaks
    BY <1>0, <1>5 DEF Reset, Disconnected, Breaks, GoroutinesOK, Threads
  <2>2. QED
    BY <2>1
<1>6. CASE Serve
  BY <1>0, <1>6, ServeAnswers
<1>7. CASE HandleNote \/ PeersAct
  <2>1. Quiet
    BY <1>7 DEF HandleNote, PeersAct, PeerFollows, PeerCancels, PeerReaped, GroupComes,
                GroupGoes, Quiet, goroutines, wire, service
  <2>2. QED
    BY <2>1
<1>8. CASE UNCHANGED vars
  <2>1. Quiet
    BY <1>8 DEF Quiet, vars, goroutines, wire, service
  <2>2. QED
    BY <2>1
<1> HIDE DEF Shape
<1>9. CASE \E t \in Threads : Run(t)
  <2>1. PICK t \in Threads : Run(t)
    BY <1>9
  <2>2. CASE Send(t) \/ FinishLogin(t)
    BY <2>2 DEF Shape
  <2>3. CASE ~(Send(t) \/ FinishLogin(t))
    BY <1>3, <2>1, <2>3 DEF Run
  <2>4. QED
    BY <2>2, <2>3
<1>10. CASE \E s \in Slots : Type(s)
  BY <1>1, <1>3, <1>5, <1>10 DEF Type, Threads
<1>11. CASE Mishap
  BY <1>4, <1>11 DEF Mishap, Shape
<1>12. QED
  BY <1>2, <1>6, <1>7, <1>8, <1>9, <1>10, <1>11 DEF Next

\* A goroutine is busy with a login.
LoginBusy(t) == Busy(t, {"send", "wait", "got"}, {"LoginRQ"})

\* Answers are of the type that was asked for.
AnswersFit ==
  \A t \in Threads :
    /\ pc[t] \in {"send", "wait", "got"} => packet[t].rsp = Route[packet[t].type]
    /\ pc[t] = "got" => answer[t].type = Route[packet[t].type]

\* There is one login at a time, ...
OneLogin == \A t, u \in Threads : LoginBusy(t) /\ LoginBusy(u) => t = u
\* ... and somebody waits for it, ...
LoginsAwaited == \A i \in DOMAIN requests : requests[i].p.type = "LoginRQ" => requests[i].to # None
\* ... unless it is lost with the connection; ...
LostLogin == \A t \in Threads : Busy(t, {"wait"}, {"LoginRQ"}) /\ ~InFlight(t) => self = None
\* ... one that is granted is the latest there was.
GrantedLogin ==
  \A t \in Threads : Busy(t, {"got"}, {"LoginRQ"}) /\ answer[t].ok => self \in {None, packet[t].own}
\* The daemon knows whom the service takes the user for, or is about to.
Settled ==
  self # None => \/ IsLogin /\ Own = self
                 \/ \E t \in Threads : Busy(t, {"got"}, {"LoginRQ"}) /\ answer[t].ok

\* A login and a request on behalf of the user are not sent at once, ...
Apart == \A t, u \in Threads : ~(Busy(t, {"send"}, OnBehalf) /\ LoginBusy(u))
\* ... nor one behind the other.
Behind ==
  \A i, j \in DOMAIN requests :
    i < j /\ requests[i].p.type = "LoginRQ" => requests[j].p.type \notin OnBehalf
\* What is asked on behalf of the user, in line or not yet sent, has his name.
SentForSelf ==
  self # None => \A t \in Threads : Busy(t, {"send"}, OnBehalf) => packet[t].own = self
AskedForSelf ==
  self # None => \A i \in DOMAIN requests :
                   requests[i].p.type \in OnBehalf => requests[i].p.own = self

Undisturbed ==
  /\ OneLogin /\ LoginsAwaited /\ LostLogin /\ GrantedLogin /\ Settled
  /\ Apart /\ Behind /\ SentForSelf /\ AskedForSelf

OwnInv == /\ DaemonTypeOK /\ InLine /\ AnswersFit
          /\ ~muddled => Undisturbed

\* Whoever is waited for in line is a goroutine.
LEMMA RequestTyped ==
  ASSUME DaemonTypeOK, NEW i \in DOMAIN requests
  PROVE  /\ requests[i].to \in Threads \cup {None} /\ requests[i].p \in Packet
         /\ i \in 1 .. Len(requests) /\ Len(requests) \in Nat
<1>1. requests \in Seq(Request)
  BY DEF DaemonTypeOK
<1>2. i \in 1 .. Len(requests) /\ Len(requests) \in Nat
  BY <1>1
<1>3. requests[i] \in Request
  BY <1>1, <1>2, ElementOfSeq
<1>4. QED
  BY <1>2, <1>3 DEF Request

\* Something new to ask for: a login, nothing else being asked for, or something
\* else, no login being under way.
LEMMA OwnStarts ==
  ASSUME OwnInv, NEW t \in Threads, NEW p \in Packet, Starts(t, p)
  PROVE  InLine' /\ AnswersFit' /\ (~muddled' => Undisturbed')
<1>1. /\ pc[t] = "idle" /\ pc'[t] = "send" /\ packet'[t] = Marshalled(p, Own)
      /\ \A u \in Threads : u # t => /\ pc'[u] = pc[u] /\ packet'[u] = packet[u]
                                     /\ answer'[u] = answer[u]
      /\ requests' = requests /\ self' = self /\ IsLogin' = IsLogin /\ Own' = Own
      /\ muddled' = (muddled \/ Overlaps(p))
      /\ p.rsp = Route[p.type] /\ (p.type \in OnBehalf => IsLogin)
  BY DEF OwnInv, DaemonTypeOK, Starts, ToSend, user
<1>2. /\ packet'[t].type = p.type /\ packet'[t].rsp = p.rsp
      /\ p.type \in OnBehalf => packet'[t].own = Own
  <2>1. Own \in Int
    BY DEF OwnInv, DaemonTypeOK
  <2>2. packet'[t] = Marshalled(p, Own)
    BY <1>1
  <2>3. QED
    BY <2>1, <2>2, MarshalledTyped
<1>3. \A i \in DOMAIN requests : requests[i].to # None => requests[i].to \in Threads \ {t}
  BY <1>1, RequestTyped DEF OwnInv, InLine
<1>4. InLine'
  BY <1>1, <1>3 DEF OwnInv, InLine
<1>5. AnswersFit'
  BY <1>1, <1>2 DEF OwnInv, AnswersFit
<1>6. ASSUME ~muddled'
      PROVE  Undisturbed'
  <2>1. Undisturbed /\ ~Overlaps(p)
    BY <1>1, <1>6 DEF OwnInv
  <2>2. /\ p.type \in OnBehalf \cup {"LoginRQ"} => \A u \in Threads : ~LoginBusy(u)
        /\ p.type = "LoginRQ" => \A u \in Threads : ~Busy(u, {"send"}, OnBehalf)
    BY <2>1 DEF Overlaps, LoginBusy
  <2>3. \A u \in Threads : InFlight(u)' <=> InFlight(u)
    BY <1>1 DEF InFlight
  <2>4. OneLogin'
    BY <1>1, <1>2, <2>1, <2>2 DEF Undisturbed, OneLogin, LoginBusy, Busy
  <2>5. LoginsAwaited' /\ Behind' /\ AskedForSelf'
    BY <1>1, <2>1 DEF Undisturbed, LoginsAwaited, Behind, AskedForSelf
  <2>6. LostLogin' /\ GrantedLogin'
    BY <1>1, <2>1, <2>3 DEF Undisturbed, LostLogin, GrantedLogin, Busy
  <2>7. Settled'
    BY <1>1, <2>1 DEF Undisturbed, Settled, Busy
  <2>8. Apart'
    BY <1>1, <1>2, <2>1, <2>2 DEF Undisturbed, Apart, LoginBusy, Busy, OnBehalf
  <2>9. SentForSelf'
    <3>1. self # None /\ p.type \in OnBehalf => Own = self
      BY <2>1, <2>2 DEF Undisturbed, Settled, LoginBusy, Busy
    <3>2. QED
      BY <1>1, <1>2, <2>1, <3>1 DEF Undisturbed, SentForSelf, Busy
  <2>10. QED
    BY <2>4, <2>5, <2>6, <2>7, <2>8, <2>9 DEF Undisturbed
<1>7. QED
  BY <1>4, <1>5, <1>6

\* A request is put in line: behind no login, when it is on behalf of the user.
LEMMA OwnSend ==
  ASSUME OwnInv, NEW t \in Threads, Send(t)
  PROVE  InLine' /\ AnswersFit' /\ (~muddled' => Undisturbed')
<1> DEFINE n == Len(requests)
<1>1. /\ pc[t] = "send" /\ pc'[t] = "wait"
      /\ \A u \in Threads : u # t => pc'[u] = pc[u]
      /\ packet' = packet /\ answer' = answer
      /\ self' = self /\ IsLogin' = IsLogin /\ Own' = Own /\ muddled' = muddled
  BY DEF OwnInv, DaemonTypeOK, Send, user, service
<1>2. /\ n \in Nat /\ DOMAIN requests = 1 .. n /\ DOMAIN requests' = 1 .. n + 1
      /\ \A i \in 1 .. n : requests'[i] = requests[i]
      /\ requests'[n + 1] = [to |-> t, p |-> packet[t]]
  <2>1. requests \in Seq(Request) /\ requests' = Append(requests, [to |-> t, p |-> packet[t]])
    BY DEF OwnInv, DaemonTypeOK, Send
  <2>2. QED
    BY <2>1
<1> HIDE DEF n
<1>3. \A i \in 1 .. n : requests[i].to # None => requests[i].to \in Threads \ {t}
  BY <1>1, <1>2, RequestTyped DEF OwnInv, InLine
<1>4. t # None
  BY DaemonAssumption DEF Threads
<1>5. /\ requests'[n + 1].to = t /\ requests'[n + 1].p = packet[t]
      /\ \A i \in 1 .. n + 1 : i \in 1 .. n \/ i = n + 1
  BY <1>2
<1>6. InLine'
  <2>1. ASSUME NEW i \in 1 .. n + 1, requests'[i].to # None
        PROVE  /\ pc'[requests'[i].to] = "wait"
               /\ packet'[requests'[i].to] = requests'[i].p
               /\ \A j \in 1 .. n + 1 : requests'[j].to = requests'[i].to => j = i
    <3>1. CASE i \in 1 .. n
      <4>1. /\ requests[i].to \in Threads \ {t} /\ pc[requests[i].to] = "wait"
            /\ packet[requests[i].to] = requests[i].p
            /\ \A j \in 1 .. n : requests[j].to = requests[i].to => j = i
        BY <1>2, <1>3, <2>1, <3>1 DEF OwnInv, InLine
      <4>2. QED
        BY <1>1, <1>2, <1>5, <3>1, <4>1
    <3>2. CASE i = n + 1
      BY <1>1, <1>2, <1>3, <1>4, <1>5, <3>2
    <3>3. QED
      BY <1>5, <3>1, <3>2
  <2>2. QED
    BY <1>2, <2>1 DEF InLine
<1>7. AnswersFit'
  BY <1>1 DEF OwnInv, AnswersFit
<1>8. ASSUME ~muddled'
      PROVE  Undisturbed'
  <2>1. Undisturbed
    BY <1>1, <1>8 DEF OwnInv
  <2>2. \A u \in Threads : InFlight(u)' <=> InFlight(u) \/ u = t
    BY <1>2, <1>5 DEF InFlight
  <2>3. \A u \in Threads : LoginBusy(u)' <=> LoginBusy(u)
    BY <1>1 DEF LoginBusy, Busy
  <2>4. OneLogin'
    BY <2>1, <2>3 DEF Undisturbed, OneLogin
  <2>5. LoginsAwaited'
    BY <1>2, <1>4, <1>5, <2>1 DEF Undisturbed, LoginsAwaited
  <2>6. LostLogin'
    <3>1. \A u \in Threads \ {t} : Busy(u, {"wait"}, {"LoginRQ"})' <=> Busy(u, {"wait"}, {"LoginRQ"})
      BY <1>1 DEF Busy
    <3>2. QED
      BY <1>1, <2>1, <2>2, <3>1 DEF Undisturbed, LostLogin
  <2>7. \A u \in Threads : Busy(u, {"got"}, {"LoginRQ"})' <=> Busy(u, {"got"}, {"LoginRQ"})
    BY <1>1 DEF Busy
  <2>8. GrantedLogin' /\ Settled'
    BY <1>1, <2>1, <2>7 DEF Undisturbed, GrantedLogin, Settled
  <2>9. \A u \in Threads : Busy(u, {"send"}, OnBehalf)' => Busy(u, {"send"}, OnBehalf)
    BY <1>1 DEF Busy
  <2>10. Apart'
    BY <2>1, <2>3, <2>9 DEF Undisturbed, Apart
  <2>11. SentForSelf'
    BY <1>1, <2>1, <2>9 DEF Undisturbed, SentForSelf
  <2>12. ASSUME packet[t].type \in OnBehalf
         PROVE  \A i \in 1 .. n : requests[i].p.type # "LoginRQ"
    <3>1. SUFFICES ASSUME NEW i \in 1 .. n, requests[i].p.type = "LoginRQ"
                   PROVE  FALSE
      OBVIOUS
    <3>2. requests[i].to # None
      BY <1>2, <2>1, <3>1 DEF Undisturbed, LoginsAwaited
    <3>3. /\ requests[i].to \in Threads /\ pc[requests[i].to] = "wait"
          /\ packet[requests[i].to] = requests[i].p
      BY <1>2, <1>3, <3>2 DEF OwnInv, InLine
    <3>4. LoginBusy(requests[i].to)
      BY <3>1, <3>3 DEF LoginBusy, Busy
    <3>5. Busy(t, {"send"}, OnBehalf)
      BY <1>1, <2>12 DEF Busy
    <3>6. QED
      BY <2>1, <3>3, <3>4, <3>5 DEF Undisturbed, Apart
  <2>13. Behind'
    <3>1. ASSUME NEW i \in 1 .. n + 1, NEW j \in 1 .. n + 1, i < j,
                 requests'[i].p.type = "LoginRQ"
          PROVE  requests'[j].p.type \notin OnBehalf
      <4>1. i \in 1 .. n
        BY <1>2, <3>1
      <4>2. CASE j \in 1 .. n
        BY <1>2, <2>1, <3>1, <4>1, <4>2 DEF Undisturbed, Behind
      <4>3. CASE j = n + 1
        BY <1>2, <1>5, <2>12, <3>1, <4>1, <4>3
      <4>4. QED
        BY <1>5, <4>2, <4>3
    <3>2. QED
      BY <1>2, <3>1 DEF Behind
  <2>14. AskedForSelf'
    <3>1. packet[t].type \in OnBehalf => Busy(t, {"send"}, OnBehalf)
      BY <1>1 DEF Busy
    <3>2. self # None /\ packet[t].type \in OnBehalf => packet[t].own = self
      BY <2>1, <3>1 DEF Undisturbed, SentForSelf
    <3>3. ASSUME self # None, NEW i \in 1 .. n + 1, requests'[i].p.type \in OnBehalf
          PROVE  requests'[i].p.own = self
      BY <1>2, <1>5, <2>1, <3>2, <3>3 DEF Undisturbed, AskedForSelf
    <3>4. QED
      BY <1>1, <1>2, <3>3 DEF AskedForSelf
  <2>15. QED
    BY <2>4, <2>5, <2>6, <2>8, <2>10, <2>11, <2>13, <2>14 DEF Undisturbed
<1>9. QED
  BY <1>6, <1>7, <1>8

\* A goroutine that ends had no login the service has granted.
LEMMA OwnEnds ==
  ASSUME OwnInv, NEW t \in Threads, Ends(t)
  PROVE  InLine' /\ AnswersFit' /\ (~muddled' => Undisturbed')
<1>1. /\ pc'[t] \in {"idle", "refused", "store", "closed"}
      /\ \A u \in Threads : u # t => /\ pc'[u] = pc[u] /\ packet'[u] = packet[u]
                                     /\ answer'[u] = answer[u]
      /\ requests' = requests /\ self' = self /\ IsLogin' = IsLogin /\ Own' = Own
      /\ muddled' = muddled
      /\ ~(pc[t] = "wait" /\ InFlight(t)) /\ ~Got(t, "LoginRQ")
  BY DEF OwnInv, DaemonTypeOK, Ends, user
<1>2. \A i \in DOMAIN requests : requests[i].to # None => requests[i].to \in Threads \ {t}
  BY <1>1, RequestTyped DEF OwnInv, InLine, InFlight
<1>3. InLine'
  BY <1>1, <1>2 DEF OwnInv, InLine
<1>4. AnswersFit'
  BY <1>1 DEF OwnInv, AnswersFit
<1>5. ASSUME ~muddled'
      PROVE  Undisturbed'
  <2>1. Undisturbed
    BY <1>1, <1>5 DEF OwnInv
  <2>2. ~(Busy(t, {"got"}, {"LoginRQ"}) /\ answer[t].ok)
    BY <1>1 DEF OwnInv, AnswersFit, Busy, Got, Accepted
  <2>3. \A u \in Threads : InFlight(u)' <=> InFlight(u)
    BY <1>1 DEF InFlight
  <2>4. OneLogin' /\ Apart' /\ SentForSelf'
    BY <1>1, <2>1 DEF Undisturbed, OneLogin, Apart, SentForSelf, LoginBusy, Busy
  <2>5. LoginsAwaited' /\ Behind' /\ AskedForSelf'
    BY <1>1, <2>1 DEF Undisturbed, LoginsAwaited, Behind, AskedForSelf
  <2>6. LostLogin' /\ GrantedLogin'
    BY <1>1, <2>1, <2>3 DEF Undisturbed, LostLogin, GrantedLogin, Busy
  <2>7. Settled'
    BY <1>1, <2>1, <2>2 DEF Undisturbed, Settled, Busy
  <2>8. QED
    BY <2>4, <2>5, <2>6, <2>7 DEF Undisturbed
<1>6. QED
  BY <1>3, <1>4, <1>5

\* Nobody waits for the request any more; it was no login.
LEMMA OwnTooLate ==
  ASSUME OwnInv, NEW t \in Threads, TooLate(t)
  PROVE  InLine' /\ AnswersFit' /\ (~muddled' => Undisturbed')
<1>1. /\ pc[t] \in {"wait", "got"} /\ pc'[t] = "idle"
      /\ \A u \in Threads : u # t => /\ pc'[u] = pc[u] /\ packet'[u] = packet[u]
                                     /\ answer'[u] = answer[u]
      /\ self' = self /\ IsLogin' = IsLogin /\ Own' = Own
      /\ muddled' = (muddled \/ packet[t].type = "LoginRQ")
  BY DEF OwnInv, DaemonTypeOK, TooLate, Done, user, service
<1>2. /\ DOMAIN requests' = DOMAIN requests
      /\ \A i \in DOMAIN requests :
           /\ requests'[i].p = requests[i].p
           /\ requests'[i].to = IF requests[i].to = t THEN None ELSE requests[i].to
  BY GivenUpTyped DEF OwnInv, DaemonTypeOK, TooLate
<1>3. t # None
  BY DaemonAssumption DEF Threads
<1>4. InLine'
  <2>1. ASSUME NEW i \in DOMAIN requests, requests'[i].to # None
        PROVE  /\ pc'[requests'[i].to] = "wait"
               /\ packet'[requests'[i].to] = requests'[i].p
               /\ \A j \in DOMAIN requests : requests'[j].to = requests'[i].to => j = i
    <3>1. requests[i].to # t /\ requests'[i].to = requests[i].to
      BY <1>2, <2>1
    <3>2. requests[i].to \in Threads
      BY <2>1, <3>1, RequestTyped DEF OwnInv
    <3>3. /\ pc[requests[i].to] = "wait" /\ packet[requests[i].to] = requests[i].p
          /\ \A j \in DOMAIN requests : requests[j].to = requests[i].to => j = i
      BY <2>1, <3>1 DEF OwnInv, InLine
    <3>4. \A j \in DOMAIN requests : requests'[j].to = requests[i].to => j = i
      BY <1>2, <2>1, <3>1, <3>3
    <3>5. QED
      BY <1>1, <1>2, <3>1, <3>2, <3>3, <3>4
  <2>2. QED
    BY <1>2, <2>1 DEF InLine
<1>5. AnswersFit'
  BY <1>1 DEF OwnInv, AnswersFit
<1>6. ASSUME ~muddled'
      PROVE  Undisturbed'
  <2>1. Undisturbed /\ packet[t].type # "LoginRQ"
    BY <1>1, <1>6 DEF OwnInv
  <2>2. \A u \in Threads : u # t => (InFlight(u)' <=> InFlight(u))
    BY <1>2, <1>3, DaemonAssumption DEF InFlight, Threads
  <2>3. OneLogin' /\ Apart' /\ SentForSelf'
    BY <1>1, <2>1 DEF Undisturbed, OneLogin, Apart, SentForSelf, LoginBusy, Busy
  <2>4. LoginsAwaited'
    <3>1. ASSUME NEW i \in DOMAIN requests, requests[i].p.type = "LoginRQ"
          PROVE  requests'[i].to # None
      <4>1. requests[i].to # None
        BY <2>1, <3>1 DEF Undisturbed, LoginsAwaited
      <4>2. packet[requests[i].to] = requests[i].p
        BY <4>1 DEF OwnInv, InLine
      <4>3. requests[i].to # t
        BY <2>1, <3>1, <4>2
      <4>4. QED
        BY <1>2, <4>1, <4>3
    <3>2. QED
      BY <1>2, <3>1 DEF LoginsAwaited
  <2>5. Behind' /\ AskedForSelf'
    BY <1>1, <1>2, <2>1 DEF Undisturbed, Behind, AskedForSelf
  <2>6. LostLogin' /\ GrantedLogin'
    BY <1>1, <2>1, <2>2 DEF Undisturbed, LostLogin, GrantedLogin, Busy
  <2>7. Settled'
    BY <1>1, <2>1 DEF Undisturbed, Settled, Busy
  <2>8. QED
    BY <2>3, <2>4, <2>5, <2>6, <2>7 DEF Undisturbed
<1>7. QED
  BY <1>4, <1>5, <1>6

\* The daemon takes the user for whom the service took him.
LEMMA OwnFinishLogin ==
  ASSUME OwnInv, NEW t \in Threads, FinishLogin(t)
  PROVE  InLine' /\ AnswersFit' /\ (~muddled' => Undisturbed')
<1>1. /\ SelfRelationRQ \in Packet /\ SelfRelationRQ.type = "SelfRelationRQ"
      /\ SelfRelationRQ.rsp = "SelfRelationRS"
  BY DEF SelfRelationRQ, Blank, Packet, PacketTypes, AnswerTypes
<1>2. /\ pc[t] = "got" /\ packet[t].type = "LoginRQ" /\ answer[t].ok /\ packet[t] \in Packet
      /\ pc'[t] = "send" /\ packet'[t] = Marshalled(SelfRelationRQ, packet[t].own)
      /\ \A u \in Threads : u # t => /\ pc'[u] = pc[u] /\ packet'[u] = packet[u]
                                     /\ answer'[u] = answer[u]
      /\ requests' = requests /\ self' = self /\ IsLogin' = TRUE /\ Own' = packet[t].own
      /\ muddled' = muddled
  BY DEF OwnInv, DaemonTypeOK, FinishLogin, Got, Accepted, ToSend, wire, service
<1>3. packet'[t].type = "SelfRelationRQ" /\ packet'[t].rsp = "SelfRelationRS"
  <2>1. packet[t].own \in Int
    BY <1>2 DEF Packet
  <2>2. QED
    BY <1>1, <1>2, <2>1, MarshalledTyped
<1>4. \A i \in DOMAIN requests : requests[i].to # None => requests[i].to \in Threads \ {t}
  BY <1>2, RequestTyped DEF OwnInv, InLine
<1>5. InLine'
  BY <1>2, <1>4 DEF OwnInv, InLine
<1>6. AnswersFit'
  BY <1>2, <1>3 DEF OwnInv, AnswersFit, Route
<1>7. ASSUME ~muddled'
      PROVE  Undisturbed'
  <2>1. Undisturbed
    BY <1>2, <1>7 DEF OwnInv
  <2>2. \A u \in Threads : InFlight(u)' <=> InFlight(u)
    BY <1>2 DEF InFlight
  <2>3. OneLogin' /\ Apart' /\ SentForSelf'
    BY <1>2, <1>3, <2>1 DEF Undisturbed, OneLogin, Apart, SentForSelf, LoginBusy, Busy, OnBehalf
  <2>4. LoginsAwaited' /\ Behind' /\ AskedForSelf'
    BY <1>2, <2>1 DEF Undisturbed, LoginsAwaited, Behind, AskedForSelf
  <2>5. LostLogin' /\ GrantedLogin'
    BY <1>2, <1>3, <2>1, <2>2 DEF Undisturbed, LostLogin, GrantedLogin, Busy
  <2>6. self \in {None, packet[t].own}
    BY <1>2, <2>1 DEF Undisturbed, GrantedLogin, Busy
  <2>7. Settled'
    BY <1>2, <2>6 DEF Settled
  <2>8. QED
    BY <2>3, <2>4, <2>5, <2>7 DEF Undisturbed
<1>8. QED
  BY <1>5, <1>6, <1>7

\* On a new connection the service takes the user for nobody.
LEMMA OwnBreaks ==
  ASSUME OwnInv, Breaks
  PROVE  InLine' /\ AnswersFit' /\ (~muddled' => Undisturbed')
<1>1. /\ requests' = << >> /\ DOMAIN requests' = {} /\ self' = None
      /\ packet' = packet /\ muddled' = muddled
      /\ \A t \in Threads : \/ pc'[t] = pc[t] /\ answer'[t] = answer[t]
                            \/ pc[t] = "got" /\ pc'[t] = "wait"
                            \/ pc[t] = "idle" /\ pc'[t] = "closed"
  BY DEF Breaks
<1>2. InLine'
  BY <1>1 DEF InLine
<1>3. AnswersFit'
  BY <1>1 DEF OwnInv, AnswersFit
<1>4. ASSUME ~muddled'
      PROVE  Undisturbed'
  <2>1. Undisturbed
    BY <1>1, <1>4 DEF OwnInv
  <2>2. \A t \in Threads : LoginBusy(t)' => LoginBusy(t)
    BY <1>1 DEF LoginBusy, Busy
  <2>3. \A t \in Threads : Busy(t, {"send"}, OnBehalf)' => Busy(t, {"send"}, OnBehalf)
    BY <1>1 DEF Busy
  <2>4. OneLogin' /\ Apart'
    BY <2>1, <2>2, <2>3 DEF Undisturbed, OneLogin, Apart
  <2>5. LoginsAwaited' /\ Behind'
    BY <1>1 DEF LoginsAwaited, Behind
  <2>6. LostLogin' /\ GrantedLogin' /\ Settled' /\ SentForSelf' /\ AskedForSelf'
    BY <1>1 DEF LostLogin, GrantedLogin, Settled, SentForSelf, AskedForSelf
  <2>7. QED
    BY <2>4, <2>5, <2>6 DEF Undisturbed
<1>5. QED
  BY <1>2, <1>3, <1>4

\* The service answers; when it is a login, nothing else depends on the old user.
LEMMA OwnAnswers ==
  ASSUME OwnInv, NEW a \in Answer, Answers(a), LogsInOnly(a)
  PROVE  InLine' /\ AnswersFit' /\ (~muddled' => Undisturbed')
<1> DEFINE n == Len(requests)
           r == Head(requests)
<1>1. /\ n \in Nat \ {0} /\ DOMAIN requests = 1 .. n /\ r = requests[1]
      /\ DOMAIN requests' = 1 .. n - 1
      /\ \A i \in 1 .. n - 1 : i + 1 \in 1 .. n /\ requests'[i] = requests[i + 1]
  <2>1. requests \in Seq(Request) /\ requests # << >> /\ requests' = Tail(requests)
    BY DEF OwnInv, DaemonTypeOK, Answers
  <2>2. QED
    BY <2>1
<1>2. /\ a.type = Route[r.p.type]
      /\ \A t \in Threads : /\ t = r.to => pc'[t] = "got" /\ answer'[t] = a
                            /\ t # r.to => pc'[t] = pc[t] /\ answer'[t] = answer[t]
      /\ packet' = packet /\ IsLogin' = IsLogin /\ Own' = Own /\ muddled' = muddled
  BY DEF Answers, user
<1>3. \/ self' = self /\ (r.p.type = "LoginRQ" => ~a.ok)
      \/ r.p.type = "LoginRQ" /\ a.ok /\ self' = r.p.own
  BY DEF LogsInOnly
<1> HIDE DEF n, r
<1>4. \A t \in Threads : t # None
  BY DaemonAssumption DEF Threads
<1>5. r.to \in Threads =>
        /\ pc[r.to] = "wait" /\ packet[r.to] = r.p
        /\ \A j \in 1 .. n : requests[j].to = r.to => j = 1
  BY <1>1, <1>4 DEF OwnInv, InLine
<1>6. \A i \in 2 .. n : requests[i].to # None =>
        /\ requests[i].to \in Threads /\ requests[i].to # r.to
        /\ pc[requests[i].to] = "wait" /\ packet[requests[i].to] = requests[i].p
        /\ \A j \in 1 .. n : requests[j].to = requests[i].to => j = i
  <2>1. SUFFICES ASSUME NEW i \in 2 .. n, requests[i].to # None
                 PROVE  /\ requests[i].to \in Threads /\ requests[i].to # r.to
                        /\ pc[requests[i].to] = "wait" /\ packet[requests[i].to] = requests[i].p
                        /\ \A j \in 1 .. n : requests[j].to = requests[i].to => j = i
    OBVIOUS
  <2>2. i \in DOMAIN requests /\ i # 1
    BY <1>1
  <2>3. requests[i].to \in Threads
    BY <2>1, <2>2, RequestTyped DEF OwnInv
  <2>4. /\ pc[requests[i].to] = "wait" /\ packet[requests[i].to] = requests[i].p
        /\ \A j \in 1 .. n : requests[j].to = requests[i].to => j = i
    BY <1>1, <2>1, <2>2 DEF OwnInv, InLine
  <2>5. requests[i].to # r.to
    BY <1>5, <2>2, <2>3, <1>1
  <2>6. QED
    BY <2>3, <2>4, <2>5
<1>7. InLine'
  <2>1. ASSUME NEW i \in 1 .. n - 1, requests'[i].to # None
        PROVE  /\ pc'[requests'[i].to] = "wait"
               /\ packet'[requests'[i].to] = requests'[i].p
               /\ \A j \in 1 .. n - 1 : requests'[j].to = requests'[i].to => j = i
    <3>1. i + 1 \in 2 .. n /\ requests'[i] = requests[i + 1]
      BY <1>1
    <3>2. /\ requests[i + 1].to \in Threads /\ requests[i + 1].to # r.to
          /\ pc[requests[i + 1].to] = "wait" /\ packet[requests[i + 1].to] = requests[i + 1].p
          /\ \A j \in 1 .. n : requests[j].to = requests[i + 1].to => j = i + 1
      BY <1>6, <2>1, <3>1
    <3>3. \A j \in 1 .. n - 1 : requests'[j].to = requests'[i].to => j = i
      <4>1. SUFFICES ASSUME NEW j \in 1 .. n - 1, requests'[j].to = requests'[i].to
                     PROVE  j = i
        OBVIOUS
      <4>2. j + 1 \in 1 .. n /\ requests[j + 1].to = requests[i + 1].to
        BY <1>1, <3>1, <4>1
      <4>3. j + 1 = i + 1
        BY <3>2, <4>2
      <4>4. QED
        BY <4>3
    <3>4. QED
      BY <1>2, <3>1, <3>2, <3>3
  <2>2. QED
    BY <1>1, <2>1 DEF InLine
<1>8. AnswersFit'
  BY <1>2, <1>5 DEF OwnInv, AnswersFit
<1>9. ASSUME ~muddled'
      PROVE  Undisturbed'
  <2>1. Undisturbed
    BY <1>2, <1>9 DEF OwnInv
  <2>2. \A t \in Threads : LoginBusy(t)' <=> LoginBusy(t)
    BY <1>2, <1>5 DEF LoginBusy, Busy
  <2>3. \A t \in Threads : Busy(t, {"send"}, OnBehalf)' <=> Busy(t, {"send"}, OnBehalf)
    BY <1>2, <1>5 DEF Busy
  <2>4. OneLogin' /\ Apart'
    BY <2>1, <2>2, <2>3 DEF Undisturbed, OneLogin, Apart
  <2>5. LoginsAwaited'
    BY <1>1, <2>1 DEF Undisturbed, LoginsAwaited
  <2>6. Behind'
    <3>1. ASSUME NEW i \in 1 .. n - 1, NEW j \in 1 .. n - 1, i < j,
                 requests'[i].p.type = "LoginRQ"
          PROVE  requests'[j].p.type \notin OnBehalf
      <4>1. /\ i + 1 \in 1 .. n /\ j + 1 \in 1 .. n /\ i + 1 < j + 1
            /\ requests'[i] = requests[i + 1] /\ requests'[j] = requests[j + 1]
        BY <1>1, <3>1
      <4>2. QED
        BY <1>1, <2>1, <3>1, <4>1 DEF Undisturbed, Behind
    <3>2. QED
      BY <1>1, <3>1 DEF Behind
  <2>7. \A t \in Threads : t # r.to => (InFlight(t)' <=> InFlight(t))
    <3>1. SUFFICES ASSUME NEW t \in Threads, t # r.to
                   PROVE  InFlight(t)' <=> InFlight(t)
      OBVIOUS
    <3>2. ASSUME NEW i \in 1 .. n, requests[i].to = t
          PROVE  InFlight(t)'
      <4>1. i - 1 \in 1 .. n - 1 /\ requests'[i - 1] = requests[i]
        BY <1>1, <3>1, <3>2
      <4>2. QED
        BY <1>1, <3>2, <4>1 DEF InFlight
    <3>3. ASSUME NEW i \in 1 .. n - 1, requests'[i].to = t
          PROVE  InFlight(t)
      BY <1>1, <3>3 DEF InFlight
    <3>4. QED
      BY <1>1, <3>2, <3>3 DEF InFlight
  <2>8. r.p.type = "LoginRQ" => /\ r.to \in Threads /\ LoginBusy(r.to)
                                /\ \A t \in Threads : LoginBusy(t) => t = r.to
    <3>1. SUFFICES ASSUME r.p.type = "LoginRQ"
                   PROVE  /\ r.to \in Threads /\ LoginBusy(r.to)
                          /\ \A t \in Threads : LoginBusy(t) => t = r.to
      OBVIOUS
    <3>2. 1 \in DOMAIN requests
      BY <1>1
    <3>3. r.to # None
      BY <1>1, <2>1, <3>1, <3>2 DEF Undisturbed, LoginsAwaited
    <3>4. r.to \in Threads
      BY <1>1, <3>2, <3>3, RequestTyped DEF OwnInv
    <3>5. LoginBusy(r.to)
      BY <1>5, <3>1, <3>4 DEF LoginBusy, Busy
    <3>6. QED
      BY <2>1, <3>4, <3>5 DEF Undisturbed, OneLogin
  <2>9. CASE self' = self /\ (r.p.type = "LoginRQ" => ~a.ok)
    <3>1. LostLogin'
      BY <1>2, <2>1, <2>7, <2>9 DEF Undisturbed, LostLogin, Busy
    <3>2. GrantedLogin'
      BY <1>2, <1>5, <2>1, <2>9 DEF Undisturbed, GrantedLogin, Busy
    <3>3. Settled'
      BY <1>2, <1>5, <2>1, <2>9 DEF Undisturbed, Settled, Busy
    <3>4. SentForSelf'
      BY <1>2, <2>1, <2>3, <2>9 DEF Undisturbed, SentForSelf
    <3>5. AskedForSelf'
      BY <1>1, <2>1, <2>9 DEF Undisturbed, AskedForSelf
    <3>6. QED
      BY <2>1, <2>4, <2>5, <2>6, <3>1, <3>2, <3>3, <3>4, <3>5 DEF Undisturbed
  <2>10. CASE r.p.type = "LoginRQ" /\ a.ok /\ self' = r.p.own
    <3>1. /\ r.to \in Threads /\ pc'[r.to] = "got" /\ answer'[r.to] = a
          /\ packet'[r.to] = r.p
      BY <1>2, <1>5, <2>8, <2>10
    <3>2. \A t \in Threads : LoginBusy(t)' => t = r.to
      BY <2>2, <2>8, <2>10
    <3>3. LostLogin' /\ GrantedLogin'
      <4>1. \A t \in Threads : /\ Busy(t, {"wait"}, {"LoginRQ"})' => LoginBusy(t)'
                               /\ Busy(t, {"got"}, {"LoginRQ"})' => LoginBusy(t)'
        BY DEF LoginBusy, Busy
      <4>2. \A t \in Threads : ~Busy(t, {"wait"}, {"LoginRQ"})'
        BY <3>1, <3>2, <4>1 DEF Busy
      <4>3. QED
        BY <2>10, <3>1, <3>2, <4>1, <4>2 DEF LostLogin, GrantedLogin
    <3>4. Settled'
      BY <2>10, <3>1 DEF Settled, Busy
    <3>5. SentForSelf'
      <4>1. \A t \in Threads : ~Busy(t, {"send"}, OnBehalf)
        BY <2>1, <2>8, <2>10 DEF Undisturbed, Apart
      <4>2. QED
        BY <2>3, <4>1 DEF SentForSelf
    <3>6. AskedForSelf'
      <4>1. \A j \in 2 .. n : requests[j].p.type \notin OnBehalf
        BY <1>1, <2>1, <2>10 DEF Undisturbed, Behind
      <4>2. \A i \in 1 .. n - 1 : i + 1 \in 2 .. n
        BY <1>1
      <4>3. QED
        BY <1>1, <4>1, <4>2 DEF AskedForSelf
    <3>7. QED
      BY <2>4, <2>5, <2>6, <3>3, <3>4, <3>5, <3>6 DEF Undisturbed
  <2>11. QED
    BY <1>3, <2>9, <2>10
<1>10. QED
  BY <1>7, <1>8, <1>9

\* Nothing of this changes.
LEMMA OwnQuiet ==
  ASSUME OwnInv, Quiet
  PROVE  InLine' /\ AnswersFit' /\ (~muddled' => Undisturbed')
<1>1. InLine'
  BY DEF OwnInv, Quiet, InLine
<1>2. AnswersFit'
  BY DEF OwnInv, Quiet, AnswersFit
<1>3. ASSUME ~muddled'
      PROVE  Undisturbed'
  <2>1. Undisturbed
    BY <1>3 DEF OwnInv, Quiet
  <2>2. OneLogin' /\ Apart' /\ LostLogin'
    BY <2>1 DEF Undisturbed, Quiet, OneLogin, Apart, LostLogin, LoginBusy, Busy, InFlight
  <2>3. LoginsAwaited' /\ Behind' /\ AskedForSelf'
    BY <2>1 DEF Undisturbed, Quiet, LoginsAwaited, Behind, AskedForSelf
  <2>4. GrantedLogin' /\ Settled' /\ SentForSelf'
    BY <2>1 DEF Undisturbed, Quiet, user, GrantedLogin, Settled, SentForSelf, Busy
  <2>5. QED
    BY <2>2, <2>3, <2>4 DEF Undisturbed
<1>4. QED
  BY <1>1, <1>2, <1>3

\* The inductive invariant holds at first, ...
LEMMA InitOwn ==
  ASSUME Init
  PROVE  OwnInv
<1>1. UserOK /\ ServiceOK
  <2>1. IsLogin = FALSE /\ Own = 0 /\ JoinGroup = {} /\ SubscribePeers = {} /\ Followers = {}
    BY DEF Init
  <2>2. /\ self = None /\ ownSubscribe = {} /\ subscribe = {}
        /\ ownJoinGroup = {} /\ GGroupMap = {}
    BY DEF Init
  <2>3. UserOK
    <3>1. IsLogin \in BOOLEAN
      BY <2>1
    <3>2. Own \in Int
      <4>1. Own = 0
        BY <2>1
      <4>2. QED
        BY <4>1
    <3>3. /\ JoinGroup \subseteq Int /\ SubscribePeers \subseteq Peers
          /\ Followers \subseteq Peers
      BY <2>1
    <3>4. QED
      BY <3>1, <3>2, <3>3 DEF UserOK
  <2>4. ServiceOK
    BY <2>2 DEF ServiceOK
  <2>5. QED
    BY <2>3, <2>4
<1>2. GoroutinesOK
  BY DEF Init, GoroutinesOK
<1>3. << >> \in Seq(Request) /\ << >> \in Seq(Note)
  BY EmptySeq
<1>4. WireOK
  BY <1>3 DEF Init, WireOK
<1>5. DaemonTypeOK
  BY <1>1, <1>2, <1>4, TypeParts DEF Init
<1>6. requests = << >> /\ DOMAIN requests = {} /\ self = None
  BY DEF Init
<1>7. \A t \in Threads : pc[t] = "idle"
  BY DEF Init
<1>8. InLine /\ LoginsAwaited /\ Behind /\ AskedForSelf
  BY <1>6 DEF InLine, LoginsAwaited, Behind, AskedForSelf
<1>9. AnswersFit
  BY <1>7 DEF AnswersFit
<1>10. OneLogin /\ LostLogin /\ GrantedLogin /\ Settled /\ Apart /\ SentForSelf
  BY <1>6, <1>7 DEF OneLogin, LostLogin, GrantedLogin, Settled, Apart, SentForSelf, LoginBusy,
                    Busy
<1>11. QED
  BY <1>5, <1>8, <1>9, <1>10 DEF OwnInv, Undisturbed

\* ... and after every step.
LEMMA StepOwn ==
  ASSUME OwnInv, [Next]_vars
  PROVE  OwnInv'
<1>1. DaemonTypeOK'
  BY StepType DEF OwnInv
<1>2. InLine' /\ AnswersFit' /\ (~muddled' => Undisturbed')
  BY StepShape, OwnStarts, OwnSend, OwnEnds, OwnTooLate, OwnFinishLogin, OwnBreaks, OwnAnswers,
     OwnQuiet DEF OwnInv
<1>3. QED
  BY <1>1, <1>2 DEF OwnInv

\* OwnInv is an invariant.
LEMMA OwnInvariant == Spec => []OwnInv
  BY InitOwn, StepOwn, PTL DEF Spec

-----------------------------------------------------------------------------
(* The theorems.                                                           *)

\* Every variable of the daemon has its type, however requests, answers,
\* time-outs and losses of the connection interleave (ServeHTTP and NetSend).
THEOREM DaemonTypeCorrect == Spec => []DaemonTypeOK
<1>1. OwnInv => DaemonTypeOK
  BY DEF OwnInv
<1>2. QED
  BY <1>1, OwnInvariant, PTL

\* With any number of requests at a time the daemon knows whom its connection
\* is logged in as, unless a login was overlapped or its answer came too late
\* (lines 153-187 and 462-471 of httphandler.go against HandleLoginRQ).
THEOREM DaemonKnowsItsUser == Spec => []OwnIsSelf
<1>1. OwnInv => OwnIsSelf
  BY DEF OwnInv, Undisturbed, Settled, OwnIsSelf, Busy
<1>2. QED
  BY <1>1, OwnInvariant, PTL

\* Nor does it ask for anything in the name of another user (the own that
\* NetSend's callers put in each request).
THEOREM DaemonSpeaksForItself == Spec => []SpeaksForItself
<1>1. OwnInv => SpeaksForItself
  BY DEF OwnInv, Undisturbed, AskedForSelf, SpeaksForItself
<1>2. QED
  BY <1>1, OwnInvariant, PTL

\* A line that passes check of main.go and is not odd is never refused by
\* ServeHTTP, whatever the numbers, texts and lists in it.
THEOREM AcceptedLinesAreServed == Spec => []AcceptedIsServed
<1>1. Init => AcceptedIsServed
  BY DEF Init, AcceptedIsServed, Threads
<1>2. ASSUME OwnInv, AcceptedIsServed, [Next]_vars
      PROVE  AcceptedIsServed'
  <2>1. GoroutinesOK
    BY <1>2, TypeParts DEF OwnInv
  <2>2. ASSUME NEW s \in Slots, NEW lp \in Lines, Refuse(s, lp)
        PROVE  AcceptedIsServed'
    <3>1. PICK h \in Headers(lp) : h.command \in Remote /\ Packets(h) = {}
      BY <2>2 DEF Refuse
    <3>2. Odd(lp)
      BY <3>1, ServedOrOdd, DaemonAssumption
    <3>3. /\ line'[s] = lp
          /\ \A r \in Slots \ {s} : pc'[r] = pc[r] /\ line'[r] = line[r]
      BY <2>1, <2>2 DEF Refuse, GoroutinesOK, Threads
    <3>4. QED
      BY <1>2, <3>2, <3>3 DEF AcceptedIsServed
  <2>3. ASSUME \A t \in Threads : pc'[t] = "refused" => pc[t] = "refused" /\ line'[t] = line[t]
        PROVE  AcceptedIsServed'
    BY <1>2, <2>3 DEF AcceptedIsServed, Threads
  <2>4. ASSUME NEW t \in Threads, Done(t)
        PROVE  AcceptedIsServed'
    BY <2>1, <2>3, <2>4 DEF Done, GoroutinesOK
  <2>5. ASSUME NEW t \in Threads, NEW p, NEW own, ToSend(t, p, own)
        PROVE  AcceptedIsServed'
    BY <2>1, <2>3, <2>5 DEF ToSend, GoroutinesOK
  <2>6. CASE \E s \in Slots : Type(s)
    <3>1. PICK s \in Slots, lp \in Lines : Arrive(s, lp) \/ Refuse(s, lp) \/ Reset(s, lp)
      BY <2>6 DEF Type
    <3>2. CASE Arrive(s, lp)
      BY <2>5, <3>2 DEF Arrive, Threads
    <3>3. CASE Reset(s, lp)
      BY <2>1, <2>3, <3>3 DEF Reset, GoroutinesOK, Threads
    <3>4. QED
      BY <2>2, <3>1, <3>2, <3>3
  <2>7. CASE \E t \in Threads : Run(t)
    <3>1. PICK t \in Threads : Run(t)
      BY <2>7
    <3>2. CASE \/ SendFails(t) \/ TimeOut(t) \/ FinishJoin(t) \/ FinishSubscribe(t)
               \/ FinishCreate(t) \/ FinishShown(t) \/ StoreLists(t) \/ Dial(t)
      <4>1. Done(t)
        BY <3>2 DEF SendFails, TimeOut, FinishJoin, FinishSubscribe, FinishCreate, FinishShown,
                    StoreLists, Dial
      <4>2. QED
        BY <2>4, <4>1
    <3>3. CASE Send(t) \/ ClearLists(t)
      BY <2>1, <2>3, <3>3 DEF Send, ClearLists, GoroutinesOK
    <3>4. CASE FinishLogin(t)
      BY <2>5, <3>4 DEF FinishLogin
    <3>5. CASE EndRefusal(t)
      <4>1. /\ pc'[t] = "idle"
            /\ \A u \in Threads \ {t} : pc'[u] = pc[u] /\ line'[u] = line[u]
        BY <2>1, <3>5 DEF EndRefusal, GoroutinesOK
      <4>2. QED
        BY <2>3, <4>1
    <3>6. QED
      BY <3>1, <3>2, <3>3, <3>4, <3>5 DEF Run
  <2>8. CASE Tick
    BY <2>5, <2>8 DEF Tick, Threads
  <2>9. CASE HandleNote \/ PeersAct \/ UNCHANGED vars
    BY <2>3, <2>9 DEF HandleNote, PeersAct, PeerFollows, PeerCancels, PeerReaped, GroupComes,
                      GroupGoes, vars, goroutines
  <2>10. CASE Serve
    <3>1. WireOK /\ ServiceOK
      BY <1>2, TypeParts DEF OwnInv
    <3>2. PICK a \in Answer : Answers(a)
      BY <2>10, <3>1, ServeAnswers
    <3>3. QED
      BY <2>3, <3>2 DEF Answers
  <2>11. CASE Mishap
    <3>1. CASE Drop
      BY <2>3, <3>1 DEF Drop
    <3>2. CASE \E t \in Threads : TooLate(t)
      BY <2>4, <3>2 DEF TooLate
    <3>3. QED
      BY <2>11, <3>1, <3>2 DEF Mishap
  <2>12. QED
    BY <1>2, <2>6, <2>7, <2>8, <2>9, <2>10, <2>11 DEF Next
<1>3. QED
  BY <1>1, <1>2, OwnInvariant, PTL DEF Spec
=============================================================================
