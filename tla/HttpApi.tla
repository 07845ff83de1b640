------------------------------- MODULE HttpApi -------------------------------
(***************************************************************************)
(* What the client daemon makes of an HTTP request before it touches the   *)
(* network: for each command, the packet built from the headers, or no     *)
(* packet when a header is missing or does not parse (the request is       *)
(* answered with an error).                                                *)
(***************************************************************************)
EXTENDS CommandLine

\* The commands of an HTTP request.
Commands ==
  {"register", "login", "join", "subscribePersonal", "cancelAllSubscribe",
   "sendToPersonal", "sendToGroup", "createGroup", "reConn", "getStatus",
   "GroupMembers", "SendToWorld"}

\* The types of requests to the service and of its answers.
PacketTypes ==
  {"RegisterRQ", "LoginRQ", "JoinGroupRQ", "SubscribePersonalMsgRQ",
   "CancelSubscribeAllRQ", "SendToPersonalRQ", "SendToGroupRQ", "CreateGroupRQ",
   "GroupMemberRQ", "SelfRelationRQ", "SendWorldMsgRQ"}
AnswerTypes ==
  {"RegisterRS", "LoginRS", "JoinGroupRS", "SubscribePersonalMsgRS",
   "CancelSubscribeAllRS", "SendToPersonalRS", "SendToGroupRS", "CreateGroupRS",
   "GroupMemberRS", "SelfRelationRS", "SendWorldMsgRS"}

\* The answer type the service has registered for a request type.
Route ==
  [RegisterRQ |-> "RegisterRS", LoginRQ |-> "LoginRS",
   SendToPersonalRQ |-> "SendToPersonalRS", SendToGroupRQ |-> "SendToGroupRS",
   SubscribePersonalMsgRQ |-> "SubscribePersonalMsgRS",
   CancelSubscribeAllRQ |-> "CancelSubscribeAllRS",
   CreateGroupRQ |-> "CreateGroupRS", JoinGroupRQ |-> "JoinGroupRS",
   GroupMemberRQ |-> "GroupMemberRS", SelfRelationRQ |-> "SelfRelationRS",
   SendWorldMsgRQ |-> "SendWorldMsgRS"]

\* A request to the service and, as rsp, the answer type its sender asks NetSend
\* for.  Texts are left out; own is filled in when the request is sent, but for
\* a login, which names the account; what a type does not use is empty.
Packet ==
  [type: PacketTypes, rsp: AnswerTypes, own: Int, peers: SUBSET Int, peer: Int,
   group: Int, code: Int, op: Int]

Blank(type, rsp) ==
  [type |-> type, rsp |-> rsp, own |-> 0, peers |-> {}, peer |-> 0, group |-> 0,
   code |-> 0, op |-> 0]

\* strconv.ParseInt where its error is ignored, or an absent header means 0.
OrZero(x) == IF x = None THEN 0 ELSE x
-----------------------------------------------------------------------------
(* The cases of ServeHTTP: a set with the packet, or none.                 *)

RegisterRQ(h) ==
  IF "long" \in {h.email, h.name, h.passwd} THEN {}
  ELSE {[Blank("RegisterRQ", "RegisterRS") EXCEPT !.code = OrZero(h.verifyCode)]}

LoginRQ(h) ==
  IF h.own = None \/ h.passwd = "" THEN {}
  ELSE {[Blank("LoginRQ", "LoginRS") EXCEPT !.own = h.own]}

JoinGroupRQ(h) ==
  IF h.group = None \/ h.op = None \/ h.op \notin {0, 1} THEN {}
  ELSE {[Blank("JoinGroupRQ", "JoinGroupRS") EXCEPT
           !.group = h.group, !.code = OrZero(h.verifyCode), !.op = h.op]}

Subscription(op, peers) ==
  [Blank("SubscribePersonalMsgRQ", "SubscribePersonalMsgRS") EXCEPT
     !.op = op, !.peers = peers]

\* Parts of peers that are no numbers are passed over.
TakesJunk(h) == {Subscription(h.op, h.peers)}
SubscribePersonRQ(h) ==
  LET peers == h.peers \ {Junk}
  IN  IF h.op = None \/ h.op \notin 0 .. 3 \/ (h.op \in {0, 1} /\ peers = {}) THEN {}
      ELSE {Subscription(h.op, peers)}

CancelSubscribeAllRQ(h) == {Blank("CancelSubscribeAllRQ", "CancelSubscribeAllRS")}

SendToPersonalRQ(h) ==
  IF h.peer = None \/ h.content = "" THEN {}
  ELSE {[Blank("SendToPersonalRQ", "SendToPersonalRS") EXCEPT !.peer = h.peer]}

SendToTempGroupRQ(h) ==
  IF h.group = None \/ h.content = "" THEN {}
  ELSE {[Blank("SendToGroupRQ", "SendToGroupRS") EXCEPT !.group = h.group]}

CreateTempGroupRQ(h) ==
  IF h.verifyCode = None THEN {}
  ELSE {[Blank("CreateGroupRQ", "CreateGroupRS") EXCEPT !.code = h.verifyCode]}

GroupMembersRQ(h) ==
  IF h.group = None THEN {}
  ELSE {[Blank("GroupMemberRQ", "GroupMemberRS") EXCEPT !.group = h.group]}

SendWorldMessageRQ(h) ==
  IF h.content = "" THEN {} ELSE {Blank("SendWorldMsgRQ", "SendWorldMsgRS")}

\* What QuerySelfRelation sends.
OtherAnswer == Blank("SelfRelationRQ", "GroupMemberRS")
SelfRelationRQ == Blank("SelfRelationRQ", "SelfRelationRS")

\* The switch of ServeHTTP, for the commands that go to the service.
Remote == Commands \ {"reConn", "getStatus"}

Packets(h) ==
  CASE h.command = "register"           -> RegisterRQ(h)
    [] h.command = "login"              -> LoginRQ(h)
    [] h.command = "join"               -> JoinGroupRQ(h)
    [] h.command = "subscribePersonal"  -> SubscribePersonRQ(h)
    [] h.command = "cancelAllSubscribe" -> CancelSubscribeAllRQ(h)
    [] h.command = "sendToPersonal"     -> SendToPersonalRQ(h)
    [] h.command = "sendToGroup"        -> SendToTempGroupRQ(h)
    [] h.command = "createGroup"        -> CreateTempGroupRQ(h)
    [] h.command = "GroupMembers"       -> GroupMembersRQ(h)
    [] h.command = "SendToWorld"        -> SendWorldMessageRQ(h)

\* These are answered without a login.
NeedsLogin(h) == h.command \notin {"register", "login", "reConn", "getStatus"}
==============================================================================

