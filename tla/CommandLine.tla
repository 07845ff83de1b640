----------------------------- MODULE CommandLine -----------------------------
(***************************************************************************)
(* The command line of the chat client: what check accepts, which call of  *)
(* SendCommand deal makes for it, and the HTTP headers that arrive at the  *)
(* client daemon.  No state: operators only.                               *)
(*                                                                         *)
(* A text is empty, of a usual length, or longer than an account may have. *)
(* What -ps names is a set: numbers, and Junk for text that is no number.  *)
(***************************************************************************)
EXTENDS Integers

CONSTANTS
  Junk,   \* a part of -ps that is no number
  None    \* a header that is not set

ASSUME CommandLineAssumption == Junk \notin Int /\ None \notin Int

Text == {"", "usual", "long"}

\* The main options, by their flags.
MainOptions ==
  {"r", "l", "cg", "jg", "s", "na", "sp", "n", "reset", "status", "w", "nw", "sw"}

LineParams ==
  [opts: SUBSET MainOptions, Own: Int, Peers: SUBSET (Int \cup {Junk}), Peer: Int,
   Group: Int, VerifyCode: Int, Name: Text, Passwd: Text, Email: Text, Content: Text]

\* What ParseFlag leaves when no flag is given.
Defaults ==
  [opts |-> {}, Own |-> 0, Peers |-> {}, Peer |-> 0, Group |-> 0, VerifyCode |-> 0,
   Name |-> "usual", Passwd |-> "", Email |-> "", Content |-> ""]

\* The line is accepted: one main option, and what that option needs.
checkMain(lp) == \E o \in MainOptions : lp.opts = {o}
check(lp) ==
  /\ \E o \in MainOptions : lp.opts = {o}
  /\ "r" \in lp.opts => lp.Name # "" /\ lp.Passwd # ""
  /\ "l" \in lp.opts => lp.Own # 0 /\ lp.Passwd # ""
  /\ "sp" \in lp.opts => lp.Peers # {} \/ lp.Peer # 0
  /\ "cg" \in lp.opts => lp.VerifyCode # 0 /\ lp.Name # ""
  /\ "jg" \in lp.opts => lp.Group # 0 /\ lp.VerifyCode # 0
  /\ "n" \in lp.opts => /\ lp.Peer # 0 \/ lp.Group # 0 \/ lp.Peers # {}
                        /\ ~((lp.Peer > 0 \/ lp.Peers # {}) /\ lp.Group > 0)
  /\ "s" \in lp.opts => /\ lp.Peer # 0 \/ lp.Group # 0
                        /\ ~(lp.Peer > 0 /\ lp.Group > 0)
                        /\ lp.Content # ""
  /\ "sw" \in lp.opts => lp.Content # ""

-----------------------------------------------------------------------------
(* deal.                                                                   *)

\* The arguments deal passes where it has nothing to pass.
NoArguments ==
  [command |-> "", own |-> 0, name |-> "", passwd |-> "", email |-> "", peers |-> {},
   content |-> "", verify |-> 0, peer |-> 0, group |-> 0, op |-> -1]

\* -sp adds -p to -ps even when it was not given, -n only when it is positive.
PeersToFollow(lp) == lp.Peers \cup {lp.Peer}
PeersToLeave(lp) == lp.Peers \cup (IF lp.Peer > 0 THEN {lp.Peer} ELSE {})

\* The calls of SendCommand for an accepted line.  check admits one main option,
\* so the branches where -n comes with -sp or -jg are never taken.
Calls(lp) ==
  LET call(c) == [NoArguments EXCEPT !.command = c]
      subscribe(op, peers) ==
        [call("subscribePersonal") EXCEPT !.op = op, !.peers = peers]
      join(op, code) ==
        [call("join") EXCEPT !.op = op, !.group = lp.Group, !.verify = code]
      send(c) == [call(c) EXCEPT !.content = lp.Content]
  IN CASE lp.opts = {"reset"} -> {call("reConn")}
       [] lp.opts = {"status"} ->
            {IF lp.Group > 0 THEN [call("GroupMembers") EXCEPT !.group = lp.Group]
                             ELSE call("getStatus")}
       [] lp.opts = {"r"} ->
            {[call("register") EXCEPT !.name = lp.Name, !.passwd = lp.Passwd,
                                      !.email = lp.Email, !.verify = lp.VerifyCode]}
       [] lp.opts = {"l"} ->
            {[call("login") EXCEPT !.own = lp.Own, !.passwd = lp.Passwd]}
       [] lp.opts = {"cg"} ->
            {[call("createGroup") EXCEPT !.name = lp.Name, !.verify = lp.VerifyCode]}
       [] lp.opts = {"sp"} -> {subscribe(0, PeersToFollow(lp))}
       [] lp.opts = {"jg"} -> {join(0, lp.VerifyCode)}
       [] lp.opts = {"na"} -> {call("cancelAllSubscribe")}
       [] lp.opts = {"s"} ->
            {IF lp.Peer > 0 THEN [send("sendToPersonal") EXCEPT !.peer = lp.Peer]
                            ELSE [send("sendToGroup") EXCEPT !.group = lp.Group]}
       [] lp.opts = {"n"} ->
            IF PeersToLeave(lp) # {} THEN {subscribe(1, PeersToLeave(lp))}
            ELSE IF lp.Group > 0 THEN {join(1, 0)} ELSE {}
       [] lp.opts = {"w"}  -> {subscribe(2, {})}
       [] lp.opts = {"nw"} -> {subscribe(3, {})}
       [] lp.opts = {"sw"} -> {send("SendToWorld")}
-----------------------------------------------------------------------------
(* SendCommand: numbers that are not positive, an op below 0 and empty      *)
(* texts set no header; the daemon reads a text that is not set as empty.  *)

Positive(x) == IF x > 0 THEN x ELSE None

SendCommand(a) ==
  [command |-> a.command, name |-> a.name, passwd |-> a.passwd, email |-> a.email,
   peers |-> a.peers, content |-> a.content,
   own |-> Positive(a.own), verifyCode |-> Positive(a.verify),
   peer |-> Positive(a.peer), group |-> Positive(a.group),
   op |-> IF a.op >= 0 THEN a.op ELSE None]
=============================================================================
