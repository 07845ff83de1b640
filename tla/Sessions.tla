------------------------------ MODULE Sessions ------------------------------
(***************************************************************************)
(* The session registry of the chat service: who is online, on which       *)
(* connection, and how the 30-second timer takes dead sessions away.       *)
(*                                                                         *)
(* Three kinds of goroutine touch GUserSession with no lock held across    *)
(* two accesses: the worker that runs HandleLoginRQ of a connection, the   *)
(* workers of the other connections, and the timer of handler.go's init.   *)
(* Every access to a shared map is a step of its own here.                 *)
(*                                                                         *)
(* The framework (github.com/catscai/ccat) is not in the repository.  As   *)
(* src/ uses it: a context keeps properties per connection, the packets of *)
(* one connection are handled one at a time and in order, packets already  *)
(* queued are still handled after the connection has died.                 *)
(***************************************************************************)
EXTENDS Naturals, Sequences, FiniteSets

CONSTANTS
  Users,        \* registered uids
  Conns,        \* names of TCP connections; a name is reused once forgotten
  Ids,          \* identities of UserSession objects, reused once unreachable
  Accounts,     \* Accounts[c]: the uids the client behind c logs in with
  QueueLength,  \* bound: packets waiting for the worker of a connection
  None

ASSUME SessionsAssumption ==
  /\ Accounts \in [Conns -> SUBSET Users]
  /\ QueueLength \in Nat \ {0}
  /\ None \notin Users \cup Conns

\* A *UserSession: its fields Own and conn never change after the login that
\* built it; id tells apart two objects with the same fields.
Session == [Own: Users, conn: Conns, id: Ids]

ASSUME NoneIsNoSession == None \notin Session

VARIABLES
  GUserSession, \* uid -> the registered session, None when offline
  Self,         \* the Self property of each connection's context
  valid,        \* valid[c]: IConn.Valid(), the connection is alive
  inbox,        \* login requests waiting for the worker of c
  pc,           \* where HandleLoginRQ of c stands: idle, check, bind
  req,          \* the uid of the request in progress on c
  new,          \* sessInfo, between its Store and the end of the handler
  phase,        \* the timer goroutine: wait, range, delete, clean, groups
  todo,         \* keys the GUserSession.Range of this tick has yet to visit
  key,          \* the key Range visits
  info          \* the session Range read for that key

loginVars == <<inbox, pc, req, new>>
timerVars == <<phase, todo, key, info>>
sessionVars == <<GUserSession, Self, valid, loginVars, timerVars>>

Online == {u \in Users : GUserSession[u] # None}

\* u is registered with a connection that is gone.
ValidityIgnored(u) == GUserSession[u] # None
Dead(u) == GUserSession[u] # None /\ ~valid[GUserSession[u].conn]

\* The sessions something still points to.
Reachable == ({GUserSession[u] : u \in Users} \cup {Self[c] : c \in Conns}
               \cup {new[c] : c \in Conns} \cup {info}) \ {None}

FreshId(i) == \A s \in Reachable : s.id # i

SessionsInit ==
  /\ GUserSession = [u \in Users |-> None]
  /\ Self = [c \in Conns |-> None]
  /\ valid = [c \in Conns |-> FALSE]
  /\ inbox = [c \in Conns |-> << >>]
  /\ pc = [c \in Conns |-> "idle"]
  /\ req = [c \in Conns |-> None]
  /\ new = [c \in Conns |-> None]
  /\ phase = "wait"
  /\ todo = {}
  /\ key = None
  /\ info = None
-----------------------------------------------------------------------------
(* Connections.                                                            *)

\* A client dials in (or reconnects).  The context of the connection is new,
\* so it has no Self; a name is free when no session, worker or timer knows it.
Connect(c) ==
  /\ ~valid[c] /\ pc[c] = "idle" /\ inbox[c] = << >>
  /\ \A s \in {GUserSession[u] : u \in Users} \cup {info} : s # None => s.conn # c
  /\ valid' = [valid EXCEPT ![c] = TRUE]
  /\ Self' = [Self EXCEPT ![c] = None]
  /\ UNCHANGED <<GUserSession, loginVars, timerVars>>

\* The connection dies: Valid() is false from now on.  Nobody is told; the
\* packets it delivered stay queued.
Disconnect(c) ==
  /\ valid[c]
  /\ valid' = [valid EXCEPT ![c] = FALSE]
  /\ UNCHANGED <<GUserSession, Self, loginVars, timerVars>>

\* A login packet for u arrives.
Receive(c, u) ==
  /\ valid[c] /\ u \in Accounts[c] /\ Len(inbox[c]) < QueueLength
  /\ inbox' = [inbox EXCEPT ![c] = Append(@, u)]
  /\ UNCHANGED <<GUserSession, Self, valid, pc, req, new, timerVars>>
-----------------------------------------------------------------------------
(* HandleLoginRQ.                                                          *)

AlreadyOnline(u) == GUserSession[u] # None

\* sessInfo, the object built for a good login.
SessionWithoutConn(c, i) == [Own |-> req[c], conn |-> None, id |-> i]
SessInfo(c, i) == [Own |-> req[c], conn |-> c, id |-> i]

\* GUserSession once the user this connection was logged in as went offline.
OldSessionKept(c) == GUserSession
WithoutOldSession(c) == IF Self[c] = None THEN GUserSession
                        ELSE [GUserSession EXCEPT ![Self[c].Own] = None]

\* The user is online already: the request is refused.
RefuseOnline(c) ==
  /\ pc[c] = "idle" /\ inbox[c] # << >>
  /\ AlreadyOnline(Head(inbox[c]))
  /\ inbox' = [inbox EXCEPT ![c] = Tail(@)]
  /\ UNCHANGED <<GUserSession, Self, valid, pc, req, new, timerVars>>

\* The user was not online when the map was read.
PassOnline(c) ==
  /\ pc[c] = "idle" /\ inbox[c] # << >>
  /\ ~AlreadyOnline(Head(inbox[c]))
  /\ inbox' = [inbox EXCEPT ![c] = Tail(@)]
  /\ pc' = [pc EXCEPT ![c] = "check"]
  /\ req' = [req EXCEPT ![c] = Head(inbox[c])]
  /\ UNCHANGED <<GUserSession, Self, valid, new, timerVars>>

\* Unknown uid, unreadable record or wrong password.
RejectLogin(c) ==
  /\ pc[c] = "check"
  /\ pc' = [pc EXCEPT ![c] = "idle"]
  /\ req' = [req EXCEPT ![c] = None]
  /\ UNCHANGED <<GUserSession, Self, valid, inbox, new, timerVars>>

\* The account is good: a session is built and registered, whatever the map
\* holds by now.
StoreSession(c) ==
  /\ pc[c] = "check"
  /\ \E i \in Ids :
       /\ FreshId(i)
       /\ new' = [new EXCEPT ![c] = SessInfo(c, i)]
       /\ GUserSession' = [GUserSession EXCEPT ![req[c]] = SessInfo(c, i)]
  /\ pc' = [pc EXCEPT ![c] = "bind"]
  /\ UNCHANGED <<Self, valid, inbox, req, timerVars>>

\* The user this connection was logged in as before, if any, goes offline and
\* the new session becomes the context's Self.
BindSession(c) ==
  /\ pc[c] = "bind"
  /\ GUserSession' = WithoutOldSession(c)
  /\ Self' = [Self EXCEPT ![c] = new[c]]
  /\ new' = [new EXCEPT ![c] = None]
  /\ pc' = [pc EXCEPT ![c] = "idle"]
  /\ req' = [req EXCEPT ![c] = None]
  /\ UNCHANGED <<valid, inbox, timerVars>>
-----------------------------------------------------------------------------
(* The timer.  CleanRelations and SweepGroups stand for what a tick does to *)
(* subscriptions and groups, which leaves these variables alone.            *)

Tick ==
  /\ phase = "wait"
  /\ phase' = "range"
  /\ todo' = Online
  /\ UNCHANGED <<GUserSession, Self, valid, loginVars, key, info>>

\* Range reaches u: its entry is gone, or its connection is valid.
SkipSession(u) ==
  /\ phase = "range" /\ u \in todo
  /\ ~Dead(u)
  /\ todo' = todo \ {u}
  /\ UNCHANGED <<GUserSession, Self, valid, loginVars, phase, key, info>>

\* Range reaches u and finds its connection dead.
FindDead(u) ==
  /\ phase = "range" /\ u \in todo
  /\ Dead(u)
  /\ phase' = "delete"
  /\ todo' = todo \ {u}
  /\ key' = u
  /\ info' = GUserSession[u]
  /\ UNCHANGED <<GUserSession, Self, valid, loginVars>>

\* The entry under that key is deleted, whichever session it holds by now.
DeadKept == GUserSession
WithoutDead == [GUserSession EXCEPT ![key] = None]
DeleteSession ==
  /\ phase = "delete"
  /\ GUserSession' = WithoutDead
  /\ phase' = "clean"
  /\ UNCHANGED <<Self, valid, loginVars, todo, key, info>>

CleanRelations ==
  /\ phase = "clean"
  /\ phase' = "range"
  /\ key' = None
  /\ info' = None
  /\ UNCHANGED <<GUserSession, Self, valid, loginVars, todo>>

EndRange ==
  /\ phase = "range" /\ todo = {}
  /\ phase' = "groups"
  /\ UNCHANGED <<GUserSession, Self, valid, loginVars, todo, key, info>>

SweepGroups ==
  /\ phase = "groups"
  /\ phase' = "wait"
  /\ UNCHANGED <<GUserSession, Self, valid, loginVars, todo, key, info>>
-----------------------------------------------------------------------------
Login(c) == RefuseOnline(c) \/ PassOnline(c) \/ RejectLogin(c)
              \/ StoreSession(c) \/ BindSession(c)

Timer == \/ Tick \/ DeleteSession \/ CleanRelations \/ EndRange \/ SweepGroups
         \/ \E u \in Users : SkipSession(u) \/ FindDead(u)

SessionsNext ==
  \/ \E c \in Conns : \/ Connect(c) \/ Disconnect(c) \/ Login(c)
                      \/ \E u \in Users : Receive(c, u)
  \/ Timer

SessionsSpec == SessionsInit /\ [][SessionsNext]_sessionVars

-----------------------------------------------------------------------------
(* Properties.                                                             *)

SessionOrNone == Session \cup {None}

\* Type invariant.
TypeOK ==
  /\ GUserSession \in [Users -> SessionOrNone]
  /\ Self \in [Conns -> SessionOrNone]
  /\ valid \in [Conns -> BOOLEAN]
  /\ inbox \in [Conns -> Seq(Users)]
  /\ pc \in [Conns -> {"idle", "check", "bind"}]
  /\ req \in [Conns -> Users \cup {None}]
  /\ new \in [Conns -> SessionOrNone]
  /\ phase \in {"wait", "range", "delete", "clean", "groups"}
  /\ todo \in SUBSET Users
  /\ key \in Users \cup {None}
  /\ info \in SessionOrNone

\* A registered session is the one its connection is logged in with, or the
\* one the login in progress there is about to bind: a message routed through
\* GUserSession never reaches a connection whose client has since logged in
\* as somebody else (HandleLoginRQ lines 219-226 against the timer and the
\* logins of other connections).
RegisteredIsCurrent ==
  \A u \in Users : GUserSession[u] # None =>
    LET s == GUserSession[u]
    IN  /\ s.Own = u
        /\ s = Self[s.conn] \/ s = new[s.conn]

\* Once a login has finished, a connection stands for at most one user: two
\* users are registered with one connection only while its worker is between
\* the Store and the Delete of HandleLoginRQ.
OneUserPerConnection ==
  \A u, v \in Online : u # v /\ GUserSession[u].conn = GUserSession[v].conn
                         => pc[GUserSession[u].conn] = "bind"

ExclusiveAccounts ==
  \A c, d \in Conns : c # d => Accounts[c] \cap Accounts[d] = {}

\* When no account is used from two connections, a live connection that is
\* logged in stays registered: neither the timer nor any other login takes a
\* session away from a client that is still there.
LiveIsRegistered ==
  ExclusiveAccounts =>
    \A c \in Conns : valid[c] /\ Self[c] # None
                       => GUserSession[Self[c].Own] = Self[c]

\* A dead connection does not lock its user out for ever: each time the entry
\* of u belongs to a dead connection, it is eventually taken away (the timer
\* of handler.go lines 40-52 against the refusal of line 183).
DeadIsReaped == \A u \in Users : Dead(u) ~> ~Dead(u)

\* A user who is online is refused a second login, so two live connections are
\* never logged in as the same user ("user already login success", handler.go
\* line 185).
SingleLogin ==
  \A c, d \in {b \in Conns : valid[b] /\ Self[b] # None} :
    c # d => Self[c].Own # Self[d].Own

\* The registry keeps presence: when no account is used from two connections,
\* a login is as good as one step, though Store, Delete and SetProperty are
\* three (lines 219-226), nobody's entry is lost to the login or the death of
\* another, and none comes back (lines 40-52).
Present(u) == GUserSession[u] # None /\ GUserSession[u] # new[GUserSession[u].conn]

OnlineWith == [u \in Users |-> IF Present(u) THEN GUserSession[u].conn ELSE None]

Registry == INSTANCE Presence WITH on <- OnlineWith, alive <- valid

KeepsPresence == Registry!Spec

=============================================================================
