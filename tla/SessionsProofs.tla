--------------------------- MODULE SessionsProofs ---------------------------
(***************************************************************************)
(* What holds of the session registry for any number of users, connections *)
(* and session objects.                                                    *)
(***************************************************************************)
EXTENDS Sessions, TLAPS

\* The context and the worker of a connection hold sessions of that connection.
Bound ==
  /\ \A c \in Conns : Self[c] # None => Self[c].conn = c
  /\ \A c \in Conns : pc[c] # "idle" => req[c] \in Users
  /\ \A c \in Conns : IF pc[c] = "bind"
                      THEN new[c] # None /\ new[c].conn = c /\ new[c].Own = req[c]
                      ELSE new[c] = None

\* The inductive invariant behind RegisteredIsCurrent.
IInv == TypeOK /\ Bound /\ RegisteredIsCurrent

LEMMA InitIInv == SessionsInit => IInv
  BY NoneIsNoSession
     DEF SessionsInit, IInv, TypeOK, Bound, RegisteredIsCurrent, SessionOrNone

LEMMA StepTypeOK == TypeOK /\ Bound /\ [SessionsNext]_sessionVars => TypeOK'
<1> SUFFICES ASSUME TypeOK, Bound, [SessionsNext]_sessionVars PROVE TypeOK'
  OBVIOUS
<1> USE SessionsAssumption DEF TypeOK, SessionOrNone, loginVars, timerVars
<1>1. ASSUME NEW c \in Conns, Connect(c) PROVE TypeOK'
  BY <1>1 DEF Connect
<1>2. ASSUME NEW c \in Conns, Disconnect(c) PROVE TypeOK'
  BY <1>2 DEF Disconnect
<1>3. ASSUME NEW c \in Conns, NEW u \in Users, Receive(c, u) PROVE TypeOK'
  BY <1>3 DEF Receive
<1>4. ASSUME NEW c \in Conns, RefuseOnline(c) PROVE TypeOK'
  BY <1>4 DEF RefuseOnline
<1>5. ASSUME NEW c \in Conns, PassOnline(c) PROVE TypeOK'
  BY <1>5 DEF PassOnline, AlreadyOnline
<1>6. ASSUME NEW c \in Conns, RejectLogin(c) PROVE TypeOK'
  BY <1>6 DEF RejectLogin
<1>7. ASSUME NEW c \in Conns, StoreSession(c) PROVE TypeOK'
  <2>1. req[c] \in Users
    BY <1>7 DEF StoreSession, Bound
  <2>2. PICK i \in Ids :
          /\ new' = [new EXCEPT ![c] = [Own |-> req[c], conn |-> c, id |-> i]]
          /\ GUserSession' = [GUserSession EXCEPT
                                ![req[c]] = [Own |-> req[c], conn |-> c, id |-> i]]
    BY <1>7 DEF StoreSession, SessInfo
  <2>3. [Own |-> req[c], conn |-> c, id |-> i] \in Session
    BY <2>1 DEF Session
  <2>4. QED
    BY <1>7, <2>2, <2>3 DEF StoreSession, SessInfo
<1>8. ASSUME NEW c \in Conns, BindSession(c) PROVE TypeOK'
  BY <1>8 DEF BindSession, WithoutOldSession
<1>9. ASSUME NEW u \in Users, SkipSession(u) \/ FindDead(u) PROVE TypeOK'
  BY <1>9 DEF SkipSession, FindDead
<1>10. ASSUME Tick \/ DeleteSession \/ CleanRelations \/ EndRange \/ SweepGroups
       PROVE  TypeOK'
  BY <1>10 DEF Tick, DeleteSession, WithoutDead, CleanRelations, EndRange, SweepGroups, Online
<1>11. CASE UNCHANGED sessionVars
  BY <1>11 DEF sessionVars
<1>12. QED
  BY <1>1, <1>2, <1>3, <1>4, <1>5, <1>6, <1>7, <1>8, <1>9, <1>10, <1>11
     DEF SessionsNext, Login, Timer

LEMMA StepBound == TypeOK /\ Bound /\ [SessionsNext]_sessionVars => Bound'
<1> SUFFICES ASSUME TypeOK, Bound, [SessionsNext]_sessionVars PROVE Bound'
  OBVIOUS
<1> USE DEF TypeOK, Bound, SessionOrNone, loginVars, timerVars
<1>1. ASSUME NEW c \in Conns, Connect(c) PROVE Bound'
  BY <1>1 DEF Connect
<1>2. ASSUME NEW c \in Conns, Disconnect(c) PROVE Bound'
  BY <1>2 DEF Disconnect
<1>3. ASSUME NEW c \in Conns, NEW u \in Users, Receive(c, u) PROVE Bound'
  BY <1>3 DEF Receive
<1>4. ASSUME NEW c \in Conns, RefuseOnline(c) PROVE Bound'
  BY <1>4 DEF RefuseOnline
<1>5. ASSUME NEW c \in Conns, PassOnline(c) PROVE Bound'
  BY <1>5 DEF PassOnline, AlreadyOnline
<1>6. ASSUME NEW c \in Conns, RejectLogin(c) PROVE Bound'
  BY <1>6 DEF RejectLogin
<1>7. ASSUME NEW c \in Conns, StoreSession(c) PROVE Bound'
  <2>1. PICK i \in Ids : new' = [new EXCEPT ![c] = [Own |-> req[c], conn |-> c, id |-> i]]
    BY <1>7 DEF StoreSession, SessInfo
  <2>2. [Own |-> req[c], conn |-> c, id |-> i] # None
    BY <1>7, NoneIsNoSession DEF StoreSession, Session
  <2>3. QED
    BY <1>7, <2>1, <2>2 DEF StoreSession, SessInfo
<1>8. ASSUME NEW c \in Conns, BindSession(c) PROVE Bound'
  BY <1>8 DEF BindSession, WithoutOldSession
<1>9. ASSUME NEW u \in Users, SkipSession(u) \/ FindDead(u) PROVE Bound'
  BY <1>9 DEF SkipSession, FindDead
<1>10. ASSUME Tick \/ DeleteSession \/ CleanRelations \/ EndRange \/ SweepGroups
       PROVE  Bound'
  BY <1>10 DEF Tick, DeleteSession, WithoutDead, CleanRelations, EndRange, SweepGroups
<1>11. CASE UNCHANGED sessionVars
  BY <1>11 DEF sessionVars
<1>12. QED
  BY <1>1, <1>2, <1>3, <1>4, <1>5, <1>6, <1>7, <1>8, <1>9, <1>10, <1>11
     DEF SessionsNext, Login, Timer

LEMMA StepRegistered ==
  IInv /\ [SessionsNext]_sessionVars => RegisteredIsCurrent'
<1> SUFFICES ASSUME IInv, [SessionsNext]_sessionVars PROVE RegisteredIsCurrent'
  OBVIOUS
<1> USE DEF IInv, TypeOK, Bound, RegisteredIsCurrent, SessionOrNone, loginVars, timerVars
<1>1. ASSUME NEW c \in Conns, Connect(c) PROVE RegisteredIsCurrent'
  <2>1. \A u \in Users : GUserSession[u] # None => GUserSession[u].conn # c
    BY <1>1 DEF Connect
  <2>2. QED
    BY <1>1, <2>1 DEF Connect
<1>2. ASSUME NEW c \in Conns, Disconnect(c) PROVE RegisteredIsCurrent'
  BY <1>2 DEF Disconnect
<1>3. ASSUME NEW c \in Conns, NEW u \in Users, Receive(c, u)
      PROVE  RegisteredIsCurrent'
  BY <1>3 DEF Receive
<1>4. ASSUME NEW c \in Conns, RefuseOnline(c) PROVE RegisteredIsCurrent'
  BY <1>4 DEF RefuseOnline
<1>5. ASSUME NEW c \in Conns, PassOnline(c) PROVE RegisteredIsCurrent'
  BY <1>5 DEF PassOnline, AlreadyOnline
<1>6. ASSUME NEW c \in Conns, RejectLogin(c) PROVE RegisteredIsCurrent'
  BY <1>6 DEF RejectLogin
<1>7. ASSUME NEW c \in Conns, StoreSession(c) PROVE RegisteredIsCurrent'
  <2>1. PICK i \in Ids :
          /\ new' = [new EXCEPT ![c] = [Own |-> req[c], conn |-> c, id |-> i]]
          /\ GUserSession' = [GUserSession EXCEPT
                                ![req[c]] = [Own |-> req[c], conn |-> c, id |-> i]]
    BY <1>7 DEF StoreSession, SessInfo
  <2>2. UNCHANGED Self /\ new[c] = None /\ req[c] \in Users
    BY <1>7 DEF StoreSession
  <2>3. QED
    BY <2>1, <2>2
<1>8. ASSUME NEW c \in Conns, BindSession(c) PROVE RegisteredIsCurrent'
  <2> SUFFICES ASSUME NEW u \in Users, GUserSession'[u] # None
               PROVE  LET s == GUserSession'[u]
                      IN  s.Own = u /\ (s = Self'[s.conn] \/ s = new'[s.conn])
    OBVIOUS
  <2>1. /\ GUserSession'[u] = GUserSession[u]
        /\ Self[c] # None => u # Self[c].Own
    BY <1>8 DEF BindSession, WithoutOldSession
  <2>2. Self' = [Self EXCEPT ![c] = new[c]] /\ new' = [new EXCEPT ![c] = None]
    BY <1>8 DEF BindSession, WithoutOldSession
  <2>3. GUserSession[u].conn \in Conns
    BY <2>1 DEF Session
  <2>4. CASE GUserSession[u].conn = c
    BY <2>1, <2>2, <2>4
  <2>5. CASE GUserSession[u].conn # c
    BY <2>1, <2>2, <2>3, <2>5
  <2>6. QED
    BY <2>4, <2>5
<1>9. ASSUME NEW u \in Users, SkipSession(u) \/ FindDead(u)
      PROVE  RegisteredIsCurrent'
  BY <1>9 DEF SkipSession, FindDead
<1>10. ASSUME Tick \/ DeleteSession \/ CleanRelations \/ EndRange \/ SweepGroups
       PROVE  RegisteredIsCurrent'
  BY <1>10 DEF Tick, DeleteSession, WithoutDead, CleanRelations, EndRange, SweepGroups
<1>11. CASE UNCHANGED sessionVars
  BY <1>11 DEF sessionVars
<1>12. QED
  BY <1>1, <1>2, <1>3, <1>4, <1>5, <1>6, <1>7, <1>8, <1>9, <1>10, <1>11
     DEF SessionsNext, Login, Timer

\* The invariant holds in every reachable state.
LEMMA Invariance == SessionsSpec => []IInv
<1>1. IInv /\ [SessionsNext]_sessionVars => IInv'
  BY StepTypeOK, StepBound, StepRegistered DEF IInv
<1>2. QED
  BY InitIInv, <1>1, PTL DEF SessionsSpec
-----------------------------------------------------------------------------
\* The variables of the registry keep their types.
THEOREM TypeCorrect == SessionsSpec => []TypeOK
<1>1. IInv => TypeOK
  BY DEF IInv
<1>2. QED
  BY Invariance, <1>1, PTL

\* However logins, disconnections and the timer interleave, and whoever shares
\* accounts with whom, a registered session is the current one of its connection.
THEOREM RegistryIsCurrent == SessionsSpec => []RegisteredIsCurrent
<1>1. IInv => RegisteredIsCurrent
  BY DEF IInv
<1>2. QED
  BY Invariance, <1>1, PTL

\* Two users are registered with one connection only in the middle of a login.
THEOREM OneUser == SessionsSpec => []OneUserPerConnection
<1>1. IInv => OneUserPerConnection
  <2> SUFFICES ASSUME IInv, NEW u \in Online, NEW v \in Online, u # v,
                      GUserSession[u].conn = GUserSession[v].conn
               PROVE  pc[GUserSession[u].conn] = "bind"
    BY DEF OneUserPerConnection
  <2> DEFINE c == GUserSession[u].conn
  <2>1. /\ c \in Conns
        /\ GUserSession[u].Own = u /\ GUserSession[v].Own = v
        /\ GUserSession[u] = Self[c] \/ GUserSession[u] = new[c]
        /\ GUserSession[v] = Self[c] \/ GUserSession[v] = new[c]
    BY DEF IInv, TypeOK, RegisteredIsCurrent, Online, SessionOrNone, Session
  <2>2. new[c] # None
    BY <2>1 DEF Online
  <2>3. QED
    BY <2>1, <2>2 DEF IInv, Bound
<1>2. QED
  BY Invariance, <1>1, PTL
-----------------------------------------------------------------------------
(* Exclusive accounts.                                                     *)

\* What a connection's queue, worker and context hold are accounts of its own;
\* the timer is about to delete a key that belongs to a dead connection.
Owned ==
  /\ \A c \in Conns : inbox[c] \in Seq(Accounts[c])
  /\ \A c \in Conns : pc[c] # "idle" => req[c] \in Accounts[c]
  /\ \A c \in Conns : Self[c] # None => Self[c].Own \in Accounts[c]
  /\ info # None => info.Own \in Accounts[info.conn]
  /\ phase = "delete" => info # None /\ key = info.Own /\ ~valid[info.conn]

\* As long as c is alive nobody interferes with the entries of its accounts.
Undisturbed ==
  \A c \in Conns : valid[c] =>
    /\ Self[c] # None => GUserSession[Self[c].Own] = Self[c]
    /\ pc[c] = "check" => GUserSession[req[c]] = None
    /\ pc[c] = "bind" => /\ GUserSession[req[c]] = new[c]
                         /\ Self[c] # None => Self[c].Own # req[c]

LEMMA StepOwned == IInv /\ Owned /\ [SessionsNext]_sessionVars => Owned'
<1> SUFFICES ASSUME IInv, Owned, [SessionsNext]_sessionVars PROVE Owned'
  OBVIOUS
<1> USE SessionsAssumption
    DEF IInv, TypeOK, Bound, Owned, SessionOrNone, loginVars, timerVars
<1>1. ASSUME NEW c \in Conns, Connect(c) PROVE Owned'
  BY <1>1 DEF Connect
<1>2. ASSUME NEW c \in Conns, Disconnect(c) PROVE Owned'
  BY <1>2 DEF Disconnect
<1>3. ASSUME NEW c \in Conns, NEW u \in Users, Receive(c, u) PROVE Owned'
  BY <1>3 DEF Receive
<1>4. ASSUME NEW c \in Conns, RefuseOnline(c) PROVE Owned'
  BY <1>4 DEF RefuseOnline
<1>5. ASSUME NEW c \in Conns, PassOnline(c) PROVE Owned'
  BY <1>5 DEF PassOnline, AlreadyOnline
<1>6. ASSUME NEW c \in Conns, RejectLogin(c) PROVE Owned'
  BY <1>6 DEF RejectLogin
<1>7. ASSUME NEW c \in Conns, StoreSession(c) PROVE Owned'
  BY <1>7 DEF StoreSession, SessInfo
<1>8. ASSUME NEW c \in Conns, BindSession(c) PROVE Owned'
  BY <1>8 DEF BindSession, WithoutOldSession
<1>9. ASSUME NEW u \in Users, SkipSession(u) PROVE Owned'
  BY <1>9 DEF SkipSession
<1>10. ASSUME NEW u \in Users, FindDead(u) PROVE Owned'
  <2> DEFINE s == GUserSession[u]
  <2>1. s # None /\ s.conn \in Conns /\ ~valid[s.conn]
    BY <1>10 DEF FindDead, Dead, Session
  <2>2. s.Own = u /\ (s = Self[s.conn] \/ s = new[s.conn])
    BY <2>1 DEF RegisteredIsCurrent
  <2>3. s.Own \in Accounts[s.conn]
    BY <2>1, <2>2
  <2>4. QED
    BY <1>10, <2>1, <2>2, <2>3 DEF FindDead
<1>11. ASSUME Tick PROVE Owned'
  BY <1>11 DEF Tick
<1>12. ASSUME DeleteSession PROVE Owned'
  BY <1>12 DEF DeleteSession, WithoutDead
<1>13. ASSUME CleanRelations PROVE Owned'
  BY <1>13 DEF CleanRelations
<1>14. ASSUME EndRange PROVE Owned'
  BY <1>14 DEF EndRange
<1>15. ASSUME SweepGroups PROVE Owned'
  BY <1>15 DEF SweepGroups
<1>16. CASE UNCHANGED sessionVars
  BY <1>16 DEF sessionVars
<1>17. QED
  BY <1>1, <1>2, <1>3, <1>4, <1>5, <1>6, <1>7, <1>8, <1>9,
     <1>10, <1>11, <1>12, <1>13, <1>14, <1>15, <1>16
     DEF SessionsNext, Login, Timer

LEMMA StepUndisturbed ==
  ExclusiveAccounts /\ IInv /\ Owned /\ Undisturbed /\ [SessionsNext]_sessionVars
    => Undisturbed'
<1> SUFFICES ASSUME ExclusiveAccounts, IInv, Owned, Undisturbed,
                    [SessionsNext]_sessionVars
             PROVE  Undisturbed'
  OBVIOUS
<1> USE SessionsAssumption
    DEF IInv, TypeOK, Bound, Owned, Undisturbed, ExclusiveAccounts, SessionOrNone,
        loginVars, timerVars
<1>1. ASSUME NEW c \in Conns, Connect(c) PROVE Undisturbed'
  BY <1>1 DEF Connect
<1>2. ASSUME NEW c \in Conns, Disconnect(c) PROVE Undisturbed'
  BY <1>2 DEF Disconnect
<1>3. ASSUME NEW c \in Conns, NEW u \in Users, Receive(c, u) PROVE Undisturbed'
  BY <1>3 DEF Receive
<1>4. ASSUME NEW c \in Conns, RefuseOnline(c) PROVE Undisturbed'
  BY <1>4 DEF RefuseOnline
<1>5. ASSUME NEW c \in Conns, PassOnline(c) PROVE Undisturbed'
  BY <1>5 DEF PassOnline, AlreadyOnline
<1>6. ASSUME NEW c \in Conns, RejectLogin(c) PROVE Undisturbed'
  BY <1>6 DEF RejectLogin
<1>7. ASSUME NEW c \in Conns, StoreSession(c) PROVE Undisturbed'
  BY <1>7 DEF StoreSession, SessInfo
<1>8. ASSUME NEW c \in Conns, BindSession(c) PROVE Undisturbed'
  BY <1>8 DEF BindSession, WithoutOldSession
<1>9. ASSUME NEW u \in Users, SkipSession(u) PROVE Undisturbed'
  BY <1>9 DEF SkipSession
<1>10. ASSUME NEW u \in Users, FindDead(u) PROVE Undisturbed'
  BY <1>10 DEF FindDead
<1>11. ASSUME Tick PROVE Undisturbed'
  BY <1>11 DEF Tick
<1>12. ASSUME DeleteSession PROVE Undisturbed'
  <2> SUFFICES ASSUME NEW c \in Conns, valid[c]
               PROVE  /\ Self[c] # None => GUserSession'[Self[c].Own] = Self[c]
                      /\ pc[c] = "check" => GUserSession'[req[c]] = None
                      /\ pc[c] = "bind" => /\ GUserSession'[req[c]] = new[c]
                                           /\ Self[c] # None => Self[c].Own # req[c]
    BY <1>12 DEF DeleteSession, WithoutDead
  <2>1. info # None /\ info.conn \in Conns /\ info.conn # c /\ key \in Accounts[info.conn]
    BY <1>12 DEF DeleteSession, Session
  <2>2. key \notin Accounts[c]
    BY <2>1
  <2>3. \A u \in Accounts[c] : GUserSession'[u] = GUserSession[u]
    BY <1>12, <2>2 DEF DeleteSession, WithoutDead
  <2>4. QED
    BY <2>3
<1>13. ASSUME CleanRelations PROVE Undisturbed'
  BY <1>13 DEF CleanRelations
<1>14. ASSUME EndRange PROVE Undisturbed'
  BY <1>14 DEF EndRange
<1>15. ASSUME SweepGroups PROVE Undisturbed'
  BY <1>15 DEF SweepGroups
<1>16. CASE UNCHANGED sessionVars
  BY <1>16 DEF sessionVars
<1>17. QED
  BY <1>1, <1>2, <1>3, <1>4, <1>5, <1>6, <1>7, <1>8, <1>9,
     <1>10, <1>11, <1>12, <1>13, <1>14, <1>15, <1>16
     DEF SessionsNext, Login, Timer

\* When no account is used from two connections, a live connection that is
\* logged in stays registered.
THEOREM LiveStaysRegistered == SessionsSpec => []LiveIsRegistered
<1> DEFINE Live == ExclusiveAccounts => Owned /\ Undisturbed
<1>1. SessionsInit => Live
  BY SessionsAssumption DEF SessionsInit, Owned, Undisturbed
<1>2. IInv /\ Live /\ [SessionsNext]_sessionVars => Live'
  BY StepOwned, StepUndisturbed DEF ExclusiveAccounts
<1>3. Live => LiveIsRegistered
  BY DEF LiveIsRegistered, Undisturbed
<1>4. QED
  BY Invariance, <1>1, <1>2, <1>3, PTL DEF SessionsSpec
-----------------------------------------------------------------------------
(* The registry keeps presence.                                            *)

\* Nobody but the worker of c adds entries for the accounts of c, dead or
\* alive: while it looks at the account there is none, and until it has bound
\* the session it stored there is no other.
Sole ==
  \A c \in Conns :
    /\ pc[c] = "check" => GUserSession[req[c]] = None
    /\ pc[c] = "bind" => GUserSession[req[c]] \in {None, new[c]}

\* The invariant the refinement rests on.
PInv == IInv /\ Owned /\ Undisturbed /\ Sole

\* An account is registered with the connection it belongs to, if at all.
LEMMA EntryOfOwner ==
  ASSUME ExclusiveAccounts, IInv, Owned,
         NEW c \in Conns, NEW u \in Accounts[c], GUserSession[u] # None
  PROVE  /\ GUserSession[u].conn = c /\ GUserSession[u].Own = u
         /\ GUserSession[u] = Self[c] \/ (GUserSession[u] = new[c] /\ pc[c] = "bind")
<1> DEFINE s == GUserSession[u]
           d == s.conn
<1>1. u \in Users
  BY SessionsAssumption
<1>2. d \in Conns /\ s.Own = u
  BY <1>1 DEF IInv, TypeOK, SessionOrNone, Session, RegisteredIsCurrent
<1>3. s = Self[d] \/ (s = new[d] /\ pc[d] = "bind")
  <2>1. s = Self[d] \/ s = new[d]
    BY <1>1 DEF IInv, RegisteredIsCurrent
  <2>2. new[d] # None => pc[d] = "bind"
    BY <1>2 DEF IInv, Bound
  <2>3. QED
    BY <2>1, <2>2
<1>4. u \in Accounts[d]
  BY <1>2, <1>3 DEF Owned, IInv, Bound
<1>5. d = c
  BY <1>2, <1>4 DEF ExclusiveAccounts
<1>6. QED
  BY <1>2, <1>3, <1>5

LEMMA StepSole ==
  ExclusiveAccounts /\ IInv /\ Owned /\ Sole /\ [SessionsNext]_sessionVars => Sole'
<1> SUFFICES ASSUME ExclusiveAccounts, IInv, Owned, Sole, [SessionsNext]_sessionVars
             PROVE  Sole'
  OBVIOUS
<1> USE SessionsAssumption
    DEF IInv, TypeOK, Bound, Sole, SessionOrNone, loginVars, timerVars
<1>1. ASSUME NEW c \in Conns, Connect(c) PROVE Sole'
  BY <1>1 DEF Connect
<1>2. ASSUME NEW c \in Conns, Disconnect(c) PROVE Sole'
  BY <1>2 DEF Disconnect
<1>3. ASSUME NEW c \in Conns, NEW u \in Users, Receive(c, u) PROVE Sole'
  BY <1>3 DEF Receive
<1>4. ASSUME NEW c \in Conns, RefuseOnline(c) PROVE Sole'
  BY <1>4 DEF RefuseOnline
<1>5. ASSUME NEW c \in Conns, PassOnline(c) PROVE Sole'
  BY <1>5 DEF PassOnline, AlreadyOnline
<1>6. ASSUME NEW c \in Conns, RejectLogin(c) PROVE Sole'
  BY <1>6 DEF RejectLogin
<1>7. ASSUME NEW c \in Conns, StoreSession(c) PROVE Sole'
  <2>1. PICK i \in Ids :
          /\ new' = [new EXCEPT ![c] = SessInfo(c, i)]
          /\ GUserSession' = [GUserSession EXCEPT ![req[c]] = SessInfo(c, i)]
    BY <1>7 DEF StoreSession
  <2>2. req' = req /\ pc' = [pc EXCEPT ![c] = "bind"] /\ req[c] \in Accounts[c]
    BY <1>7 DEF StoreSession, Owned
  <2>3. ASSUME NEW d \in Conns, d # c, pc[d] # "idle"
        PROVE  GUserSession'[req[d]] = GUserSession[req[d]]
    BY <2>1, <2>2, <2>3 DEF Owned, ExclusiveAccounts
  <2>4. GUserSession'[req[c]] = SessInfo(c, i) /\ new'[c] = SessInfo(c, i)
    BY <2>1, <2>2
  <2>5. QED
    BY <2>1, <2>2, <2>3, <2>4
<1>8. ASSUME NEW c \in Conns, BindSession(c) PROVE Sole'
  BY <1>8 DEF BindSession, WithoutOldSession
<1>9. ASSUME NEW u \in Users, SkipSession(u) \/ FindDead(u) PROVE Sole'
  BY <1>9 DEF SkipSession, FindDead
<1>10. ASSUME Tick \/ DeleteSession \/ CleanRelations \/ EndRange \/ SweepGroups
       PROVE  Sole'
  BY <1>10 DEF Tick, DeleteSession, WithoutDead, CleanRelations, EndRange, SweepGroups
<1>11. CASE UNCHANGED sessionVars
  BY <1>11 DEF sessionVars
<1>12. QED
  BY <1>1, <1>2, <1>3, <1>4, <1>5, <1>6, <1>7, <1>8, <1>9, <1>10, <1>11
     DEF SessionsNext, Login, Timer

\* Until a login binds its session, nothing is to be seen of it.
LEMMA StoreKeeps ==
  ASSUME ExclusiveAccounts, PInv, NEW c \in Conns, StoreSession(c)
  PROVE  UNCHANGED OnlineWith
<1> USE DEF PInv, IInv, TypeOK, SessionOrNone
<1>1. PICK i \in Ids :
        /\ new' = [new EXCEPT ![c] = SessInfo(c, i)]
        /\ GUserSession' = [GUserSession EXCEPT ![req[c]] = SessInfo(c, i)]
  BY DEF StoreSession
<1>2. req[c] \in Users /\ new[c] = None /\ GUserSession[req[c]] = None
  BY DEF StoreSession, Bound, Sole
<1>3. SessInfo(c, i).conn = c /\ SessInfo(c, i).Own = req[c]
  BY DEF SessInfo
<1>4. ASSUME NEW u \in Users PROVE OnlineWith'[u] = OnlineWith[u]
  <2>1. CASE u = req[c]
    BY <1>1, <1>2, <1>3, <2>1 DEF OnlineWith, Present
  <2>2. CASE u # req[c] /\ GUserSession[u] # None
    <3>1. GUserSession'[u] = GUserSession[u] /\ GUserSession[u] # SessInfo(c, i)
      BY <1>1, <1>3, <2>2 DEF RegisteredIsCurrent
    <3>2. GUserSession[u].conn \in Conns
      BY <2>2 DEF Session
    <3>3. CASE GUserSession[u].conn = c
      BY <1>1, <1>2, <2>2, <3>1, <3>3 DEF OnlineWith, Present
    <3>4. CASE GUserSession[u].conn # c
      <4>1. new'[GUserSession[u].conn] = new[GUserSession[u].conn]
        BY <1>1, <3>2, <3>4
      <4>2. QED
        BY <2>2, <3>1, <4>1 DEF OnlineWith, Present
    <3>5. QED
      BY <3>3, <3>4
  <2>3. CASE u # req[c] /\ GUserSession[u] = None
    BY <1>1, <2>3 DEF OnlineWith, Present
  <2>4. QED
    BY <2>1, <2>2, <2>3
<1>5. QED
  BY <1>4 DEF OnlineWith

\* A login takes place where its session is bound; when the timer was faster, or
\* the same user was logged in before, the connection is dead.
LEMMA BindKeeps ==
  ASSUME ExclusiveAccounts, PInv, NEW c \in Conns, BindSession(c)
  PROVE  [Registry!Next]_(Registry!presenceVars)
<1> USE SessionsAssumption DEF PInv, IInv, TypeOK, SessionOrNone
<1> DEFINE u == req[c]
<1>1. /\ u \in Users /\ u \in Accounts[c] /\ pc[c] = "bind"
      /\ new[c] # None /\ new[c].conn = c /\ new[c].Own = u
      /\ valid' = valid /\ GUserSession' = WithoutOldSession(c)
      /\ new' = [new EXCEPT ![c] = None]
  BY DEF BindSession, Bound, Owned
<1>2. GUserSession[u] \in {None, new[c]}
  BY <1>1 DEF Sole
<1>3. OnlineWith[u] = None
  BY <1>1, <1>2 DEF OnlineWith, Present
<1>4. ASSUME NEW v \in Users, v # u
      PROVE  /\ OnlineWith[v] = c => Self[c] # None /\ Self[c].Own = v
             /\ OnlineWith'[v] = IF OnlineWith[v] = c THEN None ELSE OnlineWith[v]
  <2>1. CASE GUserSession[v] = None
    BY <1>1, <1>4, <2>1 DEF OnlineWith, Present, WithoutOldSession
  <2>2. CASE GUserSession[v] # None /\ GUserSession[v].conn = c
    <3>1. GUserSession[v] = Self[c] /\ Self[c].Own = v
      BY <1>1, <1>4, <2>2 DEF RegisteredIsCurrent
    <3>2. GUserSession'[v] = None /\ OnlineWith[v] = c
      BY <1>1, <1>4, <2>2, <3>1 DEF WithoutOldSession, OnlineWith, Present
    <3>3. OnlineWith'[v] = None
      BY <3>2 DEF OnlineWith, Present
    <3>4. QED
      BY <2>2, <3>1, <3>2, <3>3
  <2>3. CASE GUserSession[v] # None /\ GUserSession[v].conn # c
    <3>1. v \notin Accounts[c]
      BY <2>3, EntryOfOwner
    <3>2. GUserSession'[v] = GUserSession[v]
      BY <1>1, <3>1 DEF WithoutOldSession, Owned
    <3>3. GUserSession[v].conn \in Conns
      BY <2>3 DEF Session
    <3>4. new'[GUserSession[v].conn] = new[GUserSession[v].conn]
      BY <1>1, <2>3, <3>3
    <3>5. OnlineWith'[v] = OnlineWith[v] /\ OnlineWith[v] # c
      BY <2>3, <3>2, <3>4, <1>1, NoneIsNoSession DEF OnlineWith, Present
    <3>6. QED
      BY <3>5
  <2>4. QED
    BY <2>1, <2>2, <2>3
<1>5. CASE GUserSession'[u] = new[c]
  <2>1. OnlineWith'[u] = c
    BY <1>1, <1>5 DEF OnlineWith, Present
  <2>2. OnlineWith' = [v \in Users |-> IF v = u THEN c ELSE
                                        IF OnlineWith[v] = c THEN None ELSE OnlineWith[v]]
    BY <1>1, <1>4, <2>1 DEF OnlineWith
  <2>3. Registry!LogIn(c, u)
    BY <1>1, <1>3, <2>2 DEF Registry!LogIn
  <2>4. QED
    BY <1>1, <2>3 DEF Registry!Next
<1>6. CASE GUserSession'[u] # new[c]
  <2>1. GUserSession'[u] = None /\ ~valid[c]
    <3>1. GUserSession'[u] \in {None, GUserSession[u]}
      BY <1>1 DEF WithoutOldSession
    <3>2. CASE valid[c]
      BY <1>1, <1>6, <3>2 DEF WithoutOldSession, Undisturbed
    <3>3. QED
      BY <1>2, <1>6, <3>1, <3>2
  <2>2. OnlineWith'[u] = None
    BY <1>1, <2>1 DEF OnlineWith, Present
  <2>3. CASE \E w \in Users : OnlineWith[w] = c
    <3>1. PICK w \in Users : OnlineWith[w] = c
      BY <2>3
    <3>2. ASSUME NEW v \in Users
          PROVE  OnlineWith'[v] = IF v = w THEN None ELSE OnlineWith[v]
      BY <1>3, <1>4, <2>2, <3>1
    <3>3. OnlineWith' = [OnlineWith EXCEPT ![w] = None]
      BY <3>1, <3>2 DEF OnlineWith
    <3>4. c # None
      BY <1>3, <1>4, <3>1
    <3>5. Registry!GoOffline(w)
      BY <1>1, <2>1, <3>1, <3>3, <3>4 DEF Registry!GoOffline
    <3>6. QED
      BY <3>1, <3>5 DEF Registry!Next
  <2>4. CASE \A w \in Users : OnlineWith[w] # c
    <3>1. ASSUME NEW v \in Users PROVE OnlineWith'[v] = OnlineWith[v]
      BY <1>3, <1>4, <2>2, <2>4
    <3>2. OnlineWith' = OnlineWith
      BY <3>1 DEF OnlineWith
    <3>3. QED
      BY <1>1, <3>2 DEF Registry!presenceVars
  <2>5. QED
    BY <2>3, <2>4
<1>7. QED
  BY <1>5, <1>6

\* The timer takes nobody off whose connection is alive.
LEMMA DeleteKeeps ==
  ASSUME ExclusiveAccounts, PInv, DeleteSession
  PROVE  [Registry!Next]_(Registry!presenceVars)
<1> USE SessionsAssumption DEF PInv, IInv, TypeOK, SessionOrNone
<1>1. /\ info # None /\ key = info.Own /\ info.conn \in Conns /\ key \in Users
      /\ ~valid[info.conn] /\ key \in Accounts[info.conn]
      /\ UNCHANGED <<valid, new>>
      /\ GUserSession' = [GUserSession EXCEPT ![key] = None]
  BY DEF DeleteSession, WithoutDead, Owned, Session, loginVars
<1>2. ASSUME NEW v \in Users
      PROVE  OnlineWith'[v] = IF v = key THEN None ELSE OnlineWith[v]
  BY <1>1 DEF OnlineWith, Present
<1>3. CASE OnlineWith[key] = None
  <2>1. OnlineWith' = OnlineWith
    BY <1>2, <1>3 DEF OnlineWith
  <2>2. QED
    BY <1>1, <2>1 DEF Registry!presenceVars
<1>4. CASE OnlineWith[key] # None
  <2>1. GUserSession[key] # None /\ OnlineWith[key] = GUserSession[key].conn
    BY <1>1, <1>4 DEF OnlineWith, Present
  <2>2. OnlineWith[key] = info.conn
    BY <1>1, <2>1, EntryOfOwner
  <2>3. OnlineWith' = [OnlineWith EXCEPT ![key] = None]
    BY <1>2 DEF OnlineWith
  <2>4. Registry!GoOffline(key)
    BY <1>1, <1>4, <2>2, <2>3 DEF Registry!GoOffline
  <2>5. QED
    BY <1>1, <2>4 DEF Registry!Next
<1>5. QED
  BY <1>3, <1>4

LEMMA ConnectKeeps ==
  ASSUME PInv, NEW c \in Conns, Connect(c) PROVE Registry!Open(c)
<1> USE DEF PInv, IInv, TypeOK, SessionOrNone
<1>1. /\ ~valid[c] /\ \A u \in Users : GUserSession[u] # None => GUserSession[u].conn # c
      /\ valid' = [valid EXCEPT ![c] = TRUE] /\ UNCHANGED <<GUserSession, new>>
  BY DEF Connect, loginVars
<1>2. ASSUME NEW u \in Users
      PROVE  OnlineWith'[u] = OnlineWith[u] /\ OnlineWith[u] # c
  <2>1. CASE GUserSession[u] = None
    BY <1>1, <2>1, SessionsAssumption DEF OnlineWith, Present
  <2>2. CASE GUserSession[u] # None
    <3>1. GUserSession[u].conn \in Conns /\ GUserSession[u].conn # c
      BY <1>1, <2>2 DEF Session
    <3>2. QED
      BY <1>1, <3>1, SessionsAssumption DEF OnlineWith, Present
  <2>3. QED
    BY <2>1, <2>2
<1>3. OnlineWith' = OnlineWith
  BY <1>2 DEF OnlineWith
<1>4. QED
  BY <1>1, <1>2, <1>3 DEF Registry!Open

\* Every other step leaves presence as it is.
LEMMA QuietKeeps ==
  ASSUME UNCHANGED <<GUserSession, new, valid>>
  PROVE  UNCHANGED Registry!presenceVars
BY DEF Registry!presenceVars, OnlineWith, Present

LEMMA StepKeepsPresence ==
  ASSUME ExclusiveAccounts, PInv, [SessionsNext]_sessionVars
  PROVE  [Registry!Next]_(Registry!presenceVars)
<1>1. ASSUME NEW c \in Conns, Connect(c) PROVE Registry!Next
  BY <1>1, ConnectKeeps DEF Registry!Next
<1>2. ASSUME NEW c \in Conns, Disconnect(c) PROVE Registry!Next
  <2>1. UNCHANGED OnlineWith
    BY <1>2 DEF Disconnect, OnlineWith, Present, loginVars
  <2>2. Registry!Close(c)
    BY <1>2, <2>1 DEF Disconnect, Registry!Close
  <2>3. QED
    BY <2>2 DEF Registry!Next
<1>3. ASSUME NEW c \in Conns, StoreSession(c) PROVE UNCHANGED Registry!presenceVars
  BY <1>3, StoreKeeps DEF StoreSession, Registry!presenceVars
<1>4. ASSUME NEW c \in Conns,
             \/ RefuseOnline(c) \/ PassOnline(c) \/ RejectLogin(c)
             \/ \E u \in Users : Receive(c, u)
      PROVE  UNCHANGED Registry!presenceVars
  BY <1>4, QuietKeeps DEF Receive, RefuseOnline, PassOnline, RejectLogin, loginVars
<1>5. ASSUME \/ Tick \/ CleanRelations \/ EndRange \/ SweepGroups
             \/ \E u \in Users : SkipSession(u) \/ FindDead(u)
             \/ UNCHANGED sessionVars
      PROVE  UNCHANGED Registry!presenceVars
  BY <1>5, QuietKeeps
     DEF Tick, CleanRelations, EndRange, SweepGroups, SkipSession, FindDead,
         sessionVars, loginVars
<1>6. ASSUME NEW c \in Conns, BindSession(c)
      PROVE  Registry!Next \/ UNCHANGED Registry!presenceVars
  BY <1>6, BindKeeps
<1>7. ASSUME DeleteSession
      PROVE  Registry!Next \/ UNCHANGED Registry!presenceVars
  BY <1>7, DeleteKeeps
<1>8. QED
  BY <1>1, <1>2, <1>3, <1>4, <1>5, <1>6, <1>7 DEF SessionsNext, Login, Timer

\* When no account is used from two connections the registry implements presence:
\* a login is atomic, and nobody goes offline but with his connection.
THEOREM RegistryKeepsPresence ==
  ASSUME ExclusiveAccounts PROVE SessionsSpec => KeepsPresence
<1>1. SessionsInit => PInv
  BY SessionsAssumption, InitIInv DEF SessionsInit, PInv, Owned, Undisturbed, Sole
<1>2. PInv /\ [SessionsNext]_sessionVars => PInv'
  BY StepTypeOK, StepBound, StepRegistered, StepOwned, StepUndisturbed, StepSole
     DEF PInv, IInv
<1>3. SessionsInit => Registry!Init
  BY DEF SessionsInit, Registry!Init, OnlineWith, Present
<1>4. PInv /\ [SessionsNext]_sessionVars => [Registry!Next]_(Registry!presenceVars)
  BY StepKeepsPresence
<1>5. QED
  BY <1>1, <1>2, <1>3, <1>4, PTL DEF SessionsSpec, KeepsPresence, Registry!Spec
=============================================================================
