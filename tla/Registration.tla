---------------------------- MODULE Registration ----------------------------
(***************************************************************************)
(* Registering an account: GenUID draws and persists a uid, SaveUserInfo   *)
(* persists the record, and the client is told its uid.  The process may   *)
(* die between any two of these steps; what leveldb holds survives, and    *)
(* OnInitUtil loads the uids in use before the service runs again.         *)
(*                                                                         *)
(* leveldb is outside the repository.  As src/ uses it: a Put that returns *)
(* nil survives the death of the process, and one that returns an error    *)
(* may have written its record or not.                                     *)
(***************************************************************************)
EXTENDS IdPool

CONSTANTS
  Requests,  \* register requests; the name, email and password of each
  None

ASSUME RegistrationAssumption == None \notin Requests

VARIABLES
  up,      \* the process runs
  lock,    \* the request whose handler holds genUidLock, or None
  pc,      \* where HandleRegisterRQ of each request stands
  uid,     \* the uid of its account
  dbIds,   \* the uids under e:u:
  dbInfo   \* dbInfo[u]: whose record is under user:info:u, or None

diskVars == <<dbIds, dbInfo>>
regVars == <<poolVars, up, lock, pc, uid, diskVars>>

Uids == 0 .. MaxInt

Init ==
  /\ PoolInit
  /\ up = TRUE /\ lock = None
  /\ pc = [r \in Requests |-> "new"]
  /\ uid = [r \in Requests |-> 0]
  /\ dbIds = {}
  /\ dbInfo = [u \in Uids |-> None]

Goto(r, label) == pc' = [pc EXCEPT ![r] = label]

\* The client of r is told that it failed; it may try again, as another request.
Fail(r) == Goto(r, "failed") /\ uid' = [uid EXCEPT ![r] = 0]

StillLocked == lock
Unlocked == None
-----------------------------------------------------------------------------
(* GenUID, under its lock.                                                 *)

Begin(r) ==
  /\ up /\ pc[r] = "new" /\ lock = None
  /\ Call
  /\ lock' = r /\ Goto(r, "gen")
  /\ UNCHANGED <<up, uid, diskVars>>

OutOfUids(r) ==
  /\ pc[r] = "gen" /\ GiveUp
  /\ lock' = Unlocked /\ Fail(r)
  /\ UNCHANGED <<up, diskVars>>

AddDigit(r) ==
  /\ pc[r] = "gen" /\ Widen
  /\ UNCHANGED <<up, lock, pc, uid, diskVars>>

Draw(r) ==
  /\ pc[r] = "gen" /\ Pick
  /\ uid' = [uid EXCEPT ![r] = result']
  /\ Goto(r, "put")
  /\ UNCHANGED <<up, lock, diskVars>>

PutUid(r) ==
  /\ pc[r] = "put"
  /\ dbIds' = dbIds \cup {uid[r]}
  /\ lock' = Unlocked /\ Goto(r, "save")
  /\ UNCHANGED <<poolVars, up, uid, dbInfo>>

\* The uid stays reserved, until the next start unless it was written after all.
PutFails(r) ==
  /\ pc[r] = "put"
  /\ dbIds' \in {dbIds, dbIds \cup {uid[r]}}
  /\ lock' = Unlocked /\ Fail(r)
  /\ UNCHANGED <<poolVars, up, dbInfo>>
-----------------------------------------------------------------------------
(* SaveUserInfo and the answer.                                            *)

WithRecord(r) == [dbInfo EXCEPT ![uid[r]] = r]

Save(r) ==
  /\ pc[r] = "save"
  /\ dbInfo' = WithRecord(r)
  /\ Goto(r, "reply")
  /\ UNCHANGED <<poolVars, up, lock, uid, dbIds>>

SaveFails(r) ==
  /\ pc[r] = "save"
  /\ dbInfo' \in {dbInfo, WithRecord(r)}
  /\ Fail(r)
  /\ UNCHANGED <<poolVars, up, lock, dbIds>>

Reply(r) ==
  /\ pc[r] = "reply"
  /\ Goto(r, "told")
  /\ UNCHANGED <<poolVars, up, lock, uid, diskVars>>
-----------------------------------------------------------------------------
(* The process.                                                            *)

Settled(r) == pc[r] \in {"new", "told"}

\* All that is in memory is lost, and no client gets an answer any more.
Crash ==
  /\ up
  /\ up' = FALSE
  /\ used' = {} /\ Return(0)
  /\ lock' = None
  /\ pc' = [r \in Requests |-> IF Settled(r) THEN pc[r] ELSE "failed"]
  /\ uid' = [r \in Requests |-> IF Settled(r) THEN uid[r] ELSE 0]
  /\ UNCHANGED diskVars

\* OnInitUtil.  It does not ask the iterator for an error, so a read that failed
\* would leave uids out; reads do not fail here.
NothingLoaded == {}
Loaded == dbIds
Restart ==
  /\ ~up
  /\ up' = TRUE
  /\ used' = Loaded
  /\ UNCHANGED <<idMin, idMax, capNum, looping, result, lock, pc, uid, diskVars>>
-----------------------------------------------------------------------------
Register(r) == \/ Begin(r) \/ OutOfUids(r) \/ AddDigit(r) \/ Draw(r) \/ PutUid(r)
               \/ PutFails(r) \/ Save(r) \/ SaveFails(r) \/ Reply(r)

Next == (\E r \in Requests : Register(r)) \/ Crash \/ Restart

Spec == Init /\ [][Next]_regVars
-----------------------------------------------------------------------------
(* Properties.                                                             *)

\* HandleLoginRQ finds the uid and the record whose password it compares.
CanLogin(u, r) == u \in used /\ dbInfo[u] = r

\* Type invariant, and who holds the lock.
RegTypeOK ==
  /\ PoolTypeOK
  /\ up \in BOOLEAN
  /\ lock \in Requests \cup {None}
  /\ pc \in [Requests -> {"new", "gen", "put", "save", "reply", "told", "failed"}]
  /\ uid \in [Requests -> Uids]
  /\ dbIds \subseteq Uids
  /\ dbInfo \in [Uids -> Requests \cup {None}]
  /\ \A r \in Requests : pc[r] \in {"gen", "put"} <=> lock = r
  /\ looping <=> \E r \in Requests : pc[r] = "gen"

\* An account a client was told of can be logged in to whenever the service
\* runs, however many times it died and however many other registrations
\* failed half way (HandleRegisterRQ against OnInitUtil and HandleLoginRQ).
PromiseKept == up => \A r \in Requests : pc[r] = "told" => CanLogin(uid[r], r)

\* No registration ever writes over the record of another: a uid is given out
\* once, even if it was reserved by a registration that failed or died.
RecordsAreFinal ==
  [][\A u \in Uids : dbInfo[u] # None => dbInfo'[u] = dbInfo[u]]_regVars

\* Whatever fails and whenever the process dies, registration keeps accounts as
\* Accounts has them: a request that is told it failed may have made one all the
\* same, but never two, and never one that is given away again.
Told == {<<r, uid[r]>> : r \in {q \in Requests : pc[q] = "told"}}

Book == INSTANCE Accounts WITH owner <- dbInfo, told <- Told

KeepsAccounts == Book!Spec
=============================================================================
