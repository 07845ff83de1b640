------------------------- MODULE RegistrationProofs -------------------------
(***************************************************************************)
(* Registrations, for any number of requests and deaths of the process and *)
(* for ranges of uids of any size.                                         *)
(***************************************************************************)
EXTENDS Registration, IdPoolProofs

\* What each handler knows of its uid, and that memory covers the disk.
Ledger ==
  /\ up => dbIds \subseteq used
  /\ ~up => lock = None /\ \A r \in Requests : pc[r] \in {"new", "told", "failed"}
  /\ \A u \in Uids : dbInfo[u] # None => u \in dbIds
  /\ \A r \in Requests : pc[r] = "put" => uid[r] \in used
  /\ \A r \in Requests : pc[r] \in {"save", "reply", "told"} => uid[r] \in dbIds
  /\ \A r \in Requests : pc[r] \in {"put", "save"} => dbInfo[uid[r]] = None
  /\ \A r \in Requests : pc[r] \in {"reply", "told"} => dbInfo[uid[r]] = r

\* No two requests hold the same uid.
Holds(r) == pc[r] \in {"put", "save", "reply", "told"}
Apart == \A r, s \in Requests : r # s /\ Holds(r) /\ Holds(s) => uid[r] # uid[s]

RInv == RegTypeOK /\ RangeOK /\ Ledger /\ Apart

LEMMA InitRInv == Init => RInv
<1> SUFFICES ASSUME Init PROVE RInv
  OBVIOUS
<1>1. PInv
  BY InitPInv DEF Init
<1>2. 0 \in Uids
  BY IdPoolAssumption DEF Uids
<1>3. looping = FALSE
  BY DEF Init, PoolInit
<1>4. RegTypeOK
  BY <1>1, <1>2, <1>3, RegistrationAssumption DEF PInv, Init, RegTypeOK
<1>5. Ledger /\ Apart
  BY DEF Init, PoolInit, Ledger, Apart, Holds
<1>6. QED
  BY <1>1, <1>4, <1>5 DEF RInv, PInv

LEMMA FreeAreUids == ASSUME PoolTypeOK, NEW id \in Free PROVE id \in Uids /\ id \notin used
<1>1. idMin \in 0 .. MaxInt /\ idMax \in 0 .. MaxInt
  BY DEF PoolTypeOK
<1>2. QED
  BY <1>1, IdPoolAssumption DEF Free, Uids

\* To the numbering loop, all but death and restart are its steps or nothing.
LEMMA StepPool ==
  ASSUME Lo <= Hi, RInv, [Next]_regVars PROVE PoolTypeOK' /\ RangeOK'
<1>0. PInv
  BY DEF RInv, RegTypeOK, PInv
<1>1. CASE \E r \in Requests : Register(r)
  <2>1. [PoolNext]_poolVars
    BY <1>1 DEF Register, Begin, OutOfUids, AddDigit, Draw, PutUid, PutFails, Save,
                SaveFails, Reply, PoolNext
  <2>2. QED
    BY <1>0, <2>1, StepPInv, Lo <= Hi DEF PInv
<1>2. CASE Crash
  <2>1. 0 \in 0 .. MaxInt
    BY IdPoolAssumption
  <2>2. PoolTypeOK'
    BY <1>2, <2>1 DEF Crash, Return, PoolTypeOK
  <2>3. RangeOK'
    BY <1>2 DEF Crash, Return, RangeOK
  <2>4. QED
    BY <2>2, <2>3
<1>3. CASE Restart
  BY <1>0, <1>3 DEF Restart, Loaded, PInv, PoolTypeOK, RangeOK, RInv, RegTypeOK, Uids
<1>4. CASE UNCHANGED regVars
  BY <1>0, <1>4 DEF regVars, poolVars, PInv, PoolTypeOK, RangeOK
<1>5. QED
  BY <1>1, <1>2, <1>3, <1>4 DEF Next

LEMMA StepRegType ==
  ASSUME Lo <= Hi, RInv, [Next]_regVars PROVE RegTypeOK'
<1>0. PoolTypeOK' /\ RegTypeOK
  BY StepPool DEF RInv
<1> USE RegistrationAssumption
    DEF RegTypeOK, diskVars, Goto, Fail, Unlocked
<1>1. ASSUME NEW r \in Requests, Begin(r) PROVE RegTypeOK'
  BY <1>0, <1>1 DEF Begin, Call
<1>2. ASSUME NEW r \in Requests, OutOfUids(r) PROVE RegTypeOK'
  <2>1. 0 \in Uids
    BY IdPoolAssumption DEF Uids
  <2>2. QED
    <3>1. looping' = FALSE
      BY <1>2 DEF OutOfUids, GiveUp, Return
    <3>2. lock = r
      BY <1>0, <1>2 DEF OutOfUids
    <3>3. \A s \in Requests : pc'[s] \notin {"gen", "put"}
      BY <1>0, <1>2, <3>2 DEF OutOfUids
    <3>4. /\ pc' \in [Requests -> {"new", "gen", "put", "save", "reply", "told", "failed"}]
          /\ uid' \in [Requests -> Uids]
          /\ lock' = None
          /\ UNCHANGED <<up, dbIds, dbInfo>>
      BY <1>0, <1>2, <2>1 DEF OutOfUids
    <3>5. QED
      BY <1>0, <3>1, <3>3, <3>4
<1>3. ASSUME NEW r \in Requests, AddDigit(r) PROVE RegTypeOK'
  BY <1>0, <1>3 DEF AddDigit, Widen
<1>4. ASSUME NEW r \in Requests, Draw(r) PROVE RegTypeOK'
  <2>a. PICK id \in Free : result' = id
    BY <1>4 DEF Draw, Pick, Return
  <2>1. result' \in Uids
    BY <1>0, <2>a, FreeAreUids
  <2>2. looping' = FALSE
    BY <1>4 DEF Draw, Pick, Return
  <2>3. QED
    BY <1>0, <1>4, <2>1, <2>2 DEF Draw
<1>5. ASSUME NEW r \in Requests, PutUid(r) \/ PutFails(r) PROVE RegTypeOK'
  <2>1. 0 \in Uids
    BY IdPoolAssumption DEF Uids
  <2>2. QED
    BY <1>0, <1>5, <2>1 DEF PutUid, PutFails, poolVars
<1>6. ASSUME NEW r \in Requests, Save(r) \/ SaveFails(r) \/ Reply(r) PROVE RegTypeOK'
  <2>1. 0 \in Uids
    BY IdPoolAssumption DEF Uids
  <2>2. QED
    BY <1>0, <1>6, <2>1 DEF Save, SaveFails, Reply, WithRecord, poolVars
<1>7. CASE Crash
  <2>1. 0 \in Uids
    BY IdPoolAssumption DEF Uids
  <2>2. QED
    BY <1>0, <1>7, <2>1 DEF Crash, Settled, Return
<1>8. CASE Restart
  BY <1>0, <1>8 DEF Restart
<1>9. CASE UNCHANGED regVars
  BY <1>0, <1>9 DEF regVars, poolVars
<1>10. QED
  BY <1>1, <1>2, <1>3, <1>4, <1>5, <1>6, <1>7, <1>8, <1>9 DEF Next, Register

LEMMA StepLedger ==
  ASSUME Lo <= Hi, RInv, [Next]_regVars PROVE Ledger' /\ Apart'
<1> USE RegistrationAssumption
    DEF RInv, RegTypeOK, Ledger, Apart, Holds, diskVars, Goto, Fail, Unlocked
<1>1. ASSUME NEW r \in Requests, Begin(r) \/ AddDigit(r) PROVE Ledger' /\ Apart'
  <2>1. UNCHANGED <<used, uid, diskVars, up>>
    BY <1>1 DEF Begin, Call, AddDigit, Widen
  <2>2. up
    BY <1>1 DEF Begin, AddDigit
  <2>3. pc' = pc \/ pc' = [pc EXCEPT ![r] = "gen"]
    BY <1>1 DEF Begin, AddDigit
  <2>4. QED
    BY <2>1, <2>2, <2>3
<1>2. ASSUME NEW r \in Requests, OutOfUids(r) PROVE Ledger' /\ Apart'
  <2>1. UNCHANGED <<used, diskVars, up>> /\ up
    BY <1>2 DEF OutOfUids, GiveUp
  <2>2. /\ pc' = [pc EXCEPT ![r] = "failed"] /\ uid' = [uid EXCEPT ![r] = 0]
        /\ lock' = None
    BY <1>2 DEF OutOfUids
  <2>3. QED
    BY <2>1, <2>2
<1>3. ASSUME NEW r \in Requests, Draw(r) PROVE Ledger' /\ Apart'
  <2>1. PICK id \in Free : result' = id /\ used' = used \cup {id}
    BY <1>3 DEF Draw, Pick, Return, Reserved
  <2>2. /\ pc' = [pc EXCEPT ![r] = "put"] /\ uid' = [uid EXCEPT ![r] = id]
        /\ UNCHANGED <<up, lock, dbIds, dbInfo>> /\ up
    BY <1>3, <2>1 DEF Draw
  <2>3. id \notin used /\ id \notin dbIds /\ id \in Uids
    BY <2>1, <2>2, FreeAreUids
  <2>4. lock = r /\ \A s \in Requests : s # r => pc[s] # "put"
    BY <1>3 DEF Draw
  <2>5. dbInfo[id] = None
    BY <2>3
  <2>6. ASSUME NEW s \in Requests, s # r, Holds(s) PROVE uid[s] # id
    <3>1. pc[s] \in {"save", "reply", "told"}
      BY <2>4, <2>6
    <3>2. uid[s] \in dbIds
      BY <3>1
    <3>3. QED
      BY <2>3, <3>2
  <2>7. Ledger'
    BY <2>1, <2>2, <2>3, <2>5
  <2>8. Apart'
    BY <2>2, <2>6
  <2>9. QED
    BY <2>7, <2>8
<1>4. ASSUME NEW r \in Requests, PutUid(r) PROVE Ledger' /\ Apart'
  <2>1. /\ pc[r] = "put" /\ pc' = [pc EXCEPT ![r] = "save"] /\ dbIds' = dbIds \cup {uid[r]}
        /\ UNCHANGED <<used, up, uid, dbInfo>> /\ lock' = None
    BY <1>4 DEF PutUid, poolVars
  <2>2. QED
    BY <2>1
<1>5. ASSUME NEW r \in Requests, PutFails(r) PROVE Ledger' /\ Apart'
  <2>1. /\ pc[r] = "put" /\ pc' = [pc EXCEPT ![r] = "failed"]
        /\ uid' = [uid EXCEPT ![r] = 0]
        /\ dbIds' \in {dbIds, dbIds \cup {uid[r]}}
        /\ UNCHANGED <<used, up, dbInfo>> /\ lock' = None
    BY <1>5 DEF PutFails, poolVars
  <2>2. QED
    BY <2>1
<1>6. ASSUME NEW r \in Requests, Save(r) PROVE Ledger' /\ Apart'
  <2>1. /\ pc[r] = "save" /\ pc' = [pc EXCEPT ![r] = "reply"]
        /\ dbInfo' = [dbInfo EXCEPT ![uid[r]] = r]
        /\ UNCHANGED <<used, up, lock, uid, dbIds>>
    BY <1>6 DEF Save, WithRecord, poolVars
  <2>2. QED
    BY <2>1
<1>7. ASSUME NEW r \in Requests, SaveFails(r) PROVE Ledger' /\ Apart'
  <2>1. /\ pc[r] = "save" /\ pc' = [pc EXCEPT ![r] = "failed"]
        /\ uid' = [uid EXCEPT ![r] = 0]
        /\ dbInfo' \in {dbInfo, [dbInfo EXCEPT ![uid[r]] = r]}
        /\ UNCHANGED <<used, up, lock, dbIds>>
    BY <1>7 DEF SaveFails, WithRecord, poolVars
  <2>2. QED
    BY <2>1
<1>8. ASSUME NEW r \in Requests, Reply(r) PROVE Ledger' /\ Apart'
  BY <1>8 DEF Reply, poolVars
<1>9. CASE Crash
  BY <1>9 DEF Crash, Settled
<1>10. CASE Restart
  BY <1>10 DEF Restart, Loaded
<1>11. CASE UNCHANGED regVars
  BY <1>11 DEF regVars, poolVars
<1>12. QED
  BY <1>1, <1>2, <1>3, <1>4, <1>5, <1>6, <1>7, <1>8, <1>9, <1>10, <1>11 DEF Next, Register

LEMMA RegInvariance == ASSUME Lo <= Hi PROVE Spec => []RInv
<1>1. RInv /\ [Next]_regVars => RInv'
  BY Lo <= Hi, StepPool, StepRegType, StepLedger DEF RInv
<1>2. QED
  BY <1>1, InitRInv, PTL DEF Spec

\* Handlers, lock and tables are as their types say, and GenUID's lock is held
\* exactly by the handler that is in it.
THEOREM RegistrationTypeCorrect == ASSUME Lo <= Hi PROVE Spec => []RegTypeOK
  BY Lo <= Hi, RegInvariance, PTL DEF RInv

\* GenUID's draw ends after restarts too, when ids come from the disk.
THEOREM RegistrationDrawEnds == ASSUME Lo <= Hi PROVE Spec => []DrawEnds
<1>1. RInv => PInv
  BY DEF RInv, RegTypeOK, PInv
<1>2. QED
  BY Lo <= Hi, <1>1, RoomLeft, RegInvariance, PTL

\* An account a client was told of is never lost.
THEOREM PromisesAreKept == ASSUME Lo <= Hi PROVE Spec => []PromiseKept
<1>1. RInv => PromiseKept
  BY DEF RInv, Ledger, PromiseKept, CanLogin
<1>2. QED
  BY Lo <= Hi, <1>1, RegInvariance, PTL

\* No record is ever overwritten.
THEOREM RecordsStay == ASSUME Lo <= Hi PROVE Spec => RecordsAreFinal
<1> DEFINE Kept == \A u \in Uids : dbInfo[u] # None => dbInfo'[u] = dbInfo[u]
<1>1. ASSUME RInv, [Next]_regVars PROVE Kept
  <2>1. ASSUME NEW r \in Requests, Save(r) \/ SaveFails(r) PROVE Kept
    BY <1>1, <2>1 DEF Save, SaveFails, WithRecord, RInv, RegTypeOK, Ledger
  <2>2. ASSUME NEW r \in Requests, Register(r), ~Save(r), ~SaveFails(r) PROVE UNCHANGED dbInfo
    BY <2>2 DEF Register, Begin, OutOfUids, AddDigit, Draw, PutUid, PutFails, Reply, diskVars
  <2>3. CASE Crash \/ Restart \/ UNCHANGED regVars
    BY <2>3 DEF Crash, Restart, regVars, diskVars
  <2>4. QED
    BY <1>1, <2>1, <2>2, <2>3 DEF Next
<1>2. RInv /\ [Next]_regVars => [Kept]_regVars
  BY <1>1
<1>3. QED
  BY Lo <= Hi, <1>2, RegInvariance, PTL DEF Spec, RecordsAreFinal
-----------------------------------------------------------------------------
(* Registration implements Accounts.                                       *)

\* A request that is not done with its record has none yet.
Unrecorded ==
  \A r \in Requests : pc[r] \in {"new", "gen", "put", "save"} =>
    \A u \in Uids : dbInfo[u] # r

LEMMA StepUnrecorded ==
  ASSUME RInv, Unrecorded, [Next]_regVars PROVE Unrecorded'
<1> USE RegistrationAssumption DEF Unrecorded, RInv, RegTypeOK, diskVars, Goto, Fail
<1>1. ASSUME NEW r \in Requests,
             Begin(r) \/ OutOfUids(r) \/ AddDigit(r) \/ Draw(r) \/ PutUid(r)
               \/ PutFails(r) \/ Reply(r)
      PROVE  Unrecorded'
  <2>1. dbInfo' = dbInfo
    BY <1>1 DEF Begin, OutOfUids, AddDigit, Draw, PutUid, PutFails, Reply
  <2>2. \A s \in Requests : pc'[s] \in {"new", "gen", "put", "save"}
                              => pc[s] \in {"new", "gen", "put", "save"}
    BY <1>1 DEF Begin, OutOfUids, AddDigit, Draw, PutUid, PutFails, Reply
  <2>3. QED
    BY <2>1, <2>2
<1>2. ASSUME NEW r \in Requests, Save(r) \/ SaveFails(r) PROVE Unrecorded'
  <2>1. /\ dbInfo' \in {dbInfo, [dbInfo EXCEPT ![uid[r]] = r]}
        /\ \/ pc' = [pc EXCEPT ![r] = "reply"]
           \/ pc' = [pc EXCEPT ![r] = "failed"]
    BY <1>2 DEF Save, SaveFails, WithRecord
  <2>2. QED
    BY <2>1
<1>3. CASE Crash
  BY <1>3 DEF Crash, Settled
<1>4. CASE Restart \/ UNCHANGED regVars
  BY <1>4 DEF Restart, regVars
<1>5. QED
  BY <1>1, <1>2, <1>3, <1>4 DEF Next, Register

\* Only Save makes an account, and only Reply tells a client of it.
LEMMA StepKeepsAccounts ==
  ASSUME RInv, Unrecorded, [Next]_regVars
  PROVE  [Book!Next]_(Book!accountVars)
<1> USE RegistrationAssumption DEF RInv, RegTypeOK, diskVars, Goto, Fail
<1>1. ASSUME NEW r \in Requests, Save(r) \/ SaveFails(r)
      PROVE  Book!Next \/ UNCHANGED Book!accountVars
  <2>1. /\ pc[r] = "save" /\ uid[r] \in Uids /\ dbInfo[uid[r]] = None
        /\ \A v \in Uids : dbInfo[v] # r
    BY <1>1 DEF Save, SaveFails, Ledger, Unrecorded
  <2>2. ASSUME NEW s \in Requests
        PROVE  (pc'[s] = "told" <=> pc[s] = "told") /\ (pc[s] = "told" => uid'[s] = uid[s])
    BY <1>1 DEF Save, SaveFails
  <2>3. Told' = Told
    BY <2>2 DEF Told
  <2>4. dbInfo' = dbInfo \/ dbInfo' = [dbInfo EXCEPT ![uid[r]] = r]
    BY <1>1 DEF Save, SaveFails, WithRecord
  <2>5. CASE dbInfo' = dbInfo
    BY <2>3, <2>5 DEF Book!accountVars
  <2>6. CASE dbInfo' = [dbInfo EXCEPT ![uid[r]] = r]
    <3>1. Book!Make(uid[r])
      BY <2>1, <2>3, <2>6 DEF Book!Make
    <3>2. QED
      BY <2>1, <3>1 DEF Book!Next
  <2>7. QED
    BY <2>4, <2>5, <2>6
<1>2. ASSUME NEW r \in Requests, Reply(r) PROVE Book!Next
  <2>1. /\ uid[r] \in Uids /\ dbInfo[uid[r]] = r /\ UNCHANGED <<uid, dbInfo>>
        /\ pc' = [pc EXCEPT ![r] = "told"]
    BY <1>2 DEF Reply, Ledger
  <2>2. ASSUME NEW s \in Requests
        PROVE  pc'[s] = "told" <=> pc[s] = "told" \/ s = r
    BY <2>1
  <2>3. Told' = Told \cup {<<r, uid[r]>>}
    BY <2>1, <2>2 DEF Told
  <2>4. Book!Tell(uid[r])
    BY <2>1, <2>3 DEF Book!Tell
  <2>5. QED
    BY <2>1, <2>4 DEF Book!Next
<1>3. ASSUME \/ \E r \in Requests : Begin(r) \/ OutOfUids(r) \/ AddDigit(r) \/ Draw(r)
                                      \/ PutUid(r) \/ PutFails(r)
             \/ Crash \/ Restart \/ UNCHANGED regVars
      PROVE  UNCHANGED Book!accountVars
  <2>1. dbInfo' = dbInfo
    BY <1>3 DEF Begin, OutOfUids, AddDigit, Draw, PutUid, PutFails, Crash, Restart, regVars
  <2>2. ASSUME NEW s \in Requests
        PROVE  /\ pc'[s] = "told" <=> pc[s] = "told"
               /\ pc[s] = "told" => uid'[s] = uid[s]
    <3>1. CASE Crash
      BY <3>1 DEF Crash, Settled
    <3>2. CASE Restart \/ UNCHANGED regVars
      BY <3>2 DEF Restart, regVars
    <3>3. ASSUME NEW r \in Requests,
                 Begin(r) \/ OutOfUids(r) \/ AddDigit(r) \/ Draw(r) \/ PutUid(r) \/ PutFails(r)
          PROVE  /\ pc'[s] = "told" <=> pc[s] = "told"
                 /\ pc[s] = "told" => uid'[s] = uid[s]
      <4>1. CASE Begin(r) \/ AddDigit(r) \/ PutUid(r)
        BY <4>1 DEF Begin, AddDigit, PutUid
      <4>2. CASE OutOfUids(r) \/ PutFails(r)
        BY <4>2 DEF OutOfUids, PutFails
      <4>3. CASE Draw(r)
        BY <4>3 DEF Draw
      <4>4. QED
        BY <3>3, <4>1, <4>2, <4>3
    <3>4. QED
      BY <1>3, <3>1, <3>2, <3>3
  <2>3. Told' = Told
    BY <2>2 DEF Told
  <2>4. QED
    BY <2>1, <2>3 DEF Book!accountVars
<1>4. QED
  BY <1>1, <1>2, <1>3 DEF Next, Register

\* With any writes failing and the process dying at any point, a request makes at
\* most one account, which stays its own, and its client is told of no other.
THEOREM RegistrationKeepsAccounts == ASSUME Lo <= Hi PROVE Spec => KeepsAccounts
<1>1. Init => Unrecorded /\ Book!Init
  BY RegistrationAssumption DEF Init, Unrecorded, Book!Init, Told
<1>2. RInv /\ Unrecorded /\ [Next]_regVars => Unrecorded'
  BY StepUnrecorded
<1>3. RInv /\ Unrecorded /\ [Next]_regVars => [Book!Next]_(Book!accountVars)
  BY StepKeepsAccounts
<1>4. QED
  BY Lo <= Hi, RegInvariance, <1>1, <1>2, <1>3, PTL DEF Spec, KeepsAccounts, Book!Spec
=============================================================================
