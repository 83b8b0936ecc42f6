----------------------- MODULE TaskProvisioningProofs -----------------------
(***************************************************************************)
(* TLAPS proofs about TaskProvisioning, for any number of requests,        *)
(* processes, sandboxes and sessions.                                      *)
(***************************************************************************)
EXTENDS TaskProvisioning, TLAPS

-----------------------------------------------------------------------------
(* The task lock by itself: each step of withLock keeps mutual exclusion    *)
(* among the goroutines that have not lost their key.                       *)

\* What each step of redis_lock.go does to the type of its variables.
LEMMA LockTypeStep ==
    ASSUME LockTypeOK,
           \/ \E h \in Handlers : Acquire(h) \/ Release(h)
           \/ Lapse
           \/ \E i \in Instances : ProcessDies(i)
    PROVE  LockTypeOK'
  BY LockAssumption DEF LockTypeOK, Acquire, Release, KeyGone, Lapse, ProcessDies, holder, lockVars

\* SET NX succeeds only when nobody is inside fn by right.
LEMMA AcquireExcludes ==
    ASSUME LockTypeOK, LockInv, NEW h \in Handlers, Acquire(h)
    PROVE  LockInv'
<1>1. held \ lost = {}
  BY LockAssumption DEF LockTypeOK, LockInv, Acquire, holder
<1>2. held' = held \cup {h} /\ lost' = lost /\ lock' = holder(h)
  BY DEF Acquire
<1>. QED BY <1>1, <1>2 DEF LockInv, holder

\* The compare-and-delete takes the key from whoever has it, or from nobody.
LEMMA ReleaseExcludes ==
    ASSUME LockInv, NEW h \in Handlers, Release(h)
    PROVE  LockInv'
  BY DEF LockInv, Release, KeyGone, holder

\* A lease that runs out leaves nobody inside fn by right.
LEMMA LapseExcludes ==
    ASSUME LockInv, Lapse
    PROVE  LockInv'
  BY DEF LockInv, Lapse, KeyGone

\* A crash takes goroutines out of fn and leaves the key.
LEMMA CrashExcludes ==
    ASSUME LockInv, NEW i \in Instances, ProcessDies(i)
    PROVE  LockInv'
  BY DEF LockInv, ProcessDies, holder

\* Mutual exclusion of withLock by itself, with leases lapsing under live
\* goroutines and releases that fail or delete the key of another: of the
\* goroutines inside fn whose key is still theirs there is at most one, and the key
\* carries its process's id.
THEOREM MutualExclusion == LockSpec => [](LockTypeOK /\ LockInv)
<1>1. LockInit => LockTypeOK /\ LockInv
  BY DEF LockInit, LockTypeOK, LockInv
<1>2. LockTypeOK /\ LockInv /\ [LockNext]_lockVars => (LockTypeOK /\ LockInv)'
  <2>1. SUFFICES ASSUME LockTypeOK, LockInv, [LockNext]_lockVars
                 PROVE  LockTypeOK' /\ LockInv'
    OBVIOUS
  <2>2. CASE UNCHANGED lockVars
    BY <2>1, <2>2 DEF LockTypeOK, LockInv, lockVars
  <2>3. CASE LockNext
    <3>1. LockTypeOK'
      BY <2>1, <2>3, LockTypeStep DEF LockNext
    <3>2. LockInv'
      BY <2>1, <2>3, AcquireExcludes, ReleaseExcludes, LapseExcludes, CrashExcludes
      DEF LockNext
    <3>. QED BY <3>1, <3>2
  <2>. QED BY <2>1, <2>2, <2>3
<1>. QED BY <1>1, <1>2, PTL DEF LockSpec

-----------------------------------------------------------------------------
(* Type correctness                                                        *)

LEMMA BlankType == Blank \in Copies
  BY DEF Blank, Copies

LEMMA InitType == Init => TypeOK
<1>1. Init => LockTypeOK
  BY DEF Init, LockInit, LockTypeOK
<1>. QED BY <1>1, BlankType DEF Init, TypeOK, Steps, Unlocked, States

LEMMA RequestType ==
    ASSUME TypeOK, NEW h \in Handlers, SendMessage(h)
    PROVE  TypeOK'
<1>. USE DEF TypeOK, Steps, ResetLocked, ProvisionLocked, Creating, Unlocked, Goto, At,
             rowVars, worldVars, delVars, lockVars, historyVars, AllMishaps
<1>1. LockTypeOK'
  <2>1. CASE \E g \in Handlers : Acquire(g) \/ Release(g)
    BY <2>1, LockTypeStep
  <2>2. CASE UNCHANGED lockVars
    BY <2>2 DEF LockTypeOK
  <2>. QED
    BY <2>1, <2>2 DEF SendMessage, Get, GetRow, GetHash, ResetIfExpired, ResetAcquire,
      ResetGivesUp, ResetCheck, ResetReadHash, IsAlive, ResetRow, ResetDel, ResetRelease,
      NewCheck, EnsureProvisioned, ProvisionAcquire, ProvisionGivesUp, ProvisionCheck,
      CreateSandbox, Boot, CloneRepo, SetRunningRow, SetRunningHash, VerifyRow, VerifyHash,
      SetProvisioned, ProvisionRelease, SetError, StreamMessage, PostMessage, SessionInit
<1>2. CASE Get(h)
  <2>1. snap' \in [Handlers -> Copies]
    <3>1. CASE GetRow(h)
      <4>. DEFINE copy == [fresh |-> state = "New", sandbox |-> None, session |-> sessionID]
      <4>1. copy \in Copies
        BY DEF Copies
      <4>2. snap' = [snap EXCEPT ![h] = copy]
        BY <3>1 DEF GetRow
      <4>. HIDE DEF copy
      <4>. QED BY <4>1, <4>2
    <3>2. CASE GetHash(h)
      <4>. DEFINE copy == [snap[h] EXCEPT !.sandbox = hash]
      <4>1. copy \in Copies
        BY DEF Copies
      <4>2. snap' = [snap EXCEPT ![h] = copy]
        BY <3>2 DEF GetHash
      <4>. HIDE DEF copy
      <4>. QED BY <4>1, <4>2
    <3>. QED BY <1>2, <3>1, <3>2 DEF Get
  <2>. QED BY <1>1, <1>2, <2>1 DEF Get, GetRow, GetHash
<1>3. CASE ResetIfExpired(h)
  <2>1. CASE ResetAcquire(h) \/ ResetGivesUp(h) \/ ResetCheck(h)
    <3>3. \E step \in Steps : pc' = [pc EXCEPT ![h] = step]
      BY <2>1 DEF ResetAcquire, ResetGivesUp, ResetCheck
    <3>1. pc' \in [Handlers -> Steps]
      BY <3>3
    <3>2. UNCHANGED <<rowVars, hash, worldVars, snap, target, stream, delVars, historyVars>>
      BY <2>1 DEF ResetAcquire, ResetGivesUp, ResetCheck
    <3>. QED BY <1>1, <3>1, <3>2
  <2>5. CASE ResetReadHash(h) \/ IsAlive(h)
    <3>3. \E step \in Steps : pc' = [pc EXCEPT ![h] = step]
      BY <2>5 DEF ResetReadHash, IsAlive
    <3>1. pc' \in [Handlers -> Steps]
      BY <3>3
    <3>2. /\ target' \in [Handlers -> Sandboxes \cup {None}]
          /\ UNCHANGED <<rowVars, hash, worldVars, snap, stream, delVars, historyVars>>
      BY <2>5 DEF ResetReadHash, IsAlive
    <3>. QED BY <1>1, <3>1, <3>2
  <2>2. CASE ResetRow(h) \/ ResetDel(h)
    BY <1>1, <2>2 DEF ResetRow, ResetDel, Changes, StateSet, States
  <2>3. CASE ResetRelease(h)
    <3>. DEFINE copy == Cleared(snap[h])
    <3>1. copy \in Copies
      <4>1. snap[h] \in Copies
        OBVIOUS
      <4>. QED BY ONLY <4>1 DEF Cleared, Copies
    <3>2. snap' = [snap EXCEPT ![h] = copy] \/ snap' = snap
      BY <2>3 DEF ResetRelease
    <3>. HIDE DEF copy
    <3>3. snap' \in [Handlers -> Copies]
      BY <3>1, <3>2
    <3>. QED BY <1>1, <2>3, <3>3 DEF ResetRelease
  <2>. QED BY <1>3, <2>1, <2>2, <2>3, <2>5 DEF ResetIfExpired
<1>4. CASE NewCheck(h)
  <2>. DEFINE copy == [snap[h] EXCEPT !.fresh = FALSE]
  <2>1. copy \in Copies
    <3>1. snap[h] \in Copies
      OBVIOUS
    <3>. QED BY ONLY <3>1 DEF Copies
  <2>2. snap' = [snap EXCEPT ![h] = copy] \/ snap' = snap
    BY <1>4 DEF NewCheck
  <2>. HIDE DEF copy
  <2>3. snap' \in [Handlers -> Copies]
    BY <2>1, <2>2
  <2>. QED BY <1>1, <1>4, <2>3 DEF NewCheck, StateSet, States
<1>5. CASE EnsureProvisioned(h)
  <2>1. CASE ProvisionAcquire(h) \/ ProvisionGivesUp(h) \/ ProvisionCheck(h)
    BY <1>1, <2>1 DEF ProvisionAcquire, ProvisionGivesUp, ProvisionCheck
  <2>2. CASE CreateSandbox(h)
    <3>4. \E step \in Steps : pc' = [pc EXCEPT ![h] = step]
      BY <2>2 DEF CreateSandbox
    <3>1. /\ pc' \in [Handlers -> Steps]
          /\ spoilt' \subseteq AllMishaps
          /\ fresh' \in Sandboxes \cup {None}
      BY <2>2, <3>4 DEF CreateSandbox, Changes
    <3>2. /\ sandbox' \in [Sandboxes -> {"unborn", "alive", "dead"}]
          /\ target' \in [Handlers -> Sandboxes \cup {None}]
      BY <2>2 DEF CreateSandbox
    <3>3. UNCHANGED <<rowVars, hash, opened, cloned, snap, stream, delVars>>
      BY <2>2 DEF CreateSandbox
    <3>. QED BY <1>1, <3>1, <3>2, <3>3
  <2>7. CASE Boot(h)
    BY <1>1, <2>7 DEF Boot
  <2>3. CASE CloneRepo(h)
    <3>1. pc'[h] \in {"setRow", "provFailed"} /\ pc' = [pc EXCEPT ![h] = pc'[h]]
      BY <2>3 DEF CloneRepo, CloneFailure
    <3>2. cloned' \in BOOLEAN /\ spoilt' \subseteq AllMishaps
      BY <2>3 DEF CloneRepo
    <3>3. UNCHANGED <<lockVars, rowVars, hash, sandbox, opened, snap, target, stream, delVars,
                     fresh>>
      BY <2>3 DEF CloneRepo
    <3>4. pc' \in [Handlers -> Steps]
      BY <3>1
    <3>. QED BY <1>1, <3>2, <3>3, <3>4
  <2>4. CASE SetRunningRow(h) \/ SetRunningHash(h)
    <3>1. [snap[h] EXCEPT !.sandbox = target[h]] \in Copies
      BY DEF Copies
    <3>. QED
      BY <1>1, <2>4, <3>1 DEF SetRunningRow, SetRunningHash, NotPersisted, Changes, StateSet,
        States
  <2>5. CASE VerifyRow(h) \/ VerifyHash(h) \/ ProvisionRelease(h)
    BY <1>1, <2>5 DEF VerifyRow, VerifyHash, ProvisionRelease
  <2>8. CASE SetProvisioned(h)
    BY <1>1, <2>8 DEF SetProvisioned, Changes, RowExists
  <2>6. CASE SetError(h)
    BY <1>1, <2>6, BlankType DEF SetError, Respond, StateSet, States
  <2>. QED BY <1>5, <2>1, <2>2, <2>3, <2>4, <2>5, <2>6, <2>7, <2>8 DEF EnsureProvisioned
<1>6. CASE StreamMessage(h)
  <2>1. CASE PostMessage(h)
    BY <1>1, <2>1, BlankType DEF PostMessage, Respond
  <2>2. CASE SessionInit(h)
    BY <1>1, <2>2, BlankType DEF SessionInit, Respond
  <2>. QED BY <1>6, <2>1, <2>2 DEF StreamMessage
<1>. QED BY <1>2, <1>3, <1>4, <1>5, <1>6 DEF SendMessage

LEMMA OtherType ==
    ASSUME TypeOK, DeleteTask \/ Environment
    PROVE  TypeOK'
<1>. USE DEF TypeOK, rowVars, worldVars, delVars, lockVars, historyVars, AllMishaps
<1>1. CASE DeleteTask
  BY <1>1 DEF DeleteTask, DeleteGet, DeleteRow, DeleteKeys, KeyGone, DeleteSandbox, LockTypeOK
<1>2. CASE \E b \in Sandboxes : SandboxDies(b)
  BY <1>2 DEF SandboxDies, LockTypeOK
<1>3. CASE LockLapses
  BY <1>3, LockTypeStep DEF LockLapses
<1>4. CASE HashExpires
  BY <1>4 DEF HashExpires, LockTypeOK
<1>5. CASE \E i \in Instances : InstanceCrash(i)
  BY <1>5, LockTypeStep, BlankType DEF InstanceCrash, Steps, Unlocked
<1>. QED BY <1>1, <1>2, <1>3, <1>4, <1>5 DEF Environment

LEMMA TypeStep == TypeOK /\ [Next]_vars => TypeOK'
<1>1. TypeOK /\ UNCHANGED vars => TypeOK'
  BY DEF TypeOK, LockTypeOK, vars, rowVars, worldVars, delVars, lockVars, historyVars
<1>. QED BY <1>1, RequestType, OtherType DEF Next

\* Every variable keeps its type, with any handlers, sandboxes and sessions.
THEOREM TypeCorrect == Spec => []TypeOK
  BY InitType, TypeStep, PTL DEF Spec

-----------------------------------------------------------------------------
(* The session of a task                                                   *)

\* Only session.init writes the column, and only when it is empty.
LEMMA SessionStep == [Next]_vars /\ sessionID # None => sessionID' = sessionID
<1>1. ASSUME NEW h \in Handlers, SendMessage(h), ~SessionInit(h)
      PROVE  sessionID' = sessionID
  BY <1>1 DEF rowVars, SendMessage, Get, GetRow, GetHash, ResetIfExpired, ResetAcquire,
    ResetGivesUp, ResetCheck, ResetReadHash, IsAlive, ResetRow, ResetDel, ResetRelease,
    NewCheck, EnsureProvisioned, ProvisionAcquire, ProvisionGivesUp, ProvisionCheck,
    CreateSandbox, Boot, CloneRepo, SetRunningRow, SetRunningHash, VerifyRow, VerifyHash,
    SetProvisioned, ProvisionRelease, SetError, StreamMessage, PostMessage
<1>2. ASSUME NEW h \in Handlers, SessionInit(h), sessionID # None
      PROVE  sessionID' = sessionID
  BY <1>2 DEF SessionInit, SessionUnset
<1>3. DeleteTask \/ Environment => sessionID' = sessionID
  BY DEF rowVars, DeleteTask, DeleteGet, DeleteRow, DeleteKeys, DeleteSandbox, Environment,
    SandboxDies, LockLapses, HashExpires, InstanceCrash
<1>4. UNCHANGED vars => sessionID' = sessionID
  BY DEF vars, rowVars
<1>. QED BY <1>1, <1>2, <1>3, <1>4 DEF Next

\* Whatever agents answer to racing first messages, after resets and crashes, the
\* session recorded first stays: history stays reachable under one id.
THEOREM SessionIsWriteOnce == Spec => SessionWriteOnce
<1>1. [Next]_vars => [sessionID # None => sessionID' = sessionID]_vars
  BY SessionStep
<1>. QED BY <1>1, PTL DEF Spec, SessionWriteOnce

\* A request's copy of the session comes from the row, or is dropped.
LEMMA CopiedSession ==
    ASSUME TypeOK, NEW h \in Handlers, [Next]_vars
    PROVE  \/ snap'[h].session \in {snap[h].session, None}
           \/ snap'[h].session = sessionID /\ sessionID' = sessionID
<1>. USE DEF TypeOK
<1>1. ASSUME NEW g \in Handlers, Get(g)
      PROVE  \/ snap'[h].session = snap[h].session
             \/ snap'[h].session = sessionID /\ sessionID' = sessionID
  BY <1>1 DEF Get, GetRow, GetHash, Copies, rowVars
<1>2. ASSUME NEW g \in Handlers, ResetIfExpired(g) \/ NewCheck(g) \/ EnsureProvisioned(g),
             ~SetError(g)
      PROVE  snap'[h].session = snap[h].session
  <2>1. CASE ResetRelease(g)
    BY <2>1 DEF ResetRelease, Cleared, Copies
  <2>2. CASE NewCheck(g)
    BY <2>2 DEF NewCheck, Copies
  <2>3. CASE SetRunningRow(g)
    BY <2>3 DEF SetRunningRow, Copies
  <2>. QED
    BY <1>2, <2>1, <2>2, <2>3 DEF ResetIfExpired, ResetAcquire, ResetGivesUp, ResetCheck,
      ResetReadHash, IsAlive, ResetRow, ResetDel, EnsureProvisioned, ProvisionAcquire,
      ProvisionGivesUp, ProvisionCheck, CreateSandbox, Boot, CloneRepo, SetRunningHash,
      VerifyRow, VerifyHash, SetProvisioned, ProvisionRelease
<1>3. ASSUME NEW g \in Handlers, SetError(g) \/ StreamMessage(g)
      PROVE  snap'[h].session \in {snap[h].session, None}
  BY <1>3 DEF SetError, StreamMessage, PostMessage, SessionInit, Respond, Blank
<1>4. ASSUME DeleteTask \/ Environment
      PROVE  snap'[h].session \in {snap[h].session, None}
  BY <1>4 DEF DeleteTask, DeleteGet, DeleteRow, DeleteKeys, DeleteSandbox, Environment,
    SandboxDies, LockLapses, HashExpires, InstanceCrash, Blank
<1>5. UNCHANGED vars => snap'[h].session = snap[h].session
  BY DEF vars
<1>. QED BY <1>1, <1>2, <1>3, <1>4, <1>5 DEF Next, SendMessage

\* A request's copy of the session, once it has one, is that of the row: none posts
\* to another session than the one recorded.
SessionAgreed == \A h \in Handlers : snap[h].session # None => snap[h].session = sessionID

LEMMA SessionsAgree == Spec => []SessionAgreed
<1>1. Init => SessionAgreed
  BY DEF Init, SessionAgreed, Blank
<1>2. TypeOK /\ SessionAgreed /\ [Next]_vars => SessionAgreed'
  BY CopiedSession, SessionStep DEF SessionAgreed
<1>. QED BY <1>1, <1>2, TypeCorrect, PTL DEF Spec

-----------------------------------------------------------------------------
(* The workspace behind a session                                          *)

\* Whatever leads to a session being recorded has a clone behind it: a request
\* past the clone, a route to a sandbox, a session under way; until the failure of a
\* clone goes unseen.
ClonedInv ==
    HasGitURL /\ "clone" \notin spoilt =>
        /\ hash # None => cloned
        /\ sessionID # None => cloned
        /\ \A h \in Handlers :
             /\ pc[h] \in {"setRow", "setHash", "init"} => cloned
             /\ snap[h].sandbox # None => cloned

\* What has befallen the task is not forgotten.
LEMMA MishapsStay == [Next]_vars => spoilt \subseteq spoilt'
<1>. USE DEF historyVars
<1>1. ASSUME NEW g \in Handlers, SendMessage(g)
      PROVE  spoilt \subseteq spoilt'
  BY <1>1 DEF Changes, NotPersisted, SendMessage, Get, GetRow, GetHash, ResetIfExpired,
    ResetAcquire, ResetGivesUp, ResetCheck, ResetReadHash, IsAlive, ResetRow, ResetDel,
    ResetRelease, NewCheck, EnsureProvisioned, ProvisionAcquire, ProvisionGivesUp,
    ProvisionCheck, CreateSandbox, Boot, CloneRepo, SetRunningRow, SetRunningHash, VerifyRow,
    VerifyHash, SetProvisioned, ProvisionRelease, SetError, StreamMessage, PostMessage,
    SessionInit
<1>2. DeleteTask \/ Environment => spoilt \subseteq spoilt'
  BY DEF DeleteTask, DeleteGet, DeleteRow, DeleteKeys, DeleteSandbox, Environment,
    SandboxDies, LockLapses, HashExpires, InstanceCrash
<1>3. UNCHANGED vars => spoilt \subseteq spoilt'
  BY DEF vars
<1>. QED BY <1>1, <1>2, <1>3 DEF Next

LEMMA ClonedInit == Init => ClonedInv
  BY DEF Init, ClonedInv, Blank

LEMMA ClonedStep ==
    ASSUME TypeOK, SessionAgreed, ClonedInv, [Next]_vars
    PROVE  ClonedInv'
<1>0. spoilt \subseteq spoilt'
  BY MishapsStay
<1>. SUFFICES ASSUME HasGitURL, "clone" \notin spoilt'
              PROVE  ClonedInv'
  BY DEF ClonedInv
<1>. USE <1>0 DEF TypeOK, ClonedInv, Goto, At, rowVars, worldVars, historyVars
<1>1. ASSUME NEW g \in Handlers, Get(g)
      PROVE  ClonedInv'
  BY <1>1 DEF Get, GetRow, GetHash, Copies
<1>2. ASSUME NEW g \in Handlers, ResetIfExpired(g)
      PROVE  ClonedInv'
  <2>1. CASE ResetRelease(g)
    BY <2>1 DEF ResetRelease, Cleared, Copies
  <2>. QED
    BY <1>2, <2>1 DEF ResetIfExpired, ResetAcquire, ResetGivesUp, ResetCheck,
      ResetReadHash, IsAlive, ResetRow, ResetDel
<1>3. ASSUME NEW g \in Handlers, NewCheck(g)
      PROVE  ClonedInv'
  BY <1>3 DEF NewCheck, Copies
<1>4. ASSUME NEW g \in Handlers, EnsureProvisioned(g)
      PROVE  ClonedInv'
  <2>1. CASE Boot(g)
    BY <2>1 DEF Boot, SessionAgreed
  <2>2. CASE CloneRepo(g)
    BY <2>2 DEF CloneRepo, CloneFailure
  <2>3. CASE SetRunningRow(g)
    BY <2>3 DEF SetRunningRow, Copies
  <2>4. CASE SetRunningHash(g)
    BY <2>4 DEF SetRunningHash
  <2>5. CASE SetError(g)
    BY <2>5 DEF SetError, Respond, Blank
  <2>. QED
    BY <1>4, <2>1, <2>2, <2>3, <2>4, <2>5 DEF EnsureProvisioned, ProvisionAcquire,
      ProvisionGivesUp, ProvisionCheck, CreateSandbox, VerifyRow, VerifyHash,
      SetProvisioned, ProvisionRelease
<1>5. ASSUME NEW g \in Handlers, StreamMessage(g)
      PROVE  ClonedInv'
  BY <1>5 DEF StreamMessage, PostMessage, SessionInit, Respond, Blank
<1>6. DeleteTask \/ Environment => ClonedInv'
  BY DEF DeleteTask, DeleteGet, DeleteRow, DeleteKeys, DeleteSandbox, Environment,
    SandboxDies, LockLapses, HashExpires, InstanceCrash, Blank
<1>7. UNCHANGED vars => ClonedInv'
  BY DEF vars
<1>. QED BY <1>1, <1>2, <1>3, <1>4, <1>5, <1>6, <1>7 DEF Next, SendMessage

\* A task with a session has its repository: skipping the clone because a session
\* exists is right, even when locks lapse and several requests provision at once,
\* as long as no clone fails unseen.
THEOREM SessionsHaveClone == Spec => []SessionImpliesCloned
<1>1. TypeOK /\ SessionAgreed /\ ClonedInv /\ [Next]_vars => ClonedInv'
  BY ClonedStep
<1>2. ClonedInv => SessionImpliesCloned
  BY DEF ClonedInv, SessionImpliesCloned
<1>. QED BY <1>1, <1>2, ClonedInit, TypeCorrect, SessionsAgree, PTL DEF Spec

-----------------------------------------------------------------------------
(* The lock over the calls of a request                                    *)

Locked == ResetLocked \cup ProvisionLocked

\* The goroutines between Acquire and Release are those at a call under the lock,
\* and those whose key is still there exclude each other; DeleteKeys, which takes
\* the key from under them, comes after the row is gone.
LeaseInv ==
    /\ held = {h \in Handlers : pc[h] \in Locked}
    /\ LockInv
    /\ RowExists <=> del \in {"no", "got"}

LEMMA LeaseInit == Init => LeaseInv
  BY DEF Init, LockInit, LeaseInv, LockInv, RowExists, Locked, ResetLocked,
    ProvisionLocked, Creating

\* The calls that take, give back, or merely go on under the lock.
LEMMA LeaseRequest ==
    ASSUME TypeOK, LeaseInv, NEW h \in Handlers, SendMessage(h)
    PROVE  LeaseInv'
<1>. USE DEF TypeOK, LeaseInv, Locked, ResetLocked, ProvisionLocked, Creating, Goto, At,
             rowVars, delVars
<1>1. RowExists' = RowExists /\ del' = del
  BY DEF RowExists, StateSet, States, Respond, SendMessage, Get, GetRow, GetHash,
    ResetIfExpired, ResetAcquire, ResetGivesUp, ResetCheck, ResetReadHash, IsAlive, ResetRow,
    ResetDel, ResetRelease, NewCheck, EnsureProvisioned, ProvisionAcquire, ProvisionGivesUp,
    ProvisionCheck, CreateSandbox, Boot, CloneRepo, SetRunningRow, SetRunningHash, VerifyRow,
    VerifyHash, SetProvisioned, ProvisionRelease, SetError, StreamMessage, PostMessage,
    SessionInit
<1>2. CASE ResetAcquire(h) \/ ProvisionAcquire(h)
  <2>1. pc[h] \notin Locked /\ pc'[h] \in Locked /\ Acquire(h)
    BY <1>2 DEF ResetAcquire, ProvisionAcquire
  <2>2. held' = {g \in Handlers : pc'[g] \in Locked}
    BY <1>2, <2>1 DEF ResetAcquire, ProvisionAcquire, Acquire
  <2>. QED BY <1>1, <2>1, <2>2, AcquireExcludes
<1>3. CASE ResetRelease(h) \/ ProvisionRelease(h)
  <2>1. pc[h] \in Locked /\ pc'[h] \notin Locked /\ Release(h)
    BY <1>3 DEF ResetRelease, ProvisionRelease
  <2>2. held' = {g \in Handlers : pc'[g] \in Locked}
    BY <1>3, <2>1 DEF ResetRelease, ProvisionRelease, Release
  <2>. QED BY <1>1, <2>1, <2>2, ReleaseExcludes
<1>4. CASE UNCHANGED lockVars
  <2>1. pc'[h] \in Locked <=> pc[h] \in Locked
    BY <1>4 DEF lockVars, SendMessage, Get, GetRow, GetHash, ResetIfExpired, ResetAcquire,
      ResetGivesUp, ResetCheck, ResetReadHash, IsAlive, ResetRow, ResetDel, ResetRelease,
      NewCheck, EnsureProvisioned, ProvisionAcquire, ProvisionGivesUp, ProvisionCheck,
      CreateSandbox, Boot, CloneRepo, CloneFailure, SetRunningRow, SetRunningHash,
      VerifyRow, VerifyHash, SetProvisioned, ProvisionRelease, SetError, StreamMessage,
      PostMessage, SessionInit, Respond, Acquire, Release
  <2>2. \A g \in Handlers : g # h => pc'[g] = pc[g]
    BY DEF SendMessage, Get, GetRow, GetHash, ResetIfExpired, ResetAcquire,
      ResetGivesUp, ResetCheck, ResetReadHash, IsAlive, ResetRow, ResetDel, ResetRelease,
      NewCheck, EnsureProvisioned, ProvisionAcquire, ProvisionGivesUp, ProvisionCheck,
      CreateSandbox, Boot, CloneRepo, SetRunningRow, SetRunningHash,
      VerifyRow, VerifyHash, SetProvisioned, ProvisionRelease, SetError, StreamMessage,
      PostMessage, SessionInit, Respond
  <2>. QED BY <1>1, <1>4, <2>1, <2>2 DEF lockVars, LockInv
<1>. QED
  BY <1>2, <1>3, <1>4 DEF SendMessage, Get, GetRow, GetHash, ResetIfExpired,
    ResetGivesUp, ResetCheck, ResetReadHash, IsAlive, ResetRow, ResetDel, NewCheck,
    EnsureProvisioned, ProvisionGivesUp, ProvisionCheck, CreateSandbox, Boot, CloneRepo,
    SetRunningRow, SetRunningHash, VerifyRow, VerifyHash, SetProvisioned, SetError,
    StreamMessage, PostMessage, SessionInit

LEMMA LeaseOther ==
    ASSUME TypeOK, LeaseInv, DeleteTask \/ Environment
    PROVE  LeaseInv'
<1>. USE DEF TypeOK, LeaseInv, rowVars, delVars
<1>1. CASE DeleteTask
  BY <1>1 DEF DeleteTask, DeleteGet, DeleteRow, DeleteKeys, KeyGone, DeleteSandbox, RowExists,
    States, lockVars, LockInv
<1>2. CASE (\E b \in Sandboxes : SandboxDies(b)) \/ HashExpires
  BY <1>2 DEF SandboxDies, HashExpires, RowExists, lockVars, LockInv
<1>3. CASE LockLapses
  BY <1>3, LapseExcludes DEF LockLapses, Lapse, RowExists
<1>4. ASSUME NEW i \in Instances, InstanceCrash(i)
      PROVE  LeaseInv'
  <2>1. held' = {h \in Handlers : pc'[h] \in Locked}
    BY <1>4 DEF InstanceCrash, ProcessDies, Locked, ResetLocked, ProvisionLocked, Creating
  <2>. QED BY <1>4, <2>1, CrashExcludes DEF InstanceCrash, RowExists
<1>. QED BY <1>1, <1>2, <1>3, <1>4 DEF Environment

LEMMA LeaseStep == TypeOK /\ LeaseInv /\ [Next]_vars => LeaseInv'
<1>1. LeaseInv /\ UNCHANGED vars => LeaseInv'
  BY DEF LeaseInv, LockInv, RowExists, vars, rowVars, delVars, lockVars
<1>. QED BY <1>1, LeaseRequest, LeaseOther DEF Next

LEMMA Leases == Spec => []LeaseInv
  BY LeaseInit, LeaseStep, TypeCorrect, PTL DEF Spec

\* Under a lock that has not been lost there is no second request.
LEMMA OneAtMost ==
    ASSUME LeaseInv, NEW g \in Handlers \ lost, NEW h \in Handlers \ lost,
           pc[g] \in Locked, pc[h] \in Locked
    PROVE  g = h
  BY DEF LeaseInv, LockInv

\* A goroutine that has lost its key does not get it back before it is done.
LEMMA LostStays ==
    ASSUME TypeOK, LeaseInv, [Next]_vars
    PROVE  lost \cap held' \subseteq lost'
<1>1. CASE \E h \in Handlers : Acquire(h) \/ Release(h)
  BY <1>1 DEF Acquire, Release, KeyGone
<1>2. CASE UNCHANGED lockVars
  BY <1>2 DEF lockVars
<1>3. ASSUME NEW h \in Handlers, SendMessage(h)
      PROVE  lost \cap held' \subseteq lost'
  BY <1>1, <1>2, <1>3 DEF SendMessage, Get, GetRow, GetHash, ResetIfExpired, ResetAcquire,
    ResetGivesUp, ResetCheck, ResetReadHash, IsAlive, ResetRow, ResetDel, ResetRelease,
    NewCheck, EnsureProvisioned, ProvisionAcquire, ProvisionGivesUp, ProvisionCheck,
    CreateSandbox, Boot, CloneRepo, SetRunningRow, SetRunningHash, VerifyRow, VerifyHash,
    SetProvisioned, ProvisionRelease, SetError, StreamMessage, PostMessage, SessionInit
<1>4. DeleteTask \/ Environment => lost \cap held' \subseteq lost'
  BY <1>2 DEF DeleteTask, DeleteGet, DeleteRow, DeleteKeys, DeleteSandbox, Environment,
    SandboxDies, LockLapses, Lapse, KeyGone, HashExpires, InstanceCrash, ProcessDies, lockVars
<1>5. UNCHANGED vars => lost \cap held' \subseteq lost'
  BY DEF vars, lockVars
<1>. QED BY <1>3, <1>4, <1>5 DEF Next

-----------------------------------------------------------------------------
(* One provisioner                                                         *)

\* Of the requests that build a sandbox at most one still has its lock, with leases
\* lapsing, releases that take another's key, crashes and a deletion.
THEOREM OneProvisionerAtATime == Spec => []OneProvisioner
<1>1. LeaseInv => OneProvisioner
  BY OneAtMost DEF OneProvisioner, Locked, ProvisionLocked
<1>. QED BY <1>1, Leases, PTL

-----------------------------------------------------------------------------
(* The route of a provisioned task                                         *)

\* What a request under a lock of its own knows about the row, the hash and the
\* sandbox it has created, none of which anyone else can change meanwhile.
Knows(h) ==
    /\ pc[h] \in Creating => ~provisioned
    /\ pc[h] \in Creating \ {"create"} => target[h] = fresh
    /\ pc[h] = "setProvisioned" => hash # None
    /\ pc[h] \in {"verifyRow", "verifyHash", "setProvisioned"} /\ "overwrite" \notin spoilt
         => hash \in {None, target[h]}
    /\ pc[h] \in {"isAlive", "resetRow"} => target[h] = hash /\ hash # None
    /\ pc[h] = "resetRow" => sandbox[target[h]] = "dead"
    /\ pc[h] = "resetDel" => ~provisioned

\* The hash has not expired and no request goes on without its lock.
Kept == RowExists /\ spoilt \cap {"lease", "hash"} = {}

KnownInv == Kept => \A h \in Handlers \ lost : Knows(h)

\* An id that anyone holds was handed out by the sandbox server.
BornInv ==
    /\ \A h \in Handlers :
         /\ pc[h] \in {"boot", "clone", "setRow", "setHash"} => target[h] # None
         /\ target[h] # None => sandbox[target[h]] # "unborn"
    /\ hash # None => sandbox[hash] # "unborn"
    /\ delTarget # None => sandbox[delTarget] # "unborn"

LEMMA RouteInit == Init => KnownInv /\ BornInv /\ ProvisionedIsMapped
  BY DEF Init, KnownInv, Knows, BornInv, ProvisionedIsMapped, Creating

LEMMA BornStep ==
    ASSUME TypeOK, BornInv, [Next]_vars
    PROVE  BornInv'
<1>. USE DEF TypeOK, BornInv, Goto, At, worldVars, delVars, historyVars
<1>1. ASSUME NEW g \in Handlers, Get(g) \/ NewCheck(g)
      PROVE  BornInv'
  BY <1>1 DEF Get, GetRow, GetHash, NewCheck
<1>2. ASSUME NEW g \in Handlers, ResetIfExpired(g)
      PROVE  BornInv'
  BY <1>2 DEF ResetIfExpired, ResetAcquire, ResetGivesUp, ResetCheck, ResetReadHash,
    IsAlive, ResetRow, ResetDel, ResetRelease
<1>3. ASSUME NEW g \in Handlers, EnsureProvisioned(g)
      PROVE  BornInv'
  <2>1. CASE CreateSandbox(g)
    BY <1>3, <2>1, TaskAssumption DEF CreateSandbox
  <2>2. CASE SetRunningRow(g) \/ SetRunningHash(g)
    BY <1>3, <2>2 DEF SetRunningRow, SetRunningHash
  <2>3. CASE SetError(g) \/ ProvisionRelease(g)
    BY <1>3, <2>3 DEF SetError, Respond, ProvisionRelease
  <2>4. CASE Boot(g) \/ CloneRepo(g)
    BY <1>3, <2>4 DEF Boot, CloneRepo, CloneFailure
  <2>. QED
    BY <1>3, <2>1, <2>2, <2>3, <2>4 DEF EnsureProvisioned, ProvisionAcquire,
      ProvisionGivesUp, ProvisionCheck, VerifyRow, VerifyHash, SetProvisioned
<1>4. ASSUME NEW g \in Handlers, StreamMessage(g)
      PROVE  BornInv'
  BY <1>4 DEF StreamMessage, PostMessage, SessionInit, Respond
<1>5. DeleteTask => BornInv'
  BY DEF DeleteTask, DeleteGet, DeleteRow, DeleteKeys, DeleteSandbox
<1>6. Environment => BornInv'
  BY DEF Environment, SandboxDies, LockLapses, HashExpires, InstanceCrash
<1>7. UNCHANGED vars => BornInv'
  BY DEF vars
<1>. QED BY <1>1, <1>2, <1>3, <1>4, <1>5, <1>6, <1>7 DEF Next, SendMessage

\* A call outside the lock changes nothing of what a request under it knows, and
\* neither does a call of a request that has lost it and does no harm.
LEMMA OthersKeepOut ==
    ASSUME TypeOK, RowExists, NEW g \in Handlers, SendMessage(g),
           pc[g] \notin Locked \/ (g \in lost /\ "lease" \notin spoilt')
    PROVE  UNCHANGED <<provisioned, hash, sandbox, fresh>>
<1>. USE DEF TypeOK, Creating, Locked, ResetLocked, ProvisionLocked, At, Goto, rowVars,
             worldVars, historyVars
<1>1. CASE ResetRow(g) \/ ResetDel(g) \/ CreateSandbox(g) \/ SetRunningHash(g)
           \/ SetProvisioned(g)
  BY <1>1 DEF ResetRow, ResetDel, CreateSandbox, SetRunningHash, SetProvisioned, Changes
<1>. QED
  BY <1>1 DEF Respond, SendMessage, Get, GetRow, GetHash, ResetIfExpired, ResetAcquire,
    ResetGivesUp, ResetCheck, ResetReadHash, IsAlive, ResetRelease, NewCheck,
    EnsureProvisioned, ProvisionAcquire, ProvisionGivesUp, ProvisionCheck, Boot, CloneRepo,
    SetRunningRow, VerifyRow, VerifyHash, ProvisionRelease, SetError, StreamMessage,
    PostMessage, SessionInit

\* A request's own call, under a lock it still has, leads from what it knows to what
\* it knows next.
LEMMA OwnCall ==
    ASSUME TypeOK, BornInv, RowExists, ProvisionedIsMapped,
           spoilt' \cap {"lease", "hash"} = {}, spoilt \subseteq spoilt',
           NEW g \in Handlers, SendMessage(g),
           g \in lost => "lease" \in spoilt' \/ UNCHANGED <<provisioned, hash>>,
           pc[g] \in Locked /\ g \notin lost => Knows(g)
    PROVE  /\ g \notin lost => Knows(g)'
           /\ provisioned' => hash' # None
<1>. USE DEF TypeOK, Knows, ProvisionedIsMapped, Creating, Locked, ResetLocked,
             ProvisionLocked, Goto, At, rowVars, worldVars, historyVars
<1>1. CASE Get(g) \/ NewCheck(g)
  BY <1>1 DEF Get, GetRow, GetHash, NewCheck
<1>2. CASE ResetIfExpired(g)
  <2>1. CASE ResetAcquire(g) \/ ResetGivesUp(g) \/ ResetCheck(g) \/ ResetReadHash(g)
    BY <2>1 DEF ResetAcquire, ResetGivesUp, ResetCheck, ResetReadHash
  <2>2. CASE IsAlive(g)
    BY <2>2 DEF IsAlive, ReportedDead
  <2>3. CASE ResetRow(g) \/ ResetDel(g) \/ ResetRelease(g)
    BY <2>3 DEF ResetRow, ResetDel, ResetRelease
  <2>. QED BY <1>2, <2>1, <2>2, <2>3 DEF ResetIfExpired
<1>3. CASE EnsureProvisioned(g)
  <2>1. CASE ProvisionAcquire(g) \/ ProvisionGivesUp(g) \/ ProvisionCheck(g)
    BY <2>1 DEF ProvisionAcquire, ProvisionGivesUp, ProvisionCheck, AlreadyProvisioned
  <2>2. CASE CreateSandbox(g)
    BY <2>2 DEF CreateSandbox
  <2>7. CASE Boot(g)
    BY <2>7 DEF Boot
  <2>8. CASE CloneRepo(g)
    BY <2>8 DEF CloneRepo, CloneFailure
  <2>3. CASE SetRunningRow(g)
    BY <2>3 DEF SetRunningRow, NotPersisted
  <2>4. CASE SetRunningHash(g)
    BY <2>4 DEF SetRunningHash, NotPersisted, BornInv
  <2>5. CASE VerifyRow(g) \/ VerifyHash(g)
    BY <2>5 DEF VerifyRow, VerifyHash, MappingFound
  <2>6. CASE SetProvisioned(g) \/ ProvisionRelease(g) \/ SetError(g)
    BY <2>6 DEF SetProvisioned, ProvisionRelease, SetError, Respond
  <2>. QED BY <1>3, <2>1, <2>2, <2>3, <2>4, <2>5, <2>6, <2>7, <2>8 DEF EnsureProvisioned
<1>4. CASE StreamMessage(g)
  BY <1>4 DEF StreamMessage, PostMessage, SessionInit, Respond
<1>. QED BY <1>1, <1>2, <1>3, <1>4 DEF SendMessage

\* A request's call leaves every request that has its lock with what it knows.
LEMMA KnownRequest ==
    ASSUME TypeOK, LeaseInv, LeaseInv', KnownInv, BornInv, ProvisionedIsMapped, RowExists,
           NEW g \in Handlers, SendMessage(g), Kept'
    PROVE  (\A h \in Handlers \ lost' : Knows(h)') /\ (provisioned' => hash' # None)
<1>1. Kept /\ spoilt \subseteq spoilt' /\ spoilt' \cap {"lease", "hash"} = {}
  BY MishapsStay DEF Kept, Next
<1>2. \A h \in Handlers \ lost : Knows(h)
  BY <1>1 DEF KnownInv
<1>3. \A h \in Handlers \ lost' : pc'[h] \in Locked => h \notin lost
  <2>1. lost \cap held' \subseteq lost'
    BY LostStays DEF Next
  <2>. QED BY <2>1 DEF LeaseInv
<1>4. g \in lost => UNCHANGED <<provisioned, hash>>
  BY <1>1, OthersKeepOut
<1>5. (g \notin lost => Knows(g)') /\ (provisioned' => hash' # None)
  BY <1>1, <1>2, <1>4, OwnCall
<1>6. ASSUME NEW h \in Handlers \ lost', h # g
      PROVE  Knows(h)'
  <2>1. pc'[h] = pc[h] /\ target'[h] = target[h]
    BY <1>6 DEF TypeOK, Goto, SendMessage, Get, GetRow, GetHash, ResetIfExpired, ResetAcquire,
      ResetGivesUp, ResetCheck, ResetReadHash, IsAlive, ResetRow, ResetDel, ResetRelease,
      NewCheck, EnsureProvisioned, ProvisionAcquire, ProvisionGivesUp, ProvisionCheck,
      CreateSandbox, Boot, CloneRepo, SetRunningRow, SetRunningHash,
      VerifyRow, VerifyHash, SetProvisioned, ProvisionRelease, SetError, StreamMessage,
      PostMessage, SessionInit, Respond
  <2>2. CASE pc[h] \notin Locked
    BY <2>1, <2>2 DEF Knows, Locked, ResetLocked, ProvisionLocked, Creating
  <2>3. CASE pc[h] \in Locked
    <3>1. h \notin lost /\ Knows(h)
      BY <1>2, <1>3, <1>6, <2>1, <2>3
    <3>2. pc[g] \notin Locked \/ g \in lost
      BY <1>6, <2>3, <3>1, OneAtMost
    <3>3. UNCHANGED <<provisioned, hash, sandbox, fresh>>
      BY <1>1, <3>2, OthersKeepOut
    <3>. QED BY <1>1, <2>1, <3>1, <3>3 DEF Knows
  <2>. QED BY <2>2, <2>3
<1>7. g \in lost /\ g \notin lost' => Knows(g)'
  <2>1. g \in lost /\ g \notin lost' => pc'[g] \notin Locked
    BY <1>3
  <2>. QED BY <2>1 DEF Knows, Locked, ResetLocked, ProvisionLocked, Creating
<1>. QED BY <1>5, <1>6, <1>7

LEMMA KnownOther ==
    ASSUME TypeOK, LeaseInv, LeaseInv', KnownInv, BornInv, ProvisionedIsMapped,
           DeleteTask \/ Environment \/ UNCHANGED vars, Kept'
    PROVE  (\A h \in Handlers \ lost' : Knows(h)') /\ (provisioned' => hash' # None)
<1>. USE DEF TypeOK, Kept, ProvisionedIsMapped, rowVars, worldVars, delVars, RowExists,
             historyVars
<1>1. lost \cap held' \subseteq lost'
  BY LostStays DEF Next
<1>2. ASSUME NEW h \in Handlers \ lost', pc'[h] \in Locked
      PROVE  h \notin lost
  BY <1>1, <1>2 DEF LeaseInv
<1>3. ASSUME UNCHANGED <<provisioned, hash, fresh, target, spoilt>>, UNCHANGED state,
             \A b \in Sandboxes : sandbox[b] = "dead" => sandbox'[b] = "dead",
             \A h \in Handlers : pc'[h] \in {pc[h], "idle"}
      PROVE  (\A h \in Handlers \ lost' : Knows(h)') /\ (provisioned' => hash' # None)
  <2>1. \A h \in Handlers \ lost : Knows(h)
    BY <1>3 DEF KnownInv
  <2>2. ASSUME NEW h \in Handlers \ lost'
        PROVE  Knows(h)'
    <3>1. CASE pc'[h] \notin Locked
      BY <3>1 DEF Knows, Locked, ResetLocked, ProvisionLocked, Creating
    <3>2. CASE pc'[h] \in Locked
      <4>1. pc'[h] = pc[h] /\ Knows(h)
        BY <1>2, <1>3, <2>1, <2>2, <3>2 DEF Locked, ResetLocked, ProvisionLocked, Creating
      <4>. QED BY <1>3, <4>1 DEF Knows
    <3>. QED BY <3>1, <3>2
  <2>. QED BY <1>3, <2>2
<1>4. DeleteTask =>
        (\A h \in Handlers \ lost' : Knows(h)') /\ (provisioned' => hash' # None)
  <2>1. CASE DeleteGet
    BY <1>3, <2>1 DEF DeleteGet
  <2>2. CASE DeleteRow \/ DeleteKeys \/ DeleteSandbox
    <3>1. ~RowExists'
      BY <2>2 DEF DeleteRow, DeleteKeys, DeleteSandbox, LeaseInv
    <3>. QED BY <3>1
  <2>. QED BY <2>1, <2>2 DEF DeleteTask
<1>5. ASSUME NEW b \in Sandboxes, SandboxDies(b)
      PROVE  (\A h \in Handlers \ lost' : Knows(h)') /\ (provisioned' => hash' # None)
  <2>1. \A c \in Sandboxes : sandbox[c] = "dead" => sandbox'[c] = "dead"
    BY <1>5 DEF SandboxDies
  <2>. QED BY <1>3, <1>5, <2>1 DEF SandboxDies
<1>6. LockLapses \/ UNCHANGED vars =>
        (\A h \in Handlers \ lost' : Knows(h)') /\ (provisioned' => hash' # None)
  BY <1>3 DEF LockLapses, vars
<1>7. ~HashExpires
  BY DEF HashExpires
<1>8. ASSUME NEW i \in Instances, InstanceCrash(i)
      PROVE  (\A h \in Handlers \ lost' : Knows(h)') /\ (provisioned' => hash' # None)
  <2>1. Kept /\ UNCHANGED <<rowVars, hash, worldVars, historyVars>>
    BY <1>8 DEF InstanceCrash
  <2>2. \A h \in Handlers : pc'[h] = "idle" \/ (pc'[h] = pc[h] /\ target'[h] = target[h])
    BY <1>8 DEF InstanceCrash
  <2>3. ASSUME NEW h \in Handlers \ lost'
        PROVE  Knows(h)'
    <3>1. CASE pc'[h] \notin Locked
      BY <3>1 DEF Knows, Locked, ResetLocked, ProvisionLocked, Creating
    <3>2. CASE pc'[h] \in Locked
      <4>1. pc'[h] = pc[h] /\ target'[h] = target[h] /\ Knows(h)
        BY <1>2, <2>1, <2>2, <2>3, <3>2 DEF KnownInv, Locked, ResetLocked, ProvisionLocked,
          Creating
      <4>. QED BY <2>1, <4>1 DEF Knows
    <3>. QED BY <3>1, <3>2
  <2>. QED BY <2>1, <2>3
<1>. QED BY <1>4, <1>5, <1>6, <1>7, <1>8 DEF Environment

\* No message brings a deleted row back, or deletes one.
LEMMA RowStays ==
    ASSUME TypeOK, NEW g \in Handlers, SendMessage(g)
    PROVE  RowExists' = RowExists
  BY DEF TypeOK, RowExists, rowVars, StateSet, States, Respond, SendMessage, Get, GetRow,
    GetHash, ResetIfExpired, ResetAcquire, ResetGivesUp, ResetCheck, ResetReadHash, IsAlive,
    ResetRow, ResetDel, ResetRelease, NewCheck, EnsureProvisioned, ProvisionAcquire,
    ProvisionGivesUp, ProvisionCheck, CreateSandbox, Boot, CloneRepo, SetRunningRow,
    SetRunningHash, VerifyRow, VerifyHash, SetProvisioned, ProvisionRelease, SetError,
    StreamMessage, PostMessage, SessionInit

LEMMA RouteStep ==
    ASSUME TypeOK, LeaseInv, LeaseInv', KnownInv, BornInv, ProvisionedIsMapped, [Next]_vars
    PROVE  KnownInv' /\ ProvisionedIsMapped'
<1>1. Kept' => (\A h \in Handlers \ lost' : Knows(h)') /\ (provisioned' => hash' # None)
  <2>1. ASSUME NEW g \in Handlers, SendMessage(g), Kept'
        PROVE  (\A h \in Handlers \ lost' : Knows(h)') /\ (provisioned' => hash' # None)
    BY <2>1, RowStays, KnownRequest DEF Kept
  <2>. QED BY <2>1, KnownOther DEF Next
<1>. QED BY <1>1 DEF KnownInv, ProvisionedIsMapped, Kept

RouteInv == LeaseInv /\ BornInv /\ KnownInv /\ ProvisionedIsMapped

LEMMA Routes == Spec => []RouteInv
<1>1. Init => RouteInv
  BY LeaseInit, RouteInit DEF RouteInv
<1>2. TypeOK /\ RouteInv /\ [Next]_vars => RouteInv'
  BY LeaseStep, BornStep, RouteStep DEF RouteInv
<1>. QED BY <1>1, <1>2, TypeCorrect, PTL DEF Spec

\* A provisioned task has a mapping: no order of resets, failed writes and crashes
\* wedges it, with leases that lapse, until the mapping itself expires or a request
\* goes on changing things after it has lost the lock.
THEOREM RouteIsKept == Spec => []ProvisionedIsMapped
<1>1. RouteInv => ProvisionedIsMapped
  BY DEF RouteInv
<1>. QED BY <1>1, Routes, PTL

-----------------------------------------------------------------------------
(* Refinement of SandboxBinding                                            *)

LEMMA BindingStart == Init => Binding!BindingInit
  BY DEF Init, RowExists, Binding!BindingInit

\* A request's call creates a sandbox, binds it, undoes a dead binding, or changes
\* nothing that SandboxBinding shows.
LEMMA RequestBinds ==
    ASSUME TypeOK, RouteInv, NEW g \in Handlers, SendMessage(g),
           spoilt' \cap {"lease", "hash", "overwrite"} = {}
    PROVE  Binding!BindingNext \/ UNCHANGED Binding!bindingVars
<1>1. spoilt \subseteq spoilt'
  BY MishapsStay DEF Next
<1>. USE RowStays DEF TypeOK, Goto, At, rowVars, worldVars, historyVars
<1>2. CASE RowExists /\ g \notin lost
  <2>1. pc[g] \in Locked => Knows(g)
    BY <1>1, <1>2 DEF RouteInv, KnownInv, Kept
  <2>2. CASE CreateSandbox(g)
    <3>1. UNCHANGED <<provisioned, hash>>
      BY <2>2 DEF CreateSandbox
    <3>2. CASE UNCHANGED <<sandbox, fresh>>
      BY <3>1, <3>2 DEF Binding!bindingVars
    <3>3. CASE ~ UNCHANGED <<sandbox, fresh>>
      <4>1. PICK b \in Sandboxes : /\ sandbox[b] = "unborn" /\ fresh' = b
                                   /\ sandbox' = [sandbox EXCEPT ![b] = "alive"]
        BY <2>2, <3>3 DEF CreateSandbox
      <4>2. Binding!Create(b)
        BY <3>1, <4>1 DEF Binding!Create
      <4>. QED BY <4>2 DEF Binding!BindingNext
    <3>. QED BY <3>2, <3>3
  <2>3. CASE SetProvisioned(g)
    <3>1. CASE UNCHANGED <<provisioned, fresh>>
      BY <2>3, <3>1 DEF SetProvisioned, Binding!bindingVars
    <3>2. CASE ~ UNCHANGED <<provisioned, fresh>>
      <4>1. ~provisioned /\ hash = fresh /\ hash \in Sandboxes
        BY <1>1, <2>1, <2>3 DEF SetProvisioned, Knows, Creating, Locked, ProvisionLocked
      <4>2. provisioned' /\ fresh' = None /\ UNCHANGED <<hash, sandbox>>
        BY <1>2, <2>3, <3>2 DEF SetProvisioned
      <4>3. Binding!Provision(hash)
        BY <1>2, <4>1, <4>2 DEF Binding!Provision
      <4>. QED BY <4>1, <4>3 DEF Binding!BindingNext
    <3>. QED BY <3>1, <3>2
  <2>4. CASE ResetRow(g)
    <3>1. UNCHANGED <<hash, sandbox, fresh>> /\ provisioned' \in {provisioned, FALSE}
      BY <2>4 DEF ResetRow
    <3>2. CASE provisioned' = provisioned
      BY <3>1, <3>2 DEF Binding!bindingVars
    <3>3. CASE provisioned' # provisioned
      <4>1. hash # None /\ sandbox[hash] = "dead"
        BY <2>1, <2>4 DEF ResetRow, Knows, Locked, ResetLocked
      <4>2. provisioned /\ ~provisioned'
        BY <3>1, <3>3
      <4>3. Binding!Reset
        BY <1>2, <3>1, <4>1, <4>2 DEF Binding!Reset
      <4>. QED BY <4>3 DEF Binding!BindingNext
    <3>. QED BY <3>2, <3>3
  <2>5. CASE ResetDel(g) \/ SetRunningHash(g)
    <3>1. UNCHANGED <<provisioned, sandbox, fresh>>
      BY <2>5 DEF ResetDel, SetRunningHash
    <3>2. ~provisioned
      BY <2>1, <2>5 DEF ResetDel, SetRunningHash, Knows, Creating, Locked, ResetLocked,
        ProvisionLocked
    <3>. QED BY <3>1, <3>2 DEF Binding!bindingVars
  <2>6. CASE UNCHANGED <<provisioned, hash, sandbox, fresh>>
    BY <2>6 DEF Binding!bindingVars
  <2>. QED
    BY <2>2, <2>3, <2>4, <2>5, <2>6 DEF Respond, SendMessage, Get, GetRow, GetHash,
      ResetIfExpired, ResetAcquire, ResetGivesUp, ResetCheck, ResetReadHash, IsAlive,
      ResetRelease, NewCheck, EnsureProvisioned, ProvisionAcquire, ProvisionGivesUp,
      ProvisionCheck, Boot, CloneRepo, SetRunningRow, VerifyRow, VerifyHash,
      ProvisionRelease, SetError, StreamMessage, PostMessage, SessionInit
<1>3. CASE RowExists /\ g \in lost
  <2>1. UNCHANGED <<provisioned, hash, sandbox, fresh>>
    BY <1>3, OthersKeepOut
  <2>. QED BY <2>1 DEF Binding!bindingVars
<1>4. CASE ~RowExists
  <2>1. CASE CreateSandbox(g)
    <3>1. CASE UNCHANGED <<sandbox, fresh>>
      BY <1>4, <3>1 DEF Binding!bindingVars
    <3>2. CASE ~ UNCHANGED <<sandbox, fresh>>
      <4>1. PICK b \in Sandboxes : /\ sandbox[b] = "unborn" /\ fresh' = b
                                   /\ sandbox' = [sandbox EXCEPT ![b] = "alive"]
        BY <2>1, <3>2 DEF CreateSandbox
      <4>2. Binding!Create(b)
        BY <1>4, <4>1 DEF Binding!Create
      <4>. QED BY <4>2 DEF Binding!BindingNext
    <3>. QED BY <3>1, <3>2
  <2>2. CASE UNCHANGED <<sandbox, fresh>>
    BY <1>4, <2>2 DEF Binding!bindingVars
  <2>. QED
    BY <1>4, <2>1, <2>2 DEF Respond, SendMessage, Get, GetRow, GetHash, ResetIfExpired,
      ResetAcquire, ResetGivesUp, ResetCheck, ResetReadHash, IsAlive, ResetRow, ResetDel,
      ResetRelease, NewCheck, EnsureProvisioned, ProvisionAcquire, ProvisionGivesUp,
      ProvisionCheck, Boot, CloneRepo, SetRunningRow, SetRunningHash, VerifyRow, VerifyHash,
      SetProvisioned, ProvisionRelease, SetError, StreamMessage, PostMessage, SessionInit
<1>. QED BY <1>2, <1>3, <1>4

\* Deletion removes the task, and a sandbox dies at most once.
LEMMA OtherBinds ==
    ASSUME TypeOK, RouteInv, DeleteTask \/ Environment, "hash" \notin spoilt'
    PROVE  Binding!BindingNext \/ UNCHANGED Binding!bindingVars
<1>. USE DEF TypeOK, rowVars, worldVars, historyVars
<1>1. CASE DeleteGet \/ LockLapses \/ \E i \in Instances : InstanceCrash(i)
  <2>1. UNCHANGED <<state, provisioned, hash, sandbox, fresh>>
    BY <1>1 DEF DeleteGet, LockLapses, InstanceCrash
  <2>. QED BY <2>1 DEF RowExists, Binding!bindingVars
<1>2. CASE DeleteRow
  <2>1. ~RowExists' /\ UNCHANGED <<sandbox, fresh>>
    BY <1>2 DEF DeleteRow, RowExists
  <2>2. Binding!Remove
    BY <2>1 DEF Binding!Remove
  <2>. QED BY <2>2 DEF Binding!BindingNext
<1>3. CASE DeleteKeys
  <2>1. ~RowExists /\ ~RowExists' /\ UNCHANGED <<sandbox, fresh>>
    BY <1>3 DEF DeleteKeys, RowExists, RouteInv, LeaseInv
  <2>. QED BY <2>1 DEF Binding!bindingVars
<1>4. ASSUME NEW b \in Sandboxes, sandbox[b] # "unborn",
             sandbox' = [sandbox EXCEPT ![b] = "dead"],
             UNCHANGED <<state, provisioned, hash, fresh>>
      PROVE  Binding!BindingNext \/ UNCHANGED Binding!bindingVars
  <2>1. CASE sandbox[b] = "alive"
    <3>1. Binding!Die(b)
      BY <1>4, <2>1 DEF Binding!Die, RowExists
    <3>. QED BY <3>1 DEF Binding!BindingNext
  <2>2. CASE sandbox[b] = "dead"
    BY <1>4, <2>2 DEF RowExists, Binding!bindingVars
  <2>. QED BY <1>4, <2>1, <2>2
<1>5. CASE DeleteSandbox
  <2>1. UNCHANGED <<state, provisioned, hash, fresh>>
    BY <1>5 DEF DeleteSandbox
  <2>2. CASE UNCHANGED sandbox
    BY <2>1, <2>2 DEF RowExists, Binding!bindingVars
  <2>3. CASE sandbox' # sandbox
    <3>1. /\ delTarget \in Sandboxes /\ sandbox[delTarget] # "unborn"
          /\ sandbox' = [sandbox EXCEPT ![delTarget] = "dead"]
      BY <1>5, <2>3 DEF DeleteSandbox, RouteInv, BornInv
    <3>. QED BY <1>4, <2>1, <3>1
  <2>. QED BY <2>2, <2>3
<1>6. CASE \E b \in Sandboxes : SandboxDies(b)
  BY <1>4, <1>6 DEF SandboxDies
<1>7. ~HashExpires
  BY DEF HashExpires
<1>. QED BY <1>1, <1>2, <1>3, <1>5, <1>6, <1>7 DEF DeleteTask, Environment

\* Two stores, one lock and a dozen calls keep the promise of the in-process
\* EnsureProvisioned and ResetIfExpired: a task is bound only when it is not bound
\* and to the sandbox just created for it, and reset only after that died, with
\* leases that lapse, crashes and failed writes, up to the first of three named
\* mishaps: an expired mapping, a change made after the lock was lost, and a failed
\* write over an older mapping.
THEOREM ImplementsBinding == Spec => KeepsBinding
<1>1. UNCHANGED vars => UNCHANGED Binding!bindingVars
  BY DEF vars, rowVars, worldVars, historyVars, RowExists, Binding!bindingVars
<1>2. TypeOK /\ RouteInv /\ [Next]_vars =>
        [spoilt' \cap {"lease", "hash", "overwrite"} = {} =>
           Binding!BindingNext \/ UNCHANGED Binding!bindingVars]_vars
  <2>1. SUFFICES ASSUME TypeOK, RouteInv, [Next]_vars,
                        spoilt' \cap {"lease", "hash", "overwrite"} = {}
                 PROVE  Binding!BindingNext \/ UNCHANGED Binding!bindingVars
    OBVIOUS
  <2>2. "hash" \notin spoilt'
    BY <2>1
  <2>. QED BY <1>1, <2>1, <2>2, RequestBinds, OtherBinds DEF Next
<1>. QED BY <1>2, BindingStart, TypeCorrect, Routes, PTL DEF Spec, KeepsBinding
=============================================================================
