-------------------------- MODULE TaskProvisioning --------------------------
(***************************************************************************)
(* One task served by concurrent POST /api/tasks/:id/messages requests on  *)
(* several backend processes: api.SendMessage, task.Task over the MySQL    *)
(* row and the Redis sandbox hash (mysqlTaskOps), sandbox.ProvisionForTask *)
(* and sandbox.Proxy.StreamMessage, with api.DeleteTask beside them.       *)
(*                                                                         *)
(* Every action is one call to MySQL, Redis, the sandbox server or the     *)
(* agent with the local work up to the next call.  A database write may    *)
(* fail wherever the code only logs or returns the error.                  *)
(***************************************************************************)
EXTENDS TaskLock

CONSTANTS
    Sandboxes,   \* sandbox ids the server may hand out
    Sessions,    \* session ids agents may issue
    HasGitURL,   \* was the task created with a git_url?
    OwnerDeletes \* does the owner delete the task at some point?

\* "hash": the 7-day TTL of the sandbox hash runs out.  "overwrite":
\* persistRunning fails while Redis has an older mapping.  "clone": a clone fails
\* and its stream ends without an "error" event that is read.
AllMishaps == {"lease", "hash", "overwrite", "clone"}

ASSUME TaskAssumption ==
    /\ None \notin Sandboxes \cup Sessions
    /\ {HasGitURL, OwnerDeletes} \subseteq BOOLEAN

VARIABLES
    state,        \* tasks.state, or "Deleted" once the row is gone
    provisioned,  \* tasks.provisioned
    sessionID,    \* tasks.session_id
    hash,         \* sandbox_id in Redis hash sandbox:{id}
    sandbox,      \* life of each sandbox at the sandbox server
    opened,       \* sessions agents opened for this task
    cloned,       \* the task's OFS workspace holds a cloned repository
    pc,           \* the call each request is about to make
    snap,         \* its Task struct, the copy Get made: is its state New (nothing
                  \* else is asked of it), its sandbox route, its session
    target,       \* the sandbox it is probing or creating
    stream,       \* the session whose session.init event is on its way to it
    del,          \* progress of DeleteTask
    delTarget,    \* sandbox id in DeleteTask's own copy of the task
    fresh,        \* history: the sandbox created last, until the task is provisioned
    spoilt        \* history: the mishaps that have befallen the task; "lease" once a
                  \* goroutine that has lost its lease goes on to change something

rowVars == <<state, provisioned, sessionID>>
worldVars == <<sandbox, opened, cloned>>
delVars == <<del, delTarget>>
historyVars == <<fresh, spoilt>>
vars == <<lockVars, rowVars, hash, worldVars, pc, snap, target, stream, delVars,
          historyVars>>

States == {"New", "Provisioning", "Running", "Error"}
Copies == [fresh : BOOLEAN, sandbox : Sandboxes \cup {None}, session : Sessions \cup {None}]
Blank == [fresh |-> FALSE, sandbox |-> None, session |-> None]
ResetLocked == {"resetCheck", "resetHash", "isAlive", "resetRow", "resetDel",
                "resetUndo", "resetKeep"}
Creating == {"create", "boot", "clone", "setRow", "setHash", "verifyRow",
             "verifyHash", "setProvisioned"}
ProvisionLocked == Creating \cup {"provCheck", "provOK", "provFailed"}
Unlocked == {"idle", "get", "resetLock", "newCheck", "provLock", "setError",
             "stream", "init"}
Steps == ResetLocked \cup ProvisionLocked \cup Unlocked

TypeOK ==
    /\ LockTypeOK
    /\ state \in States \cup {"Deleted"}
    /\ provisioned \in BOOLEAN
    /\ sessionID \in Sessions \cup {None}
    /\ hash \in Sandboxes \cup {None}
    /\ sandbox \in [Sandboxes -> {"unborn", "alive", "dead"}]
    /\ opened \subseteq Sessions
    /\ cloned \in BOOLEAN
    /\ pc \in [Handlers -> Steps]
    /\ snap \in [Handlers -> Copies]
    /\ target \in [Handlers -> Sandboxes \cup {None}]
    /\ stream \in [Handlers -> Sessions \cup {None}]
    /\ del \in {"no", "got", "rowGone", "keysGone", "done"}
    /\ delTarget \in Sandboxes \cup {None}
    /\ fresh \in Sandboxes \cup {None}
    /\ spoilt \subseteq AllMishaps

\* MySQLRepository.Create: a row, no Redis writes, an empty workspace.
Init ==
    /\ LockInit
    /\ state = "New" /\ provisioned = FALSE /\ sessionID = None
    /\ hash = None
    /\ sandbox = [b \in Sandboxes |-> "unborn"]
    /\ opened = {} /\ cloned = FALSE
    /\ pc = [h \in Handlers |-> "idle"]
    /\ snap = [h \in Handlers |-> Blank]
    /\ target = [h \in Handlers |-> None]
    /\ stream = [h \in Handlers |-> None]
    /\ del = "no" /\ delTarget = None
    /\ fresh = None /\ spoilt = {}

RowExists == state # "Deleted"

At(h, step) == pc[h] = step
Goto(h, step) == pc' = [pc EXCEPT ![h] = step]

\* UPDATE tasks SET state = s WHERE id = ?: no row is no error.
StateSet(s) == IF RowExists THEN s ELSE state

\* A locked step of h that changes something.
Changes(h) == spoilt' = spoilt \cup (IF RowExists /\ h \in lost THEN {"lease"} ELSE {})

\* The request is answered: its Task struct is garbage.
Respond(h) ==
    /\ Goto(h, "idle")
    /\ snap' = [snap EXCEPT ![h] = Blank]
    /\ target' = [target EXCEPT ![h] = None]
    /\ stream' = [stream EXCEPT ![h] = None]

-----------------------------------------------------------------------------
(* MySQLRepository.Get: the row, then the sandbox hash, two reads.         *)

GetRow(h) ==
    /\ At(h, "idle")
    /\ RowExists
    /\ snap' = [snap EXCEPT ![h] = [fresh |-> state = "New", sandbox |-> None,
                                    session |-> sessionID]]
    /\ Goto(h, "get")
    /\ UNCHANGED <<lockVars, rowVars, hash, worldVars, target, stream, delVars,
                   historyVars>>

GetHash(h) ==
    /\ At(h, "get")
    /\ snap' = [snap EXCEPT ![h].sandbox = hash]
    /\ Goto(h, "resetLock")
    /\ UNCHANGED <<lockVars, rowVars, hash, worldVars, target, stream, delVars,
                   historyVars>>

-----------------------------------------------------------------------------
(* Task.ResetIfExpired / mysqlTaskOps.resetIfExpired                       *)

ResetAcquire(h) ==
    /\ At(h, "resetLock")
    /\ Acquire(h)
    /\ Goto(h, "resetCheck")
    /\ UNCHANGED <<rowVars, hash, worldVars, snap, target, stream, delVars, historyVars>>

\* Not acquired within 5 s, or a Redis error: SendMessage logs it and goes on.
ResetGivesUp(h) ==
    /\ At(h, "resetLock")
    /\ Goto(h, "newCheck")
    /\ UNCHANGED <<lockVars, rowVars, hash, worldVars, snap, target, stream, delVars,
                   historyVars>>

\* SELECT provisioned: no row and a read error end it too.
ResetCheck(h) ==
    /\ At(h, "resetCheck")
    /\ \/ RowExists /\ provisioned /\ Goto(h, "resetHash")
       \/ Goto(h, "resetKeep")
    /\ UNCHANGED <<lockVars, rowVars, hash, worldVars, snap, target, stream, delVars,
                   historyVars>>

ResetReadHash(h) ==
    /\ At(h, "resetHash")
    /\ \/ /\ hash # None
          /\ target' = [target EXCEPT ![h] = hash]
          /\ Goto(h, "isAlive")
       \/ Goto(h, "resetKeep") /\ UNCHANGED target
    /\ UNCHANGED <<lockVars, rowVars, hash, worldVars, snap, stream, delVars,
                   historyVars>>

\* Mutant: an error of the liveness call counts as a dead sandbox.
ReportedDeadOnError(b) == TRUE

\* Mutant: a 404 is an error of the call, as any other status.
DeadIsError(b) == FALSE

\* Manager.IsSandboxAlive: not Running, or a 404.
ReportedDead(b) == sandbox[b] = "dead"

\* The liveness call; when it fails nothing is reset.
IsAlive(h) ==
    /\ At(h, "isAlive")
    /\ \/ ReportedDead(target[h]) /\ Goto(h, "resetRow")
       \/ Goto(h, "resetKeep")
    /\ UNCHANGED <<lockVars, rowVars, hash, worldVars, snap, target, stream, delVars,
                   historyVars>>

\* UPDATE state = New, provisioned = false.
ResetRow(h) ==
    /\ At(h, "resetRow")
    /\ \/ /\ state' = StateSet("New") /\ provisioned' = FALSE /\ Changes(h)
          /\ Goto(h, "resetDel")
       \/ Goto(h, "resetKeep") /\ UNCHANGED <<state, provisioned, spoilt>>
    /\ UNCHANGED <<lockVars, sessionID, hash, worldVars, snap, target, stream, delVars,
                   fresh>>

\* DEL sandbox:{id}; when it fails the row stays reset and the caller is told not.
ResetDel(h) ==
    /\ At(h, "resetDel")
    /\ \/ hash' = None /\ Changes(h) /\ Goto(h, "resetUndo")
       \/ Goto(h, "resetKeep") /\ UNCHANGED <<hash, spoilt>>
    /\ UNCHANGED <<lockVars, rowVars, worldVars, snap, target, stream, delVars, fresh>>

\* What resetLocked and its database twin leave of a Task: all but the sandbox.
Cleared(t) == [fresh |-> TRUE, sandbox |-> None, session |-> t.session]

\* withLock's deferred release; after a reset the local copy is cleared
\* too.
ResetRelease(h) ==
    /\ pc[h] \in {"resetUndo", "resetKeep"}
    /\ Release(h)
    /\ snap' = IF At(h, "resetUndo") THEN [snap EXCEPT ![h] = Cleared(@)] ELSE snap
    /\ target' = [target EXCEPT ![h] = None]
    /\ Goto(h, "newCheck")
    /\ UNCHANGED <<rowVars, hash, worldVars, stream, delVars, historyVars>>

\* if t.GetState() == StateNew { t.SetProvisioning() }: decided on the local
\* copy and written outside the lock.
NewCheck(h) ==
    /\ At(h, "newCheck")
    /\ IF snap[h].fresh
       THEN /\ snap' = [snap EXCEPT ![h].fresh = FALSE]
            /\ state' \in {state, StateSet("Provisioning")}
       ELSE UNCHANGED <<snap, state>>
    /\ Goto(h, "provLock")
    /\ UNCHANGED <<lockVars, provisioned, sessionID, hash, worldVars, target, stream,
                   delVars, historyVars>>

-----------------------------------------------------------------------------
(* Task.EnsureProvisioned / mysqlTaskOps.ensureProvisioned                 *)

ProvisionAcquire(h) ==
    /\ At(h, "provLock")
    /\ Acquire(h)
    /\ Goto(h, "provCheck")
    /\ UNCHANGED <<rowVars, hash, worldVars, snap, target, stream, delVars, historyVars>>

ProvisionGivesUp(h) ==
    /\ At(h, "provLock")
    /\ Goto(h, "setError")
    /\ UNCHANGED <<lockVars, rowVars, hash, worldVars, snap, target, stream, delVars,
                   historyVars>>

\* The provisioned column as ensureProvisioned reads it inside the lock.
AlreadyProvisioned == provisioned

ProvisionCheck(h) ==
    /\ At(h, "provCheck")
    /\ \/ RowExists /\ Goto(h, IF AlreadyProvisioned THEN "provOK" ELSE "create")
       \/ Goto(h, "provFailed")
    /\ UNCHANGED <<lockVars, rowVars, hash, worldVars, snap, target, stream, delVars,
                   historyVars>>

\* Manager.ProvisionForTask: lc.CreateSandbox.
CreateSandbox(h) ==
    /\ At(h, "create")
    /\ \/ \E b \in Sandboxes :
            /\ sandbox[b] = "unborn"
            /\ sandbox' = [sandbox EXCEPT ![b] = "alive"]
            /\ target' = [target EXCEPT ![h] = b] /\ fresh' = b /\ Changes(h)
            /\ Goto(h, "boot")
       \/ Goto(h, "provFailed") /\ UNCHANGED <<sandbox, target, historyVars>>
    /\ UNCHANGED <<lockVars, rowVars, hash, opened, cloned, snap, stream, delVars>>

\* Poll until Running, WaitForHealth, SSH key.  A sandbox that fails is left be.
Boot(h) ==
    /\ At(h, "boot")
    /\ \/ /\ sandbox[target[h]] = "alive"
          /\ Goto(h, IF HasGitURL /\ snap[h].session = None THEN "clone" ELSE "setRow")
       \/ Goto(h, "provFailed")
    /\ UNCHANGED <<lockVars, rowVars, hash, worldVars, snap, target, stream, delVars,
                   historyVars>>

\* Mutant: a failed clone is logged and provisioning goes on, as for SSH keys.
CloneFailureIgnored == "setRow"

\* Where a failed clone leads: ProvisionForTask returns the error.
CloneFailure == "provFailed"

\* git clone <url> . works in an empty workspace only.  It may be reported as
\* failed when it has done its work, and as done when it has not.
CloneRepo(h) ==
    /\ At(h, "clone")
    /\ \/ ~cloned /\ cloned' = TRUE /\ Goto(h, "setRow") /\ UNCHANGED spoilt
       \/ cloned' \in {cloned, TRUE} /\ Goto(h, CloneFailure) /\ UNCHANGED spoilt
       \/ /\ "clone" \in Mishaps /\ spoilt' = spoilt \cup {"clone"}
          /\ Goto(h, "setRow") /\ UNCHANGED cloned
    /\ UNCHANGED <<lockVars, rowVars, hash, sandbox, opened, snap, target, stream,
                   delVars,
                   fresh>>

\* persistRunning fails in one of its two writes.
NotPersisted ==
    IF hash = None THEN UNCHANGED spoilt
    ELSE "overwrite" \in Mishaps /\ spoilt' = spoilt \cup {"overwrite"}

\* Task.SetRunning: the local copy, then persistRunning's UPDATE; when that
\* fails the hash is not written.
SetRunningRow(h) ==
    /\ At(h, "setRow")
    /\ snap' = [snap EXCEPT ![h].sandbox = target[h]]
    /\ \/ state' = StateSet("Running") /\ Changes(h) /\ Goto(h, "setHash")
       \/ NotPersisted /\ Goto(h, "verifyRow") /\ UNCHANGED state
    /\ UNCHANGED <<lockVars, provisioned, sessionID, hash, worldVars, target, stream,
                   delVars,
                   fresh>>

\* persistRunning's HSET + EXPIRE pipeline; an error is only logged.
SetRunningHash(h) ==
    /\ At(h, "setHash")
    /\ \/ hash' = target[h] /\ Changes(h)
       \/ NotPersisted /\ UNCHANGED hash
    /\ Goto(h, "verifyRow")
    /\ UNCHANGED <<lockVars, rowVars, worldVars, snap, target, stream, delVars, fresh>>

VerifyRow(h) ==
    /\ At(h, "verifyRow")
    /\ \/ state = "Running" /\ Goto(h, "verifyHash")
       \/ Goto(h, "provFailed")
    /\ UNCHANGED <<lockVars, rowVars, hash, worldVars, snap, target, stream, delVars,
                   historyVars>>

\* Mutant: persistRunning logged nothing, so its write is taken for done.
MappingTrusted == TRUE

\* HGET sandbox:{id} sandbox_id finds an id.
MappingFound == hash # None

VerifyHash(h) ==
    /\ At(h, "verifyHash")
    /\ \/ MappingFound /\ Goto(h, "setProvisioned")
       \/ Goto(h, "provFailed")
    /\ UNCHANGED <<lockVars, rowVars, hash, worldVars, snap, target, stream, delVars,
                   historyVars>>

\* UPDATE provisioned = true.
SetProvisioned(h) ==
    /\ At(h, "setProvisioned")
    /\ \/ /\ provisioned' = (RowExists \/ provisioned)
          /\ fresh' = IF RowExists THEN None ELSE fresh
          /\ Changes(h)
          /\ Goto(h, "provOK")
       \/ Goto(h, "provFailed") /\ UNCHANGED <<provisioned, historyVars>>
    /\ UNCHANGED <<lockVars, state, sessionID, hash, worldVars, snap, target, stream,
                   delVars>>

ProvisionRelease(h) ==
    /\ pc[h] \in {"provOK", "provFailed"}
    /\ Release(h)
    /\ Goto(h, IF At(h, "provOK") THEN "stream" ELSE "setError")
    /\ target' = [target EXCEPT ![h] = None]
    /\ UNCHANGED <<rowVars, hash, worldVars, snap, stream, delVars, historyVars>>

\* t.SetError, outside the lock, and 502.
SetError(h) ==
    /\ At(h, "setError")
    /\ state' \in {state, StateSet("Error")}
    /\ Respond(h)
    /\ UNCHANGED <<lockVars, provisioned, sessionID, hash, worldVars, delVars,
                   historyVars>>

-----------------------------------------------------------------------------
(* Proxy.StreamMessage, on the local copy of route and session             *)

\* The agent at the copied route opens a session or resumes the named one; the
\* request fails when there is nobody there.
PostMessage(h) ==
    /\ At(h, "stream")
    /\ \/ /\ snap[h].sandbox # None
          /\ sandbox[snap[h].sandbox] = "alive"
          /\ \E s \in Sessions :
               /\ IF snap[h].session = None THEN s \notin opened ELSE s = snap[h].session
               /\ opened' = opened \cup {s}
               /\ stream' = [stream EXCEPT ![h] = s]
          /\ Goto(h, "init")
          /\ UNCHANGED <<snap, target>>
       \/ Respond(h) /\ UNCHANGED opened
    /\ UNCHANGED <<lockVars, rowVars, hash, sandbox, cloned, delVars, historyVars>>

\* Mutant: the UPDATE without its session_id = '' condition.
SessionWritable == RowExists

\* persistSessionID's WHERE clause.
SessionUnset == RowExists /\ sessionID = None

\* session.init arrives: Task.SetSessionID writes the row only if the column is
\* empty; or the stream breaks before it does.
SessionInit(h) ==
    /\ At(h, "init")
    /\ sessionID' \in {sessionID, IF SessionUnset THEN stream[h] ELSE sessionID}
    /\ Respond(h)
    /\ UNCHANGED <<lockVars, state, provisioned, hash, worldVars, delVars, historyVars>>

-----------------------------------------------------------------------------
(* api.DeleteTask, once, without the lock                                  *)

DeleteGet ==
    /\ OwnerDeletes /\ del = "no" /\ RowExists
    /\ del' = "got" /\ delTarget' = hash
    /\ UNCHANGED <<lockVars, rowVars, hash, worldVars, pc, snap, target, stream,
                   historyVars>>

DeleteRow ==
    /\ del = "got"
    /\ del' = "rowGone" /\ state' = "Deleted"
    /\ UNCHANGED <<lockVars, provisioned, sessionID, hash, worldVars, pc, snap, target,
                   stream, delTarget, historyVars>>

\* DEL sandbox:{id} task-lock:{id}, best effort.
DeleteKeys ==
    /\ del = "rowGone"
    /\ del' = "keysGone" /\ UNCHANGED held
    /\ \/ hash' = None /\ KeyGone
       \/ UNCHANGED <<hash, lock, lost>>
    /\ UNCHANGED <<rowVars, worldVars, pc, snap, target, stream, delTarget, historyVars>>

\* Manager.DeleteSandbox of the copied id, best effort.
DeleteSandbox ==
    /\ del = "keysGone"
    /\ del' = "done"
    /\ \/ delTarget # None /\ sandbox' = [sandbox EXCEPT ![delTarget] = "dead"]
       \/ UNCHANGED sandbox
    /\ UNCHANGED <<lockVars, rowVars, hash, opened, cloned, pc, snap, target, stream,
                   delTarget, historyVars>>

-----------------------------------------------------------------------------
(* The environment                                                         *)

\* The sandbox's own timeout, a crash, an operator.
SandboxDies(b) ==
    /\ sandbox[b] = "alive"
    /\ sandbox' = [sandbox EXCEPT ![b] = "dead"]
    /\ UNCHANGED <<lockVars, rowVars, hash, opened, cloned, pc, snap, target, stream,
                   delVars, historyVars>>

LockLapses ==
    /\ Lapse
    /\ UNCHANGED <<rowVars, hash, worldVars, pc, snap, target, stream, delVars,
                   historyVars>>

\* sandboxTTL runs out: it is set by persistRunning only and never renewed.
HashExpires ==
    /\ "hash" \in Mishaps /\ hash # None
    /\ hash' = None /\ spoilt' = spoilt \cup {"hash"}
    /\ UNCHANGED <<lockVars, rowVars, worldVars, pc, snap, target, stream, delVars,
                   fresh>>

\* A backend process dies with the requests it serves.
InstanceCrash(i) ==
    /\ ProcessDies(i)
    /\ pc' = [h \in Handlers |-> IF holder(h) = i THEN "idle" ELSE pc[h]]
    /\ snap' = [h \in Handlers |-> IF holder(h) = i THEN Blank ELSE snap[h]]
    /\ target' = [h \in Handlers |-> IF holder(h) = i THEN None ELSE target[h]]
    /\ stream' = [h \in Handlers |-> IF holder(h) = i THEN None ELSE stream[h]]
    /\ UNCHANGED <<rowVars, hash, worldVars, delVars, historyVars>>

-----------------------------------------------------------------------------
Get(h) == GetRow(h) \/ GetHash(h)

ResetIfExpired(h) ==
    \/ ResetAcquire(h) \/ ResetGivesUp(h) \/ ResetCheck(h) \/ ResetReadHash(h)
    \/ IsAlive(h) \/ ResetRow(h) \/ ResetDel(h) \/ ResetRelease(h)

EnsureProvisioned(h) ==
    \/ ProvisionAcquire(h) \/ ProvisionGivesUp(h) \/ ProvisionCheck(h)
    \/ CreateSandbox(h) \/ Boot(h) \/ CloneRepo(h)
    \/ SetRunningRow(h) \/ SetRunningHash(h) \/ VerifyRow(h) \/ VerifyHash(h)
    \/ SetProvisioned(h) \/ ProvisionRelease(h) \/ SetError(h)

StreamMessage(h) == PostMessage(h) \/ SessionInit(h)

SendMessage(h) ==
    Get(h) \/ ResetIfExpired(h) \/ NewCheck(h) \/ EnsureProvisioned(h) \/ StreamMessage(h)

DeleteTask == DeleteGet \/ DeleteRow \/ DeleteKeys \/ DeleteSandbox

Environment ==
    \/ \E b \in Sandboxes : SandboxDies(b)
    \/ LockLapses
    \/ HashExpires
    \/ \E i \in Instances : InstanceCrash(i)

Next == (\E h \in Handlers : SendMessage(h)) \/ DeleteTask \/ Environment

Spec == Init /\ [][Next]_vars
-----------------------------------------------------------------------------
(* Properties                                                              *)

\* Of the requests that build a sandbox for the task, one at most does so by right:
\* EnsureProvisioned's "concurrent callers block until fn returns" breaks only for
\* a request whose lease has lapsed, or whose key DeleteTask has deleted.
OneProvisioner ==
    \A g, h \in Handlers \ lost : pc[g] \in Creating /\ pc[h] \in Creating => g = h

\* A provisioned task has a route: no order of resets, failed writes, deletions and
\* crashes leaves provisioned = true in MySQL without the sandbox hash in Redis,
\* which both ResetIfExpired and EnsureProvisioned would then skip for ever; only the
\* hash's own TTL does, and a request that goes on changing things without its lease.
ProvisionedIsMapped ==
    RowExists /\ provisioned /\ spoilt \cap {"lease", "hash"} = {} => hash # None

\* ProvisionForTask skips the clone when the task has a session, "meaning the
\* workspace was already cloned" (manager.go:199): no session is recorded over an
\* empty workspace, unless the failure of a clone went unseen.
SessionImpliesCloned ==
    HasGitURL /\ sessionID # None /\ "clone" \notin spoilt => cloned

\* session_id is never cleared or replaced once written (resource-mapping.md,
\* invariant 4), whatever agents answer to concurrent first messages.
SessionWriteOnce == [][sessionID # None => sessionID' = sessionID]_vars

\* "git_url is NOT re-cloned on recreation (workspace files persist across
\* sandboxes)", resource-mapping.md:55: no clone starts in a workspace that
\* already holds the repository, where git refuses to clone.
NotRecloned == \A h \in Handlers : pc[h] = "clone" => ~cloned

\* The MySQL/Redis implementation keeps the promise of the in-process one.
Binding == INSTANCE SandboxBinding WITH
    bound <- IF RowExists /\ provisioned THEN hash ELSE None,
    life <- sandbox,
    deleted <- ~RowExists

\* Provisioning and expiry resets never undo or overlap each other: the task is
\* bound to the sandbox that was just created for it and to none twice, and reset
\* only after its sandbox died; until the hash expires, a request goes on changing
\* things without its lease, or persistRunning fails over an older mapping.
KeepsBinding ==
    /\ Binding!BindingInit
    /\ [][spoilt' \cap {"lease", "hash", "overwrite"} = {} =>
            Binding!BindingNext \/ UNCHANGED Binding!bindingVars]_vars

-----------------------------------------------------------------------------
(* Liveness.  Lease and goroutines go on, and a call that ResetIfExpired    *)
(* repeats for ever is answered at times.                                   *)

Fairness ==
    /\ WF_vars(LockLapses)
    /\ \A h \in Handlers :
         /\ WF_vars(SendMessage(h))
         /\ SF_vars(ResetCheck(h) /\ pc'[h] = "resetHash")
         /\ SF_vars(ResetReadHash(h) /\ pc'[h] = "isAlive")
         /\ SF_vars(IsAlive(h) /\ pc'[h] = "resetRow")
         /\ SF_vars(ResetRow(h) /\ pc'[h] = "resetDel")

FairSpec == Spec /\ Fairness

\* The task lock never stays taken: the deferred release, or the TTL after a
\* crash or a failed release, lets the next request in.
LockIsFreed == lock # None ~> lock = None

ResetsAttempted == []<><<\E h \in Handlers : ResetAcquire(h)>>_vars

\* A task that is bound to a dead sandbox, be it one that died or one that a failed
\* write has left it with, is taken out of that state by the messages that follow,
\* as long as they get as far as the reset, so that EnsureProvisioned can build
\* another one; unless its hash expires first, which nothing makes up for.
DeadIsReset ==
    ResetsAttempted =>
        ((RowExists /\ provisioned /\ hash # None /\ sandbox[hash] = "dead")
            ~> (~provisioned \/ ~RowExists \/ hash = None))
=============================================================================
