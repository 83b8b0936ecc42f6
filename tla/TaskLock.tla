------------------------------ MODULE TaskLock ------------------------------
(***************************************************************************)
(* The per-task Redis lock of internal/task/redis_lock.go: SET NX with a   *)
(* 30 s TTL to acquire, a compare-and-delete script to release, no         *)
(* renewal.  The stored value is host:pid, so every goroutine of a process *)
(* presents the same holder id.                                            *)
(***************************************************************************)
CONSTANTS
    Handlers,    \* goroutines that may call withLock on this task
    Instances,   \* backend processes: a host:pid each
    InstanceOf,  \* the process a goroutine runs in
    None,        \* an absent key, field or id
    Mishaps      \* what may go wrong; "lease": the 30 s TTL runs out under a live
                 \* goroutine that is still inside fn

ASSUME LockAssumption ==
    /\ InstanceOf \in [Handlers -> Instances]
    /\ None \notin Instances

VARIABLES
    lock,  \* value of key task-lock:{id}, None when the key is absent
    held,  \* goroutines between a successful SET NX and their deferred release
    lost   \* history: those of them whose key is gone, which nothing tells them

lockVars == <<lock, held, lost>>

LockTypeOK ==
    /\ lock \in Instances \cup {None}
    /\ held \subseteq Handlers /\ lost \subseteq held

LockInit == lock = None /\ held = {} /\ lost = {}

\* Mutant: an id per goroutine.
goroutine(h) == h

\* host:pid.
holder(h) == InstanceOf[h]

\* Mutant: the key is written without NX, over another holder's.
AcquireNoNX(h) ==
    /\ lock' = holder(h)
    /\ held' = held \cup {h}
    /\ UNCHANGED lost

\* One round of withLock's loop that finds the key absent.
Acquire(h) ==
    /\ lock = None
    /\ lock' = holder(h)
    /\ held' = held \cup {h}
    /\ UNCHANGED lost

\* The key goes, whosever it is: nobody inside fn holds the lock any more.
KeyGone == lock' = None /\ lost' = held'

\* The deferred release: delete the key if it carries this holder id, be it this
\* goroutine's or one another of the process has got since.  A Redis error is
\* only logged, so the key may also stay behind.
Release(h) ==
    /\ h \in held
    /\ held' = held \ {h}
    /\ \/ lock = holder(h) /\ KeyGone
       \/ lock' = lock /\ lost' = lost \ {h}

\* Mutant: SET NX without a TTL.
NeverLapses == FALSE /\ UNCHANGED lockVars

\* The TTL runs out.  Nothing renews it, so it may do so under a goroutine that
\* is still inside fn.
Lapse ==
    /\ lock # None
    /\ "lease" \in Mishaps \/ held = lost
    /\ UNCHANGED held
    /\ KeyGone

\* A process dies: its goroutines are gone, its key stays until the TTL.
ProcessDies(i) ==
    /\ held' = {h \in held : holder(h) # i}
    /\ lost' = {h \in lost : holder(h) # i}
    /\ UNCHANGED lock

LockNext ==
    \/ \E h \in Handlers : Acquire(h) \/ Release(h)
    \/ Lapse
    \/ \E i \in Instances : ProcessDies(i)

LockSpec == LockInit /\ [][LockNext]_lockVars

\* Mutual exclusion: one goroutine at most is inside fn by right, and the key says
\* which process it belongs to; another is there only if the key of its own lapsed
\* or was deleted under it.
LockInv ==
    \A h \in held \ lost : lock = holder(h) /\ \A g \in held \ lost : g = h
=============================================================================
