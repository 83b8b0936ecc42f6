--------------------------- MODULE SandboxBinding ---------------------------
(***************************************************************************)
(* What EnsureProvisioned and ResetIfExpired promise about a task, as the  *)
(* in-process implementation of internal/task/store.go keeps it with one   *)
(* mutex: the task is bound to at most one sandbox, is bound only when it  *)
(* is not bound and then to the sandbox just created for it, and loses its *)
(* sandbox only when that is no longer alive or the task is deleted.       *)
(***************************************************************************)
CONSTANTS Sandboxes, None

VARIABLES
    bound,    \* the sandbox of a provisioned task
    fresh,    \* the sandbox created last, until the task is bound
    life,     \* of each sandbox, at the sandbox server
    deleted   \* the task is gone

bindingVars == <<bound, fresh, life, deleted>>

BindingInit ==
    /\ bound = None /\ fresh = None
    /\ life = [b \in Sandboxes |-> "unborn"]
    /\ deleted = FALSE

Create(b) ==
    /\ life[b] = "unborn"
    /\ life' = [life EXCEPT ![b] = "alive"] /\ fresh' = b
    /\ UNCHANGED <<bound, deleted>>

Die(b) ==
    /\ life[b] = "alive"
    /\ life' = [life EXCEPT ![b] = "dead"]
    /\ UNCHANGED <<bound, fresh, deleted>>

\* EnsureProvisioned: skip if provisioned; otherwise run fn, which creates a
\* sandbox, then set it.  No sandbox is bound a second time.
Provision(b) ==
    /\ ~deleted /\ bound = None /\ b = fresh
    /\ bound' = b /\ fresh' = None
    /\ UNCHANGED <<life, deleted>>

\* ResetIfExpired: resetLocked only if isAlive said no, both under the mutex.
Reset ==
    /\ bound # None /\ life[bound] = "dead"
    /\ bound' = None
    /\ UNCHANGED <<fresh, life, deleted>>

\* Store.Delete.
Remove ==
    /\ bound' = None /\ deleted' = TRUE
    /\ UNCHANGED <<fresh, life>>

BindingNext ==
    \/ \E b \in Sandboxes : Create(b) \/ Die(b) \/ Provision(b)
    \/ Reset
    \/ Remove

BindingSpec == BindingInit /\ [][BindingNext]_bindingVars
=============================================================================
