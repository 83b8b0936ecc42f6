-------------------------- MODULE ScheduleRegistry --------------------------
(***************************************************************************)
(* One schedule: its scheduled_tasks row, the entry the in-memory          *)
(* Scheduler keeps for it, and the cron entries registered on its behalf,  *)
(* under the owner's requests to create, update, toggle and delete it      *)
(* (schedule/service.go, schedule/scheduler.go).  A request is a goroutine *)
(* whose steps are its statements and its critical sections under          *)
(* Scheduler.mu.                                                           *)
(***************************************************************************)
CONSTANTS
    Requests,   \* goroutines serving the owner's requests
    Entries,    \* ids cron hands out; an id nobody refers to is handed out again
    Recurring,  \* cron expressions other than @once
    Once,       \* the expression "@once"
    None,       \* no row, no entry
    Overlap,    \* may the owner send a request before the last one is answered?
    Failing     \* the statements that may fail, each named by its step

Exprs == Recurring \cup {Once}

\* When the row is due next (RunAt for @once, else NextRunAt), seen from now;
\* never if that column is NULL.
Times == {"never", "future", "past"}

\* The columns that decide what is registered and run.
Rows == [enabled : BOOLEAN, expr : Exprs, when : Times]

\* A cron entry: its expression, and whether it has a next firing.
Slots == [expr : Exprs, ahead : BOOLEAN]

ASSUME RegistryAssumption ==
    /\ None \notin Rows \cup Slots \cup Entries
    /\ Once \notin Recurring
    /\ Overlap \in BOOLEAN

VARIABLES
    row,    \* the row, None while there is none
    born,   \* it has been created
    entry,  \* Scheduler.entries[id]
    cron,   \* cron's own entries
    pc,     \* where each request is
    copy,   \* its *db.ScheduledTask
    eid     \* the entry id AddFunc gave it, not yet in Scheduler.entries

schedulerVars == <<entry, cron>>
requestVars == <<pc, copy, eid>>
registryVars == <<row, born, schedulerVars, requestVars>>

Steps == {"idle", "save", "enable", "disable", "remove", "unregister", "delete",
          "reload", "reregister", "add", "setEntry"}

RegistryTypeOK ==
    /\ row \in Rows \cup {None}
    /\ born \in BOOLEAN
    /\ entry \in Entries \cup {None}
    /\ cron \in [Entries -> Slots \cup {None}]
    /\ pc \in [Requests -> Steps]
    /\ copy \in [Requests -> Rows \cup {None}]
    /\ eid \in [Requests -> Entries \cup {None}]

RegistryInit ==
    /\ row = None /\ born = FALSE
    /\ entry = None /\ cron = [e \in Entries |-> None]
    /\ pc = [r \in Requests |-> "idle"]
    /\ copy = [r \in Requests |-> None]
    /\ eid = [r \in Requests |-> None]

Live == {e \in Entries : cron[e] # None}

\* Start of a request.
Arrives(r) ==
    /\ pc[r] = "idle"
    /\ Overlap \/ \A q \in Requests : pc[q] = "idle"

Step(r, from, to) == pc[r] = from /\ pc' = [pc EXCEPT ![r] = to]

\* The request is answered.
Finish(r) ==
    /\ pc' = [pc EXCEPT ![r] = "idle"]
    /\ copy' = [copy EXCEPT ![r] = None]
    /\ eid' = [eid EXCEPT ![r] = None]

-----------------------------------------------------------------------------
(* The statements of Service                                               *)

\* Service.Create: RunAt, or the first slot, lies ahead.
Create(r) ==
    /\ Arrives(r) /\ row = None /\ ~born
    /\ \E x \in Exprs : row' = [enabled |-> TRUE, expr |-> x, when |-> "future"]
    /\ born' = TRUE
    /\ pc' = [pc EXCEPT ![r] = "reload"]
    /\ UNCHANGED <<schedulerVars, copy, eid>>

\* Service.getOwned, first step of Update, Toggle and Delete; only Update goes
\* on to use what it read.
GetOwned(r) ==
    /\ Arrives(r) /\ row # None
    /\ \E op \in {"save", "enable", "disable", "unregister"} :
         /\ pc' = [pc EXCEPT ![r] = op]
         /\ copy' = [copy EXCEPT ![r] = IF op = "save" THEN row ELSE None]
    /\ UNCHANGED <<row, born, schedulerVars, eid>>

\* Mutant: an edited schedule is switched on, as a created one is.
EditsOn(c) == {[c EXCEPT !.enabled = TRUE]}

\* The non-nil fields of the request applied to the record: a recurring
\* expression brings its next slot; @once, and a new run_at, take any time.
Edits(c) ==
    {c} \cup {[c EXCEPT !.expr = x, !.when = "future"] : x \in Recurring}
        \cup {[c EXCEPT !.expr = Once, !.when = w] : w \in Times}

\* gorm's Save: every column is written, from the copy; a row that is gone is
\* inserted again, with the column default (true) for a false enabled.
Save(r) ==
    /\ Step(r, "save", "reload")
    /\ \E rec \in Edits(copy[r]) :
         row' = IF row = None THEN [rec EXCEPT !.enabled = TRUE] ELSE rec
    /\ UNCHANGED <<born, schedulerVars, copy, eid>>

\* UPDATE enabled WHERE id, which may match no row.
SetEnabled(on) == IF row = None THEN None ELSE [row EXCEPT !.enabled = on]

Enable(r) ==
    /\ Step(r, "enable", "reload")
    /\ row' = SetEnabled(TRUE)
    /\ UNCHANGED <<born, schedulerVars, copy, eid>>

Disable(r) ==
    /\ Step(r, "disable", "remove")
    /\ row' = SetEnabled(FALSE)
    /\ UNCHANGED <<born, schedulerVars, copy, eid>>

Delete(r) ==
    /\ pc[r] = "delete"
    /\ row' = None
    /\ Finish(r)
    /\ UNCHANGED <<born, schedulerVars>>

\* A statement fails: the service returns the error and Reload just returns.
StatementFails(r) ==
    /\ pc[r] \in {"save", "enable", "disable", "delete", "reload"} \cap Failing
    /\ Finish(r)
    /\ UNCHANGED <<row, born, schedulerVars>>

-----------------------------------------------------------------------------
(* Scheduler                                                               *)

\* Mutant: the map keeps the id it handed to cron.Remove.
RemoveKeepsEntry ==
    /\ cron' = IF entry = None THEN cron ELSE [cron EXCEPT ![entry] = None]
    /\ UNCHANGED entry

\* Scheduler.Remove, all of it under mu.
Remove ==
    /\ cron' = IF entry = None THEN cron ELSE [cron EXCEPT ![entry] = None]
    /\ entry' = None

\* Delete and disable end, and Delete goes on, with Remove.
RemoveFor(r) ==
    /\ Remove
    /\ \/ Step(r, "unregister", "delete") /\ UNCHANGED <<copy, eid>>
       \/ pc[r] = "remove" /\ Finish(r)
    /\ UNCHANGED <<row, born>>

\* Reload's SELECT: a row that is missing or disabled ends it there.
Reload(r) ==
    /\ IF row # None /\ row.enabled
       THEN /\ Step(r, "reload", "reregister")
            /\ copy' = [copy EXCEPT ![r] = row]
            /\ UNCHANGED eid
       ELSE pc[r] = "reload" /\ Finish(r)
    /\ UNCHANGED <<row, born, schedulerVars>>

\* Mutant: Reload registers on top of what is registered.
Keep == UNCHANGED schedulerVars

\* What Reload does before it registers anew.
Unregister == Remove

Reregister(r) ==
    /\ Step(r, "reregister", "add")
    /\ Unregister
    /\ UNCHANGED <<row, born, copy, eid>>

\* cron hands out an id that nothing refers to.
Unused(e) == cron[e] = None /\ entry # e /\ \A r \in Requests : eid[r] # e

\* onceSpec.Next and its cron twin: a time that is past is never again.
Slot(rec) == [expr |-> rec.expr, ahead |-> rec.expr = Once => rec.when = "future"]

\* registerOnce without a run_at registers nothing.
Registrable(rec) == rec.expr = Once => rec.when # "never"

\* register: c.AddFunc or c.Schedule.
Add(r) ==
    /\ pc[r] = "add"
    /\ IF ~Registrable(copy[r])
       THEN Finish(r) /\ UNCHANGED cron
       ELSE /\ Step(r, "add", "setEntry")
            /\ \E e \in Entries :
                 /\ Unused(e)
                 /\ cron' = [cron EXCEPT ![e] = Slot(copy[r])]
                 /\ eid' = [eid EXCEPT ![r] = e]
            /\ UNCHANGED copy
    /\ UNCHANGED <<row, born, entry>>

\* s.entries[rec.ID] = eid, under mu.
SetEntry(r) ==
    /\ pc[r] = "setEntry"
    /\ entry' = eid[r]
    /\ Finish(r)
    /\ UNCHANGED <<row, born, cron>>

-----------------------------------------------------------------------------
Service(r) ==
    \/ Create(r) \/ GetOwned(r) \/ Save(r) \/ Enable(r) \/ Disable(r) \/ Delete(r)
    \/ StatementFails(r)

Scheduler(r) == RemoveFor(r) \/ Reload(r) \/ Reregister(r) \/ Add(r) \/ SetEntry(r)

RegistryNext == \E r \in Requests : Service(r) \/ Scheduler(r)

RegistrySpec == RegistryInit /\ [][RegistryNext]_registryVars
-----------------------------------------------------------------------------
(* Properties                                                              *)

\* What cron should call for a row, and for the present one.
WantedFor(rec) ==
    IF rec # None /\ rec.enabled /\ Registrable(rec) THEN {Slot(rec)} ELSE {}

Wanted == WantedFor(row)

\* "the running cron always reflects the DB state" (scheduled-tasks.md:130):
\* with no request under way, cron has one entry for an enabled schedule, with
\* the row's expression, and none for any other; and the map knows it.
CronReflectsRow ==
    (\A r \in Requests : pc[r] = "idle") =>
        /\ Live = (IF entry = None THEN {} ELSE {entry})
        /\ {cron[e] : e \in Live} = Wanted

\* The entry the map holds is one that cron still has: a request that replaces
\* or removes a registration, in whatever order with others, acts on a live one.
EntryIsLive == entry # None => entry \in Live

\* A slot of a schedule fires it once: at no step, of whatever request, failure or
\* restart, does cron have two entries for it.
RegisteredOnce == \A d, e \in Live : d = e

\* Only a request to enable it switches a schedule on, and a deleted one stays
\* deleted: "Partial update - only non-nil pointer fields are applied"
\* (scheduled-tasks.md:301), and enabled is not a field of the update request.
OnlyEnableEnables ==
    [][/\ born /\ row = None => row' = None
       /\ row # None /\ row' # None /\ ~row.enabled /\ row'.enabled =>
            \E r \in Requests : pc[r] = "enable" /\ pc'[r] = "reload"]_registryVars

-----------------------------------------------------------------------------
(* Refinement                                                              *)

\* What a request has still to do to the row; nothing but a registration once it
\* has written it.
Asked(step) ==
    CASE step = "save" -> "edit"
      [] step \in {"enable", "disable"} -> step
      [] step \in {"unregister", "delete"} -> "delete"
      [] OTHER -> "registration"

Contract == INSTANCE ScheduleContract WITH
    Schedules <- Rows,
    Enabled <- {rec \in Rows : rec.enabled},
    Wants <- [rec \in Rows \cup {None} |-> WantedFor(rec)],
    registered <- {cron[e] : e \in Live},
    asked <- {Asked(pc[r]) : r \in {q \in Requests : pc[q] # "idle"}}

\* The statements and critical sections of Service and Scheduler, in their order,
\* keep the contract: no request is answered before cron and row agree, none turns
\* a schedule on but the one to enable it, and what fails has changed nothing.
KeepsContract == Contract!ContractSpec
=============================================================================
