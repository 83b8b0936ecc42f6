---------------------------- MODULE ScheduleRuns ----------------------------
(***************************************************************************)
(* The firings of one schedule and the runs they launch: cron ticks, fire  *)
(* tokens and boot-time catch-up going through schedule.RunFire, manual    *)
(* runs beside it, the goroutine that takes a run from CreateTask to       *)
(* SetRunOutcome, and a backend process that dies and starts again - all   *)
(* next to the owner's requests of ScheduleRegistry.                       *)
(***************************************************************************)
EXTENDS ScheduleRegistry

CONSTANTS
    Jobs,         \* goroutines executing RunFire
    Runs,         \* task ids of runs; the id of a finished run is used again
    SkipIfRunning, \* is the schedule's concurrency 0?
    Crashes       \* may the process die?

ASSUME RunsAssumption ==
    /\ None \notin Runs
    /\ {SkipIfRunning, Crashes} \subseteq BOOLEAN

VARIABLES
    up,     \* the backend process serves requests and cron runs
    job,    \* where each RunFire is
    jobRun, \* the task it created
    jobExpr,\* cron_expr in the record it loaded
    run,    \* the tasks rows with this schedule_id, and the goroutines on them
    beside  \* history: the runs under way since before a firing began to count

jobVars == <<job, jobRun, jobExpr>>
vars == <<registryVars, up, jobVars, run>>
allVars == <<vars, beside>>

Working == {"start", "provision", "setError", "failed", "post", "read"}
JobSteps == {"idle", "onceRemove", "load", "count", "create", "advance"}
RunSteps == Working \cup {"none", "ended", "dead"}

Records == [pc : RunSteps, state : {"New", "Provisioning", "Running", "Error"},
            outcome : {"", "completed", "failed", "timeout"}, manual : BOOLEAN,
            expired : BOOLEAN]

Unborn == [pc |-> "none", state |-> "New", outcome |-> "", manual |-> FALSE,
           expired |-> FALSE]

RunsTypeOK ==
    /\ RegistryTypeOK
    /\ up \in BOOLEAN
    /\ job \in [Jobs -> JobSteps]
    /\ jobRun \in [Jobs -> Runs \cup {None}]
    /\ jobExpr \in [Jobs -> Exprs \cup {None}]
    /\ run \in [Runs -> Records]
    /\ beside \in [Jobs -> SUBSET Runs]

RunsInit ==
    /\ RegistryInit
    /\ up = TRUE
    /\ job = [j \in Jobs |-> "idle"]
    /\ jobRun = [j \in Jobs |-> None]
    /\ jobExpr = [j \in Jobs |-> None]
    /\ run = [t \in Runs |-> Unborn]
    /\ beside = [j \in Jobs |-> {}]

IsWorking(t) == run[t].pc \in Working

\* Mutant: a run counts once its sandbox is up.
CountedRunning == {t \in Runs : run[t].state = "Running" /\ run[t].outcome = ""}

\* RunFire's SELECT COUNT: state NOT IN (Error, New) AND no run_outcome.
Counted == {t \in Runs : run[t].state \notin {"Error", "New"} /\ run[t].outcome = ""}

\* An id for a new task: never used, or nobody looks at that run again.
FreshRun(t) == ~IsWorking(t) /\ t \notin Counted /\ \A j \in Jobs : jobRun[j] # t

New(manual, step) == [Unborn EXCEPT !.pc = step, !.manual = manual]

-----------------------------------------------------------------------------
(* Firings                                                                 *)

Starts(j) == up /\ job[j] = "idle"

JobStep(j, from, to) == job[j] = from /\ job' = [job EXCEPT ![j] = to]

JobEnds(j) ==
    /\ job' = [job EXCEPT ![j] = "idle"]
    /\ jobRun' = [jobRun EXCEPT ![j] = None]
    /\ jobExpr' = [jobExpr EXCEPT ![j] = None]

\* The time of a slot comes: in the row and in every copy of it.
Due(rec, x) ==
    IF rec # None /\ rec.expr = x /\ rec.when = "future"
    THEN [rec EXCEPT !.when = "past"] ELSE rec

\* cron starts the goroutine of an entry: onceJob.Run or fire.
Tick(j) ==
    /\ Starts(j)
    /\ \E e \in Live :
         /\ cron[e].ahead
         /\ cron' = [cron EXCEPT ![e].ahead = cron[e].expr # Once]
         /\ row' = Due(row, cron[e].expr)
         /\ copy' = [r \in Requests |-> Due(copy[r], cron[e].expr)]
         /\ job' = [job EXCEPT ![j] = IF cron[e].expr = Once THEN "onceRemove" ELSE "load"]
    /\ UNCHANGED <<born, entry, pc, eid, up, jobRun, jobExpr, run>>

\* POST /public/schedules/:id/fire: 404 and 409 end it here.
FireSchedule(j) ==
    /\ Starts(j)
    /\ row # None /\ row.enabled
    /\ job' = [job EXCEPT ![j] = "load"]
    /\ UNCHANGED <<registryVars, up, jobRun, jobExpr, run>>

\* onceJob.Run: s.Remove of whatever entry the map holds, then fire.
OnceRemove(j) ==
    /\ JobStep(j, "onceRemove", "load")
    /\ Remove
    /\ UNCHANGED <<row, born, requestVars, up, jobRun, jobExpr, run>>

\* RunFire's first SELECT.
Load(j) ==
    /\ job[j] = "load"
    /\ \/ /\ row # None /\ row.enabled
          /\ job' = [job EXCEPT ![j] = IF SkipIfRunning THEN "count" ELSE "create"]
          /\ jobExpr' = [jobExpr EXCEPT ![j] = row.expr]
          /\ UNCHANGED jobRun
       \/ ("load" \in Failing \/ (row # None => ~row.enabled)) /\ JobEnds(j)
    /\ UNCHANGED <<registryVars, up, run>>

\* A failed COUNT leaves the count 0.
Count(j) ==
    /\ job[j] = "count"
    /\ \/ Counted # {} /\ JobEnds(j)
       \/ /\ Counted = {} \/ "count" \in Failing
          /\ job' = [job EXCEPT ![j] = "create"]
          /\ UNCHANGED <<jobRun, jobExpr>>
    /\ UNCHANGED <<registryVars, up, run>>

\* taskSvc.CreateTask; the run has no goroutine yet.
CreateTask(j) ==
    /\ job[j] = "create"
    /\ \/ \E t \in Runs :
            /\ FreshRun(t)
            /\ run' = [run EXCEPT ![t] = New(FALSE, "none")]
            /\ jobRun' = [jobRun EXCEPT ![j] = t]
            /\ job' = [job EXCEPT ![j] = "advance"]
            /\ UNCHANGED jobExpr
       \/ "create" \in Failing /\ JobEnds(j) /\ UNCHANGED run
    /\ UNCHANGED <<registryVars, up>>

\* Mutant: next_run_at is cleared for every expression.
AdvancedCleared(x) == IF row = None THEN None ELSE [row EXCEPT !.when = None]

\* The UPDATE of next_run_at, with enabled for @once; run_at is left alone.
Advanced(x) ==
    IF row = None THEN None
    ELSE IF x = Once
    THEN [row EXCEPT !.enabled = FALSE, !.when = IF row.expr = Once THEN @ ELSE "never"]
    ELSE IF row.expr = Once THEN row
    ELSE [row EXCEPT !.when = "future"]

\* That UPDATE, whose error is ignored, and go func().
Advance(j) ==
    /\ job[j] = "advance"
    /\ \/ row' = Advanced(jobExpr[j])
       \/ "advance" \in Failing /\ UNCHANGED row
    /\ run' = [run EXCEPT ![jobRun[j]].pc = "start"]
    /\ JobEnds(j)
    /\ UNCHANGED <<born, schedulerVars, requestVars, up>>

\* POST /api/schedules/:id/run: neither enabled nor concurrency are looked at.
RunScheduleNow ==
    /\ up /\ row # None
    /\ \A t \in Runs : ~(IsWorking(t) /\ run[t].manual)
    /\ \E t \in Runs : FreshRun(t) /\ run' = [run EXCEPT ![t] = New(TRUE, "start")]
    /\ UNCHANGED <<registryVars, up, jobVars>>

-----------------------------------------------------------------------------
(* The goroutine of a run                                                  *)

\* One step of it: an UPDATE of the tasks row may fail, which is only logged.
RunStep(t, from, to, rec) ==
    /\ run[t].pc = from
    /\ \/ run' = [run EXCEPT ![t] = [rec EXCEPT !.pc = to]]
       \/ "runUpdate" \in Failing /\ run' = [run EXCEPT ![t].pc = to]
    /\ UNCHANGED <<registryVars, up, jobVars>>

SetProvisioning(t) ==
    RunStep(t, "start", "provision", [run[t] EXCEPT !.state = "Provisioning"])

\* EnsureProvisioned succeeds only if the row says Running (TaskProvisioning).
Provision(t) ==
    \/ /\ run[t].pc = "provision" /\ ~run[t].expired
       /\ run' = [run EXCEPT ![t] = [@ EXCEPT !.state = "Running", !.pc = "post"]]
       /\ UNCHANGED <<registryVars, up, jobVars>>
    \/ RunStep(t, "provision", "setError", run[t])

SetError(t) == RunStep(t, "setError", "failed", [run[t] EXCEPT !.state = "Error"])

\* The last step; the deferred cancel() ends the timer.
SetRunOutcome(t, from, outcome) ==
    RunStep(t, from, "ended", [run[t] EXCEPT !.outcome = outcome, !.expired = FALSE])

Failed(t) == SetRunOutcome(t, "failed", "failed")

\* StreamMessage up to the response: it comes, or the request fails, or the
\* deadline cancels it.
Post(t) ==
    \/ ~run[t].expired /\ RunStep(t, "post", "read", run[t])
    \/ SetRunOutcome(t, "post", IF run[t].expired THEN "timeout" ELSE "failed")

\* Mutant: a run cut off by its deadline returns before SetRunOutcome.
ReadSilently(t) ==
    \/ ~run[t].expired /\ SetRunOutcome(t, "read", "completed")
    \/ RunStep(t, "read", "ended", run[t])

\* The SSE loop: it ends with the stream, or breaks; the deadline ends it
\* without an error.
Read(t) ==
    \/ SetRunOutcome(t, "read", "completed")
    \/ ~run[t].expired /\ SetRunOutcome(t, "read", "failed")

\* Mutant: the context of the run has no deadline.
Untimed(t) == TRUE

\* RunScheduleNow's goroutine runs on context.Background().
NoTimeout(t) == run[t].manual

\* timeout_secs run out.
Deadline(t) ==
    /\ run[t].pc \in {"provision", "post", "read"} /\ ~run[t].expired
    /\ ~NoTimeout(t)
    /\ run' = [run EXCEPT ![t].expired = TRUE]
    /\ UNCHANGED <<registryVars, up, jobVars>>

RunGoroutine(t) ==
    \/ SetProvisioning(t) \/ Provision(t) \/ SetError(t) \/ Failed(t) \/ Post(t) \/ Read(t)

-----------------------------------------------------------------------------
(* The process                                                             *)

\* Everything in memory is gone; rows and the time stay.
Crash ==
    /\ Crashes /\ up
    /\ up' = FALSE
    /\ entry' = None /\ cron' = [e \in Entries |-> None]
    /\ pc' = [r \in Requests |-> "idle"]
    /\ copy' = [r \in Requests |-> None] /\ eid' = [r \in Requests |-> None]
    /\ job' = [j \in Jobs |-> "idle"]
    /\ jobRun' = [j \in Jobs |-> None] /\ jobExpr' = [j \in Jobs |-> None]
    /\ run' = [t \in Runs |->
                 IF IsWorking(t) THEN [run[t] EXCEPT !.pc = "dead", !.expired = FALSE]
                 ELSE run[t]]
    /\ UNCHANGED <<row, born>>

\* A slot comes while the process is down.
Missed ==
    /\ ~up /\ row # None
    /\ row' = Due(row, row.expr)
    /\ UNCHANGED <<born, schedulerVars, requestVars, up, jobVars, run>>

\* Mutant: only recurring schedules are caught up.
MissedSlot(rec) == rec.expr # Once /\ rec.when = "past"

\* catchUpIfMissed.
IsMissed(rec) == rec.when = "past"

\* Scheduler.Start, before the server listens: register what is enabled, and
\* one catch-up firing if its time is past.  When its SELECT fails the process
\* serves all the same, with nothing registered or caught up.
Start ==
    /\ ~up /\ up' = TRUE
    /\ \/ /\ row # None /\ row.enabled
          /\ IF Registrable(row)
             THEN \E e \in Entries : entry' = e /\ cron' = [cron EXCEPT ![e] = Slot(row)]
             ELSE UNCHANGED schedulerVars
          /\ IF IsMissed(row)
             THEN \E j \in Jobs : job' = [job EXCEPT ![j] = "load"]
             ELSE UNCHANGED job
       \/ /\ (row # None => ~row.enabled) \/ "boot" \in Failing
          /\ UNCHANGED <<schedulerVars, job>>
    /\ UNCHANGED <<row, born, requestVars, jobRun, jobExpr, run>>

-----------------------------------------------------------------------------
Owner == up /\ RegistryNext /\ UNCHANGED <<up, jobVars, run>>

RunFire(j) == Load(j) \/ Count(j) \/ CreateTask(j) \/ Advance(j)

Fire(j) == Tick(j) \/ FireSchedule(j) \/ OnceRemove(j) \/ RunFire(j)

Process == Crash \/ Missed \/ Start

System ==
    \/ Owner
    \/ \E j \in Jobs : Fire(j)
    \/ RunScheduleNow
    \/ \E t \in Runs : RunGoroutine(t) \/ Deadline(t)
    \/ Process

\* A run that a goroutine works on and whose row says so.
UnderWay(t) == IsWorking(t) /\ run[t].state \in {"Provisioning", "Running"}

\* The history of a step: what is under way when a firing goes on to count, until
\* it ends, or the firing does, or a COUNT that failed is taken for 0.
Beside(j) ==
    IF job'[j] \in {"idle", "load", "onceRemove"} THEN {}
    ELSE IF job[j] = "load" THEN {t \in Runs : UnderWay(t)}
    ELSE IF job[j] = "count" /\ job'[j] = "create" /\ Counted # {} THEN {}
    ELSE {t \in beside[j] : UnderWay(t)'}

RunsNext == System /\ beside' = [j \in Jobs |-> Beside(j)]

RunsSpec == RunsInit /\ [][RunsNext]_allVars
-----------------------------------------------------------------------------
(* Properties                                                              *)

\* A run launched by a firing, that has not failed.
FiredAndActive(t) == IsWorking(t) /\ run[t].pc # "failed" /\ ~run[t].manual

\* concurrency "0=skip if running" (scheduled-tasks.md:52), as RunFire's COUNT and
\* the runs' own goroutines keep it: a firing never launches a run beside one that
\* has been under way since before it counted, however runs, firings and restarts
\* interleave; only a COUNT that failed is taken for "none running".
UnderWayIsSkipped ==
    SkipIfRunning =>
        \A j \in Jobs : job[j] \in {"create", "advance"} => beside[j] = {}

\* The same as the document has it: no two runs of the schedule provision or stream
\* together, unless one was started by hand.
OneActiveRun ==
    SkipIfRunning =>
        \A s, t \in Runs : FiredAndActive(s) /\ FiredAndActive(t) => s = t

\* RunFire skips a firing only when "a run for this schedule is still active"
\* (runner.go:39): what it counts has a goroutine at work.
CountedIsWorking == \A t \in Counted : IsWorking(t)

\* A run that ended, whichever way and however late, never holds up the next, as
\* long as the UPDATE of its outcome goes through.
EndedIsNotCounted == \A t \in Runs : run[t].pc = "ended" => t \notin Counted
-----------------------------------------------------------------------------
(* Liveness.  Goroutines go on, time passes, the process is started again;  *)
(* nothing makes an agent end its stream.                                   *)

Fairness ==
    /\ WF_vars(Start)
    /\ \A j \in Jobs : WF_vars(OnceRemove(j)) /\ WF_vars(RunFire(j))
    /\ \A t \in Runs :
         /\ WF_vars(SetProvisioning(t) \/ SetError(t) \/ Failed(t))
         /\ WF_vars(Deadline(t))
         /\ WF_vars(run[t].expired /\ RunGoroutine(t))

FairSpec == RunsSpec /\ Fairness

\* A run launched by a firing ends, by itself or by timeout_secs, even if the
\* agent never answers: its schedule is not held up for ever.
FiredRunsEnd ==
    \A t \in Runs : FiredAndActive(t) ~> ~FiredAndActive(t)

\* A slot missed while the process was down is made up for after the restart
\* (scheduled-tasks.md, invariant 11), unless a run is active, or nobody wants
\* it any more: the due time does not stay in the past, as long as Start can read
\* the schedules.
MissedIsCaughtUp ==
    <>[]up =>
        ((~up /\ row # None /\ row.enabled /\ row.when = "past" /\ Counted = {}) ~>
            (row = None \/ ~row.enabled \/ row.when # "past" \/ Counted # {}))
=============================================================================
