------------------------- MODULE ScheduleRunsProofs -------------------------
(***************************************************************************)
(* TLAPS proofs about ScheduleRuns, for any number of firings, runs and    *)
(* owner's requests, and whatever crashes: its types, that an ended run is *)
(* not counted, and that a firing skips a run it finds under way.          *)
(***************************************************************************)
EXTENDS ScheduleRuns, ScheduleRegistryProofs

\* The part of the type invariant that firings and runs rest on.
RunsTyped ==
    /\ job \in [Jobs -> JobSteps]
    /\ jobRun \in [Jobs -> Runs \cup {None}]
    /\ run \in [Runs -> Records]

LEMMA UnbornType ==
    ASSUME NEW manual \in BOOLEAN, NEW step \in {"none", "start"}
    PROVE  /\ New(manual, step) \in Records
           /\ New(manual, step).pc = step
           /\ New(manual, step).manual = manual
           /\ New(manual, step).outcome = ""
  BY DEF New, Unborn, Records, RunSteps, Working

-----------------------------------------------------------------------------
(* Types, and runs that have ended                                         *)

\* All that is typed, the registry's with what its requests hold.
AllTyped ==
    /\ RegistryTyped
    /\ up \in BOOLEAN
    /\ RunsTyped
    /\ jobExpr \in [Jobs -> Exprs \cup {None}]

\* A run that has ended has an outcome.
EndedHasOutcome == \A t \in Runs : run[t].pc = "ended" => run[t].outcome # ""

\* A step of a run's goroutine keeps the records' type, and ends a run with the
\* outcome it writes, unless that fails.
LEMMA RunStepTyped ==
    ASSUME RunsTyped, NEW t \in Runs, NEW from \in RunSteps,
           NEW to \in RunSteps, NEW rec \in Records,
           RunStep(t, from, to, rec)
    PROVE  /\ run' \in [Runs -> Records]
           /\ \A s \in Runs : s # t => run'[s] = run[s]
           /\ run'[t].pc = to
           /\ "runUpdate" \notin Failing => run'[t].outcome = rec.outcome
<1>. DEFINE new == [rec EXCEPT !.pc = to]
            old == [run[t] EXCEPT !.pc = to]
<1>1. /\ new \in Records /\ new.pc = to /\ new.outcome = rec.outcome
      /\ old \in Records /\ old.pc = to
  BY DEF RunsTyped, Records
<1>2. \/ run' = [run EXCEPT ![t] = new]
      \/ "runUpdate" \in Failing /\ run' = [run EXCEPT ![t] = old]
  BY DEF RunStep
<1>. HIDE DEF new, old
<1>. QED BY <1>1, <1>2 DEF RunsTyped

\* What a step of a run's goroutine does to the types and to ended runs.
TypedGoroutine ==
    /\ run' \in [Runs -> Records]
    /\ UNCHANGED <<registryVars, up, jobVars>>
    /\ "runUpdate" \notin Failing /\ EndedHasOutcome => EndedHasOutcome'

LEMMA RunStepIsTyped ==
    ASSUME RunsTyped, NEW t \in Runs, NEW from \in RunSteps,
           NEW to \in RunSteps, NEW rec \in Records,
           RunStep(t, from, to, rec), to = "ended" => rec.outcome # ""
    PROVE  TypedGoroutine
<1>1. UNCHANGED <<registryVars, up, jobVars>>
  BY DEF RunStep
<1>2. /\ run' \in [Runs -> Records]
      /\ \A s \in Runs : s # t => run'[s] = run[s]
      /\ run'[t].pc = to
      /\ "runUpdate" \notin Failing => run'[t].outcome = rec.outcome
  BY RunStepTyped
<1>3. "runUpdate" \notin Failing /\ EndedHasOutcome => EndedHasOutcome'
  BY <1>2 DEF EndedHasOutcome
<1>. QED BY <1>1, <1>2, <1>3 DEF TypedGoroutine

LEMMA OutcomeIsTyped ==
    ASSUME RunsTyped, NEW t \in Runs, NEW from \in RunSteps,
           NEW outcome \in {"completed", "failed", "timeout"},
           SetRunOutcome(t, from, outcome)
    PROVE  TypedGoroutine
<1>. DEFINE rec == [run[t] EXCEPT !.outcome = outcome, !.expired = FALSE]
<1>1. rec \in Records /\ rec.outcome # ""
  BY DEF RunsTyped, Records
<1>2. RunStep(t, from, "ended", rec)
  BY DEF SetRunOutcome
<1>. HIDE DEF rec
<1>. QED BY <1>1, <1>2, RunStepIsTyped DEF RunSteps

LEMMA GoroutineTyped ==
    ASSUME RunsTyped, NEW t \in Runs, RunGoroutine(t) \/ Deadline(t)
    PROVE  TypedGoroutine
<1>0. run[t] \in Records /\ Working \subseteq RunSteps
  BY DEF RunsTyped, RunSteps
<1>1. ASSUME NEW from \in Working, NEW to \in Working, NEW state \in {"Provisioning", "Error"},
             RunStep(t, from, to, [run[t] EXCEPT !.state = state])
      PROVE  TypedGoroutine
  <2>. DEFINE rec == [run[t] EXCEPT !.state = state]
  <2>1. rec \in Records
    BY <1>0 DEF Records
  <2>2. RunStep(t, from, to, rec)
    BY <1>1
  <2>. HIDE DEF rec
  <2>. QED BY <1>0, <2>1, <2>2, RunStepIsTyped DEF Working
<1>2. CASE SetProvisioning(t) \/ SetError(t)
  <2>1. ASSUME SetProvisioning(t) PROVE TypedGoroutine
    <3>1. RunStep(t, "start", "provision", [run[t] EXCEPT !.state = "Provisioning"])
      BY <2>1 DEF SetProvisioning
    <3>. QED BY <1>1, <3>1 DEF Working
  <2>2. ASSUME SetError(t) PROVE TypedGoroutine
    <3>1. RunStep(t, "setError", "failed", [run[t] EXCEPT !.state = "Error"])
      BY <2>2 DEF SetError
    <3>. QED BY <1>1, <3>1 DEF Working
  <2>. QED BY <1>2, <2>1, <2>2
<1>3. CASE /\ run' = [run EXCEPT ![t] = [@ EXCEPT !.state = "Running", !.pc = "post"]]
           /\ UNCHANGED <<registryVars, up, jobVars>>
  <2>. DEFINE rec == [run[t] EXCEPT !.state = "Running", !.pc = "post"]
  <2>1. rec \in Records /\ rec.pc = "post"
    BY <1>0 DEF Records, RunSteps, Working
  <2>2. run' = [run EXCEPT ![t] = rec]
    BY <1>3
  <2>. HIDE DEF rec
  <2>. QED BY <1>3, <2>1, <2>2 DEF RunsTyped, TypedGoroutine, EndedHasOutcome
<1>4. CASE Provision(t)
  <2>1. CASE RunStep(t, "provision", "setError", run[t])
    BY <1>0, <2>1, RunStepIsTyped DEF Working
  <2>. QED BY <1>3, <1>4, <2>1 DEF Provision
<1>5. CASE Post(t)
  <2>1. CASE RunStep(t, "post", "read", run[t])
    BY <1>0, <2>1, RunStepIsTyped DEF Working
  <2>2. CASE SetRunOutcome(t, "post", IF run[t].expired THEN "timeout" ELSE "failed")
    BY <1>0, <2>2, OutcomeIsTyped DEF Working
  <2>. QED BY <1>5, <2>1, <2>2 DEF Post
<1>6. CASE Failed(t) \/ Read(t)
  BY <1>0, <1>6, OutcomeIsTyped DEF Failed, Read, Working
<1>7. CASE Deadline(t)
  <2>. DEFINE rec == [run[t] EXCEPT !.expired = TRUE]
  <2>1. rec \in Records /\ rec.pc = run[t].pc /\ rec.outcome = run[t].outcome
    BY <1>0 DEF Records
  <2>2. run' = [run EXCEPT ![t] = rec] /\ UNCHANGED <<registryVars, up, jobVars>>
    BY <1>7 DEF Deadline
  <2>. HIDE DEF rec
  <2>. QED BY <2>1, <2>2 DEF RunsTyped, TypedGoroutine, EndedHasOutcome
<1>. QED
  BY <1>2, <1>4, <1>5, <1>6, <1>7 DEF RunGoroutine

\* What the time makes of a row, and a firing of one, is a row.
LEMMA DueRows ==
    ASSUME NEW x, NEW rec \in Rows \cup {None}
    PROVE  Due(rec, x) \in Rows \cup {None} /\ (rec \in Rows => Due(rec, x) \in Rows)
  BY DEF Due, Rows, Times

LEMMA AdvancedRows ==
    ASSUME NEW x, row \in Rows \cup {None}
    PROVE  Advanced(x) \in Rows \cup {None}
<1>. SUFFICES ASSUME row \in Rows PROVE Advanced(x) \in Rows
  BY DEF Advanced
<1>1. row # None
  BY RegistryAssumption
<1>2. \A w \in Times : /\ [row EXCEPT !.when = w] \in Rows
                       /\ [row EXCEPT !.enabled = FALSE, !.when = w] \in Rows
  BY DEF Rows
<1>3. (IF row.expr = Once THEN row.when ELSE "never") \in Times
  BY DEF Rows, Times
<1>4. [row EXCEPT !.enabled = FALSE, !.when = IF row.expr = Once THEN @ ELSE "never"] \in Rows
  BY <1>2, <1>3
<1>. QED BY <1>1, <1>2, <1>4 DEF Advanced, Times

\* A firing keeps the types and the registrations that are held; none ends a run.
LEMMA FireTyped ==
    ASSUME AllTyped, HeldAreLive, NEW j \in Jobs, Fire(j)
    PROVE  AllTyped' /\ HeldAreLive' /\ (EndedHasOutcome => EndedHasOutcome')
<1>. USE DEF AllTyped, RunsTyped
<1>0. Working \subseteq RunSteps /\ {"none", "start"} \subseteq RunSteps
  BY DEF Working, RunSteps
<1>1. CASE Tick(j)
  <2>1. PICK e \in Live :
          /\ cron' = [cron EXCEPT ![e].ahead = cron[e].expr # Once]
          /\ row' = Due(row, cron[e].expr)
          /\ copy' = [r \in Requests |-> Due(copy[r], cron[e].expr)]
          /\ job' = [job EXCEPT ![j] = IF cron[e].expr = Once THEN "onceRemove" ELSE "load"]
    BY <1>1 DEF Tick
  <2>2. UNCHANGED <<born, entry, pc, eid, up, jobRun, jobExpr, run>>
    BY <1>1 DEF Tick
  <2>. DEFINE slot == [cron[e] EXCEPT !.ahead = cron[e].expr # Once]
  <2>3. /\ slot \in Slots
        /\ cron' = [cron EXCEPT ![e] = slot]
    BY <2>1 DEF RegistryTyped, RegistryTypeOK, Live, Slots
  <2>. HIDE DEF slot
  <2>4. cron' \in [Entries -> Slots \cup {None}] /\ Live' = Live
    BY <2>3, RegistryAssumption DEF RegistryTyped, RegistryTypeOK, Live
  <2>5. row' \in Rows \cup {None} /\ copy' \in [Requests -> Rows \cup {None}]
    BY <2>1, DueRows DEF RegistryTyped, RegistryTypeOK
  <2>6. CopyLoaded'
    BY <2>1, <2>2, DueRows DEF RegistryTyped, CopyLoaded
  <2>7. RegistryTyped'
    BY <2>2, <2>4, <2>5, <2>6 DEF RegistryTyped, RegistryTypeOK
  <2>8. job' \in [Jobs -> JobSteps]
    BY <2>1 DEF JobSteps
  <2>9. HeldAreLive'
    BY <2>2, <2>4 DEF HeldAreLive, EntryIsLive
  <2>. QED BY <2>2, <2>7, <2>8, <2>9 DEF EndedHasOutcome
<1>2. CASE OnceRemove(j)
  <2>1. Remove /\ UNCHANGED <<row, born, requestVars, up, jobRun, jobExpr, run>>
    BY <1>2 DEF OnceRemove
  <2>2. RegistryTyped'
    BY <2>1 DEF Remove, requestVars, RegistryTyped, RegistryTypeOK, CopyLoaded
  <2>3. HeldAreLive'
    BY <2>1, RemoveKeepsHeld DEF requestVars, HeldAreLive, EntryIsLive
  <2>4. job' \in [Jobs -> JobSteps]
    BY <1>2 DEF OnceRemove, JobStep, JobSteps
  <2>. QED BY <2>1, <2>2, <2>3, <2>4 DEF EndedHasOutcome
<1>3. CASE Advance(j)
  <2>1. UNCHANGED <<born, schedulerVars, requestVars, up>> /\ JobEnds(j)
    BY <1>3 DEF Advance
  <2>2. row' \in Rows \cup {None}
    BY <1>3, AdvancedRows DEF Advance, RegistryTyped, RegistryTypeOK
  <2>3. RegistryTyped' /\ HeldAreLive'
    BY <2>1, <2>2 DEF schedulerVars, requestVars, RegistryTyped, RegistryTypeOK, CopyLoaded,
      HeldAreLive, EntryIsLive, Live
  <2>. DEFINE t == jobRun[j]
              rec == [run[t] EXCEPT !.pc = "start"]
  <2>4. ASSUME t \in Runs PROVE rec \in Records /\ rec.pc = "start"
    <3>1. run[t] \in Records
      BY <2>4
    <3>. QED BY <1>0, <3>1 DEF Records
  <2>5. run' = [run EXCEPT ![t] = rec]
    BY <1>3 DEF Advance
  <2>. HIDE DEF t, rec
  <2>6. run' \in [Runs -> Records] /\ (EndedHasOutcome => EndedHasOutcome')
    BY <2>4, <2>5 DEF EndedHasOutcome
  <2>. QED BY <2>1, <2>3, <2>6 DEF JobEnds, JobSteps
<1>4. CASE FireSchedule(j) \/ Load(j) \/ Count(j) \/ CreateTask(j)
  <2>1. UNCHANGED <<registryVars, up>>
    BY <1>4 DEF FireSchedule, Load, Count, CreateTask
  <2>2. RegistryTyped' /\ HeldAreLive'
    BY <2>1 DEF registryVars, schedulerVars, requestVars, RegistryTyped, RegistryTypeOK,
      CopyLoaded, HeldAreLive, EntryIsLive, Live
  <2>3. job' \in [Jobs -> JobSteps] /\ jobRun' \in [Jobs -> Runs \cup {None}]
    BY <1>4 DEF FireSchedule, Load, Count, CreateTask, JobEnds, JobSteps
  <2>4. jobExpr' \in [Jobs -> Exprs \cup {None}]
    <3>1. row # None => row.expr \in Exprs
      BY DEF RegistryTyped, RegistryTypeOK, Rows
    <3>. QED BY <1>4, <3>1 DEF FireSchedule, Load, Count, CreateTask, JobEnds
  <2>5. run' \in [Runs -> Records] /\ (EndedHasOutcome => EndedHasOutcome')
    <3>1. New(FALSE, "none") \in Records /\ New(FALSE, "none").pc = "none"
      BY UnbornType
    <3>2. UNCHANGED run \/ \E t \in Runs : run' = [run EXCEPT ![t] = New(FALSE, "none")]
      BY <1>4 DEF FireSchedule, Load, Count, CreateTask
    <3>. QED BY <3>1, <3>2 DEF EndedHasOutcome
  <2>. QED BY <2>1, <2>2, <2>3, <2>4, <2>5
<1>. QED
  BY <1>1, <1>2, <1>3, <1>4 DEF Fire, RunFire

LEMMA RunScheduleNowTyped ==
    ASSUME RunsTyped, RunScheduleNow
    PROVE  TypedGoroutine
<1>1. PICK t \in Runs : run' = [run EXCEPT ![t] = New(TRUE, "start")]
  BY DEF RunScheduleNow
<1>2. New(TRUE, "start") \in Records /\ New(TRUE, "start").pc = "start"
  BY UnbornType
<1>3. UNCHANGED <<registryVars, up, jobVars>>
  BY DEF RunScheduleNow
<1>. QED BY <1>1, <1>2, <1>3 DEF RunsTyped, TypedGoroutine, EndedHasOutcome

LEMMA ProcessTyped ==
    ASSUME AllTyped, HeldAreLive, Process, ~up => Live = {} /\ entry = None
    PROVE  AllTyped' /\ HeldAreLive' /\ (EndedHasOutcome => EndedHasOutcome')
<1>. USE DEF AllTyped, RunsTyped, RegistryTyped, RegistryTypeOK, CopyLoaded, Steps, JobSteps
<1>1. CASE Crash
  <2>1. /\ entry' = None /\ cron' = [e \in Entries |-> None] /\ UNCHANGED <<row, born>>
        /\ pc' = [r \in Requests |-> "idle"] /\ copy' = [r \in Requests |-> None]
        /\ eid' = [r \in Requests |-> None] /\ up' = FALSE
        /\ job' = [j \in Jobs |-> "idle"]
        /\ jobRun' = [j \in Jobs |-> None] /\ jobExpr' = [j \in Jobs |-> None]
        /\ run' = [t \in Runs |->
                     IF IsWorking(t) THEN [run[t] EXCEPT !.pc = "dead", !.expired = FALSE]
                     ELSE run[t]]
    BY <1>1 DEF Crash
  <2>2. \A t \in Runs : run'[t] \in Records /\ (run'[t].pc = "ended" => run'[t] = run[t])
    <3>. TAKE t \in Runs
    <3>. DEFINE rec == [run[t] EXCEPT !.pc = "dead", !.expired = FALSE]
    <3>1. rec \in Records /\ rec.pc = "dead"
      <4>1. run[t] \in Records
        OBVIOUS
      <4>. QED BY <4>1 DEF Records, RunSteps, Working
    <3>2. run'[t] = IF IsWorking(t) THEN rec ELSE run[t]
      BY <2>1
    <3>. HIDE DEF rec
    <3>. QED BY <3>1, <3>2
  <2>3. run' \in [Runs -> Records] /\ (EndedHasOutcome => EndedHasOutcome')
    BY <2>1, <2>2 DEF EndedHasOutcome
  <2>4. HeldAreLive'
    BY <2>1 DEF HeldAreLive, EntryIsLive
  <2>. QED BY <2>1, <2>3, <2>4
<1>2. CASE Missed
  <2>1. row' \in Rows \cup {None}
    BY <1>2, DueRows DEF Missed
  <2>2. UNCHANGED <<born, schedulerVars, requestVars, up, jobVars, run>>
    BY <1>2 DEF Missed
  <2>. QED
    BY <2>1, <2>2 DEF schedulerVars, requestVars, jobVars, HeldAreLive, EntryIsLive, Live,
      EndedHasOutcome
<1>3. CASE Start
  <2>1. /\ ~up /\ up' = TRUE /\ UNCHANGED <<row, born, requestVars, jobRun, jobExpr, run>>
        /\ \/ \E j \in Jobs : job' = [job EXCEPT ![j] = "load"]
           \/ UNCHANGED job
        /\ \/ row # None /\ \E e \in Entries :
                entry' = e /\ cron' = [cron EXCEPT ![e] = Slot(row)]
           \/ UNCHANGED schedulerVars
    BY <1>3 DEF Start
  <2>2. CASE UNCHANGED schedulerVars
    BY <2>1, <2>2 DEF schedulerVars, requestVars, HeldAreLive, EntryIsLive, Live, EndedHasOutcome
  <2>3. ASSUME NEW e \in Entries, row # None, entry' = e, cron' = [cron EXCEPT ![e] = Slot(row)]
        PROVE  AllTyped' /\ HeldAreLive' /\ (EndedHasOutcome => EndedHasOutcome')
    <3>1. Slot(row) \in Slots /\ Slot(row) # None
      BY <2>3, SlotsAreSlots
    <3>2. \A r \in Requests : eid[r] = None
      BY <2>1 DEF HeldAreLive
    <3>3. HeldAreLive'
      BY <2>1, <2>3, <3>1, <3>2 DEF requestVars, HeldAreLive, EntryIsLive, Live
    <3>. QED BY <2>1, <2>3, <3>1, <3>3 DEF requestVars, EndedHasOutcome
  <2>. QED BY <2>1, <2>2, <2>3
<1>. QED BY <1>1, <1>2, <1>3 DEF Process

\* While the process is down it holds nothing.
DownIsEmpty == ~up => Live = {} /\ entry = None

LEMMA RunsNextTyped ==
    ASSUME AllTyped, HeldAreLive, DownIsEmpty, [System]_vars
    PROVE  /\ AllTyped' /\ HeldAreLive' /\ DownIsEmpty'
           /\ "runUpdate" \notin Failing /\ EndedHasOutcome => EndedHasOutcome'
<1>1. ASSUME TypedGoroutine
      PROVE  /\ AllTyped' /\ HeldAreLive' /\ DownIsEmpty'
             /\ "runUpdate" \notin Failing /\ EndedHasOutcome => EndedHasOutcome'
  BY <1>1 DEF TypedGoroutine, AllTyped, RunsTyped, RegistryTyped, RegistryTypeOK, CopyLoaded,
    registryVars, schedulerVars, requestVars, jobVars, HeldAreLive, EntryIsLive, Live, DownIsEmpty
<1>2. CASE UNCHANGED vars
  BY <1>1, <1>2 DEF vars, TypedGoroutine, EndedHasOutcome, AllTyped, RunsTyped
<1>3. CASE Owner
  <2>1. RegistryTyped' /\ HeldAreLive'
    BY <1>3, RegistryTypedStep, HeldAreLiveStep DEF Owner, AllTyped
  <2>2. up /\ UNCHANGED <<up, jobVars, run>>
    BY <1>3 DEF Owner
  <2>. QED BY <2>1, <2>2 DEF jobVars, AllTyped, RunsTyped, EndedHasOutcome, DownIsEmpty
<1>4. CASE \E j \in Jobs : Fire(j)
  <2>1. AllTyped' /\ HeldAreLive' /\ (EndedHasOutcome => EndedHasOutcome')
    BY <1>4, FireTyped
  <2>2. UNCHANGED up
    BY <1>4 DEF Fire, RunFire, Tick, FireSchedule, OnceRemove, Load, Count, CreateTask, Advance
  <2>3. up \/ UNCHANGED schedulerVars \/ Remove
    BY <1>4 DEF Fire, RunFire, Tick, Starts, FireSchedule, OnceRemove, Load, Count, CreateTask,
      Advance, registryVars
  <2>4. DownIsEmpty'
    BY <2>2, <2>3 DEF DownIsEmpty, schedulerVars, Remove, Live
  <2>. QED BY <2>1, <2>4
<1>5. CASE Process
  <2>1. AllTyped' /\ HeldAreLive' /\ (EndedHasOutcome => EndedHasOutcome')
    BY <1>5, ProcessTyped DEF DownIsEmpty
  <2>2. DownIsEmpty'
    BY <1>5 DEF Process, Crash, Missed, Start, DownIsEmpty, schedulerVars, Live
  <2>. QED BY <2>1, <2>2
<1>. QED
  BY <1>1, <1>2, <1>3, <1>4, <1>5, GoroutineTyped, RunScheduleNowTyped DEF System, AllTyped

\* A step is one of the system, with its history.
LEMMA SystemStep == [RunsNext]_allVars => [System]_vars
  BY DEF RunsNext, allVars

LEMMA RunsInitTyped == RunsInit => AllTyped /\ HeldAreLive /\ DownIsEmpty /\ EndedHasOutcome
<1>1. Unborn \in Records /\ Unborn.pc = "none"
  BY DEF Unborn, Records, RunSteps
<1>. QED
  BY <1>1, RegistryInitTyped DEF RunsInit, AllTyped, RunsTyped, JobSteps, DownIsEmpty,
    EndedHasOutcome

BesideTyped == beside \in [Jobs -> SUBSET Runs]

\* The history names runs.
LEMMA BesideInv == RunsSpec => []BesideTyped
<1>1. RunsInit => BesideTyped
  BY DEF RunsInit, BesideTyped
<1>2. BesideTyped /\ [RunsNext]_allVars => BesideTyped'
  <2>1. CASE RunsNext
    <3>1. BesideTyped => \A j \in Jobs : Beside(j) \in SUBSET Runs
      BY DEF BesideTyped, Beside
    <3>. QED BY <2>1, <3>1 DEF RunsNext, BesideTyped
  <2>2. CASE UNCHANGED allVars
    BY <2>2 DEF allVars, BesideTyped
  <2>. QED BY <2>1, <2>2
<1>. QED BY <1>1, <1>2, PTL DEF RunsSpec

\* Rows, entries, firings and runs have their types through firings, failures,
\* crashes and restarts.
THEOREM RunsTypeCorrect == RunsSpec => []RunsTypeOK
<1>1. AllTyped /\ BesideTyped => RunsTypeOK
  BY DEF AllTyped, RunsTyped, RegistryTyped, RunsTypeOK, BesideTyped
<1>. QED
  BY <1>1, BesideInv, RunsInitTyped, RunsNextTyped, SystemStep, PTL DEF RunsSpec

\* No crash, restart or firing lets the scheduler's map name an entry that cron
\* does not have, however these overlap with the owner's requests.
THEOREM MapIsLiveUnderRuns == RunsSpec => []EntryIsLive
<1>1. HeldAreLive => EntryIsLive
  BY DEF HeldAreLive
<1>. QED BY <1>1, RunsInitTyped, RunsNextTyped, SystemStep, PTL DEF RunsSpec

\* RunFire does not count a run that has ended, if the statements of its
\* goroutine succeed: whatever the outcome, the next firing is not held up.
THEOREM EndedDoesNotBlock ==
    ASSUME "runUpdate" \notin Failing
    PROVE  RunsSpec => []EndedIsNotCounted
<1>1. EndedHasOutcome => EndedIsNotCounted
  BY DEF EndedHasOutcome, EndedIsNotCounted, Counted
<1>. QED BY <1>1, RunsInitTyped, RunsNextTyped, SystemStep, PTL DEF RunsSpec

-----------------------------------------------------------------------------
(* Firings and the runs they find under way                                *)

\* A run at work has no outcome yet, and a firing about to start one has it to
\* itself.
NoOutcomeYet ==
    /\ \A t \in Runs : IsWorking(t) => run[t].outcome = ""
    /\ \A j \in Jobs : job[j] = "advance" =>
         jobRun[j] \in Runs /\ run[jobRun[j]].pc = "none" /\ run[jobRun[j]].outcome = ""
    /\ \A i, j \in Jobs : jobRun[i] = jobRun[j] /\ jobRun[i] # None => i = j

\* A step of a run at work that ends it, or leaves its outcome alone.
LEMMA RunStepNoOutcome ==
    ASSUME RunsTyped, NoOutcomeYet, NEW t \in Runs, NEW from \in Working, NEW to \in RunSteps,
           NEW rec \in Records, RunStep(t, from, to, rec),
           to = "ended" \/ rec.outcome = run[t].outcome
    PROVE  NoOutcomeYet'
<1>. DEFINE new == [rec EXCEPT !.pc = to]
            old == [run[t] EXCEPT !.pc = to]
<1>1. /\ new.pc = to /\ new.outcome = rec.outcome
      /\ old.pc = to /\ old.outcome = run[t].outcome
  BY DEF RunsTyped, Records
<1>2. run' = [run EXCEPT ![t] = new] \/ run' = [run EXCEPT ![t] = old]
  BY DEF RunStep
<1>. HIDE DEF new, old
<1>3. /\ \A s \in Runs : s # t => run'[s] = run[s]
      /\ run'[t].pc = to /\ (to # "ended" => run'[t].outcome = run[t].outcome)
  BY <1>1, <1>2 DEF RunsTyped
<1>4. IsWorking(t) /\ UNCHANGED <<job, jobRun>>
  BY DEF RunStep, jobVars, IsWorking
<1>5. \A j \in Jobs : job[j] = "advance" => jobRun[j] # t
  BY <1>4 DEF NoOutcomeYet, IsWorking, Working
<1>. QED BY <1>3, <1>4, <1>5 DEF NoOutcomeYet, IsWorking, Working

LEMMA GoroutineNoOutcome ==
    ASSUME RunsTyped, NoOutcomeYet, NEW t \in Runs, RunGoroutine(t) \/ Deadline(t)
    PROVE  NoOutcomeYet'
<1>0. run[t] \in Records /\ Working \subseteq RunSteps /\ "ended" \in RunSteps
  BY DEF RunsTyped, RunSteps
<1>1. ASSUME NEW from \in Working, NEW to \in Working, NEW state \in {"Provisioning", "Error"},
             RunStep(t, from, to, [run[t] EXCEPT !.state = state])
      PROVE  NoOutcomeYet'
  <2>. DEFINE rec == [run[t] EXCEPT !.state = state]
  <2>1. rec \in Records /\ rec.outcome = run[t].outcome
    BY <1>0 DEF Records
  <2>2. RunStep(t, from, to, rec)
    BY <1>1
  <2>. HIDE DEF rec
  <2>. QED BY <1>0, <2>1, <2>2, RunStepNoOutcome
<1>2. CASE SetProvisioning(t)
  <2>1. RunStep(t, "start", "provision", [run[t] EXCEPT !.state = "Provisioning"])
    BY <1>2 DEF SetProvisioning
  <2>. QED BY <1>1, <2>1 DEF Working
<1>3. CASE SetError(t)
  <2>1. RunStep(t, "setError", "failed", [run[t] EXCEPT !.state = "Error"])
    BY <1>3 DEF SetError
  <2>. QED BY <1>1, <2>1 DEF Working
<1>4. ASSUME NEW from \in {"failed", "post", "read"},
             NEW outcome \in {"completed", "failed", "timeout"},
             SetRunOutcome(t, from, outcome)
      PROVE  NoOutcomeYet'
  <2>. DEFINE rec == [run[t] EXCEPT !.outcome = outcome, !.expired = FALSE]
  <2>1. rec \in Records
    BY <1>0 DEF Records
  <2>2. RunStep(t, from, "ended", rec)
    BY <1>4 DEF SetRunOutcome
  <2>. HIDE DEF rec
  <2>. QED BY <1>0, <2>1, <2>2, RunStepNoOutcome DEF Working
<1>5. ASSUME NEW from \in Working, NEW to \in Working, RunStep(t, from, to, run[t])
      PROVE  NoOutcomeYet'
  BY <1>0, <1>5, RunStepNoOutcome
<1>6. CASE Provision(t)
  <2>1. CASE RunStep(t, "provision", "setError", run[t])
    BY <1>5, <2>1 DEF Working
  <2>2. CASE /\ run[t].pc = "provision"
             /\ run' = [run EXCEPT ![t] = [@ EXCEPT !.state = "Running", !.pc = "post"]]
             /\ UNCHANGED <<registryVars, up, jobVars>>
    <3>. DEFINE rec == [run[t] EXCEPT !.state = "Running"]
    <3>1. rec \in Records /\ rec.outcome = run[t].outcome
      BY <1>0 DEF Records
    <3>2. [rec EXCEPT !.pc = "post"] = [run[t] EXCEPT !.state = "Running", !.pc = "post"]
      BY <1>0 DEF Records
    <3>3. RunStep(t, "provision", "post", rec)
      BY <2>2, <3>2 DEF RunStep
    <3>. HIDE DEF rec
    <3>. QED BY <1>0, <3>1, <3>3, RunStepNoOutcome DEF Working
  <2>. QED BY <1>6, <2>1, <2>2 DEF Provision
<1>7. CASE Post(t)
  <2>1. CASE RunStep(t, "post", "read", run[t])
    BY <1>5, <2>1 DEF Working
  <2>2. CASE SetRunOutcome(t, "post", IF run[t].expired THEN "timeout" ELSE "failed")
    BY <1>4, <2>2
  <2>. QED BY <1>7, <2>1, <2>2 DEF Post
<1>8. CASE Failed(t) \/ Read(t)
  BY <1>4, <1>8 DEF Failed, Read
<1>9. CASE Deadline(t)
  <2>. DEFINE rec == [run[t] EXCEPT !.expired = TRUE]
  <2>1. rec.pc = run[t].pc /\ rec.outcome = run[t].outcome
    BY <1>0 DEF Records
  <2>2. run' = [run EXCEPT ![t] = rec] /\ UNCHANGED <<job, jobRun>>
    BY <1>9 DEF Deadline, jobVars
  <2>. HIDE DEF rec
  <2>3. \A s \in Runs : run'[s].pc = run[s].pc /\ run'[s].outcome = run[s].outcome
    BY <2>1, <2>2 DEF RunsTyped
  <2>. QED BY <2>2, <2>3 DEF NoOutcomeYet, IsWorking
<1>. QED BY <1>2, <1>3, <1>6, <1>7, <1>8, <1>9 DEF RunGoroutine

LEMMA FireNoOutcome ==
    ASSUME RunsTyped, NoOutcomeYet, NEW j \in Jobs, Fire(j)
    PROVE  NoOutcomeYet'
<1>. USE DEF RunsTyped
<1>1. CASE CreateTask(j) /\ job'[j] = "advance"
  <2>1. job[j] = "create"
    BY <1>1 DEF CreateTask
  <2>2. PICK t \in Runs : /\ FreshRun(t) /\ run' = [run EXCEPT ![t] = New(FALSE, "none")]
                          /\ jobRun' = [jobRun EXCEPT ![j] = t]
                          /\ job' = [job EXCEPT ![j] = "advance"]
    BY <1>1 DEF CreateTask, JobEnds
  <2>3. /\ run'[t] = New(FALSE, "none") /\ \A s \in Runs : s # t => run'[s] = run[s]
        /\ New(FALSE, "none").pc = "none" /\ New(FALSE, "none").outcome = ""
    BY <2>2, UnbornType
  <2>4. \A i \in Jobs : /\ jobRun[i] # t
                        /\ i # j => job'[i] = job[i] /\ jobRun'[i] = jobRun[i]
    BY <2>2 DEF FreshRun
  <2>5. jobRun'[j] = t
    BY <2>2
  <2>6. \A s \in Runs : IsWorking(s)' => run'[s].outcome = ""
    BY <2>3 DEF NoOutcomeYet, IsWorking, Working
  <2>7. ASSUME NEW i \in Jobs, job'[i] = "advance"
        PROVE  jobRun'[i] \in Runs /\ run'[jobRun'[i]].pc = "none" /\ run'[jobRun'[i]].outcome = ""
    <3>1. CASE i = j
      BY <2>3, <2>5, <3>1
    <3>2. CASE i # j
      <4>1. jobRun'[i] = jobRun[i] /\ jobRun[i] # t /\ job[i] = "advance"
        BY <2>4, <2>7, <3>2
      <4>2. jobRun[i] \in Runs /\ run[jobRun[i]].pc = "none" /\ run[jobRun[i]].outcome = ""
        BY <4>1 DEF NoOutcomeYet
      <4>. QED BY <2>3, <4>1, <4>2
    <3>. QED BY <3>1, <3>2
  <2>8. ASSUME NEW i \in Jobs, NEW k \in Jobs, jobRun'[i] = jobRun'[k], jobRun'[i] # None
        PROVE  i = k
    <3>1. /\ i # j => jobRun'[i] = jobRun[i] /\ jobRun[i] # t
          /\ k # j => jobRun'[k] = jobRun[k] /\ jobRun[k] # t
      BY <2>4
    <3>2. CASE i # j /\ k # j
      BY <2>8, <3>1, <3>2 DEF NoOutcomeYet
    <3>. QED BY <2>5, <2>8, <3>1, <3>2
  <2>. QED BY <2>6, <2>7, <2>8 DEF NoOutcomeYet
<1>2. CASE Advance(j)
  <2>. DEFINE t == jobRun[j]
              rec == [run[t] EXCEPT !.pc = "start"]
  <2>1. /\ job[j] = "advance" /\ JobEnds(j)
        /\ t \in Runs /\ run[t].outcome = ""
    BY <1>2 DEF Advance, NoOutcomeYet
  <2>2. rec.outcome = ""
    BY <2>1 DEF Records
  <2>3. run' = [run EXCEPT ![t] = rec]
    BY <1>2 DEF Advance
  <2>4. t # None /\ \A i \in Jobs : i # j => jobRun[i] # t
    BY <2>1, RunsAssumption DEF NoOutcomeYet
  <2>. HIDE DEF t, rec
  <2>5. run'[t] = rec /\ \A s \in Runs : s # t => run'[s] = run[s]
    BY <2>1, <2>3
  <2>6. /\ job'[j] = "idle" /\ jobRun'[j] = None
        /\ \A i \in Jobs : i # j => job'[i] = job[i] /\ jobRun'[i] = jobRun[i]
    BY <2>1 DEF JobEnds
  <2>7. \A s \in Runs : IsWorking(s)' => run'[s].outcome = ""
    BY <2>2, <2>5 DEF NoOutcomeYet, IsWorking
  <2>8. ASSUME NEW i \in Jobs, job'[i] = "advance"
        PROVE  jobRun'[i] \in Runs /\ run'[jobRun'[i]].pc = "none" /\ run'[jobRun'[i]].outcome = ""
    <3>1. i # j
      BY <2>6, <2>8
    <3>2. jobRun'[i] = jobRun[i] /\ jobRun[i] # t /\ job[i] = "advance"
      BY <2>4, <2>6, <2>8, <3>1
    <3>. QED BY <2>5, <3>2 DEF NoOutcomeYet
  <2>9. \A i, k \in Jobs : jobRun'[i] = jobRun'[k] /\ jobRun'[i] # None => i = k
    BY <2>6 DEF NoOutcomeYet
  <2>. QED BY <2>7, <2>8, <2>9 DEF NoOutcomeYet
<1>3. CASE /\ UNCHANGED run /\ job'[j] # "advance"
           /\ jobRun'[j] \in {jobRun[j], None}
           /\ \A i \in Jobs : i # j => job'[i] = job[i] /\ jobRun'[i] = jobRun[i]
  BY <1>3 DEF NoOutcomeYet, IsWorking
<1>4. CASE Tick(j) \/ FireSchedule(j) \/ OnceRemove(j)
  BY <1>3, <1>4 DEF Tick, FireSchedule, OnceRemove, JobStep
<1>5. CASE Load(j) \/ Count(j)
  BY <1>3, <1>5 DEF Load, Count, JobEnds
<1>6. CASE CreateTask(j) /\ job'[j] # "advance"
  BY <1>3, <1>6 DEF CreateTask, JobEnds
<1>. QED BY <1>1, <1>2, <1>4, <1>5, <1>6 DEF Fire, RunFire

LEMMA SystemNoOutcome ==
    ASSUME RunsTyped, NoOutcomeYet, [System]_vars
    PROVE  NoOutcomeYet'
<1>1. CASE UNCHANGED <<jobVars, run>>
  BY <1>1 DEF jobVars, NoOutcomeYet, IsWorking
<1>2. CASE RunScheduleNow
  <2>1. PICK t \in Runs : FreshRun(t) /\ run' = [run EXCEPT ![t] = New(TRUE, "start")]
    BY <1>2 DEF RunScheduleNow
  <2>2. /\ run'[t].outcome = "" /\ \A s \in Runs : s # t => run'[s] = run[s]
        /\ UNCHANGED <<job, jobRun>> /\ \A j \in Jobs : jobRun[j] # t
    BY <1>2, <2>1, UnbornType DEF RunScheduleNow, jobVars, RunsTyped, FreshRun
  <2>. QED BY <2>2 DEF NoOutcomeYet, IsWorking
<1>3. CASE Crash
  <2>1. /\ job' = [j \in Jobs |-> "idle"] /\ jobRun' = [j \in Jobs |-> None]
        /\ run' = [t \in Runs |->
                     IF IsWorking(t) THEN [run[t] EXCEPT !.pc = "dead", !.expired = FALSE]
                     ELSE run[t]]
    BY <1>3 DEF Crash
  <2>2. \A t \in Runs : ~IsWorking(t)'
    <3>. TAKE t \in Runs
    <3>. DEFINE rec == [run[t] EXCEPT !.pc = "dead", !.expired = FALSE]
    <3>1. rec.pc = "dead"
      BY DEF RunsTyped, Records
    <3>2. run'[t] = IF IsWorking(t) THEN rec ELSE run[t]
      BY <2>1
    <3>. HIDE DEF rec
    <3>. QED BY <3>1, <3>2 DEF IsWorking, Working
  <2>. QED BY <2>1, <2>2 DEF NoOutcomeYet
<1>4. CASE Start
  <2>1. UNCHANGED <<jobRun, run>> /\ \A j \in Jobs : job'[j] \in {job[j], "load"}
    BY <1>4 DEF Start, RunsTyped
  <2>. QED BY <2>1 DEF NoOutcomeYet, IsWorking
<1>5. CASE Missed \/ Owner
  BY <1>1, <1>5 DEF Missed, Owner
<1>. QED
  BY <1>1, <1>2, <1>3, <1>4, <1>5, GoroutineNoOutcome, FireNoOutcome DEF System, Process, vars

\* RunFire's COUNT finds what is under way, so a firing that has gone on to create
\* its run has nothing left beside it.
LEMMA SkipStep ==
    ASSUME RunsTyped, BesideTyped, NoOutcomeYet, UnderWayIsSkipped, [RunsNext]_allVars
    PROVE  UnderWayIsSkipped'
<1>1. CASE UNCHANGED allVars
  BY <1>1 DEF allVars, vars, jobVars, UnderWayIsSkipped
<1>2. CASE RunsNext
  <2>. SUFFICES ASSUME SkipIfRunning, NEW j \in Jobs, job'[j] \in {"create", "advance"}
                PROVE  Beside(j) = {}
    BY <1>2 DEF RunsNext, UnderWayIsSkipped
  <2>1. /\ job[j] \in {"create", "advance"} \/ Count(j)
        /\ Count(j) => job[j] = "count" /\ UNCHANGED run /\ (Counted = {} \/ job'[j] = "create")
    <3>. USE DEF RunsTyped
    <3>1. ASSUME NEW i \in Jobs, Fire(i), i # j
          PROVE  job'[j] = job[j]
      <4>1. \E to \in {job'[i]} : job' = [job EXCEPT ![i] = to]
        BY <3>1 DEF Fire, RunFire, Tick, FireSchedule, OnceRemove, JobStep, Load, Count,
          CreateTask, Advance, JobEnds
      <4>. QED BY <3>1, <4>1
    <3>2. ASSUME Fire(j), ~Count(j)
          PROVE  job[j] = "create"
      <4>1. CASE Tick(j) \/ FireSchedule(j) \/ OnceRemove(j)
        BY <4>1 DEF Tick, FireSchedule, OnceRemove, JobStep
      <4>2. CASE Load(j) \/ Advance(j)
        BY <4>2 DEF Load, Advance, JobEnds
      <4>3. CASE CreateTask(j)
        BY <4>3 DEF CreateTask
      <4>. QED BY <3>2, <4>1, <4>2, <4>3 DEF Fire, RunFire
    <3>3. ASSUME Process
          PROVE  job'[j] = job[j]
      BY <3>3 DEF Process, Crash, Missed, Start, jobVars
    <3>4. ASSUME Owner \/ RunScheduleNow \/ \E t \in Runs : RunGoroutine(t) \/ Deadline(t)
          PROVE  job'[j] = job[j]
      <4>1. UNCHANGED jobVars
        BY <3>4, GoroutineTyped, RunScheduleNowTyped DEF Owner, TypedGoroutine
      <4>. QED BY <4>1 DEF jobVars
    <3>5. Count(j) => job[j] = "count" /\ UNCHANGED run /\ (Counted = {} \/ job'[j] = "create")
      BY DEF Count, JobEnds
    <3>. QED BY <1>2, <3>1, <3>2, <3>3, <3>4, <3>5 DEF RunsNext, System
  <2>2. CASE job[j] \in {"create", "advance"}
    BY <2>2 DEF UnderWayIsSkipped, Beside
  <2>3. CASE Count(j)
    <3>1. \A t \in Runs : UnderWay(t)' => t \in Counted
      BY <2>1, <2>3 DEF UnderWay, IsWorking, Counted, NoOutcomeYet
    <3>2. CASE Counted = {}
      <4>1. beside[j] \subseteq Runs
        BY DEF BesideTyped
      <4>2. {t \in beside[j] : UnderWay(t)'} = {}
        BY <3>1, <3>2, <4>1
      <4>. QED BY <2>1, <2>3, <3>2, <4>2 DEF Beside
    <3>. QED BY <2>1, <2>3, <3>2 DEF Beside
  <2>. QED BY <2>1, <2>2, <2>3
<1>. QED BY <1>1, <1>2

\* concurrency "0=skip if running" as far as the code keeps it, for any number of
\* firings and runs, with failing statements, crashes and restarts: no firing
\* launches a run beside one under way since before it counted.
THEOREM FiringsSkipWhatIsUnderWay == RunsSpec => []UnderWayIsSkipped
<1>1. RunsInit => NoOutcomeYet /\ UnderWayIsSkipped
  <2>1. ASSUME RunsInit
        PROVE  NoOutcomeYet /\ UnderWayIsSkipped
    <3>1. /\ \A j \in Jobs : job[j] = "idle" /\ jobRun[j] = None
          /\ \A t \in Runs : run[t].pc = "none"
      BY <2>1 DEF RunsInit, Unborn
    <3>. QED BY <3>1 DEF NoOutcomeYet, UnderWayIsSkipped, IsWorking, Working
  <2>. QED BY <2>1
<1>2. AllTyped => RunsTyped
  BY DEF AllTyped
<1>. QED
  BY <1>1, <1>2, BesideInv, RunsInitTyped, RunsNextTyped, SystemStep, SystemNoOutcome,
    SkipStep, PTL
  DEF RunsSpec

-----------------------------------------------------------------------------
(* One registration                                                        *)

\* While the process is down it serves no request.
DownIsIdle == ~up => \A r \in Requests : pc[r] = "idle"

\* Firings and the deaths of the process add no registration, and a start adds one
\* where there is none.
LEMMA RunsKeepOneHolder ==
    ASSUME ~Overlap, AllTyped, HeldAreLive, DownIsEmpty, OneHolder, DownIsIdle,
           [System]_vars
    PROVE  OneHolder' /\ DownIsIdle'
<1>. USE DEF AllTyped, RegistryTyped, RegistryTypeOK
<1>1. CASE UNCHANGED <<registryVars, up>>
  BY <1>1 DEF registryVars, schedulerVars, requestVars, OneHolder, DownIsIdle, Live
<1>2. CASE UNCHANGED vars
  BY <1>1, <1>2 DEF vars
<1>3. CASE Owner
  <2>1. OneHolder'
    BY <1>3, OneHolderStep DEF Owner
  <2>. QED BY <1>3, <2>1 DEF Owner, DownIsIdle
<1>4. ASSUME NEW j \in Jobs, Fire(j)
      PROVE  OneHolder' /\ DownIsIdle'
  <2>1. CASE Tick(j)
    <3>1. PICK e \in Live : cron' = [cron EXCEPT ![e].ahead = cron[e].expr # Once]
      BY <2>1 DEF Tick
    <3>2. Live' \subseteq Live
      BY <3>1 DEF Live
    <3>. QED BY <2>1, <3>2 DEF Tick, OneHolder, DownIsIdle
  <2>2. CASE OnceRemove(j)
    <3>1. Remove /\ UNCHANGED <<requestVars, up>>
      BY <2>2 DEF OnceRemove
    <3>2. Live' \subseteq Live \ {entry} /\ entry' = None
      BY <3>1, RegistryAssumption DEF Remove, Live
    <3>. QED BY <3>1, <3>2 DEF requestVars, OneHolder, DownIsIdle
  <2>3. CASE Advance(j)
    BY <2>3 DEF Advance, schedulerVars, requestVars, OneHolder, DownIsIdle, Live
  <2>4. CASE FireSchedule(j) \/ Load(j) \/ Count(j) \/ CreateTask(j)
    BY <1>1, <2>4 DEF FireSchedule, Load, Count, CreateTask
  <2>. QED BY <1>4, <2>1, <2>2, <2>3, <2>4 DEF Fire, RunFire
<1>5. CASE RunScheduleNow \/ \E t \in Runs : RunGoroutine(t) \/ Deadline(t)
  <2>1. UNCHANGED <<registryVars, up>>
    BY <1>5, GoroutineTyped, RunScheduleNowTyped DEF TypedGoroutine
  <2>. QED BY <1>1, <2>1
<1>6. CASE Crash
  BY <1>6 DEF Crash, OneHolder, DownIsIdle, Live
<1>7. CASE Missed
  BY <1>7 DEF Missed, schedulerVars, requestVars, OneHolder, DownIsIdle, Live
<1>8. CASE Start
  <2>1. ~up /\ up' /\ UNCHANGED requestVars
    BY <1>8 DEF Start
  <2>2. UNCHANGED schedulerVars
        \/ \E e \in Entries : entry' = e /\ cron' = [cron EXCEPT ![e] = Slot(row)]
    BY <1>8 DEF Start
  <2>3. Live = {} /\ \A r \in Requests : pc[r] = "idle"
    BY <2>1 DEF DownIsEmpty, DownIsIdle
  <2>4. \A e \in Live' : e = entry'
    BY <2>2, <2>3 DEF schedulerVars, Live
  <2>. QED BY <2>1, <2>3, <2>4 DEF requestVars, OneHolder, DownIsIdle
<1>. QED
  BY <1>2, <1>3, <1>4, <1>5, <1>6, <1>7, <1>8 DEF System, Process

\* A slot is the slot of one entry: cron never has the schedule twice, whatever fires,
\* fails, crashes and is restarted, if the owner waits for each answer.
THEOREM RegisteredOnceUnderRuns ==
    ASSUME ~Overlap
    PROVE  RunsSpec => []RegisteredOnce
<1>1. RunsInit => OneHolder /\ DownIsIdle
  BY RegistryInitHeldByOne DEF RunsInit, RegistryInit, DownIsIdle
<1>. QED
  BY <1>1, RunsInitTyped, RunsNextTyped, RunsKeepOneHolder, HoldersAreOne, SystemStep, PTL
  DEF RunsSpec
=============================================================================
