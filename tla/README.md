# Cloud Agents in TLA+

The backend of this repository (`src/backend`, Go) gives every task a sandbox
with an agent in it and starts tasks by hand or on a schedule; its frontend
(`src/frontend`, TypeScript) shows a task as a chat. Their state is spread over
MySQL rows, Redis keys, a sandbox server, the memory of the backend processes,
object storage (OFS) and the page in the browser, and is changed by HTTP
requests, cron goroutines, the goroutines of runs and event streams, which see
one another's half-finished work. The modules here say which orders of those steps are possible and what
holds in all of them. `PROJECT.json` lists the runs, the proved theorems, the
lines each definition stands for and the hazards the properties are about.

## Inventory

| Component | State | Operations | Modelled by |
|---|---|---|---|
| task store (`internal/task`) | MySQL row: state, provisioned, session_id, run_outcome; Redis hash `sandbox:{id}` with a 7-day TTL; Redis key `task-lock:{id}` | Create, Get, Delete, EnsureProvisioned, ResetIfExpired, Set* | `TaskLock`, `TaskProvisioning`, `SandboxBinding` |
| task handlers (`internal/api/handlers_tasks.go`) | none of their own; a snapshot of the task per request | SendMessage, DeleteTask, CreateTask, SteerMessage, answers to prompts, GetTaskHistory; reads | `TaskProvisioning` (SendMessage, DeleteTask), `ChatClient` (what the page calls), `TaskHistory` |
| sandbox manager (`internal/sandbox/manager.go`, `gitclone.go`) | sandboxes at the sandbox server, the workspace on the user's volume | ProvisionForTask, IsSandboxAlive, DeleteSandbox, injection of resources and keys | `TaskProvisioning`; the copying of skills in `SkillFiles` |
| agent proxy (`internal/sandbox/proxy.go`) | sessions in the sandbox's agent server | StreamMessage; SteerMessage and answers to prompts | `TaskProvisioning`, `ScheduleRuns`, `ChatClient` |
| schedule service (`internal/schedule/service.go`) | `scheduled_tasks`, `schedule_tokens` | Create, Update, Delete, Toggle; tokens | `ScheduleRegistry`, `ScheduleContract`, `ScheduleTokens` |
| scheduler (`scheduler.go`) | map schedule -> cron entry, cron's entries | Start, Reload, Remove, register | `ScheduleRegistry`, `ScheduleRuns` |
| run launcher (`runner.go`, `RunScheduleNow`) | the runs' task rows, one goroutine per run | RunFire, the run goroutine, onceJob | `ScheduleRuns` |
| resources (`handlers_resources.go`, `db/kinds_repository.go`) | `kinds` rows with a list of files, objects in OFS | create (also from an archive), update, delete, upload and removal of skill files | `SkillFiles` (no mcp kind) |
| logins and users (`internal/oidc`, `internal/sso`, `internal/auth`, `db/user.go`, `handlers_user.go`) | CLI session in Redis for 5 minutes, state JWTs; `users` rows with keys | login, callback, poll; registration, changes of keys | `UserLogin`; fire tokens' middleware in `ScheduleTokens` |
| object storage client (`internal/storage`) | objects | listing with pages, history, deletion | `TaskHistory` |
| chat client (`frontend/src/hooks/useChat.ts`, `pages/ChatPage.tsx`) | the task shown, messages, `sending`, the stream being read | sendMessage, newChat, loadTask, decisions | `ChatClient` |
| history reconstruction (`frontend/src/lib/chainBuilder.ts`) | - | the conversation and its traces out of a history | `TaskHistory` |
| other pages, router, configuration, crypto, workspace browser | - | I/O, layout, declarations | not modelled |

How they meet: a message goes SendMessage -> `ResetIfExpired` (under the lock,
asks the sandbox server) -> `EnsureProvisioned` (under the lock, calls
`ProvisionForTask`) -> `StreamMessage` (no lock; records session_id when the
agent says session.init). A firing goes cron or `/public/.../fire` or
`Scheduler.Start` -> `RunFire` -> task store and proxy, in a goroutine of its
own, while the owner's requests edit the row and re-register the schedule. The
page opens one stream per message, steers a run through a second request, and
reads a task's past from the parts the agent server writes to OFS.

What is hard here: the lock is a lease, the row and the hash are two stores with
two writes, the snapshot of a request grows old while it waits, deletion takes
no lock, a schedule's registration is rebuilt in several critical sections, the
whole row is saved from a copy, a skill's list of files and its objects are in two
stores that only the order of the writes keeps in step, and processes die between
any two steps. On the page every `await` lets other events in, and its stream
may end in ways nobody sends an event for. The correctness properties: one provisioner per task; a provisioned task has a route;
its session is written once and stands on a cloned workspace; a broken binding
is repaired; cron holds what the row says; a schedule that must not overlap
itself does not; a run ends and then blocks nothing; what was missed is made up
for; a skill lists only files that can be fetched; a replaced token fires
nothing; a user's keys change only when the user changes them; a login arrives;
the page tells the truth about the run it shows; a history is whole.

## Modules

**TaskLock** is `redisLock.withLock`: `lock` holds the Redis value (the *process*
of its holder, which is all that host:pid says), `held` the goroutines that
execute their critical section, `lost` (a history variable) those of them whose key
is gone, which nothing tells them. `Lapse` is the 30 s TTL: it takes the key from a
holder that is gone, and with `"lease"` among the `Mishaps` from a live one too.

**TaskProvisioning** extends it: one task, any number of requests (`Handlers`) on
any number of processes. Every statement against MySQL, Redis or the sandbox
server is a step, because another request can come between any two; a failing
statement is a disjunct of its step. `state`, `provisioned`, `sessionID` are the
row, `hash` the sandbox id in Redis, `sandbox`, `opened`, `cloned` the world
outside, `snap` the `*Task` each request loaded, `stream` the session it talks
to. DeleteTask has its own steps. The environment ends sandboxes, lets leases
and hashes lapse and kills processes. `Mishaps` says what may go wrong that the code
does not make up for: a lease or a hash lapses, persistRunning fails while Redis has
an older mapping (`"overwrite"`), the failure of a clone goes unseen (`"clone"`).
`spoilt` remembers which of them have befallen the task (`"lease"` once a request
that has lost its lease goes on to change something), and each property names those
it does not survive; `fresh` is the sandbox created last.

**SandboxBinding** is the contract that `task/store.go` states in its in-process
form (mutex, provision if not provisioned, clear if dead): a task is bound only to the
sandbox that was just created for it and to none twice, unbound only after that
sandbox died, and never bound again once deleted. (That sandbox may have died between
its creation and the binding: nothing looks again.) `TaskProvisioning` implements it
(`KeepsBinding`), with the binding read off the row *and* the hash, in every step up
to a mishap: a stale mapping that the verify step takes for the new one, which the
code allows, is no step of the contract.

**ScheduleRegistry** is one schedule: `row`, the scheduler's map `entry`, cron's
own entries `cron`, and the owner's requests (`pc`, `copy`, `eid`) in the steps of
`Service` and `Scheduler`: the statements, and the critical sections under
`Scheduler.mu`. `Save` writes the whole copy, as gorm does, and inserts it if the
row is gone. `Failing` names the statements that may fail.

**ScheduleContract** is what these steps amount to for an owner who waits for each
answer: a request is one change of the row, cron may be empty on the way, and holds
what the row wants when the request is answered; a failing request changes
nothing. `ScheduleRegistry` implements it (`KeepsContract`): the request is hidden but
for what it has still to do, and cron and the map are seen as a set of registrations.

**ScheduleTokens** extends it with the fire tokens (`state` of each row; `given`,
what the owner was last told; `kept`, the tokens a failing UPDATE left active)
and the requests that come with one (`fpc`, `bearer`): each SELECT of the
middleware and of FireSchedule is a step. `barred` remembers that a request came
too late. `RegistrySpec` is what it refines to when the tokens are hidden.

**ScheduleRuns** extends `ScheduleRegistry` with firings (`job`), the runs (`run`: where the
goroutine is, and the row's state and outcome), the deadline, manual runs, crash,
missed slots and `Scheduler.Start`, whose SELECT may fail. A run's provisioning is one
step here; its steps are `TaskProvisioning`'s. `beside` remembers the runs that were
under way when a firing went on to count.

**SkillFiles** is one skill name of one user: `rec` is the `kinds` row (id,
meta.files as a set, is_active), `stored` the paths with an object under the
name's prefix, which no request ever removes and which the next skill of that
name inherits. A request (`pc`, `req`) is the statements and PutObject calls of a
handler in order; `Fails` is the error return or the cancelled context after any
of them. `inject` is what each `injectResources` has still to copy of the list it
read. `MetaEdits` says whether owners send "meta" with PUT /api/resources/:id.

**ChatClient** is the hook `useChat` and the page around it. JavaScript runs one
step at a time, so a step is what lies between two awaits; `pc`, `task`, `inits`
are the local state of each call of sendMessage, `shown`, `sending`, `ref`,
`status` that of the page. The backend is there as far as it answers these
requests, and the agent server (external) as the source of events: a run starts
(session.init), asks, ends with a result, or is aborted by what is steered into
it and starts again; then session.completed, an error, or nothing. `spoilt` is a
history variable: the mishaps of the present page, until it is turned in peace.
Every property names the mishaps it does not survive, and so claims that it
survives all others; the findings say which of these a document promises.

**TaskHistory** is one task's history: `entries` in the order they are written,
`stored` those whose object exists; GetAllHistory (`pc`, `keys`, `got`) page by
page and download by download, DeleteHistory (`dpc`, `dkeys`) the same way, and
`MainChain` and `Trace`, which are buildMessages as operators on the answer. A task
has several conversations (`Mains`: proxy.go opens one for every message without a
session id) and subagents; nothing orders the parts of two sessions. A subagent's
entries that are not the assistant's are kept out of its trace, as the code does, and
an outcome that does not name its subagent has none. The sandbox dies at any time,
with or without DeleteSandbox. `Kept` is `filter`, and the answer's sorting is by
rank: what they choose from sequences of any length is proved, not enumerated.

**UserLogin** is the users table (email stands for all that a provider tells; a
row that is older than auth_source has none, so that its first login changes it)
under logins, registrations and settings, one statement to a step, and the CLI's
login session in Redis with the polls on it: a poll's Get, its Del, whose error
nobody looks at, and its answer, which may be lost, are three steps. `fate` follows
the last token stored under an id: it is waiting; was `handed` to the CLI, the Del
having gone through; was answered and `left` in Redis; or is `lost`.

`MC*` modules only add symmetry sets and the placement of handlers on processes.
`*Proofs` modules hold the TLAPS proofs. A definition commented "Mutant" is a
plausible mistake in the definition that follows it; it is no part of the model.

## Runs

| Run | Shows |
|---|---|
| `provisioning` | two requests on two processes, failed writes, crashes, all four mishaps: one provisioner by right, a provisioned task keeps its route, refinement of `SandboxBinding`, a session written once and over a clone |
| `recovery` | one request after the other, with deletion, lapsing hashes and stale mappings: the refinement; liveness: the lock is freed, a task bound to a dead sandbox is reset |
| `registry` | requests one at a time, saves, toggles and token statements may fail, an external system fires: cron mirrors the row, refinement of `ScheduleContract`, only the token last given is active, a token that was replaced does not fire |
| `fires` | firings, runs, crashes and requests together, with failing statements: no run launched beside one that was under way before the count, no ended run counted, no dead entry in the map, never two entries in cron |
| `restarts` | liveness: fired runs end, missed slots are made up for |
| `skills` | two overlapping requests, failing at any step, at a list that is full at two files, against an injection: a listed file is stored, SKILL.md stays, the limit holds, no request edits the list of a later skill |
| `chat` | two calls, two tasks, streams of two runs, prompts, steering, deletions, with one kind of mishap at a time: one stream, `sending` while an answer is on its way, prompts can be answered, nothing goes on after the end, the bubbles are of the task shown |
| `history` | four entries of two conversations, one of them rewound, and of a subagent, listed in pages of two and downloaded two at a time while they are written and deleted: the answer is faithful, the page shows the conversation that sorts last with its newest turn and whole, a trace is whole, a deletion leaves nothing of what it found |
| `login` | two requests of browsers or of the user on one row, two polls whose Del may fail and whose answer may be lost: keys are kept, a token answered after its Del is gone, a login arrives (liveness) |
| `reclone`, `overlap`, `crashed_run` | the code against its documents; each finding quotes the line |

Bounds. Two requests on two processes (`provisioning`) are the smallest number at
which a lock, a reset, a provisioning and a stale snapshot interfere; they start
over after each answer, so long histories are covered. Two sandboxes are one dead
and one new (or two rivals), two sessions can be confused. `Unexcused` cuts a
behaviour off once a mishap has happened that excuses what follows: what a property
says up to and including that step is checked. What comes after it is explored by
`recovery` (for the hash), and for the properties that it does not excuse the
theorems hold of any behaviour.
`provisioning` has no deletion, and `recovery` (liveness, so no symmetry) one request
at a time, with a deletion, no sessions, and a second sandbox for the one that died;
the two together are covered by the theorems. In the schedule runs with
`Overlap` FALSE the owner waits for each answer; no run has two requests of the owner
at the same time, and the theorems without that assumption are
`RegistryTypeCorrect`, `MapIsLive`, `RunsTypeCorrect`, `MapIsLiveUnderRuns` and
`FiringsSkipWhatIsUnderWay`. `registry` has two requests, which come one after the
other; `fires` and `restarts` one of the registry at a time beside firings, runs and
crashes (`Overlap` makes no difference to one request). One firing at a time
and two runs (an ended run's id is used again) show what a firing does beside a run;
`overlap` has two firings. An id that cron no longer uses is handed out again, which
only makes confusion easier. A manual run starts only when no other manual run is at work.
`skills` has a limit of two files, so that one upload fills a list and the next
is refused, and two creations (`MaxIds`), so that a request can outlive its
skill; it starts without a skill or with one from before lists were kept.
`registry` has three tokens (one given, one replaced, one new) and one request to
fire; requests to fire do not touch one another.

`chat`: `MaxMishaps` = 1 lets each thing go wrong alone, any number of times; two
runs per stream are a first and a second session.init, after which nothing is
new; one event unread (`MaxQueue`) and one request beside the streams
(`MaxPending`) already let every answer come before or after every event, but not two
histories out of order, which `PageShowsOneTask` covers; and `IsWatched` stops where
the user has left the page in the middle, of which no property speaks.
`history`: two entries on a page, so that four entries are two pages; a subagent's
session that sorts between those of two conversations; one entry that the page leaves
out (`MaxOdd`). Its constraints leave out what only repeats: a second request for the
history (`OneRequest`), a sandbox that pauses the writing before the deletion
(`PausesLeftOut`), a second tree in a session (`OneRoot`), and long histories
under deletion, of which at most three entries are deleted, and two while they are
read (`FewWhenDeleted`). `login`: one name, one id, one key beside none: two requests
that meet on one row are the smallest race, rows and ids share nothing, and a key
saved while another is cleared tells the two apart; two polls are one for the token
and one for an earlier token of the same id. `skills`, `fires`, `restarts` and `login`
never stop, which TLC checks. The other runs have `CHECK_DEADLOCK FALSE`: tasks and
schedules may be deleted, sandboxes, tokens, the entries or the room for one more
mishap used up, and then nothing is left to do.

What the properties do *not* say. In `TaskProvisioning` each names the mishaps that
excuse it. A request whose lease has lapsed may build a second sandbox beside
another one and overwrite its binding; a hash that lapses leaves a provisioned task
without a route for good; a stale mapping is taken for the new one, until
`DeadIsReset`; a clone whose failure goes unseen leaves a session over an empty
workspace. All four are findings. With `Overlap` TRUE and two requests,
`CronReflectsRow`, `RegisteredOnce`, `KeepsContract`, `OnlyEnableEnables`,
`OnlyGivenIsActive` and `BarredDoNotFire` fail. `OneActiveRun`, which is what the
documents promise of a concurrency-0 schedule, fails with two firings at a time (run
`overlap`); `UnderWayIsSkipped` is what the code keeps: a run that was under way
before a firing counted is seen by it, unless the COUNT itself fails. With failing
UPDATEs of runs (`"runUpdate"`) `EndedIsNotCounted` fails; with a failing SELECT
at start (`"boot"`, in `fires`) a missed slot is not made up for, so that
`MissedIsCaughtUp` is checked without. With `MetaEdits` TRUE, `ListedIsStored` and
`SkillMDListed` fail, because "meta" is stored as it was sent. `ListedIsStored` does
not say that every answered upload is listed: a request that read the list earlier
and saves later takes the entry out again (see the findings). The properties of
`ChatClient` except the mishaps they name: a page left in the middle (`leave`, or
`hasty`, a second message before the task is created) still gets the events of the
stream it left. `AnswerIsFaithful` is about tasks that are not being deleted, and has
the order within a session only. `ConversationIsWhole` is about the conversation whose
session sorts last, which need not be the newest; `TraceIsWhole` about the assistant's
entries of a subagent that its outcome names; `DeletedIsGone` about what was stored
when DeleteHistory began, not about what an agent writes after the listing. `KeysAreKept`
excepts a login that changes the row. `HandedIsGone` excepts a Del that failed.
`LoginArrives` excepts a session that lapses, is begun anew, or is taken by a poll for
an earlier one, and an answer lost after its Del.

## Fairness

`TaskProvisioning`: the lock's TTL runs out (Redis), a request's goroutine goes on
(weak fairness on all of SendMessage, whose calls all have deadlines), and each
call that every message repeats succeeds sometimes if it is tried again and again
(strong fairness on the success of the reset's four calls). Nothing makes users
send messages: `DeadIsReset` is about tasks whose resets are attempted
again and again. `ScheduleRuns`: a supervisor starts the process again, goroutines
go on, and time reaches a deadline. An agent that never answers is allowed:
nothing but the deadline makes a run leave its stream. `UserLogin`: the CLI
polls again and again, a poll that has read the token goes on, and a CLI whose polls
for the token in Redis are answered again and again does not lose every one of these
answers (strong fairness; each poll may lose its own). State JWTs expire (weak
fairness), so no page completes one session after another for ever. Nothing makes a
browser log in, and sessions may lapse at any time. A poll that dies before its Del
has changed nothing and is not a step.

## Proofs

| Theorem | For | Assuming |
|---|---|---|
| `MutualExclusion` | the lock alone: those who have not lost their key | - |
| `TypeCorrect` | TaskProvisioning | - |
| `SessionIsWriteOnce` | sessions | - |
| `SessionsHaveClone` | session => cloned | - (up to an unseen failure of a clone) |
| `OneProvisionerAtATime` | building a sandbox: those who have not lost their lease | - |
| `RouteIsKept` | provisioned => route | - (up to a lapsed hash, or a lost lease acted on) |
| `ImplementsBinding` | refinement of `SandboxBinding` | - (up to these, or a stale mapping) |
| `RegistryTypeCorrect`, `MapIsLive` | ScheduleRegistry | - |
| `RegisteredOnceAtATime` | ScheduleRegistry | no overlapping requests |
| `CronMirrorsRow`, `OnlyEnableSwitchesOn`, `ImplementsContract` | ScheduleRegistry | no overlapping requests; deletes and reloads do not fail |
| `FiringsSkipWhatIsUnderWay` | ScheduleRuns | - |
| `ImplementsRegistry` | ScheduleTokens refines ScheduleRegistry | - |
| `TokensTypeCorrect` | ScheduleTokens | - |
| `OneTokenIsActive` | ScheduleTokens | no overlapping requests |
| `LateRequestsDoNotFire` | ScheduleTokens | the same; deletes and reloads do not fail |
| `RunsTypeCorrect`, `MapIsLiveUnderRuns` | ScheduleRuns | - |
| `RegisteredOnceUnderRuns` | ScheduleRuns | no overlapping requests |
| `EndedDoesNotBlock` | ScheduleRuns | the status writes of runs do not fail |
| `SkillsTypeCorrect`, `OwnRequestsEdit` | SkillFiles | - |
| `ListedFilesAreStored`, `ListsFit`, `SkillMDStays` | SkillFiles | owners send no "meta" |
| `HistoryTypeCorrect`, `DeletionIsComplete` | TaskHistory | - |
| `AnswersAreFaithful`, `ConversationsAreWhole`, `TracesAreWhole` | TaskHistory | - |
| `LoginTypeCorrect`, `HandedTokensAreGone`, `KeysStayWithOwner` | UserLogin | - |
| `ChatTypeCorrect` | ChatClient | - |
| `OneStreamAtATime`, `SendingWhileLive`, `PageShowsOneTask`, `NothingGoesOn`, `PromptsCanBeDecided` | ChatClient | not the mishaps the properties name |

The argument, invariant by invariant:

* `LeaseInv`: whoever is between acquire and release is in `held`, and the lock says
  so for all whose key is not `lost`; hence the locked steps of two such requests
  exclude each other. A request that is not lost has its key until it releases it, so
  what a locked step read of row and hash is still true at the next, as long as no
  lost one has changed something: then `"lease"` is in `spoilt`.
* `ClonedInv`: a request holds a session, or is about to, only after the clone
  step; `cloned` is never undone, so the snapshots of other requests may be old. It
  rests on the lemma `SessionsAgree`: nobody holds a session but that of the row.
* `RouteInv` is `LeaseInv`, `KnownInv` and `BornInv`: what the locked request knows
  (`Knows`) at each step. What `verifyHash` found is there when `setProvisioned`
  commits, what a provisioner has made is the sandbox created last and nobody has
  made another since, a hash is that of the dead sandbox until the reset deletes it
  or a write puts the new one there; so without `"overwrite"` the binding that
  appears is the fresh one.
* `SerialInv` is `CronReflectsRow` for the middle of a request: which entries cron
  may hold at each step, given what the row says and what the request copied.
  It needs the exclusion of requests, and that a Reload which has been promised
  happens. With it each step is one of `ScheduleContract`, or none: its Register comes
  when nothing is registered, and its Answer when cron holds what the row wants.
* `OneHolder`: what cron holds is the map's, or was added by the one request that has
  it in hand, and then the map is empty. So no failing statement, firing or restart
  leaves a second entry, though a failing delete or reload may leave cron without
  the entry the row asks for.
* `NoOutcomeYet`: a run at work has no outcome, and a firing about to start one has it
  to itself. So whatever is under way when a firing counts is counted: `SkipStep`.
* `EndedHasOutcome`: every way to a run's end goes through SetRunOutcome. For
  `MapIsLiveUnderRuns` the registry's step lemmas are taken over: a crash empties
  map and cron together, a restart fills them together.
* `TokensSerial`: requests about tokens exclude each other; an active token is the
  one given or one that was kept, and a request about to insert has only kept ones.
  `BarredStopped`: a barred
  request holds a token that is revoked for good, or its schedule is gone. That
  it stays gone needs `RegistryBorn`, that only a creation makes a row and there
  is one creation, and `SerialInv` for the save that would bring it back.
* `FilesInv`: what a request is about to save is stored already, except the paths
  it has still to put, and contains SKILL.md and fits; it stays so however old
  the list is that it was made from, since objects are never removed.
* `HistoryInv` is `EntriesInv` (a session belongs to a conversation or to a subagent,
  and an entry follows one of its own session), `DeleteInv` and `ListingInv`. While the
  row is there nothing written is removed, so what has been
  listed is a beginning of each session's entries, and what was stored when the
  request came is listed or lies ahead of the listing: entries written meanwhile
  sort behind those of their session. What was stored when a deletion began is listed
  by it, or lies ahead, and then deleted. The answer is an ascending sequence of a set of
  entries; that a rank is held by one entry is counted by injections into finite
  intervals, and two ascending sequences with the same members are one. The last leaf
  sorts last, as whatever sorts behind it would be, or lead to, another leaf. The walk
  back to the root is a recursive function, of which a least entry without the
  property would have a parent that has it; since listed entries are a beginning
  of their session, the walk over the answer and the walk over the whole
  conversation meet the same entries.
* `LoginInv`: a request that is about to write a row finds one, since rows are never
  removed, and one about to write a key was given it. With it each change of a
  key is traced to the request that makes it. `TakenIsGone`: while a poll whose Del
  went through has yet to answer, the session is not completed unless a newer
  token was stored, of which that poll is then not `fresh`.
* `StreamInv` of `ChatClient`: a run is read by the call whose message it answers,
  and only while that call reads; events wait only for such a call, the last event
  is the last in the stream, after which nobody is its reader; and the
  session.inits read and waiting are no more than there may be runs. That needs
  how many of a sequence's elements are session.inits when one is put behind and
  one taken off, for sequences of any length. `LiveInv`: the live calls are one, and
  it awaits its task exactly if no task is shown; so a second message is
  steered, or is a mishap. `Together` is `PageIsOneTask` for the calls too, the ones
  that may still change the page, and for the page that has no task yet.

Every invariant and action property of the passing runs is proved for all values
of the constants, under the assumptions the table lists; the exceptions are part of
the properties, in the words above. Only model-checked:
liveness (`LockIsFreed`, `DeadIsReset`, `FiredRunsEnd`,
`MissedIsCaughtUp`, `LoginArrives`), which is out of the prover's reach. The
induction over a history that `ConversationIsWhole` needs goes by the least
counterexample, as the prover cannot instantiate an induction theorem.

## Not modelled, and abstractions

* A task's title, extra_env, the contents of messages and events; the wording of
  errors; List and Get requests that only read.
* The injection of resources and ssh keys plays no role in `TaskProvisioning`: its
  failure is logged and changes nothing. `SkillFiles` has the copying of one
  skill's files. The mcp kind, the reads, the contents of objects and the parsing
  of archives are left out there.
* Several schedules (they share nothing but the mutex and cron), several
  backend processes with a scheduler each (none is told of another's changes).
* `RunFire`'s reading of the user and extra_env fails like the creation it precedes.
* `Scheduler.Start` is one step: nothing else runs before the server listens.
* Time: a slot is ahead, past, or not there. Sessions and state JWTs lapse at any
  time after they are made.
* What an identity provider says, and what is verified of it, is a login that
  succeeds with some name and e-mail, or fails; signing and checking of JWTs and
  password login keep no state. The GET of a poll that finds nothing is no step.
* In `ChatClient`, texts, tools and todos of a message, the list of tasks, and the
  messages a history shows (they are settled). `loadMoreHistory` never runs, as the
  backend answers no cursor. One decision is under way at a time.
* In `TaskHistory`, a part is one entry, and of one session no two have the same
  millisecond in their names; lines that readPart skips as malformed, the filter by
  teamName, the shaping of single messages, and the
  objects of session metadata (`GetHistory` and `ListHistory` of the storage client have no caller).
* The router, the configuration, the other pages and the generated API text are
  declarations and I/O; the workspace browser reads; the legacy Redis repository
  cannot be built into the backend any more.

## Plan

1. `SkillFiles`: contents, for what a removed and re-added path or a taken name
   does to them, with a map from paths to contents as the abstract specification;
   validation of skill paths against a reference definition; the mcp kind.
2. `TaskProvisioning`: `RouteIsCurrent` (a message is posted to the task's own
   sandbox, which stale snapshots break), a bound on live sandboxes of a task.
   `ScheduleRuns`: `@once` fires once without crashes, outcomes against their
   causes, several schedulers.
3. Proofs: an abstract specification of the chat page (a bubble per run, shown until it
   is over) that `ChatClient` implements but for the mishaps; for `SkillFiles` the map
   of item 1.
