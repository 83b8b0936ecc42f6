----------------------------- MODULE ChatClient -----------------------------
(***************************************************************************)
(* The chat page of one user: the hook useChat with its asynchronous       *)
(* sendMessage calls, each of which reads a stream of events, beside the   *)
(* page's own handlers, which open, create and delete tasks (useChat.ts,   *)
(* ChatPage.tsx); and as much of the backend and of the agent server as    *)
(* answers them: SendMessage's stream, SteerMessage, RespondToPermission   *)
(* and RespondToQuestion.  JavaScript runs one step at a time: a step here *)
(* is what runs between two awaits.                                        *)
(*                                                                         *)
(* What may go wrong, or what the user may do that the code does not       *)
(* provide for, is recorded in spoilt: the properties say which of these   *)
(* they do not survive, and so that they survive all others.               *)
(***************************************************************************)
EXTENDS Naturals, Sequences, FiniteSets

CONSTANTS
    Tasks,      \* ids of tasks
    Calls,      \* calls of sendMessage; one that left no trace is used again
    None,       \* no task, no bubble, no call
    MaxRuns,    \* bound: runs, each with its session.init, on one stream
    MaxMishaps, \* bound: things gone wrong, in how many ways
    MaxPending, \* bound: requests under way beside the streams
    MaxQueue    \* bound: events sent and not yet read

ASSUME ChatAssumption ==
    /\ None \notin Tasks \cup Calls \cup (Calls \X (1..MaxRuns))
    /\ MaxRuns \in Nat \ {0} /\ MaxQueue \in Nat \ {0} /\ MaxMishaps \in Nat /\ MaxPending \in Nat

VARIABLES
    shown,    \* taskId
    sending,  \* the state of that name
    ref,      \* currentAssistantMsgIdRef
    status,   \* of the assistant bubbles on the page, "none" if not there
    pc,       \* where each call is
    task,     \* its local id
    inits,    \* its sessionInitCount
    opening,  \* tasks whose history, or creation, the page awaits
    deleting, \* deletion of the task then shown is awaited
    answer,   \* a decision or answers on their way: the task, msgId, and how far
    steer,    \* the task a steering message is on its way to
    created,  \* the tasks that exist
    session,  \* those with a recorded session
    run,      \* the agent's run in each task
    reader,   \* the call that reads its events
    steered,  \* a steering message waits in the run
    sse,      \* events sent to each call and not yet read
    spoilt    \* what has gone wrong since the page was last calm

pageVars == <<shown, sending, ref, status, opening, deleting>>
callVars == <<pc, task, inits>>
agentVars == <<session, run, reader, steered>>
chatVars == <<pageVars, callVars, answer, steer, created, agentVars, sse, spoilt>>

Bubbles == Calls \X (1..MaxRuns)
Places == {"idle", "create", "post", "read", "closing"}
Phases == {"none", "new", "busy", "waiting", "rested"}
Events == {"init", "prompt", "result", "aborted", "completed", "error"}
Mishaps == {"create", "hasty", "leave", "cut", "unread", "break", "late", "refused"}

TypeOK ==
    /\ shown \in Tasks \cup {None} /\ sending \in BOOLEAN
    /\ ref \in Bubbles \cup {None}
    /\ status \in [Bubbles -> {"none", "streaming", "asking", "settled"}]
    /\ pc \in [Calls -> Places] /\ task \in [Calls -> Tasks \cup {None}]
    /\ \A c \in Calls : pc[c] \in {"post", "read", "closing"} => task[c] # None
    /\ inits \in [Calls -> 0..MaxRuns]
    /\ opening \subseteq Tasks /\ deleting \in BOOLEAN
    /\ answer \in [to : Tasks \cup {None}, msg : Bubbles \cup {None}, at : {"none", "sent", "taken"}]
    /\ steer \in Tasks \cup {None}
    /\ created \subseteq Tasks
    /\ session \subseteq Tasks /\ run \in [Tasks -> Phases]
    /\ reader \in [Tasks -> Calls \cup {None}] /\ steered \subseteq Tasks
    /\ sse \in [Calls -> Seq(Events)] /\ spoilt \subseteq Mishaps

NoAnswer == [to |-> None, msg |-> None, at |-> "none"]

Init ==
    /\ shown = None /\ sending = FALSE /\ ref = None
    /\ status = [b \in Bubbles |-> "none"]
    /\ pc = [c \in Calls |-> "idle"] /\ task = [c \in Calls |-> None]
    /\ inits = [c \in Calls |-> 0]
    /\ opening = {} /\ deleting = FALSE /\ answer = NoAnswer /\ steer = None
    /\ created = {}
    /\ session = {} /\ run = [t \in Tasks |-> "none"]
    /\ reader = [t \in Tasks |-> None] /\ steered = {}
    /\ sse = [c \in Calls |-> <<>>] /\ spoilt = {}

\* activeId: the bubble of the first run, or of the last session.init.
Active(c) == <<c, IF inits[c] = 0 THEN 1 ELSE inits[c]>>

\* Calls that are to clear `sending` some time.
Live == {c \in Calls : pc[c] \in {"create", "post", "read"}}

\* setMessages(prev.map(...)) changes a bubble only if it is on the page.
Mark(b, s) == status' = [status EXCEPT ![b] = IF @ = "none" THEN @ ELSE s]

\* Bound: one more request fits under way.
Room ==
    Cardinality(opening) + (IF deleting THEN 1 ELSE 0) + (IF steer = None THEN 0 ELSE 1)
        + (IF answer.at = "none" THEN 0 ELSE 1) < MaxPending
Spoils(m) == spoilt' = spoilt \cup {m} /\ Cardinality(spoilt') <= MaxMishaps
At(c, place) == pc' = [pc EXCEPT ![c] = place]

-----------------------------------------------------------------------------
(* sendMessage                                                             *)

\* Mutant: a message never steers, each opens a stream of its own.
NeverSteers == FALSE

\* Is the message steered into the run, rather than sent on its own?
Steers == sending /\ shown # None

\* Mutant: no task is created, the message goes to the task shown.
TaskIsThere == TRUE

\* The message has a task to go to, or needs one.
HasTask == shown # None

\* The bubble of the coming answer is added, and POST /messages leaves.
Begin(c, t) ==
    /\ task' = [task EXCEPT ![c] = t]
    /\ status' = [status EXCEPT ![<<c, 1>>] = "streaming"]
    /\ ref' = <<c, 1>>
    /\ At(c, "post")

\* The call is over; its local state is gone, except in whose chat it was.
Returns(c) == At(c, "idle") /\ inits' = [inits EXCEPT ![c] = 0]

\* The id of a task to be created; that of a deleted one of which nothing is
\* left may stand for a new one.
Fresh(t) ==
    /\ t \notin created \cup opening \cup {shown, answer.to, steer} /\ run[t] = "none"
    /\ \A c \in Calls : task[c] = t => pc[c] = "idle"

\* A call that can stand for the next one: nothing on the page is of it.
Unused(c) ==
    /\ pc[c] = "idle"
    /\ \A n \in 1..MaxRuns : status[<<c, n>>] = "none" /\ <<c, n>> \notin {ref, answer.msg}

SendMessage(c) ==
    /\ Unused(c) /\ ~Steers
    /\ sending' = TRUE
    /\ IF HasTask
       THEN Begin(c, shown)
       ELSE At(c, "create") /\ task' = [task EXCEPT ![c] = None] /\ UNCHANGED <<status, ref>>
    /\ IF \E d \in Calls : pc[d] = "create" THEN Spoils("hasty") ELSE UNCHANGED spoilt
    /\ UNCHANGED <<shown, inits, opening, deleting, answer, steer, created, agentVars, sse>>

\* createTask is answered, and its id becomes the task shown whatever is shown.
CreateTask(c) ==
    /\ pc[c] = "create"
    /\ \E t \in Tasks :
         /\ Fresh(t)
         /\ created' = created \cup {t}
         /\ shown' = t
         /\ Begin(c, t)
    /\ IF shown = None THEN UNCHANGED spoilt
       ELSE Spoils(IF "hasty" \in spoilt THEN "hasty" ELSE "leave")
    /\ UNCHANGED <<sending, inits, opening, deleting, answer, steer, agentVars, sse>>

\* createTask throws, outside of the try: nothing takes `sending` back.
CreateFails(c) ==
    /\ pc[c] = "create"
    /\ Returns(c)
    /\ Spoils("create")
    /\ UNCHANGED <<pageVars, task, answer, steer, created, agentVars, sse>>

\* What the catch, and an answer that is not ok, do.
Fail(c) ==
    /\ Mark(Active(c), "settled")
    /\ sending' = FALSE
    /\ Returns(c)

\* The answer to POST /messages: an error (no such task, 502 for a provisioning
\* that failed); or a stream, which is empty if the agent server answered 202
\* because the session has a run already.
Posted(c) ==
    /\ pc[c] = "post"
    /\ LET t == task[c] IN
       \/ Fail(c) /\ UNCHANGED <<run, reader>>
       \/ /\ t \in created
          /\ IF run[t] = "none"
             THEN run' = [run EXCEPT ![t] = "new"] /\ reader' = [reader EXCEPT ![t] = c]
             ELSE UNCHANGED <<run, reader>>
          /\ At(c, "read")
          /\ UNCHANGED <<status, sending, inits>>
    /\ UNCHANGED <<shown, ref, opening, deleting, task, answer, steer, created,
                   session, steered, sse, spoilt>>

-----------------------------------------------------------------------------
(* Reading the stream: one case of the switch each                         *)

\* The second session.init on a stream adds a bubble, on whatever page.
ReadInit(c) ==
    /\ inits' = [inits EXCEPT ![c] = @ + 1]
    /\ IF inits[c] = 0
       THEN UNCHANGED <<status, ref>>
       ELSE LET b == <<c, inits[c] + 1>> IN
            status' = [status EXCEPT ![b] = "streaming"] /\ ref' = b
    /\ UNCHANGED <<sending, pc>>

\* Mutant: the prompt goes to the first bubble of the stream.
ReadPromptInFirst(c) ==
    /\ Mark(<<c, 1>>, "asking")
    /\ UNCHANGED <<sending, ref, inits, pc>>

\* permission.requested, question.asked.
ReadPrompt(c) ==
    /\ Mark(Active(c), "asking")
    /\ UNCHANGED <<sending, ref, inits, pc>>

\* Mutant: the result gives the input back.
ReadLastResult(c, e) ==
    /\ Mark(Active(c), "settled")
    /\ sending' = FALSE
    /\ UNCHANGED <<ref, inits, pc>>

\* result, or session.status "idle": the bubble is done; one that an aborted run
\* left empty is removed.
ReadResult(c, e) ==
    /\ \/ Mark(Active(c), "settled")
       \/ e = "aborted" /\ Mark(Active(c), "none")
    /\ UNCHANGED <<sending, ref, inits, pc>>

\* Mutant: what has not come to a result is left as it is.
ReadEndOnly(c) ==
    /\ sending' = FALSE
    /\ At(c, "closing")
    /\ UNCHANGED <<status, ref, inits>>

\* session.completed and error.
ReadEnd(c) ==
    /\ Mark(Active(c), "settled")
    /\ sending' = FALSE
    /\ At(c, "closing")
    /\ UNCHANGED <<ref, inits>>

ReadEvent(c) ==
    /\ pc[c] \in {"read", "closing"} /\ sse[c] # <<>>
    /\ sse' = [sse EXCEPT ![c] = Tail(@)]
    /\ LET e == Head(sse[c]) IN
       /\ \/ e = "init" /\ ReadInit(c)
          \/ e = "prompt" /\ ReadPrompt(c)
          \/ e \in {"result", "aborted"} /\ ReadResult(c, e)
          \/ e \in {"completed", "error"} /\ ReadEnd(c)
       /\ IF answer.at # "none" /\ answer.msg = Active(c) THEN Spoils("late") ELSE UNCHANGED spoilt
    /\ UNCHANGED <<shown, opening, deleting, task, answer, steer, created, agentVars>>

\* reader.read() is done: after session.completed or error, or without them.
StreamEnds(c) ==
    /\ pc[c] \in {"read", "closing"} /\ sse[c] = <<>> /\ reader[task[c]] # c
    /\ Returns(c)
    /\ IF pc[c] = "read" THEN Spoils("cut") ELSE UNCHANGED spoilt
    /\ UNCHANGED <<pageVars, task, answer, steer, created, agentVars, sse>>

\* The connection breaks under the reader: the catch.  The backend notices, and
\* closes its own connection to the agent.
StreamBreaks(c) ==
    /\ pc[c] \in {"read", "closing"}
    /\ Fail(c)
    /\ sse' = [sse EXCEPT ![c] = <<>>]
    /\ reader' = [t \in Tasks |-> IF reader[t] = c THEN None ELSE reader[t]]
    /\ Spoils("break")
    /\ UNCHANGED <<shown, ref, opening, deleting, task, answer, steer, created,
                   session, run, steered>>

-----------------------------------------------------------------------------
(* The page                                                                *)

\* Mutant: the messages of the task before stay on the page.
TurnToKeepsMessages(t) ==
    /\ shown' = t /\ sending' = FALSE /\ ref' = None
    /\ UNCHANGED status

\* loadTask, startTask and, without a task, newChat.  Messages from history are
\* done, and not modelled.
TurnTo(t) ==
    /\ shown' = t /\ sending' = FALSE /\ ref' = None
    /\ status' = [b \in Bubbles |-> "none"]

\* Nothing is under way that could still touch the page.
Calm ==
    /\ Live = {} /\ answer.at = "none" /\ steer = None
    /\ \A t \in Tasks : run[t] = "none"
    /\ \A c \in Calls : pc[c] # "closing"

\* A page turned in peace forgets what went wrong before.
Turned(awaited) == IF Calm /\ ~awaited THEN spoilt' = {} ELSE Spoils("leave")

\* handleSelectTask awaits the history; handleDialogCreate awaits createTask.
Open(t) ==
    /\ t \notin opening /\ Room
    /\ t \in created \/ Fresh(t)
    /\ created' = created \cup {t}
    /\ opening' = opening \cup {t}
    /\ UNCHANGED <<shown, sending, ref, status, deleting, callVars, answer, steer,
                   agentVars, sse, spoilt>>

\* The answers may come in another order than the clicks.
Opened(t) ==
    /\ t \in opening
    /\ opening' = opening \ {t}
    /\ TurnTo(t)
    /\ Turned(deleting \/ opening # {t})
    /\ UNCHANGED <<deleting, callVars, answer, steer, created, agentVars, sse>>

OpenFails(t) ==
    /\ t \in opening
    /\ opening' = opening \ {t}
    /\ UNCHANGED <<shown, sending, ref, status, deleting, callVars, answer, steer, created,
                   agentVars, sse, spoilt>>

\* handleDeleteTask of the task shown: DELETE, then newChat, whatever is shown
\* by then.  (Deleting another task leaves the page alone.)
DeleteTask ==
    /\ shown # None /\ ~deleting /\ Room
    /\ created' = created \ {shown}
    /\ session' = session \ {shown}
    /\ deleting' = TRUE
    /\ UNCHANGED <<shown, sending, ref, status, opening, callVars, answer, steer,
                   run, reader, steered, sse, spoilt>>

Deleted ==
    /\ deleting /\ deleting' = FALSE
    /\ TurnTo(None)
    /\ UNCHANGED opening
    /\ Turned(opening # {})
    /\ UNCHANGED <<callVars, answer, steer, created, agentVars, sse>>

-----------------------------------------------------------------------------
(* Answers to prompts, and steering                                        *)

\* approvePermission, answerQuestion: a bubble that asks is clicked, the bubble
\* that will change is the one in ref now.
Approve(b) ==
    /\ status[b] = "asking" /\ shown # None /\ answer.at = "none" /\ Room
    /\ answer' = [to |-> shown, msg |-> ref, at |-> "sent"]
    /\ UNCHANGED <<pageVars, callVars, steer, created, agentVars, sse, spoilt>>

\* RespondToPermission, RespondToQuestion: the run goes on.  The client does not
\* look at the answer: a 404 or 502 is like a 204 to it.
Respond ==
    /\ answer.at = "sent"
    /\ answer' = [answer EXCEPT !.at = "taken"]
    /\ LET t == answer.to IN
       \/ /\ t \in session /\ run[t] = "waiting"
          /\ run' = [run EXCEPT ![t] = "busy"]
          /\ UNCHANGED spoilt
       \/ UNCHANGED run /\ Spoils("refused")
    /\ UNCHANGED <<pageVars, callVars, steer, created, session, reader, steered, sse>>

\* The await is over: the bubble is streaming again, whatever it has become.
Responded ==
    /\ answer.at = "taken"
    /\ IF answer.msg = None THEN UNCHANGED status ELSE Mark(answer.msg, "streaming")
    /\ answer' = NoAnswer
    /\ UNCHANGED <<shown, sending, ref, opening, deleting, callVars, steer, created,
                   agentVars, sse, spoilt>>

\* sendMessage while it is `sending`.  The user's bubble, and whether it ends
\* up as an error, is left out.
SendSteer ==
    /\ Steers /\ steer = None /\ Room
    /\ steer' = shown
    /\ UNCHANGED <<pageVars, callVars, answer, created, agentVars, sse, spoilt>>

\* Proxy.SteerMessage: without a session, or when the agent refuses, nothing
\* happens.  The agent server takes it into the session's run; with no run, it
\* starts one, which nobody reads since "stream" is false.
SteerMessage ==
    /\ steer # None
    /\ steer' = None
    /\ \/ UNCHANGED <<run, steered, spoilt>>
       \/ /\ steer \in session /\ run[steer] # "none"
          /\ steered' = steered \cup {steer}
          /\ UNCHANGED <<run, spoilt>>
       \/ /\ steer \in session /\ run[steer] = "none"
          /\ run' = [run EXCEPT ![steer] = "new"]
          /\ Spoils("unread")
          /\ UNCHANGED steered
    /\ UNCHANGED <<pageVars, callVars, answer, created, session, reader, sse>>

-----------------------------------------------------------------------------
(* The agent server and the relay of its events                            *)

\* An event goes to the reader; with no reader it is lost.
Sends(t, e) ==
    LET c == reader[t] IN
    IF c = None THEN UNCHANGED sse
    ELSE Len(sse[c]) < MaxQueue /\ sse' = [sse EXCEPT ![c] = Append(@, e)]

\* How many session.init the reader has been sent.
Started(t) ==
    IF reader[t] = None THEN 0
    ELSE inits[reader[t]] + Cardinality({i \in DOMAIN sse[reader[t]] : sse[reader[t]][i] = "init"})

Goes(t, from, to) == run[t] \in from /\ run' = [run EXCEPT ![t] = to]

\* session.init, by which the backend learns the session: of a new run, or of
\* one that takes up what was steered into it.
AgentStarts(t) ==
    /\ \/ run[t] = "new" /\ UNCHANGED steered
       \/ run[t] = "rested" /\ t \in steered /\ steered' = steered \ {t}
    /\ Goes(t, {"new", "rested"}, "busy")
    /\ Started(t) < MaxRuns
    /\ Sends(t, "init")
    /\ session' = IF reader[t] = None THEN session ELSE session \cup ({t} \cap created)
    /\ UNCHANGED reader

AgentAsks(t) ==
    /\ Goes(t, {"busy"}, "waiting") /\ Sends(t, "prompt")
    /\ UNCHANGED <<session, reader, steered>>

\* A run ends with a result; what is steered in may abort it.
AgentRests(t) ==
    /\ \/ Goes(t, {"busy"}, "rested") /\ Sends(t, "result")
       \/ t \in steered /\ Goes(t, {"busy", "waiting"}, "rested") /\ Sends(t, "aborted")
    /\ UNCHANGED <<session, reader, steered>>

\* The agent closes the stream after its last event.
AgentEnds(t) ==
    /\ \/ Goes(t, {"rested"}, "none") /\ t \notin steered /\ Sends(t, "completed")
       \/ Goes(t, Phases \ {"none"}, "none") /\ Sends(t, "error")
    /\ reader' = [reader EXCEPT ![t] = None]
    /\ steered' = steered \ {t}
    /\ UNCHANGED session

\* The stream is cut between backend and agent: the scanner's error is only
\* logged, and the response ends as if all had been said.
AgentIsCut(t) ==
    /\ reader[t] # None
    /\ reader' = [reader EXCEPT ![t] = None]
    /\ UNCHANGED <<session, run, steered, sse>>

Agent(t) ==
    /\ AgentStarts(t) \/ AgentAsks(t) \/ AgentRests(t) \/ AgentEnds(t) \/ AgentIsCut(t)
    /\ UNCHANGED <<pageVars, callVars, answer, steer, created, spoilt>>

-----------------------------------------------------------------------------
Reads(c) == ReadEvent(c) \/ StreamEnds(c)

Next ==
    \/ \E c \in Calls :
         \/ SendMessage(c) \/ CreateTask(c) \/ CreateFails(c) \/ Posted(c)
         \/ Reads(c) \/ StreamBreaks(c)
    \/ \E t \in Tasks : Open(t) \/ Opened(t) \/ OpenFails(t) \/ Agent(t)
    \/ \E b \in Bubbles : Approve(b)
    \/ DeleteTask \/ Deleted \/ Respond \/ Responded \/ SendSteer \/ SteerMessage

ChatSpec == Init /\ [][Next]_chatVars

-----------------------------------------------------------------------------
(* Properties                                                              *)

Harmed(ms) == spoilt \cap ms # {}

\* While one stream of events is read, the next message is steered into its
\* run: no second stream is opened beside it.
OneStream == Harmed({"leave", "hasty", "break"}) \/ Cardinality(Live) <= 1

\* The page is `sending` exactly while an answer is on its way: the input is
\* given back by the last event, and not before ("session.completed (not
\* result) is the terminal event that re-enables input", frontend.md:192).
SendingIsLive ==
    Harmed({"leave", "hasty", "break", "cut", "create"}) \/ (sending <=> Live # {})

\* The agent waits for a decision in a run whose events the page has read.
Waiting(t) ==
    /\ run[t] = "waiting" /\ reader[t] # None
    /\ \A i \in DOMAIN sse[reader[t]] : sse[reader[t]][i] # "prompt"

\* What the agent waits for can be decided: its bubble asks, or the decision is
\* on its way.  No order of prompts, answers, steering and further runs hides it.
PromptIsShown ==
    \/ Harmed({"leave", "hasty", "late", "refused"})
    \/ \A t \in Tasks :
         Waiting(t) => \/ status[Active(reader[t])] = "asking"
                       \/ answer.at = "sent"

\* When a stream is over, nothing on the page goes on streaming or asking.
NothingLeftRunning ==
    \/ Harmed({"leave", "hasty", "break", "cut", "late"})
    \/ \A b \in Bubbles :
         status[b] \in {"streaming", "asking"} => b[1] \in Live /\ b = Active(b[1])

\* The bubbles on the page are of the task it shows.
PageIsOneTask ==
    \/ Harmed({"leave", "hasty"})
    \/ \A b \in Bubbles : status[b] # "none" => task[b[1]] = shown
=============================================================================
