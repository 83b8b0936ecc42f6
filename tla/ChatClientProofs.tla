-------------------------- MODULE ChatClientProofs --------------------------
(***************************************************************************)
(* TLAPS proofs about ChatClient, for any number of tasks, calls, runs on  *)
(* a stream and unread events: its types, that one stream is read at a     *)
(* time, that the page is sending while it is read, that the page is of    *)
(* one task, that nothing on it goes on after its stream, and that what    *)
(* the agent waits for can be decided.                                     *)
(***************************************************************************)
EXTENDS ChatClient, FiniteSetTheorems, SequenceTheorems, TLAPS

-----------------------------------------------------------------------------
(* Counting the session.inits that wait in a stream                        *)

InitsAt(s) == {i \in 1..Len(s) : s[i] = "init"}

LEMMA InitsAreFinite ==
    ASSUME NEW s \in Seq(Events)
    PROVE  IsFiniteSet(InitsAt(s)) /\ Cardinality(InitsAt(s)) \in Nat
<1>1. IsFiniteSet(1..Len(s))
  BY FS_Interval
<1>2. InitsAt(s) \in SUBSET (1..Len(s))
  BY DEF InitsAt
<1>. QED BY <1>1, <1>2, FS_Subset, FS_CardinalityType

LEMMA NoInits == InitsAt(<<>>) = {} /\ Cardinality(InitsAt(<<>>)) = 0
<1>1. InitsAt(<<>>) = {}
  BY DEF InitsAt
<1>. QED BY <1>1, FS_EmptySet

LEMMA InitsOfAppend ==
    ASSUME NEW s \in Seq(Events), NEW e \in Events
    PROVE  Cardinality(InitsAt(Append(s, e))) =
             Cardinality(InitsAt(s)) + IF e = "init" THEN 1 ELSE 0
<1>1. /\ Len(Append(s, e)) = Len(s) + 1
      /\ Append(s, e)[Len(s) + 1] = e
      /\ \A i \in 1..Len(s) : Append(s, e)[i] = s[i]
  OBVIOUS
<1>. Len(s) \in Nat
  OBVIOUS
<1>2. CASE e = "init"
  <2>1. InitsAt(Append(s, e)) = InitsAt(s) \cup {Len(s) + 1}
    BY <1>1, <1>2 DEF InitsAt
  <2>2. Len(s) + 1 \notin InitsAt(s)
    BY DEF InitsAt
  <2>. QED BY <1>2, <2>1, <2>2, InitsAreFinite, FS_AddElement
<1>3. CASE e # "init"
  <2>1. InitsAt(Append(s, e)) = InitsAt(s)
    BY <1>1, <1>3 DEF InitsAt
  <2>. QED BY <1>3, <2>1, InitsAreFinite
<1>. QED BY <1>2, <1>3

\* What is taken off a stream no longer waits in it.
LEMMA InitsOfTail ==
    ASSUME NEW s \in Seq(Events), s # <<>>
    PROVE  Cardinality(InitsAt(Tail(s))) + (IF Head(s) = "init" THEN 1 ELSE 0)
             <= Cardinality(InitsAt(s))
<1>. DEFINE T == InitsAt(Tail(s))
            S == InitsAt(s) \ {1}
            f == [i \in T |-> i + 1]
<1>1. /\ Tail(s) \in Seq(Events) /\ Len(Tail(s)) = Len(s) - 1 /\ Len(s) \in Nat /\ Len(s) >= 1
      /\ \A i \in 1..Len(Tail(s)) : Tail(s)[i] = s[i + 1]
  OBVIOUS
<1>2. \A i \in T : i \in Nat /\ i + 1 \in S
  BY <1>1 DEF InitsAt
<1>3. f \in Injection(T, S)
  <2>1. f \in [T -> S]
    BY <1>2
  <2>2. \A a, b \in T : f[a] = f[b] => a = b
    BY <1>2
  <2>. QED BY <2>1, <2>2 DEF Injection, IsInjective
<1>4. IsFiniteSet(S) /\ Cardinality(S) = IF 1 \in InitsAt(s) THEN Cardinality(InitsAt(s)) - 1
                                         ELSE Cardinality(InitsAt(s))
  BY InitsAreFinite, FS_RemoveElement
<1>5. Cardinality(T) <= Cardinality(S)
  <2>. HIDE DEF T, S, f
  <2>. QED BY <1>3, <1>4, FS_Injection
<1>6. Head(s) = "init" => 1 \in InitsAt(s)
  BY <1>1 DEF InitsAt
<1>7. Cardinality(T) \in Nat /\ Cardinality(InitsAt(s)) \in Nat
  BY <1>1, InitsAreFinite
<1>. QED BY <1>4, <1>5, <1>6, <1>7

-----------------------------------------------------------------------------
(* The invariant of types and streams                                      *)

PageTyped ==
    /\ shown \in Tasks \cup {None} /\ sending \in BOOLEAN
    /\ ref \in Bubbles \cup {None}
    /\ status \in [Bubbles -> {"none", "streaming", "asking", "settled"}]
    /\ opening \subseteq Tasks /\ deleting \in BOOLEAN
    /\ answer \in [to : Tasks \cup {None}, msg : Bubbles \cup {None}, at : {"none", "sent", "taken"}]
    /\ steer \in Tasks \cup {None}
    /\ created \subseteq Tasks

CallsTyped ==
    /\ pc \in [Calls -> Places] /\ task \in [Calls -> Tasks \cup {None}]
    /\ \A c \in Calls : pc[c] \in {"post", "read", "closing"} => task[c] # None

StreamsTyped == inits \in [Calls -> 0..MaxRuns] /\ sse \in [Calls -> Seq(Events)]

AgentTyped ==
    /\ session \subseteq Tasks /\ run \in [Tasks -> Phases]
    /\ reader \in [Tasks -> Calls \cup {None}] /\ steered \subseteq Tasks

MishapsTyped == spoilt \subseteq Mishaps

\* A run is read by the call that its message is of, while it reads; and what
\* has ended is read by none.
ReadersRead ==
    /\ \A t \in Tasks : reader[t] # None => pc[reader[t]] = "read" /\ task[reader[t]] = t
    /\ \A t \in Tasks : run[t] = "none" => reader[t] = None

\* Only a call that reads has events waiting, and none after the last.
Ends == {"completed", "error"}

EndIsLast ==
    /\ \A c \in Calls : pc[c] # "read" => sse[c] = <<>>
    /\ \A c \in Calls : \A i \in 1..Len(sse[c]) :
         sse[c][i] \in Ends => i = Len(sse[c]) /\ \A t \in Tasks : reader[t] # c

\* A stream has no more session.inits, read or waiting, than there may be runs.
InitsFit == \A c \in Calls : inits[c] + Cardinality(InitsAt(sse[c])) <= MaxRuns

StreamInv == ReadersRead /\ EndIsLast /\ InitsFit

ChatTyped == PageTyped /\ CallsTyped /\ StreamsTyped /\ AgentTyped /\ MishapsTyped

ChatInv == ChatTyped /\ StreamInv

\* The state that StreamInv and the types of calls, streams and runs are about.
streamVars == <<pc, task, inits, run, reader, sse>>

LEMMA StreamsLeftAlone ==
    ASSUME StreamInv, UNCHANGED streamVars
    PROVE  StreamInv'
<1>1. ReadersRead'
  BY DEF StreamInv, ReadersRead, streamVars
<1>2. EndIsLast'
  BY DEF StreamInv, EndIsLast, streamVars
<1>3. InitsFit'
  BY DEF StreamInv, InitsFit, streamVars, InitsAt
<1>. QED BY <1>1, <1>2, <1>3 DEF StreamInv

\* A call that does not read is not the reader of any run.
LEMMA IdleIsNoReader ==
    ASSUME CallsTyped, ReadersRead, NEW c \in Calls, pc[c] # "read"
    PROVE  \A t \in Tasks : reader[t] # c
BY ChatAssumption DEF CallsTyped, ReadersRead

LEMMA ActiveIsBubble ==
    ASSUME StreamsTyped, NEW c \in Calls
    PROVE  Active(c) \in Bubbles /\ Active(c)[1] = c /\ <<c, 1>> \in Bubbles /\ <<c, 1>>[1] = c
<1>1. 1 \in 1..MaxRuns /\ (inits[c] # 0 => inits[c] \in 1..MaxRuns)
  BY ChatAssumption DEF StreamsTyped
<1>. QED BY <1>1 DEF Active, Bubbles

LEMMA ChatInitTyped == Init => ChatInv
<1>. SUFFICES ASSUME Init PROVE ChatInv
  OBVIOUS
<1>. USE DEF Init
<1>1. PageTyped /\ CallsTyped /\ AgentTyped /\ MishapsTyped
  BY DEF PageTyped, CallsTyped, AgentTyped, MishapsTyped, Places, Phases, NoAnswer
<1>2. StreamsTyped
  BY ChatAssumption DEF StreamsTyped
<1>3. ReadersRead /\ EndIsLast
  BY DEF ReadersRead, EndIsLast
<1>4. InitsFit
  BY NoInits, ChatAssumption DEF InitsFit
<1>. QED BY <1>1, <1>2, <1>3, <1>4 DEF ChatTyped, ChatInv, StreamInv

-----------------------------------------------------------------------------
(* The page's own handlers leave the streams alone                         *)

LEMMA TurnToTyped ==
    ASSUME NEW t \in Tasks \cup {None}, TurnTo(t), PageTyped
    PROVE  /\ shown' \in Tasks \cup {None} /\ sending' \in BOOLEAN /\ ref' \in Bubbles \cup {None}
           /\ status' \in [Bubbles -> {"none", "streaming", "asking", "settled"}]
BY DEF TurnTo, PageTyped

LEMMA TurnedTyped ==
    ASSUME MishapsTyped, NEW awaited \in BOOLEAN, Turned(awaited)
    PROVE  MishapsTyped'
BY DEF MishapsTyped, Turned, Spoils, Mishaps

LEMMA OpenInv ==
    ASSUME ChatInv, NEW t \in Tasks, Open(t) \/ Opened(t) \/ OpenFails(t)
    PROVE  ChatInv'
<1>. USE DEF callVars, agentVars, ChatInv
<1>0. PageTyped /\ CallsTyped /\ StreamsTyped /\ AgentTyped /\ MishapsTyped
  BY DEF ChatTyped
<1>1. UNCHANGED <<pc, task, inits, session, run, reader, steered, sse>>
  BY DEF Open, Opened, OpenFails
<1>2. StreamInv'
  BY <1>1, StreamsLeftAlone DEF streamVars
<1>3. CallsTyped' /\ StreamsTyped' /\ AgentTyped'
  BY <1>0, <1>1 DEF CallsTyped, StreamsTyped, AgentTyped
<1>4. CASE Open(t)
  BY <1>0, <1>2, <1>3, <1>4 DEF ChatTyped, Open, PageTyped, MishapsTyped
<1>5. CASE Opened(t)
  <2>1. PageTyped'
    BY <1>0, <1>5, TurnToTyped DEF Opened, PageTyped
  <2>2. MishapsTyped'
    BY <1>0, <1>5, TurnedTyped DEF Opened, PageTyped
  <2>. QED BY <2>1, <2>2, <1>2, <1>3 DEF ChatTyped
<1>6. CASE OpenFails(t)
  BY <1>0, <1>2, <1>3, <1>6 DEF ChatTyped, OpenFails, PageTyped, MishapsTyped
<1>. QED BY <1>4, <1>5, <1>6

LEMMA DeleteInv ==
    ASSUME ChatInv, DeleteTask \/ Deleted
    PROVE  ChatInv'
<1>. USE DEF callVars, agentVars, ChatInv
<1>0. PageTyped /\ CallsTyped /\ StreamsTyped /\ AgentTyped /\ MishapsTyped
  BY DEF ChatTyped
<1>1. UNCHANGED <<pc, task, inits, run, reader, steered, sse>>
  BY DEF DeleteTask, Deleted
<1>2. StreamInv'
  BY <1>1, StreamsLeftAlone DEF streamVars
<1>3. CallsTyped' /\ StreamsTyped' /\ AgentTyped'
  BY <1>0, <1>1 DEF CallsTyped, StreamsTyped, AgentTyped, DeleteTask, Deleted
<1>4. CASE DeleteTask
  BY <1>0, <1>2, <1>3, <1>4 DEF ChatTyped, DeleteTask, PageTyped, MishapsTyped
<1>5. CASE Deleted
  <2>1. PageTyped'
    BY <1>0, <1>5, TurnToTyped DEF Deleted, PageTyped
  <2>2. MishapsTyped'
    BY <1>0, <1>5, TurnedTyped DEF Deleted
  <2>. QED BY <2>1, <2>2, <1>2, <1>3 DEF ChatTyped
<1>. QED BY <1>4, <1>5

LEMMA MarkTyped ==
    ASSUME PageTyped, NEW b, NEW s \in {"none", "streaming", "asking", "settled"}, Mark(b, s)
    PROVE  status' \in [Bubbles -> {"none", "streaming", "asking", "settled"}]
BY DEF PageTyped, Mark

LEMMA DecisionInv ==
    ASSUME ChatInv, (\E b \in Bubbles : Approve(b)) \/ Responded \/ SendSteer
    PROVE  ChatInv'
<1>. USE DEF pageVars, callVars, agentVars, ChatInv
<1>0. PageTyped /\ CallsTyped /\ StreamsTyped /\ AgentTyped /\ MishapsTyped
  BY DEF ChatTyped
<1>1. UNCHANGED <<pc, task, inits, session, run, reader, steered, sse, spoilt>>
  BY DEF Approve, Responded, SendSteer
<1>2. StreamInv'
  BY <1>1, StreamsLeftAlone DEF streamVars
<1>3. CallsTyped' /\ StreamsTyped' /\ AgentTyped' /\ MishapsTyped'
  BY <1>0, <1>1 DEF CallsTyped, StreamsTyped, AgentTyped, MishapsTyped
<1>4. PageTyped'
  <2>1. CASE \E b \in Bubbles : Approve(b)
    BY <1>0, <2>1 DEF Approve, PageTyped
  <2>2. CASE Responded
    <3>1. status' \in [Bubbles -> {"none", "streaming", "asking", "settled"}]
      BY <1>0, <2>2, MarkTyped DEF Responded, PageTyped
    <3>. QED BY <1>0, <2>2, <3>1 DEF Responded, PageTyped, NoAnswer
  <2>3. CASE SendSteer
    BY <1>0, <2>3 DEF SendSteer, PageTyped
  <2>. QED BY <2>1, <2>2, <2>3
<1>. QED BY <1>2, <1>3, <1>4 DEF ChatTyped

\* What the agent is told changes its run, but starts none that is read.
LEMMA ToldInv ==
    ASSUME ChatInv, Respond \/ SteerMessage
    PROVE  ChatInv'
<1>. USE DEF pageVars, callVars, ChatInv
<1>0. PageTyped /\ CallsTyped /\ StreamsTyped /\ AgentTyped /\ MishapsTyped
  BY DEF ChatTyped
<1>1. UNCHANGED <<pc, task, inits, session, reader, sse>>
  BY DEF Respond, SteerMessage
<1>2. CallsTyped' /\ StreamsTyped'
  BY <1>0, <1>1 DEF CallsTyped, StreamsTyped
<1>3. PageTyped'
  BY <1>0 DEF Respond, SteerMessage, PageTyped
<1>4. AgentTyped' /\ \A t \in Tasks : run'[t] = "none" => run[t] = "none"
  BY <1>0 DEF Respond, SteerMessage, AgentTyped, PageTyped, Phases
<1>5. MishapsTyped'
  BY <1>0 DEF Respond, SteerMessage, MishapsTyped, Spoils, Mishaps
<1>6. ReadersRead'
  BY <1>1, <1>4 DEF StreamInv, ReadersRead
<1>7. EndIsLast' /\ InitsFit'
  BY <1>1 DEF StreamInv, EndIsLast, InitsFit, InitsAt
<1>. QED BY <1>2, <1>3, <1>4, <1>5, <1>6, <1>7 DEF ChatTyped, StreamInv

-----------------------------------------------------------------------------
(* sendMessage up to its stream                                            *)

\* A call that reads nothing, and goes on to read nothing, disturbs no stream.
LEMMA NoReaderMoves ==
    ASSUME ChatInv, NEW c \in Calls, pc[c] # "read",
           NEW p, p # "read", pc' = [pc EXCEPT ![c] = p],
           \A d \in Calls : d # c => task'[d] = task[d],
           inits' = inits \/ inits' = [inits EXCEPT ![c] = 0],
           UNCHANGED <<run, reader, sse>>
    PROVE  StreamInv'
<1>0. /\ CallsTyped /\ StreamsTyped /\ AgentTyped /\ ReadersRead /\ EndIsLast /\ InitsFit
      /\ \A t \in Tasks : reader[t] # c
  BY IdleIsNoReader DEF ChatInv, ChatTyped, StreamInv
<1>1. ReadersRead'
  BY <1>0 DEF ReadersRead, CallsTyped, AgentTyped
<1>2. EndIsLast'
  <2>1. \A d \in Calls : pc'[d] # "read" => sse[d] = <<>>
    BY <1>0 DEF EndIsLast, CallsTyped
  <2>. QED BY <1>0, <2>1 DEF EndIsLast
<1>3. InitsFit'
  <2>1. \A d \in Calls : /\ inits[d] \in Nat /\ Cardinality(InitsAt(sse[d])) \in Nat
                         /\ inits'[d] \in {0, inits[d]}
    BY <1>0, InitsAreFinite DEF StreamsTyped
  <2>2. \A d \in Calls : inits'[d] + Cardinality(InitsAt(sse[d])) <= MaxRuns
    BY <1>0, <2>1, ChatAssumption DEF InitsFit
  <2>. QED BY <2>2 DEF InitsFit, InitsAt
<1>. QED BY <1>1, <1>2, <1>3 DEF StreamInv

\* A call turns to a place, with a task where it needs one.
LEMMA CallsMoveTyped ==
    ASSUME CallsTyped, NEW c \in Calls, NEW p \in Places, At(c, p),
           NEW t \in Tasks \cup {None}, task' = [task EXCEPT ![c] = t],
           p \in {"post", "read", "closing"} => t # None
    PROVE  CallsTyped'
BY DEF CallsTyped, At

LEMMA BeginTyped ==
    ASSUME PageTyped, CallsTyped, StreamsTyped, NEW c \in Calls, NEW t \in Tasks, t # None, Begin(c, t)
    PROVE  /\ CallsTyped'
           /\ status' \in [Bubbles -> {"none", "streaming", "asking", "settled"}] /\ ref' \in Bubbles
<1>1. <<c, 1>> \in Bubbles
  BY ActiveIsBubble
<1>2. CallsTyped'
  BY CallsMoveTyped DEF Begin, Places
<1>. QED BY <1>1, <1>2 DEF Begin, PageTyped

LEMMA SendMessageInv ==
    ASSUME ChatInv, NEW c \in Calls, SendMessage(c)
    PROVE  ChatInv'
<1>. USE DEF agentVars
<1>0. PageTyped /\ CallsTyped /\ StreamsTyped /\ AgentTyped /\ MishapsTyped
  BY DEF ChatInv, ChatTyped
<1>1. /\ pc[c] = "idle" /\ sending' = TRUE
      /\ UNCHANGED <<shown, inits, opening, deleting, answer, steer, created,
                     session, run, reader, steered, sse>>
      /\ (\E d \in Calls : pc[d] = "create") => Spoils("hasty")
      /\ ~(\E d \in Calls : pc[d] = "create") => UNCHANGED spoilt
  BY DEF SendMessage, Unused
<1>2. StreamsTyped' /\ AgentTyped' /\ MishapsTyped'
  BY <1>0, <1>1 DEF StreamsTyped, AgentTyped, MishapsTyped, Spoils, Mishaps
<1>3. CASE shown # None
  <2>1. Begin(c, shown) /\ shown \in Tasks
    BY <1>0, <1>3 DEF SendMessage, HasTask, PageTyped
  <2>2. PageTyped' /\ CallsTyped'
    BY <1>0, <1>1, <1>3, <2>1, BeginTyped DEF PageTyped
  <2>3. StreamInv'
    BY <1>0, <1>1, <2>1, NoReaderMoves DEF Begin, At, CallsTyped
  <2>. QED BY <1>2, <2>2, <2>3 DEF ChatInv, ChatTyped
<1>4. CASE shown = None
  <2>1. At(c, "create") /\ task' = [task EXCEPT ![c] = None] /\ UNCHANGED <<status, ref>>
    BY <1>4 DEF SendMessage, HasTask
  <2>2. PageTyped'
    BY <1>0, <1>1, <2>1 DEF PageTyped
  <2>3. CallsTyped'
    BY <1>0, <2>1, CallsMoveTyped DEF Places
  <2>4. StreamInv'
    BY <1>0, <1>1, <2>1, NoReaderMoves DEF At, CallsTyped
  <2>. QED BY <1>2, <2>2, <2>3, <2>4 DEF ChatInv, ChatTyped
<1>. QED BY <1>3, <1>4

LEMMA CreateTaskInv ==
    ASSUME ChatInv, NEW c \in Calls, CreateTask(c)
    PROVE  ChatInv'
<1>. USE DEF agentVars
<1>0. PageTyped /\ CallsTyped /\ StreamsTyped /\ AgentTyped /\ MishapsTyped
  BY DEF ChatInv, ChatTyped
<1>1. PICK t \in Tasks : created' = created \cup {t} /\ shown' = t /\ Begin(c, t)
  BY DEF CreateTask
<1>2. /\ pc[c] = "create"
      /\ UNCHANGED <<sending, inits, opening, deleting, answer, steer,
                     session, run, reader, steered, sse>>
      /\ UNCHANGED spoilt \/ Spoils("hasty") \/ Spoils("leave")
  BY DEF CreateTask
<1>3. StreamsTyped' /\ AgentTyped' /\ MishapsTyped'
  BY <1>0, <1>2 DEF StreamsTyped, AgentTyped, MishapsTyped, Spoils, Mishaps
<1>4. t # None
  BY ChatAssumption
<1>5. PageTyped' /\ CallsTyped'
  BY <1>0, <1>1, <1>2, <1>4, BeginTyped DEF PageTyped
<1>6. StreamInv'
  BY <1>0, <1>1, <1>2, NoReaderMoves DEF Begin, At, CallsTyped
<1>. QED BY <1>3, <1>5, <1>6 DEF ChatInv, ChatTyped

LEMMA CreateFailsInv ==
    ASSUME ChatInv, NEW c \in Calls, CreateFails(c)
    PROVE  ChatInv'
<1>. USE DEF agentVars, pageVars
<1>0. PageTyped /\ CallsTyped /\ StreamsTyped /\ AgentTyped /\ MishapsTyped
  BY DEF ChatInv, ChatTyped
<1>1. /\ pc[c] = "create" /\ At(c, "idle") /\ inits' = [inits EXCEPT ![c] = 0]
      /\ Spoils("create")
      /\ UNCHANGED <<shown, sending, ref, status, opening, deleting, task, answer, steer,
                     created, session, run, reader, steered, sse>>
  BY DEF CreateFails, Returns
<1>2. PageTyped' /\ AgentTyped' /\ MishapsTyped'
  BY <1>0, <1>1 DEF PageTyped, AgentTyped, MishapsTyped, Spoils, Mishaps
<1>3. CallsTyped' /\ StreamsTyped'
  BY <1>0, <1>1, ChatAssumption DEF CallsTyped, StreamsTyped, At, Places
<1>4. StreamInv'
  BY <1>0, <1>1, NoReaderMoves DEF At
<1>. QED BY <1>2, <1>3, <1>4 DEF ChatInv, ChatTyped

LEMMA FailTyped ==
    ASSUME PageTyped, CallsTyped, NEW c \in Calls, inits \in [Calls -> 0..MaxRuns], Fail(c)
    PROVE  /\ status' \in [Bubbles -> {"none", "streaming", "asking", "settled"}]
           /\ sending' = FALSE /\ pc' = [pc EXCEPT ![c] = "idle"]
           /\ pc' \in [Calls -> Places]
           /\ inits' = [inits EXCEPT ![c] = 0] /\ inits' \in [Calls -> 0..MaxRuns]
BY MarkTyped, ChatAssumption DEF Fail, Returns, At, CallsTyped, Places

\* A stream begins to be read with nothing in it, and only if its run is new.
LEMMA PostedInv ==
    ASSUME ChatInv, NEW c \in Calls, Posted(c)
    PROVE  ChatInv'
<1>. USE DEF agentVars
<1>0. /\ PageTyped /\ CallsTyped /\ StreamsTyped /\ AgentTyped /\ MishapsTyped
      /\ ReadersRead /\ EndIsLast /\ InitsFit
  BY DEF ChatInv, ChatTyped, StreamInv
<1>1. /\ pc[c] = "post" /\ task[c] \in Tasks
      /\ UNCHANGED <<shown, ref, opening, deleting, task, answer, steer, created,
                     session, steered, sse, spoilt>>
  BY <1>0 DEF Posted, CallsTyped
<1>2. CASE Fail(c) /\ UNCHANGED <<run, reader>>
  <2>1. PageTyped' /\ CallsTyped' /\ StreamsTyped' /\ AgentTyped' /\ MishapsTyped'
    BY <1>0, <1>1, <1>2, FailTyped
    DEF PageTyped, CallsTyped, StreamsTyped, AgentTyped, MishapsTyped
  <2>2. StreamInv'
    BY <1>0, <1>1, <1>2, NoReaderMoves DEF Fail, Returns, At
  <2>. QED BY <2>1, <2>2 DEF ChatInv, ChatTyped
<1>3. CASE ~(Fail(c) /\ UNCHANGED <<run, reader>>)
  <2>1. /\ At(c, "read") /\ UNCHANGED <<status, sending, inits>>
        /\ \/ UNCHANGED <<run, reader>>
           \/ /\ run[task[c]] = "none" /\ run' = [run EXCEPT ![task[c]] = "new"]
              /\ reader' = [reader EXCEPT ![task[c]] = c]
    BY <1>3 DEF Posted
  <2>2. PageTyped' /\ CallsTyped' /\ StreamsTyped' /\ AgentTyped' /\ MishapsTyped'
    <3>1. PageTyped' /\ StreamsTyped' /\ MishapsTyped'
      BY <1>0, <1>1, <2>1 DEF PageTyped, StreamsTyped, MishapsTyped
    <3>2. CallsTyped'
      BY <1>0, <1>1, <2>1 DEF CallsTyped, At, Places
    <3>3. AgentTyped'
      BY <1>0, <1>1, <2>1 DEF AgentTyped, Phases
    <3>. QED BY <3>1, <3>2, <3>3
  <2>3. \A t \in Tasks : reader[t] # c
    BY <1>0, <1>1, IdleIsNoReader
  <2>4. ReadersRead'
    BY <1>0, <1>1, <2>1, <2>3 DEF ReadersRead, CallsTyped, AgentTyped, At
  <2>5. EndIsLast'
    <3>1. \A d \in Calls : pc'[d] # "read" => sse[d] = <<>>
      BY <1>0, <2>1 DEF EndIsLast, CallsTyped, At
    <3>2. \A d \in Calls : d # c => ((\A t \in Tasks : reader[t] # d) => \A t \in Tasks : reader'[t] # d)
      BY <1>0, <1>1, <2>1 DEF AgentTyped
    <3>3. sse[c] = <<>> /\ sse' = sse
      BY <1>0, <1>1 DEF EndIsLast
    <3>4. \A d \in Calls : \A i \in 1..Len(sse[d]) :
            sse[d][i] \in Ends => i = Len(sse[d]) /\ \A t \in Tasks : reader'[t] # d
      <4>. SUFFICES ASSUME NEW d \in Calls, NEW i \in 1..Len(sse[d]), sse[d][i] \in Ends
                    PROVE  i = Len(sse[d]) /\ \A t \in Tasks : reader'[t] # d
        OBVIOUS
      <4>1. d # c
        BY <3>3
      <4>. QED BY <4>1, <3>2, <1>0 DEF EndIsLast
    <3>. QED BY <3>1, <3>3, <3>4 DEF EndIsLast
  <2>6. InitsFit'
    BY <1>0, <1>1, <2>1 DEF InitsFit, InitsAt
  <2>. QED BY <2>2, <2>4, <2>5, <2>6 DEF ChatInv, ChatTyped, StreamInv
<1>. QED BY <1>2, <1>3

-----------------------------------------------------------------------------
(* Reading a stream                                                        *)

LEMMA HeadAndTail ==
    ASSUME NEW s \in Seq(Events), s # <<>>
    PROVE  /\ Head(s) \in Events /\ Head(s) = s[1] /\ Len(s) \in Nat \ {0}
           /\ Tail(s) \in Seq(Events) /\ Len(Tail(s)) = Len(s) - 1
           /\ \A i \in 1..Len(Tail(s)) : Tail(s)[i] = s[i + 1]
           /\ Len(s) = 1 => Tail(s) = <<>>
<1>1. Head(s) \in Events /\ Head(s) = s[1] /\ Len(s) \in Nat \ {0}
  OBVIOUS
<1>2. Tail(s) \in Seq(Events) /\ Len(Tail(s)) = Len(s) - 1
  OBVIOUS
<1>3. \A i \in 1..Len(Tail(s)) : Tail(s)[i] = s[i + 1]
  OBVIOUS
<1>4. Len(s) = 1 => Tail(s) = <<>>
  <2>1. \A u \in Seq(Events) : (u # <<>>) => (Len(u) \in Nat \ {0})
    BY EmptySeq
  <2>. DEFINE u == Tail(s)
  <2>2. u \in Seq(Events) /\ (Len(s) = 1 => Len(u) = 0)
    BY <1>1, <1>2
  <2>. HIDE DEF u
  <2>3. Len(s) = 1 => u = <<>>
    BY <2>1, <2>2
  <2>. QED BY <2>3 DEF u
<1>. QED BY <1>1, <1>2, <1>3, <1>4

\* A call that has events waiting reads, and reads what is first.
LEMMA HeadOfStream ==
    ASSUME ChatInv, NEW c \in Calls, sse[c] # <<>>
    PROVE  /\ pc[c] = "read" /\ sse[c] \in Seq(Events) /\ Head(sse[c]) \in Events
           /\ Head(sse[c]) = sse[c][1] /\ Len(sse[c]) \in Nat \ {0}
           /\ Head(sse[c]) \in Ends => Tail(sse[c]) = <<>> /\ \A t \in Tasks : reader[t] # c
<1>1. pc[c] = "read" /\ sse[c] \in Seq(Events)
  BY DEF ChatInv, ChatTyped, StreamsTyped, StreamInv, EndIsLast
<1>2. /\ Head(sse[c]) \in Events /\ Head(sse[c]) = sse[c][1] /\ Len(sse[c]) \in Nat \ {0}
      /\ Len(sse[c]) = 1 => Tail(sse[c]) = <<>>
  BY <1>1, HeadAndTail
<1>3. ASSUME Head(sse[c]) \in Ends PROVE Tail(sse[c]) = <<>> /\ \A t \in Tasks : reader[t] # c
  <2>1. 1 \in 1..Len(sse[c]) /\ sse[c][1] \in Ends
    BY <1>2, <1>3
  <2>2. \A i \in 1..Len(sse[c]) :
          sse[c][i] \in Ends => i = Len(sse[c]) /\ \A t \in Tasks : reader[t] # c
    BY DEF ChatInv, StreamInv, EndIsLast
  <2>. QED BY <1>2, <2>1, <2>2
<1>. QED BY <1>1, <1>2, <1>3

\* What each event does, in the parts of the state it may touch.
LEMMA ReadEventDoes ==
    ASSUME ChatInv, NEW c \in Calls, ReadEvent(c)
    PROVE  /\ sse[c] # <<>> /\ sse' = [sse EXCEPT ![c] = Tail(@)]
           /\ UNCHANGED <<shown, opening, deleting, task, answer, steer, created,
                          session, run, reader, steered>>
           /\ UNCHANGED spoilt \/ Spoils("late")
           /\ answer.at # "none" /\ answer.msg = Active(c) => Spoils("late")
           /\ IF Head(sse[c]) \in Ends
              THEN pc' = [pc EXCEPT ![c] = "closing"] /\ sending' = FALSE
              ELSE UNCHANGED <<pc, sending>>
           /\ inits' = IF Head(sse[c]) = "init" THEN [inits EXCEPT ![c] = @ + 1] ELSE inits
           /\ \/ Head(sse[c]) = "init" /\ inits[c] = 0 /\ UNCHANGED <<status, ref>>
              \/ /\ Head(sse[c]) = "init" /\ inits[c] # 0 /\ ref' = <<c, inits[c] + 1>>
                 /\ status' = [status EXCEPT ![<<c, inits[c] + 1>>] = "streaming"]
              \/ Head(sse[c]) = "prompt" /\ Mark(Active(c), "asking") /\ UNCHANGED ref
              \/ /\ Head(sse[c]) \notin {"init", "prompt"} /\ UNCHANGED ref
                 /\ \E s \in {"none", "settled"} : Mark(Active(c), s)
<1>. USE DEF agentVars
<1>1. Head(sse[c]) \in Events
  BY HeadOfStream DEF ReadEvent
<1>2. /\ sse[c] # <<>> /\ sse' = [sse EXCEPT ![c] = Tail(@)]
      /\ UNCHANGED <<shown, opening, deleting, task, answer, steer, created,
                     session, run, reader, steered>>
      /\ UNCHANGED spoilt \/ Spoils("late")
      /\ answer.at # "none" /\ answer.msg = Active(c) => Spoils("late")
      /\ \/ Head(sse[c]) = "init" /\ ReadInit(c)
         \/ Head(sse[c]) = "prompt" /\ ReadPrompt(c)
         \/ Head(sse[c]) \in {"result", "aborted"} /\ ReadResult(c, Head(sse[c]))
         \/ Head(sse[c]) \in Ends /\ ReadEnd(c)
  BY DEF ReadEvent, Ends
<1>3. CASE Head(sse[c]) = "init" /\ ReadInit(c)
  BY <1>2, <1>3 DEF ReadInit, Ends
<1>4. CASE Head(sse[c]) = "prompt" /\ ReadPrompt(c)
  BY <1>2, <1>4 DEF ReadPrompt, Ends
<1>5. CASE Head(sse[c]) \in {"result", "aborted"} /\ ReadResult(c, Head(sse[c]))
  BY <1>2, <1>5 DEF ReadResult, Ends
<1>6. CASE Head(sse[c]) \in Ends /\ ReadEnd(c)
  BY <1>2, <1>6 DEF ReadEnd, At, Ends
<1>. QED BY <1>2, <1>3, <1>4, <1>5, <1>6

LEMMA ReadEventStreams ==
    ASSUME ChatInv, NEW c \in Calls, ReadEvent(c)
    PROVE  StreamInv' /\ StreamsTyped'
<1>. DEFINE s == sse[c]
            e == Head(s)
            u == Tail(s)
<1>0. /\ CallsTyped /\ StreamsTyped /\ AgentTyped /\ ReadersRead /\ EndIsLast /\ InitsFit
  BY DEF ChatInv, ChatTyped, StreamInv
<1>1. /\ s # <<>> /\ sse' = [sse EXCEPT ![c] = u] /\ UNCHANGED <<task, run, reader>>
      /\ IF e \in Ends THEN pc' = [pc EXCEPT ![c] = "closing"] ELSE UNCHANGED pc
      /\ inits' = IF e = "init" THEN [inits EXCEPT ![c] = @ + 1] ELSE inits
  BY ReadEventDoes
<1>2. /\ pc[c] = "read" /\ s \in Seq(Events) /\ e \in Events
      /\ e \in Ends => u = <<>> /\ \A t \in Tasks : reader[t] # c
  BY <1>1, HeadOfStream
<1>3. /\ u \in Seq(Events) /\ Len(u) = Len(s) - 1 /\ Len(s) \in Nat
      /\ \A i \in 1..Len(u) : u[i] = s[i + 1]
  BY <1>1, <1>2, HeadAndTail
<1>4. Cardinality(InitsAt(u)) + (IF e = "init" THEN 1 ELSE 0) <= Cardinality(InitsAt(s))
  BY <1>1, <1>2, InitsOfTail
<1>5. Cardinality(InitsAt(u)) \in Nat /\ Cardinality(InitsAt(s)) \in Nat
  BY <1>2, <1>3, InitsAreFinite
<1>6. inits[c] \in Nat /\ inits[c] + Cardinality(InitsAt(s)) <= MaxRuns
  BY <1>0 DEF StreamsTyped, InitsFit
<1>. HIDE DEF s, e, u
<1>7. /\ \A d \in Calls : d # c => sse'[d] = sse[d] /\ inits'[d] = inits[d] /\ pc'[d] = pc[d]
      /\ sse'[c] = u /\ inits'[c] = IF e = "init" THEN inits[c] + 1 ELSE inits[c]
      /\ pc'[c] = IF e \in Ends THEN "closing" ELSE "read"
  BY <1>0, <1>1, <1>2 DEF CallsTyped, StreamsTyped
<1>8. StreamsTyped'
  <2>1. inits'[c] \in 0..MaxRuns
    BY <1>4, <1>5, <1>6, <1>7, ChatAssumption
  <2>2. inits' \in [Calls -> 0..MaxRuns]
    BY <1>0, <1>1, <1>7, <2>1 DEF StreamsTyped
  <2>3. sse' \in [Calls -> Seq(Events)]
    BY <1>0, <1>1, <1>3 DEF StreamsTyped
  <2>. QED BY <2>2, <2>3 DEF StreamsTyped
<1>9. ReadersRead'
  BY <1>0, <1>1, <1>2, <1>7 DEF ReadersRead, AgentTyped
<1>10. EndIsLast'
  <2>1. \A d \in Calls : pc'[d] # "read" => sse'[d] = <<>>
    BY <1>0, <1>2, <1>7 DEF EndIsLast
  <2>2. \A d \in Calls : d # c => \A i \in 1..Len(sse'[d]) :
          sse'[d][i] \in Ends => i = Len(sse'[d]) /\ \A t \in Tasks : reader[t] # d
    BY <1>0, <1>7 DEF EndIsLast
  <2>3. ASSUME NEW i \in 1..Len(u), u[i] \in Ends
        PROVE  i = Len(u) /\ \A t \in Tasks : reader[t] # c
    <3>1. i + 1 \in 1..Len(s) /\ s[i + 1] \in Ends
      BY <1>3, <2>3
    <3>2. i + 1 = Len(s) /\ \A t \in Tasks : reader[t] # c
      BY <1>0, <3>1 DEF EndIsLast, s
    <3>. QED BY <1>3, <3>2
  <2>4. \A d \in Calls : \A i \in 1..Len(sse'[d]) :
          sse'[d][i] \in Ends => i = Len(sse'[d]) /\ \A t \in Tasks : reader[t] # d
    BY <1>7, <2>2, <2>3
  <2>. QED BY <1>1, <2>1, <2>4 DEF EndIsLast
<1>11. InitsFit'
  <2>1. inits'[c] + Cardinality(InitsAt(sse'[c])) <= MaxRuns
    BY <1>4, <1>5, <1>6, <1>7, ChatAssumption
  <2>2. \A d \in Calls : inits'[d] + Cardinality(InitsAt(sse'[d])) <= MaxRuns
    BY <1>0, <1>7, <2>1 DEF InitsFit
  <2>. QED BY <2>2 DEF InitsFit, InitsAt
<1>. QED BY <1>8, <1>9, <1>10, <1>11 DEF StreamInv

LEMMA ReadEventInv ==
    ASSUME ChatInv, NEW c \in Calls, ReadEvent(c)
    PROVE  ChatInv'
<1>0. PageTyped /\ CallsTyped /\ StreamsTyped /\ AgentTyped /\ MishapsTyped
  BY DEF ChatInv, ChatTyped
<1>1. StreamInv' /\ StreamsTyped'
  BY ReadEventStreams
<1>2. /\ sse[c] # <<>>
      /\ UNCHANGED <<shown, opening, deleting, task, answer, steer, created,
                     session, run, reader, steered>>
      /\ UNCHANGED spoilt \/ Spoils("late")
      /\ IF Head(sse[c]) \in Ends
         THEN pc' = [pc EXCEPT ![c] = "closing"] /\ sending' = FALSE
         ELSE UNCHANGED <<pc, sending>>
  BY ReadEventDoes
<1>3. pc[c] = "read"
  BY <1>2, HeadOfStream
<1>4. AgentTyped' /\ MishapsTyped'
  BY <1>0, <1>2 DEF AgentTyped, MishapsTyped, Spoils, Mishaps
<1>5. CallsTyped'
  BY <1>0, <1>2, <1>3 DEF CallsTyped, Places
<1>6. Head(sse[c]) = "init" /\ inits[c] # 0 => <<c, inits[c] + 1>> \in Bubbles
  <2>. HAVE Head(sse[c]) = "init" /\ inits[c] # 0
  <2>1. inits' = [inits EXCEPT ![c] = @ + 1]
    BY ReadEventDoes
  <2>2. inits[c] + 1 \in 1..MaxRuns
    BY <1>0, <1>1, <2>1, ChatAssumption DEF StreamsTyped
  <2>. QED BY <2>2 DEF Bubbles
<1>7. ref' \in Bubbles \cup {None}
  BY <1>0, <1>6, ReadEventDoes DEF PageTyped
<1>8. status' \in [Bubbles -> {"none", "streaming", "asking", "settled"}]
  <2>1. \/ UNCHANGED status
        \/ <<c, inits[c] + 1>> \in Bubbles /\ status' = [status EXCEPT ![<<c, inits[c] + 1>>] = "streaming"]
        \/ \E s \in {"none", "asking", "settled"} : Mark(Active(c), s)
    BY <1>6, ReadEventDoes
  <2>. QED BY <1>0, <2>1, MarkTyped DEF PageTyped
<1>9. PageTyped'
  BY <1>0, <1>2, <1>7, <1>8 DEF PageTyped
<1>. QED BY <1>1, <1>4, <1>5, <1>9 DEF ChatInv, ChatTyped

\* A call that stops reading leaves its stream, and its run, unread.
LEMMA ReaderStops ==
    ASSUME ChatInv, NEW c \in Calls, pc' = [pc EXCEPT ![c] = "idle"],
           inits' = [inits EXCEPT ![c] = 0], sse' = [sse EXCEPT ![c] = <<>>],
           reader' = [t \in Tasks |-> IF reader[t] = c THEN None ELSE reader[t]],
           UNCHANGED <<task, run, session, steered>>
    PROVE  StreamInv' /\ CallsTyped' /\ StreamsTyped' /\ AgentTyped'
<1>0. /\ CallsTyped /\ StreamsTyped /\ AgentTyped /\ ReadersRead /\ EndIsLast /\ InitsFit
  BY DEF ChatInv, ChatTyped, StreamInv
<1>1. \A t \in Tasks : reader'[t] # None => reader'[t] = reader[t] /\ reader[t] # c
  BY <1>0 DEF AgentTyped
<1>2. /\ \A d \in Calls : d # c => sse'[d] = sse[d] /\ inits'[d] = inits[d] /\ pc'[d] = pc[d]
      /\ sse'[c] = <<>> /\ inits'[c] = 0 /\ pc'[c] = "idle"
  BY <1>0 DEF CallsTyped, StreamsTyped
<1>3. CallsTyped'
  BY <1>0 DEF CallsTyped, Places
<1>4. StreamsTyped'
  <2>1. 0 \in 0..MaxRuns /\ <<>> \in Seq(Events)
    BY ChatAssumption, EmptySeq
  <2>. QED BY <1>0, <2>1 DEF StreamsTyped
<1>5. AgentTyped'
  BY <1>0 DEF AgentTyped
<1>6. ReadersRead'
  <2>1. \A t \in Tasks : reader'[t] # None => pc'[reader'[t]] = "read" /\ task'[reader'[t]] = t
    <3>. SUFFICES ASSUME NEW t \in Tasks, reader'[t] # None
                  PROVE  pc'[reader'[t]] = "read" /\ task'[reader'[t]] = t
      OBVIOUS
    <3>1. reader'[t] = reader[t] /\ reader[t] # c /\ reader[t] \in Calls
      BY <1>0, <1>1 DEF AgentTyped
    <3>. QED BY <1>0, <1>2, <3>1 DEF ReadersRead
  <2>2. \A t \in Tasks : run'[t] = "none" => reader'[t] = None
    BY <1>0, <1>1 DEF ReadersRead
  <2>. QED BY <2>1, <2>2 DEF ReadersRead
<1>7. EndIsLast'
  <2>1. \A d \in Calls : pc'[d] # "read" => sse'[d] = <<>>
    BY <1>0, <1>2 DEF EndIsLast
  <2>2. \A d \in Calls : (\A t \in Tasks : reader[t] # d) => \A t \in Tasks : reader'[t] # d
    BY <1>0, ChatAssumption DEF AgentTyped
  <2>3. \A d \in Calls : d # c => \A i \in 1..Len(sse'[d]) :
          sse'[d][i] \in Ends => i = Len(sse'[d]) /\ \A t \in Tasks : reader'[t] # d
    BY <1>0, <1>2, <2>2 DEF EndIsLast
  <2>4. \A i \in 1..Len(sse'[c]) : FALSE
    BY <1>2
  <2>. QED BY <2>1, <2>3, <2>4 DEF EndIsLast
<1>8. InitsFit'
  <2>1. inits'[c] + Cardinality(InitsAt(sse'[c])) <= MaxRuns
    BY <1>2, NoInits, ChatAssumption
  <2>2. \A d \in Calls : inits'[d] + Cardinality(InitsAt(sse'[d])) <= MaxRuns
    BY <1>0, <1>2, <2>1 DEF InitsFit
  <2>. QED BY <2>2 DEF InitsFit, InitsAt
<1>. QED BY <1>3, <1>4, <1>5, <1>6, <1>7, <1>8 DEF StreamInv

LEMMA StreamEndsInv ==
    ASSUME ChatInv, NEW c \in Calls, StreamEnds(c)
    PROVE  ChatInv'
<1>. USE DEF agentVars, pageVars
<1>0. PageTyped /\ CallsTyped /\ StreamsTyped /\ AgentTyped /\ MishapsTyped /\ ReadersRead
  BY DEF ChatInv, ChatTyped, StreamInv
<1>1. /\ pc' = [pc EXCEPT ![c] = "idle"] /\ inits' = [inits EXCEPT ![c] = 0]
      /\ sse[c] = <<>> /\ reader[task[c]] # c /\ pc[c] \in {"read", "closing"}
      /\ UNCHANGED <<shown, sending, ref, status, opening, deleting, task, answer, steer,
                     created, session, run, reader, steered, sse>>
      /\ UNCHANGED spoilt \/ Spoils("cut")
  BY DEF StreamEnds, Returns, At
<1>2. sse' = [sse EXCEPT ![c] = <<>>]
  BY <1>0, <1>1 DEF StreamsTyped
<1>3. \A t \in Tasks : reader[t] # c
  BY <1>0, <1>1, ChatAssumption DEF ReadersRead
<1>4. reader' = [t \in Tasks |-> IF reader[t] = c THEN None ELSE reader[t]]
  BY <1>0, <1>1, <1>3 DEF AgentTyped
<1>5. StreamInv' /\ CallsTyped' /\ StreamsTyped' /\ AgentTyped'
  BY <1>1, <1>2, <1>4, ReaderStops
<1>6. PageTyped' /\ MishapsTyped'
  BY <1>0, <1>1 DEF PageTyped, MishapsTyped, Spoils, Mishaps
<1>. QED BY <1>5, <1>6 DEF ChatInv, ChatTyped

LEMMA StreamBreaksInv ==
    ASSUME ChatInv, NEW c \in Calls, StreamBreaks(c)
    PROVE  ChatInv'
<1>0. PageTyped /\ CallsTyped /\ StreamsTyped /\ AgentTyped /\ MishapsTyped
  BY DEF ChatInv, ChatTyped
<1>1. /\ Fail(c) /\ sse' = [sse EXCEPT ![c] = <<>>]
      /\ reader' = [t \in Tasks |-> IF reader[t] = c THEN None ELSE reader[t]]
      /\ Spoils("break")
      /\ UNCHANGED <<shown, ref, opening, deleting, task, answer, steer, created,
                     session, run, steered>>
  BY DEF StreamBreaks
<1>2. /\ status' \in [Bubbles -> {"none", "streaming", "asking", "settled"}]
      /\ sending' = FALSE /\ pc' = [pc EXCEPT ![c] = "idle"] /\ inits' = [inits EXCEPT ![c] = 0]
  BY <1>0, <1>1, FailTyped DEF StreamsTyped
<1>3. StreamInv' /\ CallsTyped' /\ StreamsTyped' /\ AgentTyped'
  BY <1>1, <1>2, ReaderStops
<1>4. PageTyped' /\ MishapsTyped'
  BY <1>0, <1>1, <1>2 DEF PageTyped, MishapsTyped, Spoils, Mishaps
<1>. QED BY <1>3, <1>4 DEF ChatInv, ChatTyped

-----------------------------------------------------------------------------
(* The agent                                                               *)

\* An event is put behind the others, of which none was the last; after the
\* last the stream is nobody's.
LEMMA SendsInv ==
    ASSUME ChatInv, NEW t \in Tasks, NEW e \in Events, NEW p \in Phases,
           Sends(t, e), run' = [run EXCEPT ![t] = p], UNCHANGED <<pc, task, inits>>,
           e = "init" => Started(t) < MaxRuns,
           IF e \in Ends THEN reader' = [reader EXCEPT ![t] = None] ELSE p # "none" /\ UNCHANGED reader
    PROVE  StreamInv' /\ CallsTyped' /\ StreamsTyped'
<1>0. /\ CallsTyped /\ StreamsTyped /\ AgentTyped /\ ReadersRead /\ EndIsLast /\ InitsFit
  BY DEF ChatInv, ChatTyped, StreamInv
<1>1. /\ CallsTyped'
      /\ \A k \in Tasks : reader'[k] # None => reader'[k] = reader[k] /\ (e \in Ends => k # t)
      /\ \A d \in Calls : (\A k \in Tasks : reader[k] # d) => \A k \in Tasks : reader'[k] # d
  BY <1>0, ChatAssumption DEF CallsTyped, AgentTyped
<1>2. ReadersRead'
  <2>1. \A k \in Tasks : reader'[k] # None => pc'[reader'[k]] = "read" /\ task'[reader'[k]] = k
    BY <1>0, <1>1 DEF ReadersRead
  <2>2. \A k \in Tasks : run'[k] = "none" => reader'[k] = None
    BY <1>0 DEF ReadersRead, AgentTyped
  <2>. QED BY <2>1, <2>2 DEF ReadersRead
<1>3. CASE reader[t] = None
  <2>1. UNCHANGED sse
    BY <1>3 DEF Sends
  <2>2. StreamsTyped' /\ EndIsLast' /\ InitsFit'
    BY <1>0, <1>1, <2>1 DEF StreamsTyped, EndIsLast, InitsFit, InitsAt
  <2>. QED BY <1>1, <1>2, <2>2 DEF StreamInv
<1>4. CASE reader[t] # None
  <2>. DEFINE c == reader[t]
              s == sse[c]
              u == Append(s, e)
  <2>1. /\ c \in Calls /\ s \in Seq(Events) /\ pc[c] = "read" /\ task[c] = t
        /\ sse' = [sse EXCEPT ![c] = u]
    BY <1>0, <1>4 DEF AgentTyped, StreamsTyped, ReadersRead, Sends
  <2>2. /\ u \in Seq(Events) /\ Len(u) = Len(s) + 1 /\ Len(s) \in Nat
        /\ u[Len(s) + 1] = e /\ \A i \in 1..Len(s) : u[i] = s[i]
    BY <2>1
  <2>3. \A i \in 1..Len(s) : s[i] \notin Ends
    BY <1>0, <2>1 DEF EndIsLast
  <2>4. /\ Cardinality(InitsAt(u)) = Cardinality(InitsAt(s)) + (IF e = "init" THEN 1 ELSE 0)
        /\ Cardinality(InitsAt(s)) \in Nat /\ inits[c] \in Nat
        /\ inits[c] + Cardinality(InitsAt(s)) <= MaxRuns
    BY <1>0, <2>1, InitsOfAppend, InitsAreFinite DEF InitsFit, StreamsTyped
  <2>5. e = "init" => inits[c] + Cardinality(InitsAt(s)) < MaxRuns
    <3>1. InitsAt(s) = {i \in DOMAIN s : s[i] = "init"}
      BY <2>1 DEF InitsAt
    <3>. QED BY <1>4, <3>1 DEF Started
  <2>6. e \in Ends => \A k \in Tasks : reader'[k] # c
    BY <1>0, <1>1, <1>4, <2>1 DEF ReadersRead
  <2>. HIDE DEF c, s, u
  <2>7. (\A d \in Calls : d # c => sse'[d] = sse[d]) /\ sse'[c] = u
    BY <1>0, <2>1 DEF StreamsTyped
  <2>8. StreamsTyped'
    BY <1>0, <2>1, <2>2 DEF StreamsTyped
  <2>9. EndIsLast'
    <3>1. \A d \in Calls : pc'[d] # "read" => sse'[d] = <<>>
      BY <1>0, <2>1, <2>7 DEF EndIsLast
    <3>2. \A d \in Calls : d # c => \A i \in 1..Len(sse'[d]) :
            sse'[d][i] \in Ends => i = Len(sse'[d]) /\ \A k \in Tasks : reader'[k] # d
      BY <1>0, <1>1, <2>7 DEF EndIsLast
    <3>3. \A i \in 1..Len(u) : u[i] \in Ends => i = Len(u) /\ \A k \in Tasks : reader'[k] # c
      BY <2>2, <2>3, <2>6
    <3>. QED BY <2>7, <3>1, <3>2, <3>3 DEF EndIsLast
  <2>10. InitsFit'
    <3>1. inits[c] + Cardinality(InitsAt(sse'[c])) <= MaxRuns
      BY <2>4, <2>5, <2>7, ChatAssumption
    <3>2. \A d \in Calls : inits[d] + Cardinality(InitsAt(sse'[d])) <= MaxRuns
      BY <1>0, <2>7, <3>1 DEF InitsFit
    <3>. QED BY <3>2 DEF InitsFit, InitsAt
  <2>. QED BY <1>1, <1>2, <2>8, <2>9, <2>10 DEF StreamInv
<1>. QED BY <1>3, <1>4

\* With nobody to read it, a run goes on; its stream is empty or will be.
LEMMA AgentIsCutInv ==
    ASSUME ChatInv, NEW t \in Tasks, AgentIsCut(t), UNCHANGED callVars
    PROVE  StreamInv' /\ CallsTyped' /\ StreamsTyped' /\ AgentTyped'
<1>. USE DEF AgentIsCut, callVars
<1>0. /\ CallsTyped /\ StreamsTyped /\ AgentTyped /\ ReadersRead /\ EndIsLast /\ InitsFit
  BY DEF ChatInv, ChatTyped, StreamInv
<1>1. CallsTyped' /\ StreamsTyped' /\ AgentTyped'
  BY <1>0 DEF CallsTyped, StreamsTyped, AgentTyped
<1>2. /\ \A k \in Tasks : reader'[k] # None => reader'[k] = reader[k]
      /\ \A d \in Calls : (\A k \in Tasks : reader[k] # d) => \A k \in Tasks : reader'[k] # d
  BY <1>0, ChatAssumption DEF AgentTyped
<1>3. ReadersRead'
  BY <1>0, <1>2 DEF ReadersRead
<1>4. EndIsLast' /\ InitsFit'
  BY <1>0, <1>2 DEF EndIsLast, InitsFit, InitsAt
<1>. QED BY <1>1, <1>3, <1>4 DEF StreamInv

LEMMA AgentInv ==
    ASSUME ChatInv, NEW t \in Tasks, Agent(t)
    PROVE  ChatInv'
<1>. USE DEF pageVars, callVars
<1>0. PageTyped /\ CallsTyped /\ StreamsTyped /\ AgentTyped /\ MishapsTyped
  BY DEF ChatInv, ChatTyped
<1>1. PageTyped' /\ MishapsTyped' /\ UNCHANGED <<pc, task, inits>>
  BY <1>0 DEF Agent, PageTyped, MishapsTyped
<1>2. AgentTyped'
  BY <1>0 DEF Agent, AgentStarts, AgentAsks, AgentRests, AgentEnds, AgentIsCut, Goes,
              AgentTyped, PageTyped, Phases
<1>3. StreamInv' /\ CallsTyped' /\ StreamsTyped'
  <2>1. CASE AgentStarts(t)
    BY <1>1, <2>1, SendsInv DEF AgentStarts, Goes, Events, Ends, Phases
  <2>2. CASE AgentAsks(t)
    BY <1>1, <2>2, SendsInv DEF AgentAsks, Goes, Events, Ends, Phases
  <2>3. CASE AgentRests(t)
    BY <1>1, <2>3, SendsInv DEF AgentRests, Goes, Events, Ends, Phases
  <2>4. CASE AgentEnds(t)
    BY <1>1, <2>4, SendsInv DEF AgentEnds, Goes, Events, Ends, Phases
  <2>5. CASE AgentIsCut(t)
    BY <1>1, <2>5, AgentIsCutInv
  <2>. QED BY <2>1, <2>2, <2>3, <2>4, <2>5 DEF Agent
<1>. QED BY <1>1, <1>2, <1>3 DEF ChatInv, ChatTyped

-----------------------------------------------------------------------------
LEMMA ChatNextTyped == ChatInv /\ [Next]_chatVars => ChatInv'
<1>. SUFFICES ASSUME ChatInv, [Next]_chatVars PROVE ChatInv'
  OBVIOUS
<1>1. ASSUME NEW c \in Calls, SendMessage(c) \/ CreateTask(c) \/ CreateFails(c) \/ Posted(c)
      PROVE  ChatInv'
  BY <1>1, SendMessageInv, CreateTaskInv, CreateFailsInv, PostedInv
<1>2. ASSUME NEW c \in Calls, Reads(c) \/ StreamBreaks(c)
      PROVE  ChatInv'
  BY <1>2, ReadEventInv, StreamEndsInv, StreamBreaksInv DEF Reads
<1>3. ASSUME NEW t \in Tasks, Open(t) \/ Opened(t) \/ OpenFails(t) \/ Agent(t)
      PROVE  ChatInv'
  BY <1>3, OpenInv, AgentInv
<1>4. CASE DeleteTask \/ Deleted
  BY <1>4, DeleteInv
<1>5. CASE (\E b \in Bubbles : Approve(b)) \/ Responded \/ SendSteer
  BY <1>5, DecisionInv
<1>6. CASE Respond \/ SteerMessage
  BY <1>6, ToldInv
<1>7. CASE UNCHANGED chatVars
  <2>1. StreamInv'
    BY <1>7, StreamsLeftAlone DEF ChatInv, chatVars, callVars, agentVars, streamVars
  <2>2. ChatTyped'
    BY <1>7 DEF ChatInv, ChatTyped, PageTyped, CallsTyped, StreamsTyped, AgentTyped, MishapsTyped,
                chatVars, pageVars, callVars, agentVars
  <2>. QED BY <2>1, <2>2 DEF ChatInv
<1>. QED BY <1>1, <1>2, <1>3, <1>4, <1>5, <1>6, <1>7 DEF Next

LEMMA ChatInvHolds == ChatSpec => []ChatInv
BY ChatInitTyped, ChatNextTyped, PTL DEF ChatSpec

LEMMA TypesAreAll == ChatInv => TypeOK
BY DEF ChatInv, ChatTyped, TypeOK, PageTyped, CallsTyped, StreamsTyped, AgentTyped, MishapsTyped

\* The page and the streams keep their types, with any number of tasks, calls
\* and mishaps: a stream never has more runs than there are bubbles for, and a
\* call that has a stream has a task (useChat.ts, ChatPage.tsx).
THEOREM ChatTypeCorrect == ChatSpec => []TypeOK
BY ChatInvHolds, TypesAreAll, PTL

-----------------------------------------------------------------------------
(* One stream, read while the page is sending                              *)

\* At most one call is on its way to the end of a stream, and it is the one the
\* page is sending for; it awaits a task exactly if none is shown.
Alone ==
    /\ \A c, d \in Live : c = d
    /\ \A c \in Live : sending /\ (pc[c] = "create" <=> shown = None)

LiveInv == Harmed({"leave", "hasty", "break"}) \/ Alone

\* What has gone wrong is forgotten only when the page is calm.
LEMMA HarmStays ==
    ASSUME NEW ms, Harmed(ms), (\E m : Spoils(m)) \/ UNCHANGED spoilt
    PROVE  Harmed(ms)'
BY DEF Harmed, Spoils

LEMMA SpoilsHarms ==
    ASSUME NEW ms, NEW m \in ms, Spoils(m)
    PROVE  Harmed(ms)'
BY DEF Harmed, Spoils

\* Steps that leave calls and page alone.
LEMMA AloneStays ==
    ASSUME LiveInv, (\E m : Spoils(m)) \/ UNCHANGED spoilt,
           UNCHANGED <<pc, sending, shown>>
    PROVE  LiveInv'
<1>1. CASE Harmed({"leave", "hasty", "break"})
  BY <1>1, HarmStays DEF LiveInv
<1>2. CASE Alone
  BY <1>2 DEF LiveInv, Alone, Live
<1>. QED BY <1>1, <1>2 DEF LiveInv

LEMMA LiveSendMessage ==
    ASSUME ChatInv, LiveInv, NEW c \in Calls, SendMessage(c)
    PROVE  LiveInv'
<1>1. /\ pc[c] = "idle" /\ ~Steers /\ sending' = TRUE /\ UNCHANGED shown
      /\ pc' = [pc EXCEPT ![c] = IF shown = None THEN "create" ELSE "post"]
      /\ IF \E d \in Calls : pc[d] = "create" THEN Spoils("hasty") ELSE UNCHANGED spoilt
  BY DEF SendMessage, Unused, HasTask, Begin, At
<1>2. CASE Harmed({"leave", "hasty", "break"})
  BY <1>1, <1>2, HarmStays DEF LiveInv
<1>3. CASE \E d \in Calls : pc[d] = "create"
  BY <1>1, <1>3, SpoilsHarms DEF LiveInv
<1>4. CASE Alone /\ ~\E d \in Calls : pc[d] = "create"
  <2>1. Live = {}
    BY <1>1, <1>4 DEF Alone, Live, Steers
  <2>2. Live' = {c}
    BY <1>1, <2>1 DEF Live, ChatInv, ChatTyped, CallsTyped
  <2>3. pc'[c] = "create" <=> shown' = None
    BY <1>1 DEF ChatInv, ChatTyped, CallsTyped
  <2>4. Alone'
    BY <1>1, <2>2, <2>3 DEF Alone
  <2>. QED BY <2>4 DEF LiveInv
<1>. QED BY <1>2, <1>3, <1>4 DEF LiveInv

LEMMA LiveCreateTask ==
    ASSUME ChatInv, LiveInv, NEW c \in Calls, CreateTask(c)
    PROVE  LiveInv'
<1>1. /\ pc[c] = "create" /\ pc' = [pc EXCEPT ![c] = "post"] /\ UNCHANGED sending
      /\ shown' \in Tasks /\ shown' # None
      /\ IF shown = None THEN UNCHANGED spoilt ELSE Spoils("hasty") \/ Spoils("leave")
  BY ChatAssumption DEF CreateTask, Begin, At
<1>2. CASE Harmed({"leave", "hasty", "break"})
  BY <1>1, <1>2, HarmStays DEF LiveInv
<1>3. CASE shown # None
  BY <1>1, <1>3, SpoilsHarms DEF LiveInv
<1>4. CASE Alone /\ shown = None
  <2>1. Live = {c} /\ sending
    BY <1>1, <1>4 DEF Alone, Live
  <2>2. Live' = {c} /\ pc'[c] = "post"
    BY <1>1, <2>1 DEF Live, ChatInv, ChatTyped, CallsTyped
  <2>3. Alone'
    BY <1>1, <2>1, <2>2 DEF Alone
  <2>. QED BY <2>3 DEF LiveInv
<1>. QED BY <1>2, <1>3, <1>4 DEF LiveInv

\* A call that leaves Live takes `sending` with it or leaves it; nobody else is there.
LEMMA LiveLeaves ==
    ASSUME ChatInv, LiveInv, NEW c \in Calls, c \in Live \/ UNCHANGED sending,
           NEW p \in {"idle", "closing"}, pc' = [pc EXCEPT ![c] = p],
           (\E m : Spoils(m)) \/ UNCHANGED spoilt, UNCHANGED shown
    PROVE  LiveInv'
<1>1. CASE Harmed({"leave", "hasty", "break"})
  BY <1>1, HarmStays DEF LiveInv
<1>2. CASE Alone
  <2>1. Live' = Live \ {c} /\ \A d \in Live' : pc'[d] = pc[d]
    BY DEF Live, ChatInv, ChatTyped, CallsTyped
  <2>2. CASE c \in Live
    <3>1. Live' = {}
      BY <1>2, <2>1, <2>2 DEF Alone
    <3>. QED BY <3>1 DEF LiveInv, Alone
  <2>3. CASE UNCHANGED sending
    BY <1>2, <2>1, <2>3 DEF LiveInv, Alone
  <2>. QED BY <2>2, <2>3
<1>. QED BY <1>1, <1>2 DEF LiveInv

LEMMA LivePosted ==
    ASSUME ChatInv, LiveInv, NEW c \in Calls, Posted(c)
    PROVE  LiveInv'
<1>1. /\ pc[c] = "post" /\ UNCHANGED <<shown, spoilt>>
      /\ \/ pc' = [pc EXCEPT ![c] = "idle"]
         \/ pc' = [pc EXCEPT ![c] = "read"] /\ UNCHANGED sending
  BY DEF Posted, Fail, Returns, At
<1>2. c \in Live
  BY <1>1 DEF Live
<1>3. CASE pc' = [pc EXCEPT ![c] = "idle"]
  BY <1>1, <1>2, <1>3, LiveLeaves
<1>4. CASE pc' = [pc EXCEPT ![c] = "read"] /\ UNCHANGED sending
  <2>1. CASE Harmed({"leave", "hasty", "break"})
    BY <1>1, <2>1, HarmStays DEF LiveInv
  <2>2. CASE Alone
    <3>1. Live' = Live /\ \A d \in Live : pc'[d] = "create" <=> pc[d] = "create"
      BY <1>1, <1>4 DEF Live, ChatInv, ChatTyped, CallsTyped
    <3>. QED BY <1>1, <1>4, <2>2, <3>1 DEF LiveInv, Alone
  <2>. QED BY <2>1, <2>2 DEF LiveInv
<1>. QED BY <1>1, <1>3, <1>4

LEMMA LiveReads ==
    ASSUME ChatInv, LiveInv, NEW c \in Calls, Reads(c)
    PROVE  LiveInv'
<1>1. CASE ReadEvent(c)
  <2>1. /\ sse[c] # <<>> /\ UNCHANGED shown /\ (Spoils("late") \/ UNCHANGED spoilt)
        /\ \/ pc' = [pc EXCEPT ![c] = "closing"]
           \/ UNCHANGED <<pc, sending>>
    BY <1>1, ReadEventDoes
  <2>2. c \in Live
    BY <2>1, HeadOfStream DEF Live
  <2>3. CASE pc' = [pc EXCEPT ![c] = "closing"]
    BY <2>1, <2>2, <2>3, LiveLeaves
  <2>4. CASE UNCHANGED <<pc, sending>>
    BY <2>1, <2>4, AloneStays
  <2>. QED BY <2>1, <2>3, <2>4
<1>2. CASE StreamEnds(c)
  <2>1. /\ pc' = [pc EXCEPT ![c] = "idle"] /\ UNCHANGED <<shown, sending>>
        /\ Spoils("cut") \/ UNCHANGED spoilt
    BY <1>2 DEF StreamEnds, Returns, At, pageVars
  <2>. QED BY <2>1, LiveLeaves
<1>. QED BY <1>1, <1>2 DEF Reads

\* A page that is turned is calm, with no call under way, or it is harmed.
LEMMA CalmIsIdle ==
    ASSUME ChatInv, Calm
    PROVE  \A c \in Calls : pc[c] = "idle"
BY DEF ChatInv, ChatTyped, CallsTyped, Calm, Live, Places

LEMMA LiveTurns ==
    ASSUME ChatInv, NEW awaited, Turned(awaited), UNCHANGED pc
    PROVE  LiveInv'
<1>1. CASE Spoils("leave")
  BY <1>1, SpoilsHarms DEF LiveInv
<1>2. CASE ~Spoils("leave")
  <2>1. Live' = {}
    BY <1>2, CalmIsIdle DEF Turned, Live
  <2>. QED BY <2>1 DEF LiveInv, Alone
<1>. QED BY <1>1, <1>2

LEMMA LiveNext == ChatInv /\ LiveInv /\ [Next]_chatVars => LiveInv'
<1>. SUFFICES ASSUME ChatInv, LiveInv, [Next]_chatVars PROVE LiveInv'
  OBVIOUS
<1>. USE DEF pageVars, callVars
<1>1. ASSUME NEW c \in Calls, SendMessage(c) \/ CreateTask(c) \/ Posted(c) \/ Reads(c)
      PROVE  LiveInv'
  BY <1>1, LiveSendMessage, LiveCreateTask, LivePosted, LiveReads
<1>2. ASSUME NEW c \in Calls, CreateFails(c)
      PROVE  LiveInv'
  <2>1. /\ pc' = [pc EXCEPT ![c] = "idle"] /\ UNCHANGED <<shown, sending>> /\ Spoils("create")
    BY <1>2 DEF CreateFails, Returns, At
  <2>. QED BY <2>1, LiveLeaves
<1>3. ASSUME NEW c \in Calls, StreamBreaks(c)
      PROVE  LiveInv'
  BY <1>3, SpoilsHarms DEF StreamBreaks, LiveInv
<1>4. ASSUME NEW t \in Tasks, Opened(t)
      PROVE  LiveInv'
  BY <1>4, LiveTurns DEF Opened
<1>5. CASE Deleted
  BY <1>5, LiveTurns DEF Deleted
<1>6. ASSUME NEW t \in Tasks, Open(t) \/ OpenFails(t) \/ Agent(t)
      PROVE  LiveInv'
  BY <1>6, AloneStays DEF Open, OpenFails, Agent
<1>7. CASE DeleteTask \/ (\E b \in Bubbles : Approve(b)) \/ Respond \/ Responded
  BY <1>7, AloneStays DEF DeleteTask, Approve, Respond, Responded
<1>8. CASE SendSteer \/ SteerMessage \/ UNCHANGED chatVars
  BY <1>8, AloneStays DEF SendSteer, SteerMessage, chatVars
<1>. QED BY <1>1, <1>2, <1>3, <1>4, <1>5, <1>6, <1>7, <1>8 DEF Next

LEMMA ChatInitLive == Init => LiveInv
BY DEF Init, LiveInv, Alone, Live

LEMMA LiveInvHolds == ChatSpec => [](ChatInv /\ LiveInv)
<1>1. Init => ChatInv /\ LiveInv
  BY ChatInitTyped, ChatInitLive
<1>2. ChatInv /\ LiveInv /\ [Next]_chatVars => (ChatInv /\ LiveInv)'
  BY ChatNextTyped, LiveNext
<1>. QED BY <1>1, <1>2, PTL DEF ChatSpec

\* However many messages are sent while the page is sending, and however their
\* answers, further runs and prompts interleave, no second stream is opened
\* beside the one that is read (useChat.ts:47-66): they are steered into its run.
\* Excepted are a page left in the middle, a message sent before the task is
\* created, and a connection that broke.
THEOREM OneStreamAtATime == ChatSpec => []OneStream
<1>1. ChatInv /\ LiveInv => OneStream
  <2>. SUFFICES ASSUME Alone PROVE Cardinality(Live) <= 1
    BY DEF LiveInv, OneStream
  <2>1. CASE Live = {}
    BY <2>1, FS_EmptySet
  <2>2. ASSUME NEW c \in Live PROVE Cardinality(Live) <= 1
    <3>1. Live = {c}
      BY DEF Alone
    <3>. QED BY <3>1, FS_Singleton
  <2>. QED BY <2>1, <2>2
<1>. QED BY <1>1, LiveInvHolds, PTL

\* `sending` never outlives what it waits for.
SendInv == Harmed({"leave", "hasty", "break", "cut", "create"}) \/ (sending => Live # {})

LEMMA SendStays ==
    ASSUME SendInv, (\E m : Spoils(m)) \/ UNCHANGED spoilt,
           sending' => sending, \A c \in Live : c \in Live'
    PROVE  SendInv'
<1>1. CASE Harmed({"leave", "hasty", "break", "cut", "create"})
  BY <1>1, HarmStays DEF SendInv
<1>2. CASE sending => Live # {}
  BY <1>2 DEF SendInv
<1>. QED BY <1>1, <1>2 DEF SendInv

LEMMA SendCalls ==
    ASSUME ChatInv, SendInv, NEW c \in Calls,
           SendMessage(c) \/ CreateTask(c) \/ CreateFails(c) \/ Posted(c) \/ Reads(c) \/ StreamBreaks(c)
    PROVE  SendInv'
<1>. USE DEF pageVars
<1>0. pc \in [Calls -> Places]
  BY DEF ChatInv, ChatTyped, CallsTyped
<1>1. CASE SendMessage(c)
  <2>1. pc' = [pc EXCEPT ![c] = IF shown = None THEN "create" ELSE "post"]
    BY <1>1 DEF SendMessage, HasTask, Begin, At
  <2>2. c \in Live'
    BY <1>0, <2>1 DEF Live
  <2>. QED BY <2>2 DEF SendInv
<1>2. CASE CreateTask(c)
  <2>1. pc' = [pc EXCEPT ![c] = "post"]
    BY <1>2 DEF CreateTask, Begin, At
  <2>2. c \in Live'
    BY <1>0, <2>1 DEF Live
  <2>. QED BY <2>2 DEF SendInv
<1>3. CASE CreateFails(c) \/ StreamBreaks(c)
  BY <1>3, SpoilsHarms DEF CreateFails, StreamBreaks, SendInv
<1>4. CASE Posted(c)
  <2>1. sending' = FALSE \/ pc' = [pc EXCEPT ![c] = "read"]
    BY <1>4 DEF Posted, Fail, At
  <2>2. pc' = [pc EXCEPT ![c] = "read"] => c \in Live'
    BY <1>0 DEF Live
  <2>. QED BY <2>1, <2>2 DEF SendInv
<1>5. CASE ReadEvent(c)
  <2>1. /\ sending' = FALSE \/ UNCHANGED <<pc, sending>>
        /\ Spoils("late") \/ UNCHANGED spoilt
    BY <1>5, ReadEventDoes
  <2>2. CASE sending' = FALSE
    BY <2>2 DEF SendInv
  <2>3. CASE UNCHANGED <<pc, sending>>
    BY <2>1, <2>3, SendStays DEF Live
  <2>. QED BY <2>1, <2>2, <2>3
<1>6. CASE StreamEnds(c)
  <2>1. /\ pc' = [pc EXCEPT ![c] = "idle"] /\ UNCHANGED sending
        /\ IF pc[c] = "read" THEN Spoils("cut") ELSE pc[c] = "closing" /\ UNCHANGED spoilt
    BY <1>6 DEF StreamEnds, Returns, At
  <2>2. CASE pc[c] = "read"
    BY <2>1, <2>2, SpoilsHarms DEF SendInv
  <2>3. CASE pc[c] # "read"
    <3>1. \A d \in Live : d \in Live'
      BY <1>0, <2>1, <2>3 DEF Live
    <3>. QED BY <2>1, <2>3, <3>1, SendStays
  <2>. QED BY <2>2, <2>3
<1>. QED BY <1>1, <1>2, <1>3, <1>4, <1>5, <1>6 DEF Reads

LEMMA SendNext == ChatInv /\ SendInv /\ [Next]_chatVars => SendInv'
<1>. SUFFICES ASSUME ChatInv, SendInv, [Next]_chatVars PROVE SendInv'
  OBVIOUS
<1>. USE DEF pageVars, callVars
<1>1. ASSUME NEW c \in Calls,
             SendMessage(c) \/ CreateTask(c) \/ CreateFails(c) \/ Posted(c) \/ Reads(c) \/ StreamBreaks(c)
      PROVE  SendInv'
  BY <1>1, SendCalls
<1>2. ASSUME NEW t \in Tasks, Opened(t)
      PROVE  SendInv'
  BY <1>2 DEF Opened, TurnTo, SendInv
<1>3. CASE Deleted
  BY <1>3 DEF Deleted, TurnTo, SendInv
<1>4. ASSUME NEW t \in Tasks, Open(t) \/ OpenFails(t) \/ Agent(t)
      PROVE  SendInv'
  BY <1>4, SendStays DEF Open, OpenFails, Agent, Live
<1>5. CASE DeleteTask \/ (\E b \in Bubbles : Approve(b)) \/ Respond \/ Responded
  BY <1>5, SendStays DEF DeleteTask, Approve, Respond, Responded, Live
<1>6. CASE SendSteer \/ SteerMessage \/ UNCHANGED chatVars
  BY <1>6, SendStays DEF SendSteer, SteerMessage, chatVars, Live
<1>. QED BY <1>1, <1>2, <1>3, <1>4, <1>5, <1>6 DEF Next

\* The page is `sending` exactly while an answer is on its way: no event, second
\* run, failing request or steering leaves the input locked, or frees it early
\* (useChat.ts:66-303).  Excepted are also a stream that is cut and a createTask
\* that fails.
THEOREM SendingWhileLive == ChatSpec => []SendingIsLive
<1>1. Init => ChatInv /\ LiveInv /\ SendInv
  BY ChatInitTyped, ChatInitLive DEF Init, SendInv
<1>2. ChatInv /\ LiveInv /\ SendInv /\ [Next]_chatVars => (ChatInv /\ LiveInv /\ SendInv)'
  BY ChatNextTyped, LiveNext, SendNext
<1>3. LiveInv /\ SendInv => SendingIsLive
  BY DEF LiveInv, SendInv, SendingIsLive, Alone, Harmed
<1>. QED BY <1>1, <1>2, <1>3, PTL DEF ChatSpec

-----------------------------------------------------------------------------
(* The page is of one task                                                 *)

\* What is on the page, and every call that may still change it, is of the task
\* shown; a call that awaits a task is the only one, on an empty page.
Together ==
    /\ \A b \in Bubbles : status[b] # "none" => task[b[1]] = shown /\ shown # None
    /\ \A c \in Calls : pc[c] \in {"post", "read", "closing"} => task[c] = shown
    /\ \A c \in Calls : pc[c] = "create" => task[c] = None /\ shown = None
    /\ \A c, d \in Calls : pc[c] = "create" /\ pc[d] = "create" => c = d

PageInv == Harmed({"leave", "hasty"}) \/ Together

\* A step that turns no page keeps the invariant if Together survives it.
LEMMA PageStays ==
    ASSUME PageInv, (\E m : Spoils(m)) \/ UNCHANGED spoilt, Together => Together'
    PROVE  PageInv'
BY HarmStays DEF PageInv

\* Only bubbles of calls that are under way, or that were there, are shown.
LEMMA TogetherStays ==
    ASSUME ChatInv, Together, UNCHANGED <<shown, task>>,
           \A b \in Bubbles : status'[b] # "none" =>
             status[b] # "none" \/ pc[b[1]] \in {"post", "read", "closing"},
           \A c \in Calls : \/ pc'[c] = pc[c] \/ pc'[c] = "idle"
                            \/ pc'[c] \in {"read", "closing"} /\ pc[c] \in {"post", "read", "closing"}
    PROVE  Together'
<1>1. \A b \in Bubbles : status'[b] # "none" => task[b[1]] = shown /\ shown # None
  <2>. SUFFICES ASSUME NEW b \in Bubbles, status'[b] # "none"
                PROVE  task[b[1]] = shown /\ shown # None
    OBVIOUS
  <2>1. CASE status[b] # "none"
    BY <2>1 DEF Together
  <2>2. CASE pc[b[1]] \in {"post", "read", "closing"}
    <3>1. b[1] \in Calls
      BY DEF Bubbles
    <3>. QED BY <2>2, <3>1 DEF Together, ChatInv, ChatTyped, CallsTyped
  <2>. QED BY <2>1, <2>2
<1>2. \A c \in Calls : pc'[c] \in {"post", "read", "closing"} => task[c] = shown
  BY DEF Together
<1>3. \A c \in Calls : pc'[c] = "create" => pc[c] = "create"
  OBVIOUS
<1>4. \A c, d \in Calls : pc'[c] = "create" /\ pc'[d] = "create" => c = d
  BY <1>3 DEF Together
<1>5. \A c \in Calls : pc'[c] = "create" => task[c] = None /\ shown = None
  BY <1>3 DEF Together
<1>. QED BY <1>1, <1>2, <1>4, <1>5 DEF Together

\* Marking changes the bubble of a call under way, or one that is there.
LEMMA MarkShows ==
    ASSUME PageTyped, NEW b, NEW s, Mark(b, s)
    PROVE  \A a \in Bubbles : status'[a] # "none" => status[a] # "none"
BY DEF PageTyped, Mark

LEMMA PageSendMessage ==
    ASSUME ChatInv, PageInv, NEW c \in Calls, SendMessage(c)
    PROVE  PageInv'
<1>0. PageTyped /\ CallsTyped /\ StreamsTyped
  BY DEF ChatInv, ChatTyped
<1>1. /\ pc[c] = "idle" /\ UNCHANGED shown
      /\ \A n \in 1..MaxRuns : status[<<c, n>>] = "none"
      /\ pc' = [pc EXCEPT ![c] = IF shown = None THEN "create" ELSE "post"]
      /\ task' = [task EXCEPT ![c] = shown]
      /\ status' = IF shown = None THEN status ELSE [status EXCEPT ![<<c, 1>>] = "streaming"]
      /\ IF \E d \in Calls : pc[d] = "create" THEN Spoils("hasty") ELSE UNCHANGED spoilt
  BY DEF SendMessage, Unused, HasTask, Begin, At
<1>2. CASE Harmed({"leave", "hasty"})
  BY <1>1, <1>2, HarmStays DEF PageInv
<1>3. CASE \E d \in Calls : pc[d] = "create"
  BY <1>1, <1>3, SpoilsHarms DEF PageInv
<1>4. CASE Together /\ ~\E d \in Calls : pc[d] = "create"
  <2>1. \A b \in Bubbles : status'[b] # "none" => task'[b[1]] = shown /\ shown # None
    <3>. SUFFICES ASSUME NEW b \in Bubbles, status'[b] # "none"
                  PROVE  task'[b[1]] = shown /\ shown # None
      OBVIOUS
    <3>1. b[1] \in Calls /\ b[2] \in 1..MaxRuns /\ b = <<b[1], b[2]>>
      BY DEF Bubbles
    <3>2. CASE b[1] = c
      <4>1. status[b] = "none"
        BY <1>1, <3>1, <3>2
      <4>2. shown # None
        BY <1>1, <4>1
      <4>. QED BY <1>0, <1>1, <3>2, <4>2 DEF CallsTyped
    <3>3. CASE b[1] # c
      <4>1. b # <<c, 1>>
        BY <3>3
      <4>2. status[b] # "none"
        BY <1>0, <1>1, <4>1 DEF PageTyped
      <4>. QED BY <1>0, <1>1, <1>4, <3>1, <3>3, <4>2 DEF CallsTyped, Together
    <3>. QED BY <3>2, <3>3
  <2>2. \A d \in Calls : pc'[d] \in {"post", "read", "closing"} => task'[d] = shown
    BY <1>0, <1>1, <1>4 DEF CallsTyped, Together
  <2>3. \A d \in Calls : pc'[d] = "create" => d = c /\ task'[d] = None /\ shown = None
    BY <1>0, <1>1, <1>4 DEF CallsTyped
  <2>. QED BY <1>1, <2>1, <2>2, <2>3 DEF PageInv, Together
<1>. QED BY <1>2, <1>3, <1>4 DEF PageInv

\* No other call has a bubble or a stream when the task is created.
LEMMA PageCreateTask ==
    ASSUME ChatInv, PageInv, NEW c \in Calls, CreateTask(c)
    PROVE  PageInv'
<1>0. PageTyped /\ CallsTyped
  BY DEF ChatInv, ChatTyped
<1>1. PICK t \in Tasks : shown' = t /\ Begin(c, t)
  BY DEF CreateTask
<1>2. /\ pc[c] = "create" /\ pc' = [pc EXCEPT ![c] = "post"] /\ task' = [task EXCEPT ![c] = t]
      /\ status' = [status EXCEPT ![<<c, 1>>] = "streaming"] /\ t # None
      /\ IF shown = None THEN UNCHANGED spoilt ELSE Spoils("hasty") \/ Spoils("leave")
  BY <1>1, ChatAssumption DEF CreateTask, Begin, At
<1>3. CASE Harmed({"leave", "hasty"})
  BY <1>2, <1>3, HarmStays DEF PageInv
<1>4. CASE shown # None
  BY <1>2, <1>4, SpoilsHarms DEF PageInv
<1>5. CASE Together /\ shown = None
  <2>1. \A b \in Bubbles : status[b] = "none"
    BY <1>5 DEF Together
  <2>2. \A b \in Bubbles : status'[b] # "none" => task'[b[1]] = shown' /\ shown' # None
    <3>. SUFFICES ASSUME NEW b \in Bubbles, status'[b] # "none"
                  PROVE  task'[b[1]] = shown' /\ shown' # None
      OBVIOUS
    <3>1. b = <<c, 1>>
      BY <1>0, <1>2, <2>1 DEF PageTyped
    <3>2. b[1] = c
      BY <3>1
    <3>. QED BY <1>0, <1>1, <1>2, <3>2 DEF CallsTyped
  <2>3. \A d \in Calls : d # c => pc[d] \notin {"post", "read", "closing", "create"}
    BY <1>0, <1>2, <1>5 DEF CallsTyped, Together
  <2>4. \A d \in Calls : pc'[d] \in {"post", "read", "closing"} => task'[d] = shown'
    BY <1>0, <1>1, <1>2, <2>3 DEF CallsTyped
  <2>5. \A d \in Calls : pc'[d] # "create"
    BY <1>0, <1>2, <2>3 DEF CallsTyped
  <2>. QED BY <2>2, <2>4, <2>5 DEF PageInv, Together
<1>. QED BY <1>3, <1>4, <1>5 DEF PageInv

LEMMA PageCalls ==
    ASSUME ChatInv, PageInv, NEW c \in Calls,
           CreateFails(c) \/ Posted(c) \/ Reads(c) \/ StreamBreaks(c)
    PROVE  PageInv'
<1>0. PageTyped /\ pc \in [Calls -> Places]
  BY DEF ChatInv, ChatTyped, CallsTyped
<1>1. /\ UNCHANGED <<shown, task>> /\ ((\E m : Spoils(m)) \/ UNCHANGED spoilt)
      /\ \A b \in Bubbles : status'[b] # "none" =>
           status[b] # "none" \/ pc[b[1]] \in {"post", "read", "closing"}
      /\ \/ pc' = pc
         \/ pc' = [pc EXCEPT ![c] = "idle"]
         \/ \E p \in {"read", "closing"} : pc' = [pc EXCEPT ![c] = p]
                                           /\ pc[c] \in {"post", "read", "closing"}
  <2>1. CASE CreateFails(c)
    BY <2>1 DEF CreateFails, Returns, At, pageVars
  <2>2. CASE Posted(c)
    BY <1>0, <2>2, MarkShows DEF Posted, Fail, Returns, At
  <2>3. CASE ReadEvent(c)
    <3>1. /\ sse[c] # <<>> /\ UNCHANGED <<shown, task>> /\ (Spoils("late") \/ UNCHANGED spoilt)
          /\ pc' = [pc EXCEPT ![c] = "closing"] \/ UNCHANGED pc
          /\ \/ UNCHANGED status
             \/ status' = [status EXCEPT ![<<c, inits[c] + 1>>] = "streaming"]
             \/ \E s \in {"none", "asking", "settled"} : Mark(Active(c), s)
      BY <2>3, ReadEventDoes
    <3>2. pc[c] = "read"
      BY <3>1, HeadOfStream
    <3>3. \A b \in Bubbles : status'[b] # "none" => status[b] # "none" \/ b[1] = c
      BY <1>0, <3>1, MarkShows DEF PageTyped
    <3>. QED BY <3>1, <3>2, <3>3
  <2>4. CASE StreamEnds(c)
    BY <2>4 DEF StreamEnds, Returns, At, pageVars
  <2>5. CASE StreamBreaks(c)
    BY <1>0, <2>5, MarkShows DEF StreamBreaks, Fail, Returns, At
  <2>. QED BY <2>1, <2>2, <2>3, <2>4, <2>5 DEF Reads
<1>2. \A d \in Calls : \/ pc'[d] = pc[d] \/ pc'[d] = "idle"
                       \/ pc'[d] \in {"read", "closing"} /\ pc[d] \in {"post", "read", "closing"}
  BY <1>0, <1>1
<1>. QED BY <1>1, <1>2, TogetherStays, PageStays

LEMMA PageTurns ==
    ASSUME ChatInv, NEW awaited, Turned(awaited), NEW t, TurnTo(t), UNCHANGED pc
    PROVE  PageInv'
<1>1. CASE Spoils("leave")
  BY <1>1, SpoilsHarms DEF PageInv
<1>2. CASE ~Spoils("leave")
  <2>1. \A c \in Calls : pc'[c] = "idle"
    BY <1>2, CalmIsIdle DEF Turned
  <2>2. \A b \in Bubbles : status'[b] = "none"
    BY DEF TurnTo
  <2>. QED BY <2>1, <2>2 DEF PageInv, Together
<1>. QED BY <1>1, <1>2

LEMMA PageLeftAlone ==
    ASSUME ChatInv, PageInv, UNCHANGED <<shown, task, pc>>,
           UNCHANGED status \/ \E b, s : Mark(b, s),
           (\E m : Spoils(m)) \/ UNCHANGED spoilt
    PROVE  PageInv'
<1>1. \A b \in Bubbles : status'[b] # "none" => status[b] # "none"
  BY MarkShows DEF ChatInv, ChatTyped
<1>2. Together => Together'
  BY <1>1, TogetherStays
<1>. QED BY <1>2, PageStays

LEMMA PageNext == ChatInv /\ PageInv /\ [Next]_chatVars => PageInv'
<1>. SUFFICES ASSUME ChatInv, PageInv, [Next]_chatVars PROVE PageInv'
  OBVIOUS
<1>. USE DEF pageVars, callVars
<1>1. ASSUME NEW c \in Calls, SendMessage(c) \/ CreateTask(c)
      PROVE  PageInv'
  BY <1>1, PageSendMessage, PageCreateTask
<1>2. ASSUME NEW c \in Calls, CreateFails(c) \/ Posted(c) \/ Reads(c) \/ StreamBreaks(c)
      PROVE  PageInv'
  BY <1>2, PageCalls
<1>3. ASSUME NEW t \in Tasks, Opened(t)
      PROVE  PageInv'
  BY <1>3, PageTurns DEF Opened
<1>4. CASE Deleted
  BY <1>4, PageTurns DEF Deleted
<1>5. ASSUME NEW t \in Tasks, Open(t) \/ OpenFails(t) \/ Agent(t)
      PROVE  PageInv'
  BY <1>5, PageLeftAlone DEF Open, OpenFails, Agent
<1>6. CASE DeleteTask \/ (\E b \in Bubbles : Approve(b)) \/ Respond
  BY <1>6, PageLeftAlone DEF DeleteTask, Approve, Respond
<1>7. CASE Responded
  <2>1. /\ UNCHANGED <<shown, task, pc, spoilt>>
        /\ UNCHANGED status \/ Mark(answer.msg, "streaming")
    BY <1>7 DEF Responded
  <2>. QED BY <2>1, PageLeftAlone
<1>8. CASE SendSteer \/ SteerMessage \/ UNCHANGED chatVars
  BY <1>8, PageLeftAlone DEF SendSteer, SteerMessage, chatVars
<1>. QED BY <1>1, <1>2, <1>3, <1>4, <1>5, <1>6, <1>7, <1>8 DEF Next

\* The bubbles on the page are of the task it shows, in whatever order the
\* histories of other tasks, new tasks and deletions come back (useChat.ts:308-340,
\* ChatPage.tsx): excepted are pages left in the middle of a stream, and a second
\* message before the task is created.
THEOREM PageShowsOneTask == ChatSpec => []PageIsOneTask
<1>1. Init => ChatInv /\ PageInv
  <2>1. Init => PageInv
    BY DEF Init, PageInv, Together
  <2>. QED BY <2>1, ChatInitTyped
<1>2. ChatInv /\ PageInv /\ [Next]_chatVars => (ChatInv /\ PageInv)'
  BY ChatNextTyped, PageNext
<1>3. PageInv => PageIsOneTask
  BY DEF PageInv, Together, PageIsOneTask
<1>. QED BY <1>1, <1>2, <1>3, PTL DEF ChatSpec

-----------------------------------------------------------------------------
(* The order of events                                                     *)

Results == {"result", "aborted"}
NextRun == {"init"} \cup Ends

\* After a result comes the next run, or the end; before one, neither.
Ordered(s) ==
    \A i \in 1..(Len(s) - 1) : s[i + 1] \in Ends \/ (s[i + 1] = "init" <=> s[i] \in Results)

\* What a run has sent last, if that is not read yet.
Matches(t) ==
    LET c == reader[t]
        last == sse[c][Len(sse[c])]
    IN  /\ run[t] = "new" <=> inits[c] = 0 /\ sse[c] = <<>>
        /\ run[t] = "rested" /\ sse[c] # <<>> => last \in Results
        /\ run[t] = "busy" /\ sse[c] # <<>> => last \in {"init", "prompt"}
        /\ run[t] = "waiting" /\ sse[c] # <<>> => last = "prompt"

OrderInv ==
    /\ \A c \in Calls : pc[c] \in {"idle", "create", "post"} => inits[c] = 0
    /\ \A c \in Calls : inits[c] = 0 /\ sse[c] # <<>> => Head(sse[c]) \in NextRun
    /\ \A c \in Calls : Ordered(sse[c])
    /\ \A t \in Tasks : reader[t] # None => Matches(t)

LEMMA OrderedTail ==
    ASSUME NEW s \in Seq(Events), s # <<>>, Ordered(s)
    PROVE  /\ Ordered(Tail(s))
           /\ Tail(s) # <<>> => \/ Head(Tail(s)) \in Ends
                                \/ Head(Tail(s)) = "init" <=> Head(s) \in Results
           /\ Tail(s) # <<>> => Tail(s)[Len(Tail(s))] = s[Len(s)]
           /\ Tail(s) = <<>> => s[Len(s)] = Head(s)
<1>. DEFINE u == Tail(s)
<1>1. /\ u \in Seq(Events) /\ Len(u) = Len(s) - 1 /\ Len(s) \in Nat \ {0}
      /\ Head(s) = s[1] /\ \A i \in 1..Len(u) : u[i] = s[i + 1]
  BY HeadAndTail
<1>2. u # <<>> => Head(u) = u[1] /\ Len(u) \in Nat \ {0}
  BY <1>1, HeadAndTail
<1>3. u = <<>> => Len(u) = 0
  BY EmptySeq
<1>. HIDE DEF u
<1>4. Ordered(u)
  <2>. SUFFICES ASSUME NEW i \in 1..(Len(u) - 1)
                PROVE  u[i + 1] \in Ends \/ (u[i + 1] = "init" <=> u[i] \in Results)
    BY DEF Ordered
  <2>1. i \in 1..Len(u) /\ i + 1 \in 1..Len(u) /\ i + 1 \in 1..(Len(s) - 1)
    BY <1>1
  <2>2. u[i] = s[i + 1] /\ u[i + 1] = s[(i + 1) + 1]
    BY <1>1, <2>1
  <2>. QED BY <2>1, <2>2 DEF Ordered
<1>5. ASSUME u # <<>> PROVE u[1] \in Ends \/ (u[1] = "init" <=> s[1] \in Results)
  <2>1. 1 \in 1..(Len(s) - 1) /\ u[1] = s[1 + 1]
    BY <1>1, <1>2, <1>5
  <2>. QED BY <2>1 DEF Ordered
<1>6. u # <<>> => u[Len(u)] = s[Len(s)]
  BY <1>1, <1>2
<1>7. ASSUME u = <<>> PROVE s[Len(s)] = s[1]
  <2>1. Len(u) = 0
    BY <1>3, <1>7
  <2>2. Len(s) = 1
    BY <1>1, <2>1
  <2>. QED BY <2>2
<1>8. u # <<>> => Head(u) \in Ends \/ (Head(u) = "init" <=> s[1] \in Results)
  BY <1>2, <1>5
<1>9. Head(s) = s[1]
  BY <1>1
<1>. QED BY <1>4, <1>6, <1>7, <1>8, <1>9 DEF u

LEMMA OrderedAppend ==
    ASSUME NEW s \in Seq(Events), NEW e \in Events, Ordered(s),
           s # <<>> => e \in Ends \/ (e = "init" <=> s[Len(s)] \in Results)
    PROVE  /\ Ordered(Append(s, e)) /\ Append(s, e) # <<>>
           /\ Append(s, e)[Len(Append(s, e))] = e
           /\ Head(Append(s, e)) = IF s = <<>> THEN e ELSE Head(s)
<1>. DEFINE u == Append(s, e)
<1>1. /\ u \in Seq(Events) /\ Len(u) = Len(s) + 1 /\ Len(s) \in Nat /\ u[Len(s) + 1] = e
      /\ \A i \in 1..Len(s) : u[i] = s[i]
  OBVIOUS
<1>2. s # <<>> => Len(s) \in Nat \ {0} /\ Head(s) = s[1]
  BY HeadAndTail
<1>3. s = <<>> => Len(s) = 0
  BY EmptySeq
<1>4. u # <<>>
  BY <1>1, EmptySeq
<1>5. Head(u) = u[1]
  BY <1>1, <1>4, HeadAndTail
<1>. HIDE DEF u
<1>6. Ordered(u)
  <2>. SUFFICES ASSUME NEW i \in 1..(Len(u) - 1)
                PROVE  u[i + 1] \in Ends \/ (u[i + 1] = "init" <=> u[i] \in Results)
    BY DEF Ordered
  <2>1. CASE i = Len(s)
    <3>1. s # <<>> /\ u[i] = s[i] /\ u[i + 1] = e
      BY <1>1, <1>3, <2>1
    <3>. QED BY <2>1, <3>1
  <2>2. CASE i # Len(s)
    <3>1. i \in 1..(Len(s) - 1) /\ u[i] = s[i] /\ u[i + 1] = s[i + 1]
      BY <1>1, <2>2
    <3>. QED BY <3>1 DEF Ordered
  <2>. QED BY <2>1, <2>2
<1>7. u[1] = IF s = <<>> THEN e ELSE Head(s)
  BY <1>1, <1>2, <1>3
<1>. QED BY <1>1, <1>4, <1>5, <1>6, <1>7 DEF u

LEMMA OrderLeftAlone ==
    ASSUME OrderInv, UNCHANGED streamVars
    PROVE  OrderInv'
BY DEF OrderInv, Ordered, Matches, streamVars

\* A call that reads nothing, and goes on to read nothing, disturbs no order.
LEMMA OrderNoReader ==
    ASSUME ChatInv, OrderInv, NEW c \in Calls, pc[c] # "read",
           NEW p \in {"idle", "create", "post"}, pc' = [pc EXCEPT ![c] = p],
           inits' = [inits EXCEPT ![c] = 0] \/ (inits' = inits /\ inits[c] = 0),
           UNCHANGED <<run, reader, sse>>
    PROVE  OrderInv'
<1>0. /\ CallsTyped /\ StreamsTyped /\ AgentTyped /\ sse[c] = <<>>
      /\ \A t \in Tasks : reader[t] # c
  BY IdleIsNoReader DEF ChatInv, ChatTyped, StreamInv, EndIsLast
<1>1. inits'[c] = 0 /\ \A d \in Calls : d # c => inits'[d] = inits[d] /\ pc'[d] = pc[d]
  BY <1>0 DEF CallsTyped, StreamsTyped
<1>2. \A d \in Calls : pc'[d] \in {"idle", "create", "post"} => inits'[d] = 0
  BY <1>1 DEF OrderInv
<1>3. \A d \in Calls : inits'[d] = 0 /\ sse[d] # <<>> => Head(sse[d]) \in NextRun
  BY <1>0, <1>1 DEF OrderInv
<1>4. \A t \in Tasks : reader[t] # None => Matches(t)'
  <2>. SUFFICES ASSUME NEW t \in Tasks, reader[t] # None PROVE Matches(t)'
    OBVIOUS
  <2>1. reader[t] \in Calls /\ reader[t] # c /\ Matches(t)
    BY <1>0 DEF OrderInv, AgentTyped
  <2>2. inits'[reader[t]] = inits[reader[t]]
    BY <1>1, <2>1
  <2>. QED BY <2>1, <2>2 DEF Matches
<1>. QED BY <1>2, <1>3, <1>4 DEF OrderInv, Ordered

LEMMA OrderPosted ==
    ASSUME ChatInv, OrderInv, NEW c \in Calls, Posted(c)
    PROVE  OrderInv'
<1>0. /\ CallsTyped /\ StreamsTyped /\ AgentTyped /\ pc[c] = "post" /\ sse[c] = <<>>
      /\ inits[c] = 0 /\ task[c] \in Tasks
      /\ \A t \in Tasks : reader[t] # c
  BY IdleIsNoReader DEF ChatInv, ChatTyped, CallsTyped, StreamInv, EndIsLast, OrderInv, Posted
<1>1. CASE Fail(c) /\ UNCHANGED <<run, reader>>
  BY <1>0, <1>1, OrderNoReader DEF Posted, Fail, Returns, At
<1>2. CASE ~(Fail(c) /\ UNCHANGED <<run, reader>>)
  <2>1. /\ pc' = [pc EXCEPT ![c] = "read"] /\ UNCHANGED <<inits, sse>>
        /\ \/ UNCHANGED <<run, reader>>
           \/ /\ run' = [run EXCEPT ![task[c]] = "new"]
              /\ reader' = [reader EXCEPT ![task[c]] = c]
    BY <1>2 DEF Posted, At
  <2>2. \A d \in Calls : pc'[d] \in {"idle", "create", "post"} => inits[d] = 0
    BY <1>0, <2>1 DEF OrderInv, CallsTyped
  <2>3. \A t \in Tasks : reader'[t] # None => Matches(t)'
    <3>. SUFFICES ASSUME NEW t \in Tasks, reader'[t] # None PROVE Matches(t)'
      OBVIOUS
    <3>1. CASE reader'[t] = reader[t] /\ run'[t] = run[t]
      <4>1. Matches(t)
        BY <3>1 DEF OrderInv
      <4>. QED BY <2>1, <3>1, <4>1 DEF Matches
    <3>2. CASE reader'[t] = c /\ run'[t] = "new"
      BY <1>0, <2>1, <3>2 DEF Matches
    <3>3. \/ reader'[t] = reader[t] /\ run'[t] = run[t]
          \/ reader'[t] = c /\ run'[t] = "new"
      BY <1>0, <2>1 DEF AgentTyped
    <3>. QED BY <3>1, <3>2, <3>3
  <2>. QED BY <2>1, <2>2, <2>3 DEF OrderInv, Ordered
<1>. QED BY <1>1, <1>2

LEMMA OrderReadEvent ==
    ASSUME ChatInv, OrderInv, NEW c \in Calls, ReadEvent(c)
    PROVE  OrderInv'
<1>. DEFINE s == sse[c]
            u == Tail(s)
<1>0. /\ CallsTyped /\ StreamsTyped /\ AgentTyped /\ ReadersRead
  BY DEF ChatInv, ChatTyped, StreamInv
<1>1. /\ s # <<>> /\ sse' = [sse EXCEPT ![c] = u] /\ UNCHANGED <<run, reader>>
      /\ IF Head(s) \in Ends THEN pc' = [pc EXCEPT ![c] = "closing"] ELSE UNCHANGED pc
      /\ inits' = IF Head(s) = "init" THEN [inits EXCEPT ![c] = @ + 1] ELSE inits
  BY ReadEventDoes
<1>2. /\ pc[c] = "read" /\ s \in Seq(Events) /\ Head(s) \in Events
      /\ Head(s) \in Ends => u = <<>> /\ \A t \in Tasks : reader[t] # c
  BY <1>1, HeadOfStream
<1>3. Ordered(s) /\ (inits[c] = 0 => Head(s) \in NextRun)
  BY <1>1 DEF OrderInv
<1>4. /\ Ordered(u)
      /\ u # <<>> => u[Len(u)] = s[Len(s)]
      /\ u = <<>> => s[Len(s)] = Head(s)
  BY <1>1, <1>2, <1>3, OrderedTail
<1>5. inits[c] \in Nat
  BY <1>0 DEF StreamsTyped
<1>. HIDE DEF s, u
<1>6. /\ sse'[c] = u /\ inits'[c] = IF Head(s) = "init" THEN inits[c] + 1 ELSE inits[c]
      /\ pc'[c] \in {"read", "closing"}
      /\ \A d \in Calls : d # c => sse'[d] = sse[d] /\ inits'[d] = inits[d] /\ pc'[d] = pc[d]
  BY <1>0, <1>1, <1>2 DEF CallsTyped, StreamsTyped
<1>7. \A d \in Calls : pc'[d] \in {"idle", "create", "post"} => inits'[d] = 0
  BY <1>6 DEF OrderInv
<1>8. inits'[c] = 0 => u = <<>>
  BY <1>2, <1>3, <1>5, <1>6 DEF NextRun
<1>9. \A d \in Calls : inits'[d] = 0 /\ sse'[d] # <<>> => Head(sse'[d]) \in NextRun
  BY <1>6, <1>8 DEF OrderInv
<1>10. \A d \in Calls : Ordered(sse'[d])
  BY <1>4, <1>6 DEF OrderInv
<1>11. \A t \in Tasks : reader'[t] # None => Matches(t)'
  <2>. SUFFICES ASSUME NEW t \in Tasks, reader[t] # None PROVE Matches(t)'
    BY <1>1
  <2>1. Matches(t) /\ reader[t] \in Calls
    BY <1>0 DEF OrderInv, AgentTyped
  <2>2. CASE reader[t] # c
    BY <1>1, <1>6, <2>1, <2>2 DEF Matches
  <2>3. CASE reader[t] = c
    <3>1. Head(s) \notin Ends /\ run[t] # "new" /\ inits'[c] # 0
      <4>1. Head(s) \notin Ends
        BY <1>2, <2>3
      <4>2. run[t] # "new"
        BY <1>1, <2>1, <2>3 DEF Matches, s
      <4>. QED BY <1>3, <1>5, <1>6, <4>1, <4>2 DEF NextRun
    <3>2. s[Len(s)] = sse[c][Len(sse[c])]
      BY DEF s
    <3>. QED BY <1>1, <1>4, <1>6, <2>1, <2>3, <3>1, <3>2 DEF Matches, s
  <2>. QED BY <2>2, <2>3
<1>. QED BY <1>7, <1>9, <1>10, <1>11 DEF OrderInv, Ordered

LEMMA OrderReaderStops ==
    ASSUME ChatInv, OrderInv, NEW c \in Calls, pc' = [pc EXCEPT ![c] = "idle"],
           inits' = [inits EXCEPT ![c] = 0], sse' = [sse EXCEPT ![c] = <<>>],
           reader' = [t \in Tasks |-> IF reader[t] = c THEN None ELSE reader[t]],
           UNCHANGED run
    PROVE  OrderInv'
<1>0. CallsTyped /\ StreamsTyped /\ AgentTyped
  BY DEF ChatInv, ChatTyped
<1>1. /\ sse'[c] = <<>> /\ inits'[c] = 0
      /\ \A d \in Calls : d # c => sse'[d] = sse[d] /\ inits'[d] = inits[d] /\ pc'[d] = pc[d]
  BY <1>0 DEF CallsTyped, StreamsTyped
<1>2. \A d \in Calls : pc'[d] \in {"idle", "create", "post"} => inits'[d] = 0
  BY <1>1 DEF OrderInv
<1>3. \A d \in Calls : inits'[d] = 0 /\ sse'[d] # <<>> => Head(sse'[d]) \in NextRun
  BY <1>1 DEF OrderInv
<1>4. \A d \in Calls : Ordered(sse'[d])
  <2>1. Ordered(<<>>)
    BY DEF Ordered
  <2>. QED BY <1>1, <2>1 DEF OrderInv
<1>5. \A t \in Tasks : reader'[t] # None => Matches(t)'
  <2>. SUFFICES ASSUME NEW t \in Tasks, reader'[t] # None PROVE Matches(t)'
    OBVIOUS
  <2>1. reader'[t] = reader[t] /\ reader[t] \in Calls /\ reader[t] # c
    BY <1>0 DEF AgentTyped
  <2>2. Matches(t)
    BY <2>1 DEF OrderInv
  <2>. QED BY <1>1, <2>1, <2>2 DEF Matches
<1>. QED BY <1>2, <1>3, <1>4, <1>5 DEF OrderInv, Ordered

\* What an agent may send next, and where it is then.
SendsNext(t, e, p) ==
    \/ e = "init" /\ run[t] \in {"new", "rested"} /\ p = "busy"
    \/ e = "prompt" /\ run[t] = "busy" /\ p = "waiting"
    \/ e \in Results /\ run[t] \in {"busy", "waiting"} /\ p = "rested"
    \/ e \in Ends /\ p = "none"

LEMMA OrderSends ==
    ASSUME ChatInv, OrderInv, NEW t \in Tasks, NEW e \in Events, NEW p \in Phases,
           Sends(t, e), SendsNext(t, e, p), run' = [run EXCEPT ![t] = p], UNCHANGED <<pc, inits>>,
           IF e \in Ends THEN reader' = [reader EXCEPT ![t] = None] ELSE UNCHANGED reader
    PROVE  OrderInv'
<1>0. /\ CallsTyped /\ StreamsTyped /\ AgentTyped /\ ReadersRead
  BY DEF ChatInv, ChatTyped, StreamInv
<1>1. \A k \in Tasks : reader'[k] # None => reader'[k] = reader[k] /\ (e \in Ends => k # t)
  BY <1>0 DEF AgentTyped
<1>2. \A k \in Tasks : k # t => run'[k] = run[k]
  BY <1>0 DEF AgentTyped
<1>3. run'[t] = p
  BY <1>0 DEF AgentTyped
<1>4. CASE reader[t] = None
  <2>1. UNCHANGED sse
    BY <1>4 DEF Sends
  <2>2. \A k \in Tasks : reader'[k] # None => Matches(k)'
    <3>. SUFFICES ASSUME NEW k \in Tasks, reader'[k] # None PROVE Matches(k)'
      OBVIOUS
    <3>1. k # t /\ reader'[k] = reader[k] /\ run'[k] = run[k] /\ Matches(k)
      BY <1>1, <1>2, <1>4 DEF OrderInv
    <3>. QED BY <2>1, <3>1 DEF Matches
  <2>. QED BY <2>1, <2>2 DEF OrderInv, Ordered
<1>5. CASE reader[t] # None
  <2>. DEFINE c == reader[t]
              s == sse[c]
              u == Append(s, e)
  <2>1. /\ c \in Calls /\ s \in Seq(Events) /\ task[c] = t /\ pc[c] = "read"
        /\ sse' = [sse EXCEPT ![c] = u]
    BY <1>0, <1>5 DEF AgentTyped, StreamsTyped, ReadersRead, Sends
  <2>2. /\ Ordered(s)
        /\ inits[c] = 0 /\ s # <<>> => Head(s) \in NextRun
        /\ run[t] = "new" <=> inits[c] = 0 /\ s = <<>>
        /\ run[t] = "rested" /\ s # <<>> => s[Len(s)] \in Results
        /\ run[t] = "busy" /\ s # <<>> => s[Len(s)] \in {"init", "prompt"}
        /\ run[t] = "waiting" /\ s # <<>> => s[Len(s)] = "prompt"
    BY <1>5, <2>1 DEF OrderInv, Matches
  <2>. HIDE DEF c, s, u
  <2>3. s # <<>> => e \in Ends \/ (e = "init" <=> s[Len(s)] \in Results)
    BY <2>2 DEF SendsNext, Results, Ends
  <2>4. /\ Ordered(u) /\ u # <<>> /\ u[Len(u)] = e
        /\ Head(u) = IF s = <<>> THEN e ELSE Head(s)
    BY <2>1, <2>2, <2>3, OrderedAppend DEF u
  <2>5. inits[c] = 0 => Head(u) \in NextRun
    BY <2>2, <2>4 DEF SendsNext, Results, Ends, NextRun
  <2>6. sse'[c] = u /\ \A d \in Calls : d # c => sse'[d] = sse[d]
    BY <1>0, <2>1 DEF StreamsTyped
  <2>7. \A d \in Calls : inits[d] = 0 /\ sse'[d] # <<>> => Head(sse'[d]) \in NextRun
    BY <2>5, <2>6 DEF OrderInv
  <2>8. \A d \in Calls : Ordered(sse'[d])
    BY <2>4, <2>6 DEF OrderInv
  <2>9. \A k \in Tasks : reader'[k] # None => Matches(k)'
    <3>. SUFFICES ASSUME NEW k \in Tasks, reader'[k] # None PROVE Matches(k)'
      OBVIOUS
    <3>1. CASE k = t
      <4>1. reader'[k] = c /\ e \notin Ends
        BY <1>1, <3>1 DEF c
      <4>. QED BY <1>3, <2>4, <2>6, <3>1, <4>1 DEF Matches, SendsNext, Results
    <3>2. CASE k # t
      <4>1. reader'[k] = reader[k] /\ run'[k] = run[k] /\ Matches(k) /\ reader[k] \in Calls
        BY <1>0, <1>1, <1>2, <3>2 DEF OrderInv, AgentTyped
      <4>2. reader[k] # c
        BY <1>0, <2>1, <3>2, <4>1 DEF ReadersRead
      <4>. QED BY <2>6, <4>1, <4>2 DEF Matches
    <3>. QED BY <3>1, <3>2
  <2>. QED BY <2>7, <2>8, <2>9 DEF OrderInv, Ordered
<1>. QED BY <1>4, <1>5

LEMMA OrderAgent ==
    ASSUME ChatInv, OrderInv, NEW t \in Tasks, Agent(t)
    PROVE  OrderInv'
<1>. USE DEF callVars
<1>1. UNCHANGED <<pc, inits>>
  BY DEF Agent
<1>2. CASE AgentStarts(t)
  BY <1>1, <1>2, OrderSends DEF AgentStarts, Goes, Events, Ends, Phases, SendsNext
<1>3. CASE AgentAsks(t)
  BY <1>1, <1>3, OrderSends DEF AgentAsks, Goes, Events, Ends, Phases, SendsNext
<1>4. CASE AgentRests(t)
  BY <1>1, <1>4, OrderSends DEF AgentRests, Goes, Events, Ends, Phases, SendsNext, Results
<1>5. CASE AgentEnds(t)
  BY <1>1, <1>5, OrderSends DEF AgentEnds, Goes, Events, Ends, Phases, SendsNext
<1>6. CASE AgentIsCut(t)
  <2>1. \A k \in Tasks : reader'[k] # None => Matches(k)'
    <3>. SUFFICES ASSUME NEW k \in Tasks, reader'[k] # None PROVE Matches(k)'
      OBVIOUS
    <3>1. reader'[k] = reader[k] /\ Matches(k)
      BY <1>6 DEF AgentIsCut, ChatInv, ChatTyped, AgentTyped, OrderInv
    <3>. QED BY <1>1, <1>6, <3>1 DEF AgentIsCut, Matches
  <2>. QED BY <1>1, <1>6, <2>1 DEF AgentIsCut, OrderInv, Ordered
<1>. QED BY <1>2, <1>3, <1>4, <1>5, <1>6 DEF Agent

\* An answer lets a waiting run go on, whose prompt was the last it sent; a
\* steering message starts a run that nobody reads.
LEMMA OrderTold ==
    ASSUME ChatInv, OrderInv, Respond \/ SteerMessage
    PROVE  OrderInv'
<1>1. UNCHANGED <<pc, inits, reader, sse>>
  BY DEF Respond, SteerMessage, callVars
<1>2. \A t \in Tasks : \/ run'[t] = run[t]
                       \/ run[t] = "waiting" /\ run'[t] = "busy"
                       \/ run[t] = "none"
  BY DEF Respond, SteerMessage, ChatInv, ChatTyped, AgentTyped
<1>3. \A t \in Tasks : reader[t] # None => Matches(t)'
  <2>. SUFFICES ASSUME NEW t \in Tasks, reader[t] # None PROVE Matches(t)'
    OBVIOUS
  <2>1. Matches(t) /\ run[t] # "none"
    BY DEF OrderInv, ChatInv, StreamInv, ReadersRead
  <2>2. CASE run'[t] = run[t]
    BY <1>1, <2>1, <2>2 DEF Matches
  <2>3. CASE run[t] = "waiting" /\ run'[t] = "busy"
    BY <1>1, <2>1, <2>3 DEF Matches
  <2>. QED BY <1>2, <2>1, <2>2, <2>3
<1>. QED BY <1>1, <1>3 DEF OrderInv, Ordered

LEMMA OrderNext == ChatInv /\ OrderInv /\ [Next]_chatVars => OrderInv'
<1>. SUFFICES ASSUME ChatInv, OrderInv, [Next]_chatVars PROVE OrderInv'
  OBVIOUS
<1>. USE DEF pageVars, callVars, agentVars
<1>1. ASSUME NEW c \in Calls, SendMessage(c) \/ CreateTask(c) \/ CreateFails(c)
      PROVE  OrderInv'
  <2>1. /\ pc[c] \in {"idle", "create"} /\ UNCHANGED <<run, reader, sse>>
        /\ \E p \in {"idle", "create", "post"} : pc' = [pc EXCEPT ![c] = p]
        /\ inits' = inits \/ inits' = [inits EXCEPT ![c] = 0]
    BY <1>1 DEF SendMessage, Unused, CreateTask, CreateFails, Begin, Returns, At
  <2>2. inits[c] = 0
    BY <2>1 DEF OrderInv
  <2>. QED BY <2>1, <2>2, OrderNoReader
<1>2. ASSUME NEW c \in Calls, Posted(c) \/ ReadEvent(c)
      PROVE  OrderInv'
  BY <1>2, OrderPosted, OrderReadEvent
<1>3. ASSUME NEW c \in Calls, StreamEnds(c)
      PROVE  OrderInv'
  <2>1. StreamsTyped /\ AgentTyped /\ \A t \in Tasks : reader[t] # c
    BY <1>3, ChatAssumption DEF StreamEnds, ChatInv, ChatTyped, StreamInv, ReadersRead
  <2>2. /\ pc' = [pc EXCEPT ![c] = "idle"] /\ inits' = [inits EXCEPT ![c] = 0]
        /\ sse[c] = <<>> /\ UNCHANGED <<run, reader, sse>>
    BY <1>3 DEF StreamEnds, Returns, At
  <2>3. /\ sse' = [sse EXCEPT ![c] = <<>>]
        /\ reader' = [t \in Tasks |-> IF reader[t] = c THEN None ELSE reader[t]]
    BY <2>1, <2>2 DEF StreamsTyped, AgentTyped
  <2>. QED BY <2>2, <2>3, OrderReaderStops
<1>4. ASSUME NEW c \in Calls, StreamBreaks(c)
      PROVE  OrderInv'
  BY <1>4, OrderReaderStops DEF StreamBreaks, Fail, Returns, At
<1>5. ASSUME NEW t \in Tasks, Agent(t)
      PROVE  OrderInv'
  BY <1>5, OrderAgent
<1>6. CASE Respond \/ SteerMessage
  BY <1>6, OrderTold
<1>7. ASSUME NEW t \in Tasks, Open(t) \/ Opened(t) \/ OpenFails(t)
      PROVE  OrderInv'
  BY <1>7, OrderLeftAlone DEF Open, Opened, OpenFails, streamVars
<1>8. CASE \/ DeleteTask \/ Deleted \/ (\E b \in Bubbles : Approve(b)) \/ Responded
           \/ SendSteer \/ UNCHANGED chatVars
  BY <1>8, OrderLeftAlone
  DEF DeleteTask, Deleted, Approve, Responded, SendSteer, chatVars, streamVars
<1>. QED BY <1>1, <1>2, <1>3, <1>4, <1>5, <1>6, <1>7, <1>8 DEF Next, Reads

LEMMA OrderInit == Init => OrderInv
BY DEF Init, OrderInv, Ordered

-----------------------------------------------------------------------------
(* Nothing goes on after the end                                           *)

Running == {"streaming", "asking"}

\* Only the last bubble of a live call runs, and it is the one in ref; a bubble
\* whose decision is on its way still asks; and whose run came to its result,
\* read or the last that was sent, does not run when the next run begins.
RunsInActive ==
    \A b \in Bubbles : status[b] \in Running =>
        /\ pc[b[1]] \in {"post", "read"} /\ (status[b] = "asking" => pc[b[1]] = "read")
        /\ b = Active(b[1])

RefIsActive == \A c \in Calls : pc[c] \in {"post", "read"} => ref = Active(c)

AnswerIsAsked == answer.at # "none" => answer.msg \in Bubbles /\ status[answer.msg] = "asking"

DoneBeforeNext ==
    \A c \in Calls : inits[c] # 0 /\ sse[c] # <<>> /\ Head(sse[c]) = "init" =>
        status[Active(c)] \notin Running

DoneAtRest ==
    \A t \in Tasks, c \in Calls : reader[t] = c /\ run[t] = "rested" /\ sse[c] = <<>> =>
        status[Active(c)] \notin Running

Settled == RunsInActive /\ RefIsActive /\ AnswerIsAsked /\ DoneBeforeNext /\ DoneAtRest

LeftHarm == {"leave", "hasty", "break", "cut", "late"}

LeftInv == Harmed(LeftHarm) \/ Settled

\* All of the invariants about calls.
CallsInv == ChatInv /\ LiveInv /\ OrderInv

\* What a step has to keep: Settled, for one live call, if nothing goes wrong.
LEMMA LeftStays ==
    ASSUME CallsInv, LeftInv, (\E m : Spoils(m)) \/ UNCHANGED spoilt,
           Settled /\ Alone => Harmed(LeftHarm)' \/ Settled'
    PROVE  LeftInv'
<1>1. CASE Harmed(LeftHarm)
  BY <1>1, HarmStays DEF LeftInv
<1>2. CASE ~Harmed(LeftHarm)
  <2>1. Alone
    BY <1>2 DEF CallsInv, LiveInv, Harmed, LeftHarm
  <2>. QED BY <1>2, <2>1 DEF LeftInv
<1>. QED BY <1>1, <1>2

LEMMA ActiveIsLocal ==
    ASSUME NEW c \in Calls, inits'[c] = inits[c]
    PROVE  Active(c)' = Active(c)
BY DEF Active

\* With no live call that posts or reads, nothing runs and nobody decides.
LEMMA NothingRuns ==
    ASSUME CallsInv, Settled, \A c \in Calls : pc[c] \notin {"post", "read"}
    PROVE  /\ \A b \in Bubbles : status[b] \notin Running
           /\ answer.at = "none"
           /\ \A t \in Tasks : reader[t] = None
<1>1. \A b \in Bubbles : b[1] \in Calls
  BY DEF Bubbles
<1>2. \A b \in Bubbles : status[b] \notin Running
  BY <1>1 DEF Settled, RunsInActive, RefIsActive, AnswerIsAsked, DoneBeforeNext, DoneAtRest
<1>3. answer.at = "none"
  BY <1>2 DEF Settled, RunsInActive, RefIsActive, AnswerIsAsked, DoneBeforeNext, DoneAtRest, Running
<1>4. \A t \in Tasks : reader[t] = None
  BY DEF CallsInv, ChatInv, ChatTyped, AgentTyped, StreamInv, ReadersRead
<1>. QED BY <1>2, <1>3, <1>4

\* A call that begins its stream is alone with its bubble.
LEMMA LeftBegin ==
    ASSUME CallsInv, Settled, NEW c \in Calls, NEW t, Begin(c, t),
           \A d \in Calls : pc[d] \notin {"post", "read"}, inits[c] = 0,
           UNCHANGED <<inits, answer, run, reader, sse>>
    PROVE  Settled'
<1>0. PageTyped /\ CallsTyped /\ StreamsTyped /\ <<c, 1>> \in Bubbles /\ Active(c) = <<c, 1>>
  BY ActiveIsBubble DEF CallsInv, ChatInv, ChatTyped, Active
<1>1. /\ \A b \in Bubbles : status[b] \notin Running
      /\ answer.at = "none" /\ \A k \in Tasks : reader[k] = None
  BY NothingRuns
<1>2. /\ status' = [status EXCEPT ![<<c, 1>>] = "streaming"] /\ ref' = <<c, 1>>
      /\ pc' = [pc EXCEPT ![c] = "post"]
  BY DEF Begin, At
<1>3. \A d \in Calls : Active(d)' = Active(d) /\ Active(d) \in Bubbles /\ Active(d)[1] = d
  BY <1>0, ActiveIsBubble, ActiveIsLocal
<1>4. \A b \in Bubbles : status'[b] \in Running => b = <<c, 1>> /\ status'[b] = "streaming"
  BY <1>0, <1>1, <1>2 DEF PageTyped
<1>5. \A b \in Bubbles : status'[b] \in Running =>
        /\ pc'[b[1]] \in {"post", "read"} /\ (status'[b] = "asking" => pc'[b[1]] = "read")
        /\ b = Active(b[1])'
  <2>. SUFFICES ASSUME NEW b \in Bubbles, status'[b] \in Running
                PROVE  /\ pc'[b[1]] \in {"post", "read"} /\ status'[b] # "asking"
                       /\ b = Active(b[1])'
    OBVIOUS
  <2>1. b = <<c, 1>> /\ b[1] = c /\ status'[b] = "streaming"
    BY <1>4
  <2>. QED BY <1>0, <1>2, <1>3, <2>1 DEF CallsTyped
<1>6. \A d \in Calls : pc'[d] \in {"post", "read"} => ref' = Active(d)'
  BY <1>0, <1>2, <1>3 DEF CallsTyped
<1>7. \A d \in Calls : inits[d] # 0 => status'[Active(d)] \notin Running
  <2>. SUFFICES ASSUME NEW d \in Calls, inits[d] # 0 PROVE status'[Active(d)] \notin Running
    OBVIOUS
  <2>1. d # c /\ Active(d) \in Bubbles /\ Active(d)[1] = d
    BY <1>3
  <2>2. Active(d) # <<c, 1>>
    BY <2>1
  <2>. QED BY <1>4, <2>1, <2>2
<1>. QED BY <1>1, <1>3, <1>5, <1>6, <1>7, ChatAssumption
         DEF Settled, RunsInActive, RefIsActive, AnswerIsAsked, DoneBeforeNext, DoneAtRest

LEMMA LeftSendMessage ==
    ASSUME CallsInv, LeftInv, NEW c \in Calls, SendMessage(c)
    PROVE  LeftInv'
<1>. USE DEF agentVars
<1>0. CallsTyped
  BY DEF CallsInv, ChatInv, ChatTyped
<1>1. /\ pc[c] = "idle" /\ ~Steers
      /\ UNCHANGED <<inits, answer, run, reader, sse>>
      /\ IF \E d \in Calls : pc[d] = "create" THEN Spoils("hasty") ELSE UNCHANGED spoilt
      /\ IF shown # None THEN Begin(c, shown)
         ELSE pc' = [pc EXCEPT ![c] = "create"] /\ UNCHANGED <<status, ref>>
  BY DEF SendMessage, Unused, HasTask, At
<1>2. CASE \E d \in Calls : pc[d] = "create"
  BY <1>1, <1>2, SpoilsHarms DEF LeftInv, LeftHarm
<1>3. ASSUME Settled, Alone, ~\E d \in Calls : pc[d] = "create"
      PROVE  Settled'
  <2>1. \A d \in Calls : pc[d] \notin {"post", "read"}
    BY <1>1, <1>3 DEF Alone, Live, Steers
  <2>2. inits[c] = 0
    BY <1>1 DEF CallsInv, OrderInv
  <2>3. CASE shown # None
    BY <1>1, <1>3, <2>1, <2>2, <2>3, LeftBegin
  <2>4. CASE shown = None
    <3>1. /\ \A b \in Bubbles : status[b] \notin Running
          /\ answer.at = "none" /\ \A k \in Tasks : reader[k] = None
      BY <1>3, <2>1, NothingRuns
    <3>2. \A d \in Calls : pc'[d] \notin {"post", "read"}
      BY <1>0, <1>1, <2>1, <2>4 DEF CallsTyped
    <3>3. \A d \in Calls : Active(d)' = Active(d)
      BY <1>1, ActiveIsLocal
    <3>. QED BY <1>1, <1>3, <2>4, <3>1, <3>2, <3>3
             DEF Settled, RunsInActive, RefIsActive, AnswerIsAsked, DoneBeforeNext, DoneAtRest
  <2>. QED BY <2>3, <2>4
<1>. QED BY <1>1, <1>2, <1>3, LeftStays

LEMMA LeftCreate ==
    ASSUME CallsInv, LeftInv, NEW c \in Calls, CreateTask(c) \/ CreateFails(c)
    PROVE  LeftInv'
<1>. USE DEF agentVars, pageVars
<1>0. CallsTyped /\ StreamsTyped
  BY DEF CallsInv, ChatInv, ChatTyped
<1>1. /\ pc[c] = "create" /\ inits[c] = 0 /\ ((\E m : Spoils(m)) \/ UNCHANGED spoilt)
  BY DEF CreateTask, CreateFails, CallsInv, OrderInv
<1>2. ASSUME Settled, Alone
      PROVE  Settled'
  <2>1. \A d \in Calls : pc[d] \notin {"post", "read"}
    BY <1>1, <1>2 DEF Alone, Live
  <2>2. CASE CreateTask(c)
    BY <1>1, <1>2, <2>1, <2>2, LeftBegin DEF CreateTask
  <2>3. CASE CreateFails(c)
    <3>1. /\ \A b \in Bubbles : status[b] \notin Running
          /\ answer.at = "none" /\ \A k \in Tasks : reader[k] = None
      BY <1>2, <2>1, NothingRuns
    <3>2. /\ pc' = [pc EXCEPT ![c] = "idle"] /\ inits' = [inits EXCEPT ![c] = 0]
          /\ UNCHANGED <<status, ref, answer, run, reader, sse>>
      BY <2>3 DEF CreateFails, Returns, At
    <3>3. UNCHANGED inits
      BY <1>0, <1>1, <3>2 DEF StreamsTyped
    <3>4. \A d \in Calls : pc'[d] \notin {"post", "read"}
      BY <1>0, <2>1, <3>2 DEF CallsTyped
    <3>5. \A d \in Calls : Active(d)' = Active(d)
      BY <3>3, ActiveIsLocal
    <3>. QED BY <1>2, <3>1, <3>2, <3>3, <3>4, <3>5
             DEF Settled, RunsInActive, RefIsActive, AnswerIsAsked, DoneBeforeNext, DoneAtRest
  <2>. QED BY <2>2, <2>3
<1>. QED BY <1>1, <1>2, LeftStays

LEMMA ActiveIsBubbleNext ==
    ASSUME StreamsTyped', NEW c \in Calls
    PROVE  Active(c)' \in Bubbles /\ Active(c)'[1] = c
<1>1. 1 \in 1..MaxRuns /\ (inits'[c] # 0 => inits'[c] \in 1..MaxRuns)
  BY ChatAssumption DEF StreamsTyped
<1>. QED BY <1>1 DEF Active, Bubbles

\* A page on which nothing runs, and no call does, is settled.
LEMMA QuietNext ==
    ASSUME StreamsTyped', AgentTyped', \A b \in Bubbles : status'[b] \notin Running,
           answer'.at = "none", \A d \in Calls : pc'[d] \notin {"post", "read"}
    PROVE  Settled'
<1>1. \A d \in Calls : status'[Active(d)'] \notin Running
  BY ActiveIsBubbleNext
<1>2. \A t \in Tasks : reader'[t] # None => reader'[t] \in Calls
  BY DEF AgentTyped
<1>. QED BY <1>1, <1>2
         DEF Settled, RunsInActive, RefIsActive, AnswerIsAsked, DoneBeforeNext, DoneAtRest

\* What runs is of the live call there is.
LEMMA OnlyActiveRuns ==
    ASSUME CallsInv, Settled, Alone, NEW c \in Calls, pc[c] \in {"post", "read"}
    PROVE  /\ \A b \in Bubbles : status[b] \in Running => b = Active(c)
           /\ \A d \in Calls : pc[d] \in {"create", "post", "read"} => d = c
           /\ answer.at # "none" => pc[c] = "read" /\ answer.msg = Active(c)
<1>1. \A d \in Calls : pc[d] \in {"create", "post", "read"} => d = c
  BY DEF Alone, Live
<1>2. \A b \in Bubbles : b[1] \in Calls
  BY DEF Bubbles
<1>3. \A b \in Bubbles : status[b] \in Running =>
        b = Active(c) /\ (status[b] = "asking" => pc[c] = "read")
  BY <1>1, <1>2 DEF Settled, RunsInActive, RefIsActive, AnswerIsAsked, DoneBeforeNext, DoneAtRest
<1>4. answer.at # "none" => pc[c] = "read" /\ answer.msg = Active(c)
  BY <1>3 DEF Settled, RunsInActive, RefIsActive, AnswerIsAsked, DoneBeforeNext, DoneAtRest, Running
<1>. QED BY <1>1, <1>3, <1>4

LEMMA LeftPosted ==
    ASSUME CallsInv, CallsInv', LeftInv, NEW c \in Calls, Posted(c)
    PROVE  LeftInv'
<1>0. /\ PageTyped /\ CallsTyped /\ StreamsTyped /\ AgentTyped /\ StreamsTyped' /\ AgentTyped'
      /\ pc[c] = "post" /\ task[c] \in Tasks
      /\ UNCHANGED <<ref, answer, sse, spoilt>>
  BY DEF Posted, CallsInv, ChatInv, ChatTyped, CallsTyped
<1>1. ASSUME Settled, Alone
      PROVE  Settled'
  <2>1. /\ \A b \in Bubbles : status[b] \in Running => b = Active(c)
        /\ \A d \in Calls : pc[d] \in {"post", "read"} => d = c
        /\ answer.at = "none"
    BY <1>0, <1>1, OnlyActiveRuns
  <2>2. CASE Fail(c)
    <3>1. \A b \in Bubbles : status'[b] \notin Running
      BY <1>0, <2>1, <2>2 DEF Fail, Mark, PageTyped, Running
    <3>2. \A d \in Calls : pc'[d] \notin {"post", "read"}
      BY <1>0, <2>1, <2>2 DEF Fail, Returns, At, CallsTyped
    <3>. QED BY <1>0, <2>1, <3>1, <3>2, QuietNext
  <2>3. CASE ~Fail(c)
    <3>1. /\ pc' = [pc EXCEPT ![c] = "read"] /\ UNCHANGED <<status, inits>>
          /\ \/ UNCHANGED <<run, reader>>
             \/ /\ run' = [run EXCEPT ![task[c]] = "new"]
                /\ reader' = [reader EXCEPT ![task[c]] = c]
      BY <2>3 DEF Posted, At
    <3>2. /\ \A d \in Calls : Active(d)' = Active(d)
          /\ \A d \in Calls : pc'[d] \in {"post", "read"} <=> pc[d] \in {"post", "read"}
          /\ \A d \in Calls : pc[d] = "read" => pc'[d] = "read"
      BY <1>0, <3>1, ActiveIsLocal DEF CallsTyped
    <3>3. \A t \in Tasks : \/ reader'[t] = reader[t] /\ run'[t] = run[t]
                           \/ run'[t] = "new"
      BY <1>0, <3>1 DEF AgentTyped
    <3>4. \A b \in Bubbles : b[1] \in Calls
      BY DEF Bubbles
    <3>5. \A b \in Bubbles : status'[b] \in Running =>
            /\ pc'[b[1]] \in {"post", "read"} /\ (status'[b] = "asking" => pc'[b[1]] = "read")
            /\ b = Active(b[1])'
      BY <1>1, <3>1, <3>2, <3>4
      DEF Settled, RunsInActive, RefIsActive, AnswerIsAsked, DoneBeforeNext, DoneAtRest
    <3>6. DoneAtRest'
      <4>1. \A t \in Tasks : run'[t] = "rested" => run[t] = "rested" /\ reader'[t] = reader[t]
        BY <3>3
      <4>. QED BY <1>0, <1>1, <3>1, <3>2, <4>1 DEF Settled, DoneAtRest
    <3>7. RunsInActive' /\ RefIsActive' /\ AnswerIsAsked' /\ DoneBeforeNext'
      BY <1>0, <1>1, <2>1, <3>1, <3>2, <3>5
      DEF Settled, RunsInActive, RefIsActive, AnswerIsAsked, DoneBeforeNext
    <3>. QED BY <3>6, <3>7 DEF Settled
  <2>. QED BY <2>2, <2>3
<1>. QED BY <1>0, <1>1, LeftStays

LEMMA LeftReadEvent ==
    ASSUME CallsInv, CallsInv', LeftInv, NEW c \in Calls, ReadEvent(c)
    PROVE  LeftInv'
<1>. DEFINE s == sse[c]
            e == Head(s)
            u == Tail(s)
<1>0. PageTyped /\ CallsTyped /\ StreamsTyped /\ AgentTyped /\ StreamsTyped' /\ AgentTyped'
  BY DEF CallsInv, ChatInv, ChatTyped
<1>1. /\ s # <<>> /\ sse' = [sse EXCEPT ![c] = u] /\ UNCHANGED <<answer, run, reader>>
      /\ UNCHANGED spoilt \/ Spoils("late")
      /\ answer.at # "none" /\ answer.msg = Active(c) => Spoils("late")
      /\ IF e \in Ends THEN pc' = [pc EXCEPT ![c] = "closing"] ELSE UNCHANGED pc
      /\ inits' = IF e = "init" THEN [inits EXCEPT ![c] = @ + 1] ELSE inits
      /\ \/ e = "init" /\ inits[c] = 0 /\ UNCHANGED <<status, ref>>
         \/ /\ e = "init" /\ inits[c] # 0 /\ ref' = <<c, inits[c] + 1>>
            /\ status' = [status EXCEPT ![<<c, inits[c] + 1>>] = "streaming"]
         \/ e = "prompt" /\ Mark(Active(c), "asking") /\ UNCHANGED ref
         \/ /\ e \notin {"init", "prompt"} /\ UNCHANGED ref
            /\ \E x \in {"none", "settled"} : Mark(Active(c), x)
  BY ReadEventDoes DEF CallsInv
<1>2. /\ pc[c] = "read" /\ s \in Seq(Events) /\ e \in Events
      /\ e \in Ends => u = <<>> /\ \A t \in Tasks : reader[t] # c
  BY <1>1, HeadOfStream DEF CallsInv
<1>3. /\ u # <<>> => Head(u) \in Ends \/ (Head(u) = "init" <=> e \in Results)
      /\ u = <<>> => s[Len(s)] = e
  BY <1>1, <1>2, OrderedTail DEF CallsInv, OrderInv
<1>4. \A t \in Tasks : reader[t] = c /\ run[t] = "rested" => s[Len(s)] \in Results
  BY <1>1, ChatAssumption DEF CallsInv, OrderInv, Matches
<1>5. CASE Spoils("late")
  BY <1>5, SpoilsHarms DEF LeftInv, LeftHarm
<1>6. ASSUME Settled, Alone, ~Spoils("late")
      PROVE  Settled'
  <2>1. /\ \A b \in Bubbles : status[b] \in Running => b = Active(c)
        /\ \A d \in Calls : pc[d] \in {"create", "post", "read"} => d = c
        /\ answer.at = "none"
    BY <1>1, <1>2, <1>6, OnlyActiveRuns
  <2>. HIDE DEF s, e, u
  <2>2. /\ sse'[c] = u /\ \A d \in Calls : d # c => sse'[d] = sse[d]
        /\ pc'[c] = IF e \in Ends THEN "closing" ELSE "read"
        /\ \A d \in Calls : d # c => pc'[d] = pc[d] /\ inits'[d] = inits[d]
    BY <1>0, <1>1, <1>2 DEF CallsTyped, StreamsTyped
  <2>3. ref = Active(c)
    BY <1>2, <1>6 DEF Settled, RefIsActive
  <2>4. /\ Active(c)' \in Bubbles /\ Active(c)'[1] = c /\ Active(c) \in Bubbles
        /\ \A d \in Calls : Active(d)' \in Bubbles /\ Active(d)'[1] = d
    BY <1>0, ActiveIsBubbleNext, ActiveIsBubble
  <2>5. Active(c)' = IF e = "init" THEN <<c, inits[c] + 1>> ELSE Active(c)
    <3>1. inits[c] \in Nat /\ (e = "init" => inits'[c] = inits[c] + 1)
      BY <1>0, <1>1 DEF StreamsTyped
    <3>2. e # "init" => inits'[c] = inits[c]
      BY <1>1
    <3>. QED BY <3>1, <3>2 DEF Active
  <2>6. e \notin {"init", "prompt"} => \A b \in Bubbles : status'[b] \notin Running
    BY <1>0, <1>1, <2>1 DEF Mark, PageTyped, Running
  <2>7. /\ \A b \in Bubbles : status'[b] \in Running => b = Active(c)'
        /\ ref' = Active(c)'
    <3>1. CASE e = "init" /\ inits[c] = 0
      <4>1. Active(c) = Active(c)'
        BY <2>5, <3>1 DEF Active
      <4>. QED BY <1>1, <2>1, <2>3, <3>1, <4>1
    <3>2. CASE e = "init" /\ inits[c] # 0
      <4>1. Active(c)' = <<c, inits[c] + 1>> /\ ref' = <<c, inits[c] + 1>>
        BY <1>1, <2>5, <3>2
      <4>2. status[Active(c)] \notin Running
        BY <1>1, <1>6, <3>2 DEF Settled, DoneBeforeNext, s, e
      <4>3. \A b \in Bubbles : status[b] \notin Running
        BY <2>1, <4>2
      <4>. QED BY <1>0, <1>1, <3>2, <4>1, <4>3 DEF PageTyped
    <3>3. CASE e = "prompt"
      BY <1>0, <1>1, <2>1, <2>3, <2>5, <3>3 DEF Mark, PageTyped, Running
    <3>4. CASE e \notin {"init", "prompt"}
      BY <1>1, <2>3, <2>5, <2>6, <3>4
    <3>. QED BY <3>1, <3>2, <3>3, <3>4
  <2>8. RunsInActive'
    <3>1. e \in Ends => \A b \in Bubbles : status'[b] \notin Running
      BY <2>6 DEF Ends
    <3>. QED BY <2>2, <2>4, <2>7, <3>1 DEF RunsInActive
  <2>9. RefIsActive'
    BY <2>1, <2>2, <2>7 DEF RefIsActive
  <2>10. AnswerIsAsked'
    BY <1>1, <2>1 DEF AnswerIsAsked
  <2>11. \A d \in Calls : status'[Active(d)'] \in Running => d = c /\ e \in {"init", "prompt"}
    BY <2>4, <2>6, <2>7
  <2>12. DoneBeforeNext'
    <3>. SUFFICES ASSUME NEW d \in Calls, sse'[d] # <<>>, Head(sse'[d]) = "init",
                         status'[Active(d)'] \in Running
                  PROVE  FALSE
      BY DEF DoneBeforeNext
    <3>. QED BY <1>3, <2>2, <2>11 DEF Ends, Results
  <2>13. DoneAtRest'
    <3>. SUFFICES ASSUME NEW t \in Tasks, NEW d \in Calls, reader[t] = d, run[t] = "rested",
                         sse'[d] = <<>>, status'[Active(d)'] \in Running
                  PROVE  FALSE
      BY <1>1 DEF DoneAtRest
    <3>. QED BY <1>3, <1>4, <2>2, <2>11 DEF Results
  <2>. QED BY <2>8, <2>9, <2>10, <2>12, <2>13 DEF Settled
<1>. QED BY <1>1, <1>5, <1>6, LeftStays

\* A call that has read the end of its stream has nothing left on the page.
LEMMA LeftStreamEnds ==
    ASSUME CallsInv, LeftInv, NEW c \in Calls, StreamEnds(c)
    PROVE  LeftInv'
<1>. USE DEF agentVars, pageVars
<1>0. CallsTyped /\ StreamsTyped /\ AgentTyped /\ ReadersRead
  BY DEF CallsInv, ChatInv, ChatTyped, StreamInv
<1>1. /\ pc' = [pc EXCEPT ![c] = "idle"] /\ inits' = [inits EXCEPT ![c] = 0]
      /\ sse[c] = <<>> /\ UNCHANGED <<status, ref, answer, run, reader, sse>>
      /\ IF pc[c] = "read" THEN Spoils("cut") ELSE pc[c] = "closing" /\ UNCHANGED spoilt
  BY DEF StreamEnds, Returns, At
<1>2. CASE pc[c] = "read"
  BY <1>1, <1>2, SpoilsHarms DEF LeftInv, LeftHarm
<1>3. ASSUME Settled, pc[c] # "read"
      PROVE  Settled'
  <2>1. /\ pc[c] = "closing" /\ UNCHANGED spoilt /\ pc'[c] = "idle" /\ inits'[c] = 0
        /\ \A d \in Calls : d # c => pc'[d] = pc[d] /\ inits'[d] = inits[d]
    BY <1>0, <1>1, <1>3 DEF CallsTyped, StreamsTyped
  <2>2. \A d \in Calls : d # c => Active(d)' = Active(d)
    BY <2>1, ActiveIsLocal
  <2>3. \A b \in Bubbles : status[b] \in Running => b[1] \in Calls /\ b[1] # c
    BY <1>3, <2>1 DEF Settled, RunsInActive, Bubbles
  <2>4. RunsInActive'
    BY <1>1, <1>3, <2>1, <2>2, <2>3 DEF Settled, RunsInActive
  <2>5. RefIsActive' /\ AnswerIsAsked' /\ DoneBeforeNext'
    BY <1>1, <1>3, <2>1, <2>2 DEF Settled, RefIsActive, AnswerIsAsked, DoneBeforeNext
  <2>6. \A t \in Tasks : reader[t] # c
    BY <1>0, <2>1, ChatAssumption DEF ReadersRead
  <2>7. DoneAtRest'
    BY <1>1, <1>3, <2>2, <2>6 DEF Settled, DoneAtRest
  <2>. QED BY <2>4, <2>5, <2>7 DEF Settled
<1>. QED BY <1>1, <1>2, <1>3, LeftStays

LEMMA LeftTurns ==
    ASSUME CallsInv, CallsInv', LeftInv, NEW awaited, Turned(awaited), NEW t, TurnTo(t),
           UNCHANGED <<pc, answer>>
    PROVE  LeftInv'
<1>1. CASE Spoils("leave")
  BY <1>1, SpoilsHarms DEF LeftInv, LeftHarm
<1>2. CASE ~Spoils("leave")
  <2>1. Calm /\ \A c \in Calls : pc[c] = "idle"
    BY <1>2, CalmIsIdle DEF Turned, CallsInv
  <2>2. Settled'
    BY <2>1, QuietNext DEF TurnTo, Calm, Running, CallsInv, ChatInv, ChatTyped
  <2>. QED BY <2>2 DEF LeftInv
<1>. QED BY <1>1, <1>2

\* Steps that leave calls, page and streams alone, and bring no run to its result.
LEMMA LeftLeftAlone ==
    ASSUME CallsInv, LeftInv, (\E m : Spoils(m)) \/ UNCHANGED spoilt,
           UNCHANGED <<status, ref, pc, inits, sse, reader>>,
           UNCHANGED answer \/ (Settled => AnswerIsAsked'),
           \A t \in Tasks : run'[t] = "rested" => run[t] = "rested"
    PROVE  LeftInv'
<1>1. ASSUME Settled
      PROVE  Settled'
  <2>1. \A c \in Calls : Active(c)' = Active(c)
    BY ActiveIsLocal
  <2>2. AnswerIsAsked'
    BY <1>1 DEF Settled, AnswerIsAsked
  <2>3. RunsInActive'
    BY <1>1, <2>1 DEF Settled, RunsInActive, Bubbles
  <2>4. RefIsActive' /\ DoneBeforeNext' /\ DoneAtRest'
    BY <1>1, <2>1 DEF Settled, RefIsActive, DoneBeforeNext, DoneAtRest
  <2>. QED BY <2>2, <2>3, <2>4 DEF Settled
<1>. QED BY <1>1, LeftStays

\* What asks is the bubble in ref, and the answer is to it; until it is taken
\* the bubble goes on asking.
LEMMA LeftDecision ==
    ASSUME CallsInv, LeftInv, (\E b \in Bubbles : Approve(b)) \/ Respond \/ Responded
    PROVE  LeftInv'
<1>. USE DEF pageVars, callVars, agentVars
<1>0. PageTyped /\ AgentTyped
  BY DEF CallsInv, ChatInv, ChatTyped
<1>1. ASSUME NEW b \in Bubbles, Approve(b)
      PROVE  LeftInv'
  <2>1. /\ status[b] = "asking" /\ answer'.msg = ref
        /\ UNCHANGED <<status, ref, pc, inits, sse, reader, run, spoilt>>
    BY <1>1 DEF Approve
  <2>2. ASSUME Settled
        PROVE  AnswerIsAsked'
    <3>1. b[1] \in Calls /\ pc[b[1]] = "read" /\ b = Active(b[1])
      BY <2>1, <2>2 DEF Settled, RunsInActive, Bubbles, Running
    <3>2. ref = b
      BY <2>2, <3>1 DEF Settled, RefIsActive
    <3>. QED BY <2>1, <3>2 DEF AnswerIsAsked
  <2>. QED BY <2>1, <2>2, LeftLeftAlone
<1>2. CASE Respond
  <2>1. /\ answer.at = "sent" /\ answer' = [answer EXCEPT !.at = "taken"]
        /\ UNCHANGED <<status, ref, pc, inits, sse, reader>>
        /\ (\E m : Spoils(m)) \/ UNCHANGED spoilt
        /\ \/ UNCHANGED run
           \/ run' = [run EXCEPT ![answer.to] = "busy"]
    BY <1>2 DEF Respond
  <2>2. Settled => AnswerIsAsked'
    BY <1>0, <2>1 DEF Settled, AnswerIsAsked, PageTyped
  <2>3. \A t \in Tasks : run'[t] = "rested" => run[t] = "rested"
    BY <1>0, <2>1 DEF AgentTyped
  <2>. QED BY <2>1, <2>2, <2>3, LeftLeftAlone
<1>3. CASE Responded
  <2>1. /\ answer.at = "taken" /\ answer'.at = "none"
        /\ IF answer.msg = None THEN UNCHANGED status ELSE Mark(answer.msg, "streaming")
        /\ UNCHANGED <<ref, pc, inits, sse, reader, run, spoilt>>
    BY <1>3 DEF Responded, NoAnswer
  <2>2. ASSUME Settled
        PROVE  Settled'
    <3>1. answer.msg \in Bubbles /\ status[answer.msg] = "asking"
      BY <2>1, <2>2 DEF Settled, AnswerIsAsked
    <3>2. \A b \in Bubbles : /\ status'[b] \in Running => status[b] \in Running
                             /\ status'[b] = "asking" => status[b] = "asking"
      BY <1>0, <2>1, <3>1 DEF Mark, PageTyped, Running
    <3>3. \A c \in Calls : Active(c)' = Active(c) /\ Active(c) \in Bubbles
      BY <2>1, ActiveIsLocal, ActiveIsBubble DEF CallsInv, ChatInv, ChatTyped
    <3>4. RunsInActive'
      BY <2>1, <2>2, <3>2, <3>3 DEF Settled, RunsInActive, Bubbles
    <3>5. RefIsActive' /\ AnswerIsAsked'
      BY <2>1, <2>2, <3>3 DEF Settled, RefIsActive, AnswerIsAsked
    <3>6. DoneBeforeNext' /\ DoneAtRest'
      BY <2>1, <2>2, <3>2, <3>3 DEF Settled, DoneBeforeNext, DoneAtRest
    <3>. QED BY <3>4, <3>5, <3>6 DEF Settled
  <2>. QED BY <2>1, <2>2, LeftStays
<1>. QED BY <1>1, <1>2, <1>3

\* A run that goes on after its result was read, or will be, finds its bubble
\* done.
LEMMA LeftSends ==
    ASSUME CallsInv, Settled, NEW t \in Tasks, NEW e \in Events, NEW p \in Phases,
           Sends(t, e), SendsNext(t, e, p), run' = [run EXCEPT ![t] = p],
           UNCHANGED <<pc, inits, status, ref, answer>>,
           IF e \in Ends THEN reader' = [reader EXCEPT ![t] = None] ELSE UNCHANGED reader
    PROVE  Settled'
<1>0. /\ CallsTyped /\ StreamsTyped /\ AgentTyped /\ ReadersRead
      /\ \A d \in Calls : Active(d)' = Active(d)
  BY ActiveIsLocal DEF CallsInv, ChatInv, ChatTyped, StreamInv
<1>1. RunsInActive' /\ RefIsActive' /\ AnswerIsAsked'
  <2>1. RunsInActive'
    BY <1>0 DEF Settled, RunsInActive, Bubbles
  <2>. QED BY <1>0, <2>1 DEF Settled, RefIsActive, AnswerIsAsked
<1>2. /\ \A k \in Tasks : k # t => run'[k] = run[k]
      /\ run'[t] = p
      /\ \A k \in Tasks, d \in Calls : reader'[k] = d => reader[k] = d
  BY <1>0, ChatAssumption DEF AgentTyped
<1>3. CASE reader[t] = None
  <2>1. UNCHANGED sse
    BY <1>3 DEF Sends
  <2>2. DoneBeforeNext'
    BY <1>0, <2>1 DEF Settled, DoneBeforeNext
  <2>3. DoneAtRest'
    BY <1>0, <1>2, <1>3, <2>1, ChatAssumption DEF Settled, DoneAtRest
  <2>. QED BY <1>1, <2>2, <2>3 DEF Settled
<1>4. CASE reader[t] # None
  <2>. DEFINE c == reader[t]
              s == sse[c]
              u == Append(s, e)
  <2>1. /\ c \in Calls /\ s \in Seq(Events) /\ sse' = [sse EXCEPT ![c] = u] /\ Ordered(s)
        /\ Matches(t)
    BY <1>0, <1>4 DEF AgentTyped, StreamsTyped, Sends, CallsInv, OrderInv
  <2>2. /\ run[t] = "new" => inits[c] = 0
        /\ s # <<>> => e \in Ends \/ (e = "init" <=> s[Len(s)] \in Results)
    BY <2>1 DEF Matches, SendsNext, Results, Ends
  <2>3. u # <<>> /\ Head(u) = IF s = <<>> THEN e ELSE Head(s)
    BY <2>1, <2>2, OrderedAppend
  <2>4. inits[c] # 0 /\ e = "init" /\ s = <<>> => status[Active(c)] \notin Running
    BY <2>1, <2>2 DEF Settled, DoneAtRest, SendsNext, Ends, Results
  <2>5. inits[c] # 0 /\ s # <<>> /\ Head(s) = "init" => status[Active(c)] \notin Running
    BY <2>1 DEF Settled, DoneBeforeNext
  <2>. HIDE DEF c, s, u
  <2>6. sse'[c] = u /\ \A d \in Calls : d # c => sse'[d] = sse[d]
    BY <1>0, <2>1 DEF StreamsTyped
  <2>7. inits[c] # 0 /\ Head(u) = "init" => status[Active(c)] \notin Running
    BY <2>3, <2>4, <2>5
  <2>8. DoneBeforeNext'
    BY <1>0, <2>6, <2>7 DEF Settled, DoneBeforeNext
  <2>9. \A k \in Tasks, d \in Calls : reader'[k] = d /\ run'[k] = "rested" /\ sse'[d] = <<>> =>
          d # c /\ run[k] = "rested" /\ sse[d] = <<>>
    <3>. SUFFICES ASSUME NEW k \in Tasks, NEW d \in Calls, reader'[k] = d, run'[k] = "rested",
                         sse'[d] = <<>>
                  PROVE  d # c /\ run[k] = "rested" /\ sse[d] = <<>>
      OBVIOUS
    <3>1. d # c
      BY <2>3, <2>6
    <3>2. k # t
      BY <1>2, <3>1 DEF c
    <3>. QED BY <1>2, <2>6, <3>1, <3>2
  <2>10. DoneAtRest'
    BY <1>0, <1>2, <2>9 DEF Settled, DoneAtRest
  <2>. QED BY <1>1, <2>8, <2>10 DEF Settled
<1>. QED BY <1>3, <1>4

LEMMA LeftAgent ==
    ASSUME CallsInv, LeftInv, NEW t \in Tasks, Agent(t)
    PROVE  LeftInv'
<1>. USE DEF pageVars, callVars
<1>0. UNCHANGED <<pc, inits, status, ref, answer, spoilt>>
  BY DEF Agent
<1>1. ASSUME Settled
      PROVE  Settled'
  <2>1. CASE AgentStarts(t)
    BY <1>0, <1>1, <2>1, LeftSends DEF AgentStarts, Goes, Events, Ends, Phases, SendsNext
  <2>2. CASE AgentAsks(t)
    BY <1>0, <1>1, <2>2, LeftSends DEF AgentAsks, Goes, Events, Ends, Phases, SendsNext
  <2>3. CASE AgentRests(t)
    BY <1>0, <1>1, <2>3, LeftSends DEF AgentRests, Goes, Events, Ends, Phases, SendsNext, Results
  <2>4. CASE AgentEnds(t)
    BY <1>0, <1>1, <2>4, LeftSends DEF AgentEnds, Goes, Events, Ends, Phases, SendsNext
  <2>5. CASE AgentIsCut(t)
    <3>1. /\ UNCHANGED <<sse, run>> /\ \A d \in Calls : Active(d)' = Active(d)
          /\ \A k \in Tasks, d \in Calls : reader'[k] = d => reader[k] = d
      BY <1>0, <2>5, ActiveIsLocal, ChatAssumption
      DEF AgentIsCut, CallsInv, ChatInv, ChatTyped, AgentTyped
    <3>2. RunsInActive'
      BY <1>0, <1>1, <3>1 DEF Settled, RunsInActive, Bubbles
    <3>. QED BY <1>0, <1>1, <3>1, <3>2
             DEF Settled, RefIsActive, AnswerIsAsked, DoneBeforeNext, DoneAtRest
  <2>. QED BY <2>1, <2>2, <2>3, <2>4, <2>5 DEF Agent
<1>. QED BY <1>0, <1>1, LeftStays

LEMMA LeftNext == CallsInv /\ CallsInv' /\ LeftInv /\ [Next]_chatVars => LeftInv'
<1>. SUFFICES ASSUME CallsInv, CallsInv', LeftInv, [Next]_chatVars PROVE LeftInv'
  OBVIOUS
<1>. USE DEF pageVars, callVars, agentVars
<1>1. ASSUME NEW c \in Calls, SendMessage(c) \/ CreateTask(c) \/ CreateFails(c) \/ Posted(c)
      PROVE  LeftInv'
  BY <1>1, LeftSendMessage, LeftCreate, LeftPosted
<1>2. ASSUME NEW c \in Calls, Reads(c)
      PROVE  LeftInv'
  BY <1>2, LeftReadEvent, LeftStreamEnds DEF Reads
<1>3. ASSUME NEW c \in Calls, StreamBreaks(c)
      PROVE  LeftInv'
  BY <1>3, SpoilsHarms DEF StreamBreaks, LeftInv, LeftHarm
<1>4. ASSUME NEW t \in Tasks, Opened(t)
      PROVE  LeftInv'
  BY <1>4, LeftTurns DEF Opened
<1>5. CASE Deleted
  BY <1>5, LeftTurns DEF Deleted
<1>6. ASSUME NEW t \in Tasks, Agent(t)
      PROVE  LeftInv'
  BY <1>6, LeftAgent
<1>7. CASE (\E b \in Bubbles : Approve(b)) \/ Respond \/ Responded
  BY <1>7, LeftDecision
<1>8. ASSUME NEW t \in Tasks, Open(t) \/ OpenFails(t)
      PROVE  LeftInv'
  BY <1>8, LeftLeftAlone DEF Open, OpenFails
<1>9. CASE SteerMessage
  <2>1. \A t \in Tasks : run'[t] = "rested" => run[t] = "rested"
    BY <1>9 DEF SteerMessage, CallsInv, ChatInv, ChatTyped, AgentTyped
  <2>. QED BY <1>9, <2>1, LeftLeftAlone DEF SteerMessage
<1>10. CASE DeleteTask \/ SendSteer \/ UNCHANGED chatVars
  BY <1>10, LeftLeftAlone DEF DeleteTask, SendSteer, chatVars
<1>. QED BY <1>1, <1>2, <1>3, <1>4, <1>5, <1>6, <1>7, <1>8, <1>9, <1>10 DEF Next

LEMMA CallsNext == CallsInv /\ [Next]_chatVars => CallsInv'
BY ChatNextTyped, LiveNext, OrderNext DEF CallsInv

\* Nothing on the page goes on streaming or asking when its stream is over: each
\* bubble is done by its run's result, before the next run has its own, or by the
\* end of the stream, in whatever order runs, prompts, decisions and steering
\* follow each other (useChat.ts:125-303, 342-380).  Excepted are a page left in
\* the middle, a second message before the task is there, a stream that is cut or
\* breaks, and an event that overtakes the answer to a decision.
THEOREM NothingGoesOn == ChatSpec => []NothingLeftRunning
<1>1. Init => CallsInv /\ LeftInv
  <2>1. Init => CallsInv
    BY ChatInitTyped, ChatInitLive, OrderInit DEF CallsInv
  <2>2. Init => LeftInv
    BY ChatAssumption DEF Init, LeftInv, Settled, RunsInActive, RefIsActive, AnswerIsAsked,
                          DoneBeforeNext, DoneAtRest, Running, NoAnswer
  <2>. QED BY <2>1, <2>2
<1>2. CallsInv /\ LeftInv /\ [Next]_chatVars => (CallsInv /\ LeftInv)'
  BY CallsNext, LeftNext
<1>3. LeftInv => NothingLeftRunning
  BY DEF LeftInv, LeftHarm, Settled, RunsInActive, Running, NothingLeftRunning, Bubbles, Live
<1>. QED BY <1>1, <1>2, <1>3, PTL DEF ChatSpec

-----------------------------------------------------------------------------
(* What the agent waits for is shown                                       *)

\* The events that wait to be read.
Unread(c) == {sse[c][i] : i \in 1..Len(sse[c])}

\* A bubble of a call under way is not one of a run to come.
Past(b) ==
    \A c \in Calls, n \in 1..MaxRuns :
        b = <<c, n>> /\ pc[c] # "idle" => n = 1 \/ n <= inits[c]

AwaitedIsAsked ==
    \A t \in Tasks, c \in Calls : reader[t] = c /\ run[t] = "waiting" =>
        "prompt" \in Unread(c) \/ status[Active(c)] = "asking" \/ answer.at = "sent"

\* The answer that comes back takes no prompt off the page that came after it.
TakenIsBefore ==
    \A t \in Tasks, c \in Calls : reader[t] = c /\ run[t] = "waiting" =>
        (answer.at = "taken" /\ answer.msg = Active(c) => "prompt" \in Unread(c))

AnswerIsHere == answer.at # "none" => answer.to = shown /\ shown # None

NothingAhead == Past(ref) /\ Past(answer.msg)

FirstIsShown ==
    \A c \in Calls : pc[c] \in {"post", "read"} /\ inits[c] = 0 => status[<<c, 1>>] # "none"

\* The bubble of a run is on the page until the run has its result.
GoneIsDone ==
    \A c \in Calls : pc[c] = "read" /\ status[Active(c)] = "none" =>
        /\ sse[c] # <<>> => Head(sse[c]) \in NextRun
        /\ \A t \in Tasks : reader[t] = c /\ sse[c] = <<>> => run[t] = "rested"

Shows ==
    /\ AwaitedIsAsked /\ TakenIsBefore /\ AnswerIsHere
    /\ NothingAhead /\ FirstIsShown /\ GoneIsDone

PromptHarm == {"leave", "hasty", "late", "refused"}

PromptInv == Harmed(PromptHarm) \/ Shows

PageCallsInv == ChatInv /\ OrderInv /\ PageInv

LEMMA PromptStays ==
    ASSUME PageInv, PromptInv, (\E m : Spoils(m)) \/ UNCHANGED spoilt,
           Together /\ Shows => Harmed(PromptHarm)' \/ Shows'
    PROVE  PromptInv'
<1>1. CASE Harmed(PromptHarm)
  BY <1>1, HarmStays DEF PromptInv
<1>2. CASE ~Harmed(PromptHarm)
  <2>1. Together
    BY <1>2 DEF PageInv, Harmed, PromptHarm
  <2>. QED BY <1>2, <2>1 DEF PromptInv
<1>. QED BY <1>1, <1>2

\* A step of one call, which reads nothing after it, disturbs no prompt of others.
LEMMA PromptsOfOthers ==
    ASSUME ChatInv, Shows, NEW c \in Calls, UNCHANGED <<run, answer>>,
           \A d \in Calls : d # c => pc'[d] = pc[d] /\ inits'[d] = inits[d] /\ sse'[d] = sse[d],
           \A b \in Bubbles : b[1] # c => status'[b] = status[b],
           \A t \in Tasks : reader'[t] # c,
           \A t \in Tasks, d \in Calls : reader'[t] = d => reader[t] = d,
           pc'[c] # "read", pc'[c] = "post" => status'[<<c, 1>>] # "none",
           AnswerIsHere', NothingAhead'
    PROVE  Shows'
<1>1. \A d \in Calls : d # c =>
        /\ Active(d)' = Active(d) /\ status'[Active(d)] = status[Active(d)]
        /\ status'[<<d, 1>>] = status[<<d, 1>>]
        /\ Unread(d)' = Unread(d)
  <2>. SUFFICES ASSUME NEW d \in Calls, d # c
                PROVE  /\ Active(d)' = Active(d) /\ status'[Active(d)] = status[Active(d)]
                       /\ status'[<<d, 1>>] = status[<<d, 1>>]
                       /\ Unread(d)' = Unread(d)
    OBVIOUS
  <2>1. /\ Active(d) \in Bubbles /\ Active(d)[1] = d /\ <<d, 1>> \in Bubbles /\ <<d, 1>>[1] = d
    BY ActiveIsBubble DEF ChatInv, ChatTyped
  <2>2. Active(d)' = Active(d)
    BY ActiveIsLocal
  <2>3. Unread(d)' = Unread(d)
    BY DEF Unread
  <2>. QED BY <2>1, <2>2, <2>3
<1>2. AwaitedIsAsked' /\ TakenIsBefore'
  <2>1. AwaitedIsAsked'
    <3>. SUFFICES ASSUME NEW t \in Tasks, NEW d \in Calls, reader'[t] = d, run[t] = "waiting"
                  PROVE  \/ "prompt" \in Unread(d)'
                         \/ status'[Active(d)'] = "asking"
                         \/ answer.at = "sent"
      BY DEF AwaitedIsAsked
    <3>1. d # c /\ reader[t] = d
      OBVIOUS
    <3>. QED BY <1>1, <3>1 DEF Shows, AwaitedIsAsked
  <2>2. TakenIsBefore'
    <3>. SUFFICES ASSUME NEW t \in Tasks, NEW d \in Calls, reader'[t] = d, run[t] = "waiting",
                         answer.at = "taken", answer.msg = Active(d)'
                  PROVE  "prompt" \in Unread(d)'
      BY DEF TakenIsBefore
    <3>1. d # c /\ reader[t] = d
      OBVIOUS
    <3>2. answer.msg = Active(d) /\ Unread(d)' = Unread(d)
      BY <1>1, <3>1
    <3>3. "prompt" \in Unread(d)
      BY <3>1, <3>2 DEF Shows, TakenIsBefore
    <3>. QED BY <3>2, <3>3
  <2>. QED BY <2>1, <2>2
<1>3. FirstIsShown'
  BY <1>1 DEF Shows, FirstIsShown
<1>4. GoneIsDone'
  <2>. SUFFICES ASSUME NEW d \in Calls, pc'[d] = "read", status'[Active(d)'] = "none"
                PROVE  /\ sse'[d] # <<>> => Head(sse'[d]) \in NextRun
                       /\ \A t \in Tasks : reader'[t] = d /\ sse'[d] = <<>> => run[t] = "rested"
    BY DEF GoneIsDone
  <2>1. d # c /\ pc[d] = "read" /\ status[Active(d)] = "none" /\ sse'[d] = sse[d]
    BY <1>1
  <2>2. \A t \in Tasks : reader'[t] = d => reader[t] = d
    OBVIOUS
  <2>. QED BY <2>1, <2>2 DEF Shows, GoneIsDone
<1>. QED BY <1>2, <1>3, <1>4 DEF Shows

\* A call that ends, with or without a last word to its bubble.
LEMMA PromptCallEnds ==
    ASSUME ChatInv, Shows, NEW c \in Calls, Returns(c), UNCHANGED <<shown, ref, answer, run>>,
           UNCHANGED status \/ Mark(Active(c), "settled"),
           sse' = [sse EXCEPT ![c] = <<>>],
           reader' = [t \in Tasks |-> IF reader[t] = c THEN None ELSE reader[t]]
    PROVE  Shows'
<1>0. PageTyped /\ CallsTyped /\ StreamsTyped /\ Active(c) \in Bubbles /\ Active(c)[1] = c
  BY ActiveIsBubble DEF ChatInv, ChatTyped
<1>1. /\ pc'[c] = "idle"
      /\ \A d \in Calls : d # c => pc'[d] = pc[d] /\ inits'[d] = inits[d] /\ sse'[d] = sse[d]
      /\ \A b \in Bubbles : b[1] # c => status'[b] = status[b]
      /\ \A t \in Tasks : reader'[t] # c
      /\ \A t \in Tasks, d \in Calls : reader'[t] = d => reader[t] = d
  BY <1>0, ChatAssumption DEF Returns, At, Mark, PageTyped, CallsTyped, StreamsTyped
<1>2. AnswerIsHere' /\ NothingAhead'
  BY <1>1 DEF Shows, AnswerIsHere, NothingAhead, Past
<1>. QED BY <1>1, <1>2, PromptsOfOthers

LEMMA PromptSendMessage ==
    ASSUME PageCallsInv, PromptInv, NEW c \in Calls, SendMessage(c)
    PROVE  PromptInv'
<1>. USE DEF agentVars
<1>0. PageTyped /\ CallsTyped /\ StreamsTyped /\ \A t \in Tasks : reader[t] # c
  BY IdleIsNoReader DEF SendMessage, Unused, PageCallsInv, ChatInv, ChatTyped, StreamInv
<1>1. /\ pc[c] = "idle" /\ UNCHANGED <<shown, inits, answer, run, reader, sse>>
      /\ \A n \in 1..MaxRuns : <<c, n>> \notin {ref, answer.msg}
      /\ pc' = [pc EXCEPT ![c] = IF shown = None THEN "create" ELSE "post"]
      /\ status' = IF shown = None THEN status ELSE [status EXCEPT ![<<c, 1>>] = "streaming"]
      /\ ref' = IF shown = None THEN ref ELSE <<c, 1>>
      /\ (\E m : Spoils(m)) \/ UNCHANGED spoilt
  BY DEF SendMessage, Unused, HasTask, Begin, At
<1>2. ASSUME Shows
      PROVE  Shows'
  <2>0. <<c, 1>> \in Bubbles /\ <<c, 1>>[1] = c
    BY <1>0, ActiveIsBubble
  <2>1. /\ pc'[c] = IF shown = None THEN "create" ELSE "post"
        /\ \A d \in Calls : d # c => pc'[d] = pc[d]
    BY <1>0, <1>1 DEF CallsTyped
  <2>2. \A b \in Bubbles : b[1] # c => status'[b] = status[b]
    BY <1>0, <1>1, <2>0 DEF PageTyped
  <2>3. pc'[c] = "post" => status'[<<c, 1>>] # "none"
    BY <1>0, <1>1, <2>0, <2>1 DEF PageTyped
  <2>4. NothingAhead'
    <3>1. Past(answer.msg)'
      BY <1>1, <1>2, <2>1 DEF Shows, NothingAhead, Past
    <3>2. Past(ref)'
      BY <1>1, <1>2, <2>1 DEF Shows, NothingAhead, Past
    <3>. QED BY <3>1, <3>2 DEF NothingAhead
  <2>5. AnswerIsHere'
    BY <1>1, <1>2 DEF Shows, AnswerIsHere
  <2>. QED BY <1>0, <1>1, <1>2, <2>1, <2>2, <2>3, <2>4, <2>5, PromptsOfOthers DEF PageCallsInv
<1>. QED BY <1>1, <1>2, PromptStays DEF PageCallsInv

LEMMA PromptCreateTask ==
    ASSUME PageCallsInv, PromptInv, NEW c \in Calls, CreateTask(c)
    PROVE  PromptInv'
<1>. USE DEF agentVars
<1>0. /\ PageTyped /\ CallsTyped /\ StreamsTyped /\ pc[c] = "create" /\ inits[c] = 0
      /\ \A t \in Tasks : reader[t] # c
  BY IdleIsNoReader DEF CreateTask, PageCallsInv, ChatInv, ChatTyped, StreamInv, OrderInv
<1>1. /\ UNCHANGED <<inits, answer, run, reader, sse>>
      /\ pc' = [pc EXCEPT ![c] = "post"] /\ ref' = <<c, 1>>
      /\ status' = [status EXCEPT ![<<c, 1>>] = "streaming"]
      /\ (\E m : Spoils(m)) \/ UNCHANGED spoilt
  BY DEF CreateTask, Begin, At
<1>2. ASSUME Shows, Together
      PROVE  Shows'
  <2>0. <<c, 1>> \in Bubbles /\ <<c, 1>>[1] = c
    BY <1>0, ActiveIsBubble
  <2>1. pc'[c] = "post" /\ \A d \in Calls : d # c => pc'[d] = pc[d]
    BY <1>0, <1>1 DEF CallsTyped
  <2>2. /\ \A b \in Bubbles : b[1] # c => status'[b] = status[b]
        /\ status'[<<c, 1>>] # "none"
    BY <1>0, <1>1, <2>0 DEF PageTyped
  <2>3. Past(answer.msg)' /\ Past(ref)'
    BY <1>0, <1>1, <1>2, <2>1 DEF Shows, NothingAhead, Past
  <2>4. AnswerIsHere'
    BY <1>0, <1>1, <1>2 DEF Shows, AnswerIsHere, Together
  <2>5. NothingAhead'
    BY <2>3 DEF NothingAhead
  <2>. QED BY <1>0, <1>1, <1>2, <2>1, <2>2, <2>4, <2>5, PromptsOfOthers DEF PageCallsInv
<1>. QED BY <1>1, <1>2, PromptStays DEF PageCallsInv

LEMMA PromptPosted ==
    ASSUME PageCallsInv, PromptInv, NEW c \in Calls, Posted(c)
    PROVE  PromptInv'
<1>0. /\ PageTyped /\ CallsTyped /\ StreamsTyped /\ AgentTyped
      /\ pc[c] = "post" /\ task[c] \in Tasks /\ sse[c] = <<>>
      /\ \A t \in Tasks : reader[t] # c
  BY IdleIsNoReader
  DEF Posted, PageCallsInv, ChatInv, ChatTyped, CallsTyped, StreamInv, EndIsLast
<1>1. UNCHANGED <<shown, ref, answer, sse, spoilt>>
  BY DEF Posted
<1>2. ASSUME Shows
      PROVE  Shows'
  <2>1. CASE Fail(c) /\ UNCHANGED <<run, reader>>
    <3>1. Returns(c) /\ Mark(Active(c), "settled")
      BY <2>1 DEF Fail
    <3>2. /\ sse' = [sse EXCEPT ![c] = <<>>]
          /\ reader' = [t \in Tasks |-> IF reader[t] = c THEN None ELSE reader[t]]
      BY <1>0, <1>1, <2>1 DEF StreamsTyped, AgentTyped
    <3>. QED BY <1>1, <1>2, <2>1, <3>1, <3>2, PromptCallEnds DEF PageCallsInv
  <2>2. CASE ~(Fail(c) /\ UNCHANGED <<run, reader>>)
    <3>1. /\ pc' = [pc EXCEPT ![c] = "read"] /\ UNCHANGED <<status, inits>>
          /\ \/ UNCHANGED <<run, reader>>
             \/ /\ run' = [run EXCEPT ![task[c]] = "new"]
                /\ reader' = [reader EXCEPT ![task[c]] = c]
      BY <2>2 DEF Posted, At
    <3>2. /\ \A d \in Calls : Active(d)' = Active(d) /\ Unread(d)' = Unread(d)
          /\ pc'[c] = "read" /\ \A d \in Calls : d # c => pc'[d] = pc[d]
      BY <1>0, <1>1, <3>1, ActiveIsLocal DEF CallsTyped, Unread
    <3>3. \A t \in Tasks, d \in Calls : reader'[t] = d =>
            \/ reader[t] = d /\ run'[t] = run[t] /\ d # c
            \/ run'[t] = "new" /\ d = c
      BY <1>0, <3>1 DEF AgentTyped
    <3>4. AwaitedIsAsked'
      <4>. SUFFICES ASSUME NEW t \in Tasks, NEW d \in Calls, reader'[t] = d, run'[t] = "waiting"
                    PROVE  \/ "prompt" \in Unread(d)' \/ status'[Active(d)'] = "asking"
                           \/ answer.at = "sent"
        BY <1>1 DEF AwaitedIsAsked
      <4>1. reader[t] = d /\ run[t] = "waiting"
        BY <3>3
      <4>. QED BY <1>2, <3>1, <3>2, <4>1 DEF Shows, AwaitedIsAsked
    <3>5. TakenIsBefore'
      <4>. SUFFICES ASSUME NEW t \in Tasks, NEW d \in Calls, reader'[t] = d, run'[t] = "waiting",
                           answer.at = "taken", answer.msg = Active(d)'
                    PROVE  "prompt" \in Unread(d)'
        BY <1>1 DEF TakenIsBefore
      <4>1. reader[t] = d /\ run[t] = "waiting" /\ answer.msg = Active(d)
        BY <3>2, <3>3
      <4>. QED BY <1>2, <3>2, <4>1 DEF Shows, TakenIsBefore
    <3>6. AnswerIsHere' /\ NothingAhead' /\ FirstIsShown'
      <4>1. \A d \in Calls : /\ pc'[d] # "idle" => pc[d] # "idle"
                             /\ pc'[d] \in {"post", "read"} => pc[d] \in {"post", "read"}
        BY <1>0, <3>2
      <4>. QED BY <1>1, <1>2, <3>1, <4>1
               DEF Shows, AnswerIsHere, NothingAhead, Past, FirstIsShown
    <3>7. GoneIsDone'
      <4>. SUFFICES ASSUME NEW d \in Calls, pc'[d] = "read", status[Active(d)] = "none"
                    PROVE  /\ sse[d] # <<>> => Head(sse[d]) \in NextRun
                           /\ \A t \in Tasks : reader'[t] = d /\ sse[d] = <<>> => run'[t] = "rested"
        BY <1>1, <3>1, <3>2 DEF GoneIsDone
      <4>1. CASE d = c
        <5>1. inits[c] = 0
          BY <1>0 DEF PageCallsInv, OrderInv
        <5>2. status[<<c, 1>>] # "none"
          BY <1>0, <1>2, <5>1 DEF Shows, FirstIsShown
        <5>. QED BY <4>1, <5>1, <5>2 DEF Active
      <4>2. CASE d # c
        <5>1. pc[d] = "read" /\ \A t \in Tasks : reader'[t] = d => reader[t] = d /\ run'[t] = run[t]
          BY <3>2, <3>3, <4>2
        <5>. QED BY <1>2, <5>1 DEF Shows, GoneIsDone
      <4>. QED BY <4>1, <4>2
    <3>. QED BY <3>4, <3>5, <3>6, <3>7 DEF Shows
  <2>. QED BY <2>1, <2>2
<1>. QED BY <1>1, <1>2, PromptStays DEF PageCallsInv

LEMMA PromptStreamStops ==
    ASSUME PageCallsInv, PromptInv, NEW c \in Calls, StreamEnds(c) \/ StreamBreaks(c)
    PROVE  PromptInv'
<1>. USE DEF pageVars, agentVars
<1>0. CallsTyped /\ StreamsTyped /\ AgentTyped /\ ReadersRead
  BY DEF PageCallsInv, ChatInv, ChatTyped, StreamInv
<1>1. CASE StreamEnds(c)
  <2>1. /\ Returns(c) /\ UNCHANGED <<shown, ref, status, answer, run, reader, sse>>
        /\ sse[c] = <<>> /\ reader[task[c]] # c
        /\ Spoils("cut") \/ UNCHANGED spoilt
    BY <1>1 DEF StreamEnds
  <2>2. \A t \in Tasks : reader[t] # c
    BY <1>0, <2>1, ChatAssumption DEF ReadersRead
  <2>3. /\ sse' = [sse EXCEPT ![c] = <<>>]
        /\ reader' = [t \in Tasks |-> IF reader[t] = c THEN None ELSE reader[t]]
    BY <1>0, <2>1, <2>2 DEF StreamsTyped, AgentTyped
  <2>4. Shows => Shows'
    BY <2>1, <2>3, PromptCallEnds DEF PageCallsInv
  <2>. QED BY <2>1, <2>4, PromptStays DEF PageCallsInv
<1>2. CASE StreamBreaks(c)
  <2>1. /\ Returns(c) /\ Mark(Active(c), "settled") /\ UNCHANGED <<shown, ref, answer, run>>
        /\ sse' = [sse EXCEPT ![c] = <<>>]
        /\ reader' = [t \in Tasks |-> IF reader[t] = c THEN None ELSE reader[t]]
        /\ Spoils("break")
    BY <1>2 DEF StreamBreaks, Fail
  <2>2. Shows => Shows'
    BY <2>1, PromptCallEnds DEF PageCallsInv
  <2>. QED BY <2>1, <2>2, PromptStays DEF PageCallsInv
<1>. QED BY <1>1, <1>2

LEMMA PromptCreateFails ==
    ASSUME PageCallsInv, PromptInv, NEW c \in Calls, CreateFails(c)
    PROVE  PromptInv'
<1>. USE DEF pageVars, agentVars
<1>0. StreamsTyped /\ AgentTyped /\ pc[c] = "create" /\ \A t \in Tasks : reader[t] # c
  BY IdleIsNoReader DEF CreateFails, PageCallsInv, ChatInv, ChatTyped, StreamInv
<1>1. Returns(c) /\ UNCHANGED <<shown, ref, status, answer, run, reader, sse>> /\ Spoils("create")
  BY DEF CreateFails
<1>2. sse[c] = <<>>
  BY <1>0 DEF PageCallsInv, ChatInv, StreamInv, EndIsLast
<1>3. /\ sse' = [sse EXCEPT ![c] = <<>>]
      /\ reader' = [t \in Tasks |-> IF reader[t] = c THEN None ELSE reader[t]]
  BY <1>0, <1>1, <1>2 DEF StreamsTyped, AgentTyped
<1>4. Shows => Shows'
  BY <1>1, <1>3, PromptCallEnds DEF PageCallsInv
<1>. QED BY <1>1, <1>4, PromptStays DEF PageCallsInv

LEMMA PromptTurns ==
    ASSUME PageCallsInv, NEW awaited, Turned(awaited), NEW t, TurnTo(t),
           UNCHANGED <<pc, answer, run, reader>>
    PROVE  PromptInv'
<1>1. CASE Spoils("leave")
  BY <1>1, SpoilsHarms DEF PromptInv, PromptHarm
<1>2. CASE ~Spoils("leave")
  <2>1. /\ Calm /\ \A c \in Calls : pc[c] = "idle"
        /\ \A k \in Tasks : run[k] = "none"
    BY <1>2, CalmIsIdle DEF Turned, PageCallsInv, Calm
  <2>2. AwaitedIsAsked' /\ TakenIsBefore' /\ AnswerIsHere'
    BY <2>1 DEF Calm, AwaitedIsAsked, TakenIsBefore, AnswerIsHere
  <2>3. NothingAhead' /\ FirstIsShown' /\ GoneIsDone'
    BY <2>1 DEF NothingAhead, Past, FirstIsShown, GoneIsDone
  <2>. QED BY <2>2, <2>3 DEF PromptInv, Shows
<1>. QED BY <1>1, <1>2

\* Steps that leave the page, the streams and the runs that are read alone.
LEMMA PromptLeftAlone ==
    ASSUME PageCallsInv, PromptInv, (\E m : Spoils(m)) \/ UNCHANGED spoilt,
           UNCHANGED <<shown, ref, status, pc, inits, answer, reader, sse>>,
           \A t \in Tasks : reader[t] # None => run'[t] = run[t]
    PROVE  PromptInv'
<1>1. ASSUME Shows
      PROVE  Shows'
  <2>1. /\ \A d \in Calls : Active(d)' = Active(d) /\ Unread(d)' = Unread(d)
        /\ \A t \in Tasks, d \in Calls : reader[t] = d => run'[t] = run[t]
    BY ActiveIsLocal, ChatAssumption DEF Unread
  <2>2. AwaitedIsAsked' /\ TakenIsBefore'
    BY <1>1, <2>1 DEF Shows, AwaitedIsAsked, TakenIsBefore
  <2>3. AnswerIsHere' /\ NothingAhead' /\ FirstIsShown'
    BY <1>1 DEF Shows, AnswerIsHere, NothingAhead, Past, FirstIsShown
  <2>4. GoneIsDone'
    BY <1>1, <2>1 DEF Shows, GoneIsDone
  <2>. QED BY <2>2, <2>3, <2>4 DEF Shows
<1>. QED BY <1>1, PromptStays DEF PageCallsInv

LEMMA UnreadTail ==
    ASSUME NEW s \in Seq(Events), s # <<>>, s[Len(s)] = "prompt", Head(s) # "prompt"
    PROVE  "prompt" \in {Tail(s)[i] : i \in 1..Len(Tail(s))}
<1>1. /\ Head(s) = s[1] /\ Len(s) \in Nat \ {0} /\ Len(Tail(s)) = Len(s) - 1
      /\ \A i \in 1..Len(Tail(s)) : Tail(s)[i] = s[i + 1]
  BY HeadAndTail
<1>2. Len(s) # 1
  BY <1>1
<1>3. Len(s) - 1 \in 1..Len(Tail(s)) /\ (Len(s) - 1) + 1 = Len(s)
  BY <1>1, <1>2
<1>. QED BY <1>1, <1>3

LEMMA PromptReadEvent ==
    ASSUME PageCallsInv, PageCallsInv', PromptInv, NEW c \in Calls, ReadEvent(c)
    PROVE  PromptInv'
<1>. DEFINE s == sse[c]
            e == Head(s)
            u == Tail(s)
<1>0. PageTyped /\ CallsTyped /\ StreamsTyped /\ AgentTyped /\ StreamsTyped'
  BY DEF PageCallsInv, ChatInv, ChatTyped
<1>1. /\ s # <<>> /\ sse' = [sse EXCEPT ![c] = u] /\ UNCHANGED <<shown, answer, run, reader>>
      /\ UNCHANGED spoilt \/ Spoils("late")
      /\ answer.at # "none" /\ answer.msg = Active(c) => Spoils("late")
      /\ IF e \in Ends THEN pc' = [pc EXCEPT ![c] = "closing"] ELSE UNCHANGED pc
      /\ inits' = IF e = "init" THEN [inits EXCEPT ![c] = @ + 1] ELSE inits
      /\ \/ e = "init" /\ inits[c] = 0 /\ UNCHANGED <<status, ref>>
         \/ /\ e = "init" /\ inits[c] # 0 /\ ref' = <<c, inits[c] + 1>>
            /\ status' = [status EXCEPT ![<<c, inits[c] + 1>>] = "streaming"]
         \/ e = "prompt" /\ Mark(Active(c), "asking") /\ UNCHANGED ref
         \/ /\ e \notin {"init", "prompt"} /\ UNCHANGED ref
            /\ \E x \in {"none", "settled"} : Mark(Active(c), x)
  BY ReadEventDoes DEF PageCallsInv
<1>2. /\ pc[c] = "read" /\ s \in Seq(Events) /\ e \in Events
      /\ e \in Ends => \A t \in Tasks : reader[t] # c
  BY <1>1, HeadOfStream DEF PageCallsInv
<1>3. /\ u # <<>> => Head(u) \in Ends \/ (Head(u) = "init" <=> e \in Results)
      /\ u = <<>> => s[Len(s)] = e
      /\ inits[c] = 0 => e \in NextRun
  BY <1>1, <1>2, OrderedTail DEF PageCallsInv, OrderInv
<1>4. \A t \in Tasks : reader[t] = c =>
        /\ run[t] \in {"busy", "waiting", "rested"}
        /\ run[t] = "waiting" => s[Len(s)] = "prompt"
        /\ run[t] = "busy" => s[Len(s)] \notin Results
  <2>. SUFFICES ASSUME NEW t \in Tasks, reader[t] = c
                PROVE  /\ run[t] \in {"busy", "waiting", "rested"}
                       /\ run[t] = "waiting" => s[Len(s)] = "prompt"
                       /\ run[t] = "busy" => s[Len(s)] \notin Results
    OBVIOUS
  <2>1. Matches(t) /\ run[t] # "none" /\ run[t] \in Phases
    BY <1>0, ChatAssumption DEF PageCallsInv, OrderInv, ChatInv, StreamInv, ReadersRead, AgentTyped
  <2>. QED BY <1>1, <2>1 DEF Matches, Phases, Results
<1>5. CASE Spoils("late")
  BY <1>5, SpoilsHarms DEF PromptInv, PromptHarm
<1>6. ASSUME Shows, ~Spoils("late")
      PROVE  Shows'
  <2>1. \A t \in Tasks : reader[t] = c /\ run[t] = "waiting" /\ e # "prompt" =>
          "prompt" \in {u[i] : i \in 1..Len(u)}
    BY <1>1, <1>2, <1>4, UnreadTail
  <2>. HIDE DEF s, e, u
  <2>2. /\ sse'[c] = u /\ pc'[c] = IF e \in Ends THEN "closing" ELSE "read"
        /\ \A d \in Calls : d # c => sse'[d] = sse[d] /\ pc'[d] = pc[d] /\ inits'[d] = inits[d]
        /\ inits[c] \in Nat /\ inits'[c] = IF e = "init" THEN inits[c] + 1 ELSE inits[c]
    BY <1>0, <1>1, <1>2 DEF CallsTyped, StreamsTyped
  <2>3. Active(c)' = IF e = "init" THEN <<c, inits[c] + 1>> ELSE Active(c)
    BY <2>2 DEF Active
  <2>4. /\ Active(c)' \in Bubbles /\ Active(c)'[1] = c /\ Active(c) \in Bubbles /\ Active(c)[1] = c
        /\ <<c, 1>> \in Bubbles /\ <<c, 1>>[1] = c
    BY <1>0, ActiveIsBubbleNext, ActiveIsBubble
  <2>5. \A b \in Bubbles : b[1] # c => status'[b] = status[b]
    <3>1. e = "init" => <<c, inits[c] + 1>> \in Bubbles /\ <<c, inits[c] + 1>>[1] = c
      BY <2>3, <2>4
    <3>. QED BY <1>0, <1>1, <2>4, <3>1 DEF Mark, PageTyped
  <2>6. \A d \in Calls : d # c =>
          /\ Active(d)' = Active(d) /\ status'[Active(d)] = status[Active(d)]
          /\ status'[<<d, 1>>] = status[<<d, 1>>]
          /\ Unread(d)' = Unread(d)
    <3>. SUFFICES ASSUME NEW d \in Calls, d # c
                  PROVE  /\ Active(d)' = Active(d) /\ status'[Active(d)] = status[Active(d)]
                         /\ status'[<<d, 1>>] = status[<<d, 1>>]
                         /\ Unread(d)' = Unread(d)
      OBVIOUS
    <3>1. /\ Active(d) \in Bubbles /\ Active(d)[1] = d /\ <<d, 1>> \in Bubbles /\ <<d, 1>>[1] = d
      BY <1>0, ActiveIsBubble
    <3>2. Active(d)' = Active(d) /\ Unread(d)' = Unread(d)
      BY <2>2, ActiveIsLocal DEF Unread
    <3>. QED BY <2>5, <3>1, <3>2
  <2>7. e # "prompt" => \A t \in Tasks : reader[t] = c /\ run[t] = "waiting" =>
          "prompt" \in Unread(c)'
    BY <2>1, <2>2 DEF Unread
  <2>8. status[Active(c)] = "none" => e \in NextRun
    BY <1>1, <1>2, <1>6 DEF Shows, GoneIsDone, s, e
  <2>9. e = "prompt" => status'[Active(c)'] = "asking"
    <3>1. e = "prompt" => status[Active(c)] # "none" /\ Mark(Active(c), "asking")
      BY <1>1, <2>8 DEF NextRun, Ends
    <3>. QED BY <1>0, <2>3, <2>4, <3>1 DEF Mark, PageTyped
  <2>10. AwaitedIsAsked'
    <3>. SUFFICES ASSUME NEW t \in Tasks, NEW d \in Calls, reader[t] = d, run[t] = "waiting"
                  PROVE  \/ "prompt" \in Unread(d)' \/ status'[Active(d)'] = "asking"
                         \/ answer.at = "sent"
      BY <1>1 DEF AwaitedIsAsked
    <3>1. CASE d = c
      BY <2>7, <2>9, <3>1
    <3>2. CASE d # c
      BY <1>6, <2>6, <3>2 DEF Shows, AwaitedIsAsked
    <3>. QED BY <3>1, <3>2
  <2>11. TakenIsBefore'
    <3>. SUFFICES ASSUME NEW t \in Tasks, NEW d \in Calls, reader[t] = d, run[t] = "waiting",
                         answer.at = "taken", answer.msg = Active(d)'
                  PROVE  "prompt" \in Unread(d)'
      BY <1>1 DEF TakenIsBefore
    <3>1. CASE d = c
      <4>1. e # "prompt"
        BY <1>1, <1>6, <2>3, <3>1
      <4>. QED BY <2>7, <3>1, <4>1
    <3>2. CASE d # c
      <4>1. answer.msg = Active(d) /\ Unread(d)' = Unread(d)
        BY <2>6, <3>2
      <4>2. "prompt" \in Unread(d)
        BY <1>6, <4>1 DEF Shows, TakenIsBefore
      <4>. QED BY <4>1, <4>2
    <3>. QED BY <3>1, <3>2
  <2>12. AnswerIsHere'
    BY <1>1, <1>6 DEF Shows, AnswerIsHere
  <2>13. NothingAhead'
    <3>1. \A d \in Calls, n \in 1..MaxRuns :
            /\ pc'[d] # "idle" => pc[d] # "idle"
            /\ n = 1 \/ n <= inits[d] => n = 1 \/ n <= inits'[d]
      <4>1. \A d \in Calls : inits[d] \in Nat /\ inits'[d] \in {inits[d], inits[d] + 1}
        BY <1>0, <2>2 DEF StreamsTyped
      <4>2. \A d \in Calls : pc'[d] # "idle" => pc[d] # "idle"
        BY <1>2, <2>2
      <4>. QED BY <4>1, <4>2, ChatAssumption
    <3>2. Past(answer.msg)'
      BY <1>1, <1>6, <3>1 DEF Shows, NothingAhead, Past
    <3>3. Past(ref)'
      <4>1. CASE UNCHANGED ref
        BY <1>6, <3>1, <4>1 DEF Shows, NothingAhead, Past
      <4>2. CASE e = "init" /\ ref' = <<c, inits[c] + 1>>
        BY <2>2, <4>2 DEF Past
      <4>. QED BY <1>1, <4>1, <4>2
    <3>. QED BY <3>2, <3>3 DEF NothingAhead
  <2>14. FirstIsShown'
    <3>1. inits'[c] = 0 => pc'[c] = "closing"
      BY <1>3, <2>2 DEF NextRun
    <3>2. \A d \in Calls : pc'[d] \in {"post", "read"} /\ inits'[d] = 0 => status'[<<d, 1>>] # "none"
      BY <1>6, <2>2, <2>6, <3>1 DEF Shows, FirstIsShown
    <3>. QED BY <3>2 DEF FirstIsShown
  <2>15. ASSUME pc'[c] = "read", status'[Active(c)'] = "none" PROVE e \in Results
    <3>1. e \notin Ends
      BY <2>2, <2>15
    <3>2. e # "prompt"
      BY <2>9, <2>15
    <3>3. ASSUME e = "init" PROVE FALSE
      <4>1. CASE inits[c] = 0
        <5>1. status[<<c, 1>>] # "none"
          BY <1>2, <1>6, <4>1 DEF Shows, FirstIsShown
        <5>2. UNCHANGED status /\ Active(c)' = <<c, 1>>
          BY <1>1, <2>3, <3>3, <4>1
        <5>. QED BY <2>15, <5>1, <5>2
      <4>2. CASE inits[c] # 0
        <5>1. /\ Active(c)' = <<c, inits[c] + 1>>
              /\ status' = [status EXCEPT ![<<c, inits[c] + 1>>] = "streaming"]
          BY <1>1, <2>3, <3>3, <4>2
        <5>. QED BY <1>0, <2>4, <2>15, <5>1 DEF PageTyped
      <4>. QED BY <4>1, <4>2
    <3>. QED BY <1>2, <3>1, <3>2, <3>3 DEF Events, Ends, Results
  <2>16. GoneIsDone'
    <3>. SUFFICES ASSUME NEW d \in Calls, pc'[d] = "read", status'[Active(d)'] = "none"
                  PROVE  /\ sse'[d] # <<>> => Head(sse'[d]) \in NextRun
                         /\ \A t \in Tasks : reader[t] = d /\ sse'[d] = <<>> => run[t] = "rested"
      BY <1>1 DEF GoneIsDone
    <3>1. CASE d = c
      <4>1. e \in Results
        BY <2>15, <3>1
      <4>2. u # <<>> => Head(u) \in NextRun
        BY <1>3, <4>1 DEF NextRun
      <4>3. \A t \in Tasks : reader[t] = c /\ u = <<>> => run[t] = "rested"
        BY <1>3, <1>4, <4>1 DEF Results
      <4>. QED BY <2>2, <3>1, <4>2, <4>3
    <3>2. CASE d # c
      <4>1. pc[d] = "read" /\ status[Active(d)] = "none" /\ sse'[d] = sse[d]
        BY <2>2, <2>6, <3>2
      <4>. QED BY <1>6, <4>1 DEF Shows, GoneIsDone
    <3>. QED BY <3>1, <3>2
  <2>. QED BY <2>10, <2>11, <2>12, <2>13, <2>14, <2>16 DEF Shows
<1>. QED BY <1>1, <1>5, <1>6, PromptStays DEF PageCallsInv

\* The decision is for the task shown, and so for the run that is read.
LEMMA PromptDecision ==
    ASSUME PageCallsInv, PromptInv, (\E b \in Bubbles : Approve(b)) \/ Respond \/ Responded
    PROVE  PromptInv'
<1>. USE DEF pageVars, callVars, agentVars
<1>0. PageTyped /\ CallsTyped /\ StreamsTyped /\ AgentTyped /\ ReadersRead
  BY DEF PageCallsInv, ChatInv, ChatTyped, StreamInv
<1>1. /\ UNCHANGED <<shown, ref, pc, inits, sse, reader>>
      /\ (\E m : Spoils(m)) \/ UNCHANGED spoilt
      /\ \A d \in Calls : Active(d)' = Active(d) /\ Unread(d)' = Unread(d)
  BY ActiveIsLocal DEF Approve, Respond, Responded, Unread
<1>2. CASE \E b \in Bubbles : Approve(b)
  <2>1. /\ shown # None /\ answer' = [to |-> shown, msg |-> ref, at |-> "sent"]
        /\ UNCHANGED <<status, run>>
    BY <1>2 DEF Approve
  <2>2. ASSUME Shows
        PROVE  Shows'
    <3>1. AwaitedIsAsked' /\ TakenIsBefore' /\ AnswerIsHere'
      BY <1>1, <2>1 DEF AwaitedIsAsked, TakenIsBefore, AnswerIsHere
    <3>2. NothingAhead' /\ FirstIsShown'
      BY <1>1, <2>1, <2>2 DEF Shows, NothingAhead, Past, FirstIsShown
    <3>3. GoneIsDone'
      BY <1>1, <2>1, <2>2 DEF Shows, GoneIsDone
    <3>. QED BY <3>1, <3>2, <3>3 DEF Shows
  <2>. QED BY <1>1, <2>2, PromptStays DEF PageCallsInv
<1>3. CASE Respond
  <2>1. /\ answer.at = "sent" /\ answer' = [answer EXCEPT !.at = "taken"] /\ UNCHANGED status
        /\ \/ run[answer.to] = "waiting" /\ run' = [run EXCEPT ![answer.to] = "busy"]
           \/ UNCHANGED run /\ Spoils("refused")
    BY <1>3 DEF Respond
  <2>2. CASE Spoils("refused")
    BY <2>2, SpoilsHarms DEF PromptInv, PromptHarm
  <2>3. ASSUME Shows, Together, ~Spoils("refused")
        PROVE  Shows'
    <3>1. /\ answer.to = shown /\ answer'.at = "taken" /\ answer'.to = shown /\ answer'.msg = answer.msg
          /\ shown # None
      BY <1>0, <2>1, <2>3 DEF Shows, AnswerIsHere, PageTyped
    <3>2. \A t \in Tasks, d \in Calls : reader[t] = d => t = shown
      BY <1>0, <2>3, ChatAssumption DEF ReadersRead, Together
    <3>3. run[shown] = "waiting" /\ run' = [run EXCEPT ![shown] = "busy"]
      BY <2>1, <2>3, <3>1
    <3>4. \A t \in Tasks, d \in Calls : reader[t] = d => run'[t] = "busy" /\ run[t] = "waiting"
      BY <1>0, <3>2, <3>3 DEF AgentTyped
    <3>5. AwaitedIsAsked' /\ TakenIsBefore'
      BY <1>1, <3>4 DEF AwaitedIsAsked, TakenIsBefore
    <3>6. AnswerIsHere' /\ NothingAhead' /\ FirstIsShown'
      BY <1>1, <2>1, <2>3, <3>1 DEF Shows, AnswerIsHere, NothingAhead, Past, FirstIsShown
    <3>7. GoneIsDone'
      BY <1>1, <2>1, <2>3, <3>4 DEF Shows, GoneIsDone
    <3>. QED BY <3>5, <3>6, <3>7 DEF Shows
  <2>. QED BY <1>1, <2>1, <2>2, <2>3, PromptStays DEF PageCallsInv
<1>4. CASE Responded
  <2>1. /\ answer.at = "taken" /\ answer' = NoAnswer /\ UNCHANGED run
        /\ IF answer.msg = None THEN UNCHANGED status ELSE Mark(answer.msg, "streaming")
    BY <1>4 DEF Responded
  <2>2. ASSUME Shows
        PROVE  Shows'
    <3>1. \A b \in Bubbles : /\ status'[b] = "none" <=> status[b] = "none"
                             /\ b # answer.msg => status'[b] = status[b]
      BY <1>0, <2>1 DEF Mark, PageTyped
    <3>2. \A d \in Calls : Active(d) \in Bubbles /\ <<d, 1>> \in Bubbles
      BY <1>0, ActiveIsBubble
    <3>3. AwaitedIsAsked'
      <4>. SUFFICES ASSUME NEW t \in Tasks, NEW d \in Calls, reader[t] = d, run[t] = "waiting"
                    PROVE  "prompt" \in Unread(d) \/ status'[Active(d)] = "asking"
        BY <1>1, <2>1 DEF AwaitedIsAsked
      <4>1. CASE answer.msg = Active(d)
        BY <2>1, <2>2, <4>1 DEF Shows, TakenIsBefore
      <4>2. CASE answer.msg # Active(d)
        BY <2>1, <2>2, <3>1, <3>2, <4>2 DEF Shows, AwaitedIsAsked
      <4>. QED BY <4>1, <4>2
    <3>4. TakenIsBefore' /\ AnswerIsHere'
      BY <2>1 DEF TakenIsBefore, AnswerIsHere, NoAnswer
    <3>5. NothingAhead'
      <4>1. Past(None)'
        BY ChatAssumption DEF Past
      <4>2. Past(ref)'
        BY <1>1, <2>2 DEF Shows, NothingAhead, Past
      <4>. QED BY <2>1, <4>1, <4>2 DEF NothingAhead, NoAnswer, Past
    <3>6. FirstIsShown'
      BY <1>1, <2>2, <3>1, <3>2 DEF Shows, FirstIsShown
    <3>7. GoneIsDone'
      BY <1>1, <2>1, <2>2, <3>1, <3>2 DEF Shows, GoneIsDone
    <3>. QED BY <3>3, <3>4, <3>5, <3>6, <3>7 DEF Shows
  <2>. QED BY <1>1, <2>2, PromptStays DEF PageCallsInv
<1>. QED BY <1>2, <1>3, <1>4

\* What is put behind the events that wait is among them.
LEMMA UnreadAppend ==
    ASSUME NEW s \in Seq(Events), NEW e \in Events
    PROVE  e \in {Append(s, e)[i] : i \in 1..Len(Append(s, e))}
<1>1. Len(Append(s, e)) = Len(s) + 1 /\ Append(s, e)[Len(s) + 1] = e /\ Len(s) \in Nat
  OBVIOUS
<1>. QED BY <1>1

LEMMA PromptSends ==
    ASSUME PageCallsInv, Shows, NEW t \in Tasks, NEW e \in Events, NEW p \in Phases,
           Sends(t, e), SendsNext(t, e, p), run' = [run EXCEPT ![t] = p],
           UNCHANGED <<shown, pc, inits, status, ref, answer>>,
           IF e \in Ends THEN reader' = [reader EXCEPT ![t] = None] ELSE UNCHANGED reader
    PROVE  Shows'
<1>0. /\ CallsTyped /\ StreamsTyped /\ AgentTyped /\ ReadersRead
      /\ \A d \in Calls : Active(d)' = Active(d)
  BY ActiveIsLocal DEF PageCallsInv, ChatInv, ChatTyped, StreamInv
<1>1. AnswerIsHere' /\ NothingAhead' /\ FirstIsShown'
  BY DEF Shows, AnswerIsHere, NothingAhead, Past, FirstIsShown
<1>2. /\ \A k \in Tasks : k # t => run'[k] = run[k]
      /\ run'[t] = p /\ (p = "waiting" => e = "prompt")
      /\ \A k \in Tasks, d \in Calls : reader'[k] = d => reader[k] = d /\ (e \in Ends => k # t)
  BY <1>0, ChatAssumption DEF AgentTyped, SendsNext
<1>3. \A k \in Tasks, d \in Calls : k # t /\ reader'[k] = d =>
        reader[t] # d /\ run'[k] = run[k] /\ sse'[d] = sse[d] /\ Unread(d)' = Unread(d)
  <2>. SUFFICES ASSUME NEW k \in Tasks, NEW d \in Calls, k # t, reader'[k] = d
                PROVE  reader[t] # d /\ run'[k] = run[k] /\ sse'[d] = sse[d] /\ Unread(d)' = Unread(d)
    OBVIOUS
  <2>1. reader[k] = d /\ reader[t] # d
    BY <1>0, <1>2, ChatAssumption DEF ReadersRead
  <2>2. sse'[d] = sse[d]
    BY <1>0, <2>1 DEF Sends, StreamsTyped
  <2>. QED BY <1>2, <2>1, <2>2 DEF Unread
<1>4. \A d \in Calls : reader'[t] = d /\ p = "waiting" => "prompt" \in Unread(d)'
  <2>. SUFFICES ASSUME NEW d \in Calls, reader'[t] = d, p = "waiting"
                PROVE  "prompt" \in Unread(d)'
    OBVIOUS
  <2>1. e = "prompt" /\ reader[t] = d /\ d # None /\ sse[d] \in Seq(Events)
    BY <1>0, <1>2, ChatAssumption DEF StreamsTyped
  <2>2. sse'[d] = Append(sse[d], e)
    BY <1>0, <2>1 DEF Sends, StreamsTyped
  <2>. QED BY <2>1, <2>2, UnreadAppend DEF Unread
<1>5. AwaitedIsAsked'
  <2>. SUFFICES ASSUME NEW k \in Tasks, NEW d \in Calls, reader'[k] = d, run'[k] = "waiting"
                PROVE  \/ "prompt" \in Unread(d)' \/ status[Active(d)] = "asking"
                       \/ answer.at = "sent"
    BY <1>0 DEF AwaitedIsAsked
  <2>1. CASE k = t
    BY <1>2, <1>4, <2>1
  <2>2. CASE k # t
    BY <1>2, <1>3, <2>2 DEF Shows, AwaitedIsAsked
  <2>. QED BY <2>1, <2>2
<1>6. TakenIsBefore'
  <2>. SUFFICES ASSUME NEW k \in Tasks, NEW d \in Calls, reader'[k] = d, run'[k] = "waiting",
                       answer.at = "taken", answer.msg = Active(d)
                PROVE  "prompt" \in Unread(d)'
    BY <1>0 DEF TakenIsBefore
  <2>1. CASE k = t
    BY <1>2, <1>4, <2>1
  <2>2. CASE k # t
    <3>1. "prompt" \in Unread(d)
      BY <1>2, <1>3, <2>2 DEF Shows, TakenIsBefore
    <3>. QED BY <1>3, <2>2, <3>1
  <2>. QED BY <2>1, <2>2
<1>7. ASSUME NEW d \in Calls, pc[d] = "read", status[Active(d)] = "none"
      PROVE  /\ sse'[d] # <<>> => Head(sse'[d]) \in NextRun
             /\ \A k \in Tasks : reader'[k] = d /\ sse'[d] = <<>> => run'[k] = "rested"
  <2>0. /\ sse[d] # <<>> => Head(sse[d]) \in NextRun
        /\ \A k \in Tasks : reader[k] = d /\ sse[d] = <<>> => run[k] = "rested"
    BY <1>7 DEF Shows, GoneIsDone
  <2>1. CASE reader[t] = d
    <3>. DEFINE s == sse[d]
                u == Append(s, e)
    <3>1. s \in Seq(Events) /\ Ordered(s) /\ sse' = [sse EXCEPT ![d] = u] /\ Matches(t)
      BY <1>0, <2>1, ChatAssumption DEF Sends, StreamsTyped, PageCallsInv, OrderInv
    <3>2. s # <<>> => e \in Ends \/ (e = "init" <=> s[Len(s)] \in Results)
      BY <2>1, <3>1 DEF Matches, SendsNext, Results, Ends
    <3>3. u # <<>> /\ Head(u) = IF s = <<>> THEN e ELSE Head(s)
      BY <3>1, <3>2, OrderedAppend
    <3>4. s = <<>> => e \in NextRun
      BY <2>0, <2>1 DEF SendsNext, NextRun, Results, Ends
    <3>5. sse'[d] = u
      BY <1>0, <3>1 DEF StreamsTyped
    <3>. HIDE DEF s, u
    <3>6. Head(u) \in NextRun
      BY <2>0, <3>3, <3>4 DEF s
    <3>. QED BY <3>3, <3>5, <3>6
  <2>2. CASE reader[t] # d
    <3>1. sse'[d] = sse[d]
      BY <1>0, <2>2 DEF Sends, StreamsTyped
    <3>2. \A k \in Tasks : reader'[k] = d => k # t /\ reader[k] = d /\ run'[k] = run[k]
      BY <1>2, <2>2
    <3>. QED BY <2>0, <3>1, <3>2
  <2>. QED BY <2>1, <2>2
<1>8. GoneIsDone'
  BY <1>0, <1>7 DEF GoneIsDone
<1>. QED BY <1>1, <1>5, <1>6, <1>8 DEF Shows

LEMMA PromptAgent ==
    ASSUME PageCallsInv, PromptInv, NEW t \in Tasks, Agent(t)
    PROVE  PromptInv'
<1>. USE DEF pageVars, callVars
<1>0. UNCHANGED <<shown, pc, inits, status, ref, answer, spoilt>>
  BY DEF Agent
<1>1. ASSUME Shows
      PROVE  Shows'
  <2>1. CASE AgentStarts(t)
    BY <1>0, <1>1, <2>1, PromptSends DEF AgentStarts, Goes, Events, Ends, Phases, SendsNext
  <2>2. CASE AgentAsks(t)
    BY <1>0, <1>1, <2>2, PromptSends DEF AgentAsks, Goes, Events, Ends, Phases, SendsNext
  <2>3. CASE AgentRests(t)
    BY <1>0, <1>1, <2>3, PromptSends DEF AgentRests, Goes, Events, Ends, Phases, SendsNext, Results
  <2>4. CASE AgentEnds(t)
    BY <1>0, <1>1, <2>4, PromptSends DEF AgentEnds, Goes, Events, Ends, Phases, SendsNext
  <2>5. CASE AgentIsCut(t)
    <3>1. /\ UNCHANGED <<sse, run>>
          /\ \A d \in Calls : Active(d)' = Active(d) /\ Unread(d)' = Unread(d)
          /\ \A k \in Tasks, d \in Calls : reader'[k] = d => reader[k] = d
      BY <1>0, <2>5, ActiveIsLocal, ChatAssumption
      DEF AgentIsCut, Unread, PageCallsInv, ChatInv, ChatTyped, AgentTyped
    <3>2. AwaitedIsAsked' /\ TakenIsBefore'
      BY <1>0, <1>1, <3>1 DEF Shows, AwaitedIsAsked, TakenIsBefore
    <3>3. AnswerIsHere' /\ NothingAhead' /\ FirstIsShown'
      BY <1>0, <1>1 DEF Shows, AnswerIsHere, NothingAhead, Past, FirstIsShown
    <3>4. GoneIsDone'
      BY <1>0, <1>1, <3>1 DEF Shows, GoneIsDone
    <3>. QED BY <3>2, <3>3, <3>4 DEF Shows
  <2>. QED BY <2>1, <2>2, <2>3, <2>4, <2>5 DEF Agent
<1>. QED BY <1>0, <1>1, PromptStays DEF PageCallsInv

LEMMA PromptNext == PageCallsInv /\ PageCallsInv' /\ PromptInv /\ [Next]_chatVars => PromptInv'
<1>. SUFFICES ASSUME PageCallsInv, PageCallsInv', PromptInv, [Next]_chatVars PROVE PromptInv'
  OBVIOUS
<1>. USE DEF pageVars, callVars, agentVars
<1>1. ASSUME NEW c \in Calls, SendMessage(c) \/ CreateTask(c) \/ CreateFails(c) \/ Posted(c)
      PROVE  PromptInv'
  BY <1>1, PromptSendMessage, PromptCreateTask, PromptCreateFails, PromptPosted
<1>2. ASSUME NEW c \in Calls, Reads(c) \/ StreamBreaks(c)
      PROVE  PromptInv'
  BY <1>2, PromptReadEvent, PromptStreamStops DEF Reads
<1>3. ASSUME NEW t \in Tasks, Opened(t)
      PROVE  PromptInv'
  BY <1>3, PromptTurns DEF Opened
<1>4. CASE Deleted
  BY <1>4, PromptTurns DEF Deleted
<1>5. ASSUME NEW t \in Tasks, Agent(t)
      PROVE  PromptInv'
  BY <1>5, PromptAgent
<1>6. CASE (\E b \in Bubbles : Approve(b)) \/ Respond \/ Responded
  BY <1>6, PromptDecision
<1>7. ASSUME NEW t \in Tasks, Open(t) \/ OpenFails(t)
      PROVE  PromptInv'
  BY <1>7, PromptLeftAlone DEF Open, OpenFails
<1>8. CASE SteerMessage
  <2>1. \A t \in Tasks : reader[t] # None => run'[t] = run[t]
    BY <1>8 DEF SteerMessage, PageCallsInv, ChatInv, ChatTyped, AgentTyped, StreamInv, ReadersRead
  <2>. QED BY <1>8, <2>1, PromptLeftAlone DEF SteerMessage
<1>9. CASE DeleteTask \/ SendSteer \/ UNCHANGED chatVars
  BY <1>9, PromptLeftAlone DEF DeleteTask, SendSteer, chatVars
<1>. QED BY <1>1, <1>2, <1>3, <1>4, <1>5, <1>6, <1>7, <1>8, <1>9 DEF Next

\* What the agent waits for can be decided on the page: no order of prompts,
\* answers, further runs and steering takes a question off it that was not
\* answered, nor a broken or cut connection (useChat.ts:213-235, 342-380).
\* Excepted are a page left in the middle, a second message before the task is
\* there, an answer the agent refused, and an event that overtook an answer.
THEOREM PromptsCanBeDecided == ChatSpec => []PromptIsShown
<1>1. Init => PageCallsInv /\ PromptInv
  <2>1. Init => PageCallsInv
    BY ChatInitTyped, OrderInit DEF PageCallsInv, Init, PageInv, Together
  <2>2. Init => PromptInv
    BY ChatAssumption
    DEF Init, NoAnswer, PromptInv, Shows, AwaitedIsAsked, TakenIsBefore, AnswerIsHere,
        NothingAhead, Past, FirstIsShown, GoneIsDone
  <2>. QED BY <2>1, <2>2
<1>2. PageCallsInv /\ PromptInv /\ [Next]_chatVars => (PageCallsInv /\ PromptInv)'
  BY ChatNextTyped, OrderNext, PageNext, PromptNext DEF PageCallsInv
<1>3. PageCallsInv /\ PromptInv => PromptIsShown
  <2>. SUFFICES ASSUME PageCallsInv, Shows, NEW t \in Tasks, Waiting(t)
                PROVE  status[Active(reader[t])] = "asking" \/ answer.at = "sent"
    BY DEF PromptInv, PromptHarm, PromptIsShown
  <2>1. PICK c \in Calls : reader[t] = c
    BY DEF Waiting, PageCallsInv, ChatInv, ChatTyped, AgentTyped
  <2>2. run[t] = "waiting" /\ \A i \in DOMAIN sse[c] : sse[c][i] # "prompt"
    BY <2>1 DEF Waiting
  <2>3. "prompt" \notin Unread(c)
    <3>1. sse[c] \in Seq(Events)
      BY DEF PageCallsInv, ChatInv, ChatTyped, StreamsTyped
    <3>. QED BY <2>2, <3>1 DEF Unread
  <2>. QED BY <2>1, <2>2, <2>3 DEF Shows, AwaitedIsAsked
<1>. QED BY <1>1, <1>2, <1>3, PTL DEF ChatSpec
=============================================================================
