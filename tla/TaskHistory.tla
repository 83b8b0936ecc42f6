----------------------------- MODULE TaskHistory -----------------------------
(***************************************************************************)
(* A task's history: the parts the agent server writes to the object       *)
(* store, one directory per session; GetAllHistory, which lists them page  *)
(* by page and downloads them side by side; what the page makes of the     *)
(* answer (chainBuilder.ts); and DeleteTask, which removes them while all  *)
(* of this goes on.                                                        *)
(*                                                                         *)
(* A part is one entry here: the SDK may flush between any two.  Entries   *)
(* are numbered in the order they are written.                             *)
(***************************************************************************)
EXTENDS Naturals, Sequences, FiniteSets, SequencesExt, FiniteSetsExt

CONSTANTS
    Sessions,      \* session ids, numbered as their names sort
    Mains,         \* those of conversations; the others are subagents'
    PageSize,      \* objects on one page of a listing
    MaxConcurrent, \* downloads at the same time
    MaxEntries,    \* bound: entries ever written
    MaxOdd         \* bound: those of them that the page leaves out

ASSUME HistoryAssumption ==
    /\ Sessions \subseteq Nat /\ Mains \subseteq Sessions
    /\ PageSize \in Nat \ {0} /\ MaxConcurrent \in Nat \ {0}
    /\ MaxEntries \in Nat /\ MaxOdd \in Nat

VARIABLES
    entries, \* what has been written: entry n is entries[n]
    stored,  \* the entries whose part is in the store
    row,     \* the task's row is in the database
    alive,   \* a sandbox of it is alive, and so its agent server
    pc,      \* GetAllHistory: where it is
    keys,    \* the keys it has listed
    got,     \* those downloaded, in the order the downloads ended
    before,  \* the entries stored when it began
    dpc,     \* DeleteTask: where it is
    dkeys,   \* the keys it has listed and not deleted
    dbefore  \* the entries stored when its DeleteHistory began

readVars == <<pc, keys, got, before>>
deleteVars == <<row, alive, dpc, dkeys, dbefore>>
historyVars == <<entries, stored, readVars, deleteVars>>

\* said: a user's or the assistant's turn.  result: the outcome of a subagent, a
\* user entry with nothing but a tool_result, that names the subagent in
\* tool_use_result.agentId; unlinked: one where the page does not find that.
\* attachment: any type that is in the chain and is neither user nor assistant.
\* meta: isMeta.  side: a subagent's assistant entry, isSidechain with an agentId;
\* sideUser: its other entries.
Kinds == {"said", "result", "unlinked", "attachment", "meta", "side", "sideUser"}
SideKinds == {"side", "sideUser"}
OddKinds == {"unlinked", "attachment", "meta", "sideUser"}
Ids == 1..Len(entries)
Entry == [kind : Kinds, session : Sessions, parent : Nat, agent : Sessions]

TypeOK ==
    /\ entries \in Seq(Entry) /\ stored \subseteq Ids
    /\ \A e \in Ids : entries[e].parent < e
    /\ row \in BOOLEAN /\ alive \in BOOLEAN
    /\ pc \in {"idle", "list", "fetch", "done", "failed"}
    /\ keys \subseteq Ids /\ before \subseteq Ids
    /\ got \in Seq(keys) /\ IsInjective(got)
    /\ dpc \in {"no", "sandbox", "list", "delete", "done", "failed"}
    /\ dkeys \subseteq Ids /\ dbefore \subseteq Ids

Init ==
    /\ entries = <<>> /\ stored = {} /\ row = TRUE /\ alive = TRUE
    /\ pc = "idle" /\ keys = {} /\ got = <<>> /\ before = {}
    /\ dpc = "no" /\ dkeys = {} /\ dbefore = {}

-----------------------------------------------------------------------------
(* The agent server                                                        *)

SessionIds(s) == {e \in Ids : entries[e].session = s}

\* What the next entry of a conversation may follow: any entry of its session, to
\* go on or to take another way from there, or none.
Parents(s) == {0} \cup SessionIds(s)

Write(e) ==
    /\ alive /\ Len(entries) < MaxEntries
    /\ e.kind \in OddKinds => Cardinality({d \in Ids : entries[d].kind \in OddKinds}) < MaxOdd
    /\ entries' = Append(entries, e)
    /\ stored' = stored \cup {Len(entries')}
    /\ UNCHANGED <<readVars, deleteVars>>

\* A task has several conversations: proxy.go opens one for every message sent
\* without a session id.
WriteMain(s, kind, parent) ==
    /\ s \in Mains /\ kind \in {"said", "attachment", "meta"} /\ parent \in Parents(s)
    /\ Write([kind |-> kind, session |-> s, parent |-> parent, agent |-> s])

\* Nothing orders the parts of two sessions: a subagent's may come after its outcome.
WriteSide(a, kind) ==
    /\ a \notin Mains /\ kind \in SideKinds
    /\ Write([kind |-> kind, session |-> a, parent |-> 0, agent |-> a])

\* A conversation gets the outcome of a subagent.
WriteResult(s, a, kind, parent) ==
    /\ s \in Mains /\ a \notin Mains
    /\ kind \in {"result", "unlinked"} /\ parent \in SessionIds(s)
    /\ Write([kind |-> kind, session |-> s, parent |-> parent, agent |-> a])

\* The sandbox dies or times out, or a message still on its way provisions another.
SandboxChanges ==
    /\ alive' = ~alive
    /\ UNCHANGED <<entries, stored, readVars, row, dpc, dkeys, dbefore>>

-----------------------------------------------------------------------------
(* Sequences of entries                                                    *)

\* What is left of the sequence s when only members of S stay, in their order
\* (SelectSeq, which the prover leaves unexpanded).
Kept(s, S) ==
    LET at == {i \in DOMAIN s : s[i] \in S}
    IN  [n \in 1..Cardinality(at) |->
           s[CHOOSE i \in at : Cardinality({j \in at : j < i}) = n - 1]]

-----------------------------------------------------------------------------
(* Listing                                                                 *)

\* Keys sort by session first, then by the time in the part's name.
Sorts(d, e) ==
    \/ entries[d].session < entries[e].session
    \/ entries[d].session = entries[e].session /\ d < e

\* How many keys of S come before that of e.
Rank(S, e) == Cardinality({d \in S : Sorts(d, e)})
Sorted(S) == [i \in 1..Cardinality(S) |-> CHOOSE e \in S : Rank(S, e) = i - 1]

\* The store's objects that a listing which has come as far as K has yet to give.
Rest(K) == {e \in stored : \A d \in K : Sorts(d, e)}

Page(K) == {e \in Rest(K) : Rank(Rest(K), e) < PageSize}

\* Mutant: only the first page is asked for.
OnePage(K) == FALSE

HasMorePages(K) == Rest(K) \ Page(K) # {}

-----------------------------------------------------------------------------
(* GetTaskHistory and GetAllHistory                                        *)

GetTaskHistory ==
    /\ pc \in {"idle", "done", "failed"} /\ row
    /\ pc' = "list" /\ keys' = {} /\ got' = <<>> /\ before' = stored
    /\ UNCHANGED <<entries, stored, deleteVars>>

ListKeys ==
    /\ pc = "list"
    /\ keys' = keys \cup Page(keys)
    /\ pc' = IF HasMorePages(keys) THEN "list" ELSE IF keys' = {} THEN "done" ELSE "fetch"
    /\ UNCHANGED <<entries, stored, got, before, deleteVars>>

\* The semaphore lets the downloads begin in the order of the keys.
MayRun(e) == Rank(keys, e) < Len(got) + MaxConcurrent

\* Mutant: the goroutines share the loop's variable, two may read one key.
AnyKey == keys

\* Each goroutine has its own key.
KeysLeft == keys \ Range(got)

\* readPart: the object is still there.
ReadPart(e) ==
    /\ pc = "fetch" /\ e \in KeysLeft /\ MayRun(e)
    /\ e \in stored
    /\ got' = Append(got, e)
    /\ pc' = IF Range(got') = keys THEN "done" ELSE "fetch"
    /\ UNCHANGED <<entries, stored, keys, before, deleteVars>>

\* A listing or a download fails, for one because its object is gone: no answer.
ReadFails ==
    /\ pc \in {"list", "fetch"}
    /\ pc' = "failed" /\ keys' = {} /\ got' = <<>> /\ before' = {}
    /\ UNCHANGED <<entries, stored, deleteVars>>

\* Mutant: results are appended as the downloads end.
AsTheyEnd == got

\* results[i] holds what key i has: the answer is in the order of the keys.
Merged == Sorted(Range(got))

IsPlain(e) == entries[e].kind # "meta"

\* The answer: all entries but those with isMeta.
Answer == Kept(Merged, {e \in Ids : IsPlain(e)})

-----------------------------------------------------------------------------
(* buildMessages                                                           *)

\* Entries of type user or assistant, not of a sidechain, not isMeta.
IsEligible(e) == entries[e].kind \in {"said", "result", "unlinked"}
Eligible == Kept(Answer, {e \in Ids : IsEligible(e)})

\* Those of E that none of E refers to.
LeavesOf(E) == {e \in E : \A d \in E : entries[d].parent # e}
Leaves == Kept(Eligible, LeavesOf(Range(Eligible)))

\* Mutant: the first of the leaves.
FirstLeaf == Head(Leaves)

Leaf == Last(Leaves)

\* From e back to the root, through the entries in E only; oldest first.
Path(E, e) ==
    LET back[d \in 0..Len(entries)] ==
          IF d \in E THEN Append(back[entries[d].parent], d) ELSE <<>>
    IN  back[e]

MainChain == IF Eligible = <<>> THEN <<>> ELSE Path(Range(Eligible), Leaf)

\* Of the entries of a's transcript only those of type assistant are grouped.
SideIds(a) == {e \in Ids : entries[e].kind = "side" /\ entries[e].agent = a}

\* Mutant: an agent's later entry replaces the ones before.
LastSide(a) ==
    Kept(Answer, {e \in SideIds(a) : \A d \in Range(Answer) \cap SideIds(a) : d <= e})

\* sidechainGroups, and so the trace shown with the agent's outcome, where the
\* chain has a result for it.
Trace(a) == Kept(Answer, SideIds(a))

-----------------------------------------------------------------------------
(* DeleteTask and DeleteHistory                                            *)

DeleteTask ==
    /\ dpc = "no" /\ row' = FALSE /\ dpc' = "sandbox"
    /\ UNCHANGED <<entries, stored, readVars, alive, dkeys, dbefore>>

\* A failure is only logged, and without a recorded sandbox nothing is done.
DeleteSandbox ==
    /\ dpc = "sandbox" /\ dpc' = "list"
    /\ alive' \in {alive, FALSE} /\ dbefore' = stored
    /\ UNCHANGED <<entries, stored, readVars, row, dkeys>>

ListDeleted ==
    /\ dpc = "list"
    /\ dkeys' = dkeys \cup Page(dkeys)
    /\ dpc' = IF HasMorePages(dkeys) THEN "list" ELSE "delete"
    /\ UNCHANGED <<entries, stored, readVars, row, alive, dbefore>>

DeleteObject ==
    /\ dpc = "delete"
    /\ \E e \in dkeys :
         Rank(dkeys, e) = 0 /\ dkeys' = dkeys \ {e} /\ stored' = stored \ {e}
    /\ UNCHANGED <<entries, readVars, row, alive, dpc, dbefore>>

DeleteEnds ==
    /\ \/ dpc = "delete" /\ dkeys = {} /\ dpc' = "done"
       \/ dpc \in {"list", "delete"} /\ dpc' = "failed"
    /\ dkeys' = {}
    /\ UNCHANGED <<entries, stored, readVars, row, alive, dbefore>>

-----------------------------------------------------------------------------
Next ==
    \/ \E s \in Sessions, kind \in Kinds :
         \/ \E parent \in 0..MaxEntries : WriteMain(s, kind, parent)
         \/ WriteSide(s, kind)
         \/ \E a \in Sessions, parent \in 0..MaxEntries : WriteResult(s, a, kind, parent)
    \/ SandboxChanges
    \/ GetTaskHistory \/ ListKeys \/ (\E e \in Ids : ReadPart(e)) \/ ReadFails
    \/ DeleteTask \/ DeleteSandbox \/ ListDeleted \/ DeleteObject \/ DeleteEnds

HistorySpec == Init /\ [][Next]_historyVars

-----------------------------------------------------------------------------
(* Properties                                                              *)

\* GetAllHistory has answered for a task that is still there.
Answered == pc = "done" /\ row

\* The answer holds every entry that was stored when the request came, none of
\* them twice, and those of one session in the order they were written, in
\* whatever order pages and downloads came and whatever was written meanwhile.
AnswerIsFaithful ==
    Answered =>
      /\ {e \in before : IsPlain(e)} \subseteq Range(Answer)
      /\ \A i, j \in DOMAIN Answer :
           i < j => \/ Answer[i] < Answer[j]
                    \/ entries[Answer[i]].session # entries[Answer[j]].session

\* The page shows the conversation whose session sorts last of those with a turn in
\* the answer (transcript-format.md:97 has "the newest main-chain leaf", which it is
\* when there is one): it ends with that session's newest turn, is at least as new
\* as what was stored when the request came, and goes back to the first turn, over
\* any rewinds, unless an entry that is no turn lies between.
ConversationIsWhole ==
    Answered =>
      LET shown == MainChain
          last == Last(shown)
          true == Path(Ids, last)
      IN shown # <<>> =>
           /\ \A e \in before \cup Range(Answer) : IsEligible(e) => e = last \/ Sorts(e, last)
           /\ (\A e \in Range(true) : IsEligible(e)) => shown = true

\* A subagent's outcome that names it is shown with every step of the subagent that
\* was stored when the request came, however its parts and those of the conversation
\* were written among each other: in order, none twice, and none of another's.
TraceIsWhole ==
    Answered =>
      \A e \in Range(MainChain) :
        entries[e].kind = "result" =>
          LET a == entries[e].agent
              shown == Trace(a)
          IN /\ before \cap SideIds(a) \subseteq Range(shown)
             /\ Range(shown) \subseteq SideIds(a)
             /\ \A i, j \in DOMAIN shown : i < j => shown[i] < shown[j]

\* A deletion that has gone through leaves nothing of what was stored when its
\* DeleteHistory began, and nothing of that comes back.  What an agent writes after
\* the listing stays.
DeletedIsGone == dpc = "done" => dbefore \cap stored = {}
=============================================================================
