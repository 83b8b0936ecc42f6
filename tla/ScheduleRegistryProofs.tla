----------------------- MODULE ScheduleRegistryProofs -----------------------
(***************************************************************************)
(* TLAPS proofs about ScheduleRegistry, for any number of requests, cron   *)
(* entries and expressions.                                                *)
(***************************************************************************)
EXTENDS ScheduleRegistry, TLAPS

-----------------------------------------------------------------------------
(* Records                                                                 *)

\* What an update request makes of a record is a record, as enabled as it was.
LEMMA EditsAreRows ==
    ASSUME NEW c \in Rows, NEW rec \in Edits(c)
    PROVE  rec \in Rows /\ rec.enabled = c.enabled
  BY DEF Edits, Rows, Exprs, Times

LEMMA SlotsAreSlots ==
    ASSUME NEW c \in Rows
    PROVE  Slot(c) \in Slots /\ Slot(c) # None
<1>. DEFINE b == c.expr = Once => c.when = "future"
<1>1. b \in BOOLEAN /\ c.expr \in Exprs
  BY DEF Rows
<1>2. Slot(c) = [expr |-> c.expr, ahead |-> b]
  BY DEF Slot
<1>. HIDE DEF b
<1>3. Slot(c) \in Slots
  BY <1>1, <1>2 DEF Slots
<1>. QED BY <1>3, RegistryAssumption

LEMMA SwitchedRows ==
    ASSUME NEW c \in Rows, NEW on \in BOOLEAN
    PROVE  /\ [c EXCEPT !.enabled = on] \in Rows
           /\ [c EXCEPT !.enabled = on].enabled = on
  BY DEF Rows

LEMMA CreatedRows ==
    ASSUME NEW x \in Exprs, NEW rec, rec = [enabled |-> TRUE, expr |-> x, when |-> "future"]
    PROVE  rec \in Rows /\ rec.enabled
  BY DEF Rows, Times

-----------------------------------------------------------------------------
(* Type correctness and the registrations requests hold                    *)

\* A request that goes on to use its record has one.
CopyLoaded ==
    \A r \in Requests : pc[r] \in {"save", "reregister", "add"} => copy[r] \in Rows

RegistryTyped == RegistryTypeOK /\ CopyLoaded

\* Every entry id somebody holds is live, and nobody shares one.
HeldAreLive ==
    /\ EntryIsLive
    /\ \A r \in Requests : eid[r] # None => eid[r] \in Live /\ eid[r] # entry
    /\ \A q, r \in Requests : q # r /\ eid[q] # None => eid[q] # eid[r]
    /\ \A r \in Requests : pc[r] = "setEntry" => eid[r] # None

LEMMA ServiceTyped ==
    ASSUME RegistryTyped, NEW r \in Requests, Service(r)
    PROVE  RegistryTyped'
<1>. USE DEF RegistryTyped, RegistryTypeOK, CopyLoaded, Steps, schedulerVars
<1>1. CASE Create(r)
  BY <1>1, CreatedRows DEF Create, Arrives
<1>2. CASE GetOwned(r)
  BY <1>2 DEF GetOwned, Arrives
<1>3. CASE Save(r)
  <2>1. copy[r] \in Rows
    BY <1>3 DEF Save, Step
  <2>2. row' \in Rows
    BY <1>3, <2>1, EditsAreRows, SwitchedRows DEF Save
  <2>. QED BY <1>3, <2>2 DEF Save, Step
<1>4. CASE Enable(r) \/ Disable(r)
  <2>1. row' \in Rows \cup {None}
    BY <1>4, SwitchedRows DEF Enable, Disable, SetEnabled
  <2>. QED BY <1>4, <2>1 DEF Enable, Disable, Step
<1>5. CASE Delete(r) \/ StatementFails(r)
  BY <1>5 DEF Delete, StatementFails, Finish
<1>. QED BY <1>1, <1>2, <1>3, <1>4, <1>5 DEF Service

LEMMA SchedulerTyped ==
    ASSUME RegistryTyped, NEW r \in Requests, Scheduler(r)
    PROVE  RegistryTyped'
<1>. USE DEF RegistryTyped, RegistryTypeOK, CopyLoaded, Steps, schedulerVars
<1>1. CASE RemoveFor(r)
  BY <1>1 DEF RemoveFor, Remove, Step, Finish
<1>2. CASE Reload(r)
  BY <1>2 DEF Reload, Step, Finish
<1>3. CASE Reregister(r)
  BY <1>3 DEF Reregister, Unregister, Remove, Step
<1>4. CASE Add(r)
  <2>1. Slot(copy[r]) \in Slots
    BY <1>4, SlotsAreSlots DEF Add
  <2>. QED BY <1>4, <2>1 DEF Add, Step, Finish
<1>5. CASE SetEntry(r)
  BY <1>5 DEF SetEntry, Finish
<1>. QED BY <1>1, <1>2, <1>3, <1>4, <1>5 DEF Scheduler

LEMMA RegistryTypedStep ==
    ASSUME RegistryTyped, [RegistryNext]_registryVars
    PROVE  RegistryTyped'
<1>1. CASE RegistryNext
  BY <1>1, ServiceTyped, SchedulerTyped DEF RegistryNext
<1>2. CASE UNCHANGED registryVars
  BY <1>2 DEF registryVars, schedulerVars, requestVars, RegistryTyped, RegistryTypeOK, CopyLoaded
<1>. QED BY <1>1, <1>2

LEMMA RegistryInitTyped == RegistryInit => RegistryTyped /\ HeldAreLive
  BY DEF RegistryInit, RegistryTyped, RegistryTypeOK, CopyLoaded, HeldAreLive, EntryIsLive, Steps

\* The whole request model is type correct, whatever overlaps and fails.
THEOREM RegistryTypeCorrect == RegistrySpec => []RegistryTypeOK
<1>1. RegistryInit => RegistryTyped
  BY RegistryInitTyped
<1>2. RegistryTyped /\ [RegistryNext]_registryVars => RegistryTyped'
  BY RegistryTypedStep
<1>3. RegistryTyped => RegistryTypeOK
  BY DEF RegistryTyped
<1>. QED BY <1>1, <1>2, <1>3, PTL DEF RegistrySpec

-----------------------------------------------------------------------------
(* The map and cron agree on what is live                                  *)

LEMMA ServiceKeepsHeld ==
    ASSUME RegistryTyped, HeldAreLive, NEW r \in Requests, Service(r)
    PROVE  HeldAreLive'
<1>. USE DEF RegistryTyped, RegistryTypeOK, HeldAreLive, EntryIsLive, Live, schedulerVars
<1>1. CASE Create(r) \/ GetOwned(r)
  BY <1>1 DEF Create, GetOwned, Arrives
<1>2. CASE Save(r) \/ Enable(r) \/ Disable(r)
  BY <1>2 DEF Save, Enable, Disable, Step
<1>3. CASE Delete(r) \/ StatementFails(r)
  BY <1>3 DEF Delete, StatementFails, Finish
<1>. QED BY <1>1, <1>2, <1>3 DEF Service

\* Remove takes the map's entry out of both.
LEMMA RemoveKeepsHeld ==
    ASSUME RegistryTyped, HeldAreLive, Remove
    PROVE  /\ entry' = None
           /\ \A r \in Requests : eid[r] # None => eid[r] \in Live'
  BY DEF RegistryTyped, RegistryTypeOK, HeldAreLive, EntryIsLive, Live, Remove

LEMMA SchedulerKeepsHeld ==
    ASSUME RegistryTyped, HeldAreLive, NEW r \in Requests, Scheduler(r)
    PROVE  HeldAreLive'
<1>. USE DEF RegistryTyped, RegistryTypeOK, HeldAreLive, EntryIsLive
<1>1. CASE RemoveFor(r) \/ Reregister(r)
  BY <1>1, RemoveKeepsHeld DEF RemoveFor, Reregister, Unregister, Step, Finish
<1>2. CASE Reload(r)
  BY <1>2 DEF Reload, Step, Finish, Live, schedulerVars
<1>3. CASE Add(r)
  <2>1. CASE ~Registrable(copy[r])
    BY <1>3, <2>1 DEF Add, Finish, Live
  <2>2. CASE Registrable(copy[r])
    <3>1. PICK e \in Entries : /\ Unused(e)
                               /\ cron' = [cron EXCEPT ![e] = Slot(copy[r])]
                               /\ eid' = [eid EXCEPT ![r] = e]
      BY <1>3, <2>2 DEF Add
    <3>2. Slot(copy[r]) # None
      BY <1>3, SlotsAreSlots DEF Add, CopyLoaded
    <3>3. Live' = Live \cup {e} /\ e \notin Live
      BY <3>1, <3>2 DEF Live, Unused
    <3>4. e # None
      BY RegistryAssumption
    <3>. QED BY <1>3, <2>2, <3>1, <3>3, <3>4 DEF Add, Step, Unused
  <2>. QED BY <2>1, <2>2
<1>4. CASE SetEntry(r)
  BY <1>4 DEF SetEntry, Finish, Live
<1>. QED BY <1>1, <1>2, <1>3, <1>4 DEF Scheduler

LEMMA HeldAreLiveStep ==
    ASSUME RegistryTyped, HeldAreLive, [RegistryNext]_registryVars
    PROVE  HeldAreLive'
<1>1. CASE RegistryNext
  BY <1>1, ServiceKeepsHeld, SchedulerKeepsHeld DEF RegistryNext
<1>2. CASE UNCHANGED registryVars
  BY <1>2 DEF registryVars, schedulerVars, requestVars, HeldAreLive, EntryIsLive, Live
<1>. QED BY <1>1, <1>2

\* However requests overlap and statements fail, the entry the Scheduler keeps
\* for the schedule is one cron has: Remove never misses.
THEOREM MapIsLive == RegistrySpec => []EntryIsLive
<1>1. RegistryInit => RegistryTyped /\ HeldAreLive
  BY RegistryInitTyped
<1>2. RegistryTyped /\ HeldAreLive /\ [RegistryNext]_registryVars
        => (RegistryTyped /\ HeldAreLive)'
  BY RegistryTypedStep, HeldAreLiveStep
<1>3. HeldAreLive => EntryIsLive
  BY DEF HeldAreLive
<1>. QED BY <1>1, <1>2, <1>3, PTL DEF RegistrySpec

-----------------------------------------------------------------------------
(* One registration                                                        *)

\* One request at a time; what cron holds is the map's, or was just added by the
\* request that will enter it into the map, where nothing is left by then.
OneHolder ==
    /\ \A q, r \in Requests : pc[q] # "idle" /\ pc[r] # "idle" => q = r
    /\ \A e \in Live : e = entry \/ \E r \in Requests : eid[r] = e
    /\ \A r \in Requests : pc[r] \in {"add", "setEntry"} => entry = None
    /\ \A r \in Requests : eid[r] # None => pc[r] = "setEntry"

LEMMA HoldersAreOne == ASSUME OneHolder PROVE RegisteredOnce
<1>1. SUFFICES ASSUME NEW d \in Live, NEW e \in Live PROVE d = e
  BY DEF RegisteredOnce
<1>2. d # None /\ e # None
  BY RegistryAssumption DEF Live
<1>. QED BY <1>2 DEF OneHolder

\* A step of a request is the step of the only one.
LEMMA OneRequest ==
    ASSUME ~Overlap, RegistryTyped, OneHolder, NEW r \in Requests, Service(r) \/ Scheduler(r)
    PROVE  /\ \A q \in Requests : q # r => pc[q] = "idle" /\ pc'[q] = "idle"
           /\ \A q \in Requests : q # r => eid[q] = None /\ eid'[q] = None
<1>. USE DEF RegistryTyped, RegistryTypeOK
<1>1. \A q \in Requests : q # r => pc[q] = "idle"
  <2>1. CASE Create(r) \/ GetOwned(r)
    BY <2>1 DEF Create, GetOwned, Arrives
  <2>2. CASE ~(Create(r) \/ GetOwned(r))
    <3>1. pc[r] # "idle"
      BY <2>2 DEF Service, Scheduler, Save, Enable, Disable, Delete, StatementFails,
        RemoveFor, Reload, Reregister, Add, SetEntry, Step
    <3>. QED BY <3>1 DEF OneHolder
  <2>. QED BY <2>1, <2>2
<1>2. \A q \in Requests : q # r => pc'[q] = pc[q] /\ eid'[q] = eid[q]
  BY DEF Service, Scheduler, Create, GetOwned, Save, Enable, Disable, Delete,
    StatementFails, RemoveFor, Reload, Reregister, Add, SetEntry, Step, Finish
<1>. QED BY <1>1, <1>2 DEF OneHolder

LEMMA OneHolderStep ==
    ASSUME ~Overlap, RegistryTyped, HeldAreLive, OneHolder, [RegistryNext]_registryVars
    PROVE  OneHolder'
<1>. USE DEF RegistryTyped, RegistryTypeOK
<1>1. ASSUME NEW r \in Requests, Service(r) \/ Scheduler(r)
      PROVE  OneHolder'
  <2>1. /\ \A q \in Requests : q # r => pc[q] = "idle" /\ pc'[q] = "idle"
        /\ \A q \in Requests : q # r => eid[q] = None /\ eid'[q] = None
    BY <1>1, OneRequest
  <2>2. SUFFICES /\ \A e \in Live' : e = entry' \/ eid'[r] = e
                 /\ pc'[r] \in {"add", "setEntry"} => entry' = None
                 /\ eid'[r] # None => pc'[r] = "setEntry"
    BY <2>1 DEF OneHolder
  <2>3. \A e \in Live : e = entry \/ (eid[r] = e /\ pc[r] = "setEntry")
    <3>1. \A e \in Live : e # None
      BY RegistryAssumption DEF Live
    <3>. QED BY <2>1, <3>1 DEF OneHolder
  <2>4. (pc[r] \in {"add", "setEntry"} => entry = None)
        /\ (eid[r] # None => pc[r] = "setEntry")
    BY DEF OneHolder
  <2>5. CASE Service(r)
    <3>1. UNCHANGED schedulerVars /\ pc[r] # "setEntry" /\ pc'[r] \notin {"add", "setEntry"}
      BY <2>5 DEF Service, Create, GetOwned, Arrives, Save, Enable, Disable, Delete,
        StatementFails, Step, Finish
    <3>2. eid'[r] = None
      BY <2>4, <2>5, <3>1 DEF Service, Create, GetOwned, Save, Enable, Disable, Delete,
        StatementFails, Finish
    <3>. QED BY <2>3, <3>1, <3>2 DEF schedulerVars, Live
  <2>6. CASE RemoveFor(r) \/ Reregister(r)
    <3>1. /\ Remove
          /\ pc[r] # "setEntry" /\ pc'[r] # "setEntry" /\ eid'[r] \in {eid[r], None}
      BY <2>6 DEF RemoveFor, Reregister, Unregister, Step, Finish
    <3>2. Live' \subseteq Live \ {entry} /\ entry' = None
      BY <3>1, RegistryAssumption DEF Remove, Live
    <3>. QED BY <2>3, <2>4, <3>1, <3>2
  <2>7. CASE Reload(r)
    <3>1. /\ UNCHANGED schedulerVars
          /\ pc[r] = "reload" /\ pc'[r] \in {"reregister", "idle"}
          /\ eid'[r] \in {eid[r], None}
      BY <2>7 DEF Reload, Step, Finish
    <3>. QED BY <2>3, <2>4, <3>1 DEF schedulerVars, Live
  <2>8. CASE Add(r)
    <3>1. pc[r] = "add" /\ entry = None /\ entry' = None /\ Live = {}
      <4>1. pc[r] = "add" /\ entry' = entry
        BY <2>8 DEF Add
      <4>2. \A e \in Live : e # None
        BY RegistryAssumption DEF Live
      <4>. QED BY <2>3, <2>4, <4>1, <4>2
    <3>2. CASE ~Registrable(copy[r])
      BY <2>8, <3>1, <3>2 DEF Add, Finish, Live
    <3>3. CASE Registrable(copy[r])
      <4>1. PICK e \in Entries : /\ cron' = [cron EXCEPT ![e] = Slot(copy[r])]
                                 /\ eid' = [eid EXCEPT ![r] = e]
        BY <2>8, <3>3 DEF Add
      <4>2. Live' \subseteq {e}
        BY <3>1, <4>1 DEF Live
      <4>3. pc'[r] = "setEntry"
        BY <2>8, <3>3 DEF Add, Step
      <4>. QED BY <3>1, <4>1, <4>2, <4>3
    <3>. QED BY <3>2, <3>3
  <2>9. CASE SetEntry(r)
    <3>1. /\ pc[r] = "setEntry" /\ pc'[r] = "idle" /\ eid'[r] = None
          /\ cron' = cron /\ entry' = eid[r]
      BY <2>9 DEF SetEntry, Finish
    <3>2. \A e \in Live : e # None
      BY RegistryAssumption DEF Live
    <3>. QED BY <2>3, <2>4, <3>1, <3>2 DEF Live
  <2>. QED BY <1>1, <2>5, <2>6, <2>7, <2>8, <2>9 DEF Scheduler
<1>2. CASE UNCHANGED registryVars
  BY <1>2 DEF registryVars, schedulerVars, requestVars, OneHolder, Live
<1>. QED BY <1>1, <1>2 DEF RegistryNext

LEMMA RegistryInitHeldByOne == RegistryInit => OneHolder
  BY DEF RegistryInit, OneHolder, Live

\* If the owner waits for each answer, cron never has the schedule twice, also in
\* the middle of a request and whichever statements fail.
THEOREM RegisteredOnceAtATime ==
    ASSUME ~Overlap
    PROVE  RegistrySpec => []RegisteredOnce
<1>1. RegistryInit => RegistryTyped /\ HeldAreLive /\ OneHolder
  BY RegistryInitTyped, RegistryInitHeldByOne
<1>2. RegistryTyped /\ HeldAreLive /\ OneHolder /\ [RegistryNext]_registryVars
        => (RegistryTyped /\ HeldAreLive /\ OneHolder)'
  BY RegistryTypedStep, HeldAreLiveStep, OneHolderStep
<1>. QED BY <1>1, <1>2, HoldersAreOne, PTL DEF RegistrySpec

-----------------------------------------------------------------------------
(* Requests one after the other                                            *)

\* cron should call something for the row.
IsWanted == row # None /\ row.enabled /\ Registrable(row)

\* The map has what the row wants.
Mirrors ==
    IF IsWanted THEN entry # None /\ cron[entry] = Slot(row) ELSE entry = None

\* cron has no more than the map.
NoOrphans == \A e \in Entries : cron[e] # None => e = entry

\* What the one request under way has seen to, and what it still owes.
Owes(r) ==
    /\ pc[r] \in {"save", "enable", "disable", "unregister"} =>
         row # None /\ Mirrors /\ NoOrphans
    /\ pc[r] = "save" => copy[r] = row
    /\ pc[r] = "remove" => row # None /\ ~row.enabled /\ NoOrphans
    /\ pc[r] = "reload" => row # None /\ NoOrphans /\ (row.enabled \/ entry = None)
    /\ pc[r] \in {"reregister", "add"} =>
         row # None /\ row.enabled /\ copy[r] = row /\ NoOrphans
    /\ pc[r] \in {"add", "delete", "setEntry"} => entry = None
    /\ pc[r] = "setEntry" => /\ IsWanted /\ cron[eid[r]] = Slot(row)
                             /\ \A e \in Entries : cron[e] # None => e = eid[r]
    /\ pc[r] = "delete" => NoOrphans

Alone(r) == \A q \in Requests : q # r => pc[q] = "idle"

SerialInv ==
    /\ (\A r \in Requests : pc[r] = "idle") => Mirrors /\ NoOrphans
    /\ \A r \in Requests : pc[r] # "idle" => Alone(r) /\ Owes(r)

\* A step of one request, alone before and after it, is judged by its own debts.
LEMMA Focus ==
    ASSUME NEW r \in Requests, Alone(r)',
           pc'[r] = "idle" => (Mirrors /\ NoOrphans)',
           pc'[r] # "idle" => Owes(r)'
    PROVE  SerialInv'
  BY DEF Alone, SerialInv

LEMMA StaysAlone ==
    ASSUME ~Overlap, RegistryTyped, SerialInv, NEW r \in Requests,
           Service(r) \/ Scheduler(r)
    PROVE  Alone(r) /\ Alone(r)'
<1>. USE DEF RegistryTyped, RegistryTypeOK, Alone, Step, Finish
<1>1. CASE Create(r) \/ GetOwned(r)
  BY <1>1 DEF Create, GetOwned, Arrives
<1>2. CASE pc[r] # "idle"
  <2>1. Alone(r)
    BY <1>2 DEF SerialInv
  <2>2. \A q \in Requests : q # r => pc'[q] = pc[q]
    BY <1>2 DEF Service, Scheduler, Create, GetOwned, Arrives, Save, Enable, Disable,
      Delete, StatementFails, RemoveFor, Reload, Reregister, Add, SetEntry
  <2>. QED BY <2>1, <2>2
<1>3. CASE pc[r] = "idle" /\ ~(Create(r) \/ GetOwned(r))
  BY <1>3 DEF Service, Scheduler, Save, Enable, Disable, Delete, StatementFails,
    RemoveFor, Reload, Reregister, Add, SetEntry
<1>. QED BY <1>1, <1>2, <1>3

LEMMA ServiceIsSerial ==
    ASSUME ~Overlap, Failing \cap {"delete", "reload"} = {}, RegistryTyped, HeldAreLive,
           SerialInv, NEW r \in Requests, Service(r)
    PROVE  SerialInv'
<1>. USE DEF RegistryTyped, RegistryTypeOK, Owes, schedulerVars
<1>1. Alone(r) /\ Alone(r)'
  BY StaysAlone
<1>2. CASE Create(r)
  <2>1. Mirrors /\ NoOrphans
    BY <1>2, <1>1 DEF SerialInv, Create, Arrives, Alone
  <2>2. entry = None
    BY <1>2, <2>1 DEF Mirrors, IsWanted, Create
  <2>3. row' \in Rows /\ row'.enabled
    BY <1>2, CreatedRows DEF Create
  <2>4. pc'[r] = "reload" /\ UNCHANGED schedulerVars
    BY <1>2 DEF Create
  <2>. QED BY <1>1, <2>1, <2>2, <2>3, <2>4, RegistryAssumption, Focus DEF NoOrphans
<1>3. CASE GetOwned(r)
  <2>1. Mirrors /\ NoOrphans
    BY <1>3, <1>1 DEF SerialInv, GetOwned, Arrives, Alone
  <2>2. (Mirrors /\ NoOrphans)'
    BY <1>3, <2>1 DEF Mirrors, NoOrphans, IsWanted, GetOwned
  <2>. QED BY <1>1, <1>3, <2>2, Focus DEF GetOwned, Arrives
<1>4. CASE Save(r)
  <2>1. pc[r] = "save" /\ pc'[r] = "reload"
    BY <1>4 DEF Save, Step
  <2>2. row # None /\ copy[r] = row /\ Mirrors /\ NoOrphans
    BY <2>1 DEF SerialInv
  <2>3. row' \in Rows /\ row'.enabled = row.enabled
    BY <1>4, <2>2, EditsAreRows DEF Save
  <2>4. row.enabled \/ entry = None
    BY <2>2 DEF Mirrors, IsWanted
  <2>. QED BY <1>1, <1>4, <2>1, <2>2, <2>3, <2>4, RegistryAssumption, Focus
       DEF Save, NoOrphans
<1>5. CASE Enable(r)
  <2>1. pc[r] = "enable" /\ pc'[r] = "reload"
    BY <1>5 DEF Enable, Step
  <2>2. row # None /\ NoOrphans
    BY <2>1 DEF SerialInv
  <2>3. row' \in Rows /\ row'.enabled
    BY <1>5, <2>2, SwitchedRows DEF Enable, SetEnabled
  <2>. QED BY <1>1, <1>5, <2>1, <2>2, <2>3, RegistryAssumption, Focus DEF Enable, NoOrphans
<1>6. CASE Disable(r)
  <2>1. pc[r] = "disable" /\ pc'[r] = "remove"
    BY <1>6 DEF Disable, Step
  <2>2. row # None /\ NoOrphans
    BY <2>1 DEF SerialInv
  <2>3. row' \in Rows /\ ~row'.enabled
    BY <1>6, <2>2, SwitchedRows DEF Disable, SetEnabled
  <2>. QED BY <1>1, <1>6, <2>1, <2>2, <2>3, RegistryAssumption, Focus DEF Disable, NoOrphans
<1>7. CASE Delete(r)
  <2>1. entry = None /\ NoOrphans
    BY <1>7 DEF Delete, SerialInv
  <2>. QED BY <1>1, <1>7, <2>1, Focus DEF Delete, Finish, Mirrors, IsWanted, NoOrphans
<1>8. CASE StatementFails(r)
  <2>1. pc[r] \in {"save", "enable", "disable"} /\ Mirrors /\ NoOrphans
    BY <1>8 DEF StatementFails, SerialInv
  <2>. QED BY <1>1, <1>8, <2>1, Focus
       DEF StatementFails, Finish, Mirrors, IsWanted, NoOrphans
<1>. QED BY <1>2, <1>3, <1>4, <1>5, <1>6, <1>7, <1>8 DEF Service

\* After Remove nothing is registered, if nothing but the map's entry was.
LEMMA RemoveLeavesNothing ==
    ASSUME RegistryTyped, NoOrphans, Remove
    PROVE  entry' = None /\ \A e \in Entries : cron'[e] = None
  BY RegistryAssumption DEF RegistryTyped, RegistryTypeOK, NoOrphans, Remove

LEMMA SchedulerIsSerial ==
    ASSUME ~Overlap, RegistryTyped, HeldAreLive, SerialInv,
           NEW r \in Requests, Scheduler(r)
    PROVE  SerialInv'
<1>. USE DEF RegistryTyped, RegistryTypeOK, Owes, schedulerVars
<1>1. Alone(r) /\ Alone(r)'
  BY StaysAlone
<1>2. CASE RemoveFor(r)
  <2>1. pc[r] \in {"unregister", "remove"} /\ Remove /\ row' = row
    BY <1>2 DEF RemoveFor, Step
  <2>2. NoOrphans /\ row # None
    BY <2>1 DEF SerialInv
  <2>3. entry' = None /\ NoOrphans'
    BY <2>1, <2>2, RemoveLeavesNothing DEF NoOrphans
  <2>4. pc[r] = "remove" => pc'[r] = "idle" /\ ~row.enabled
    BY <1>2, <2>1 DEF RemoveFor, Step, Finish, SerialInv
  <2>5. pc[r] = "unregister" => pc'[r] = "delete"
    BY <1>2, <2>1 DEF RemoveFor, Step
  <2>. QED BY <1>1, <2>1, <2>3, <2>4, <2>5, Focus DEF Mirrors, IsWanted
<1>3. CASE Reload(r)
  <2>1. pc[r] = "reload" /\ row' = row /\ UNCHANGED schedulerVars
    BY <1>3 DEF Reload, Step
  <2>2. row # None /\ NoOrphans /\ (row.enabled \/ entry = None)
    BY <2>1 DEF SerialInv
  <2>3. CASE row.enabled
    BY <1>1, <1>3, <2>1, <2>2, <2>3, Focus DEF Reload, Step, NoOrphans
  <2>4. CASE ~row.enabled
    BY <1>1, <1>3, <2>1, <2>2, <2>4, Focus DEF Reload, Finish, NoOrphans, Mirrors, IsWanted
  <2>. QED BY <2>3, <2>4
<1>4. CASE Reregister(r)
  <2>1. /\ pc[r] = "reregister" /\ pc'[r] = "add"
        /\ Remove /\ row' = row /\ copy' = copy
    BY <1>4 DEF Reregister, Unregister, Step
  <2>2. row # None /\ row.enabled /\ copy[r] = row /\ NoOrphans
    BY <2>1 DEF SerialInv
  <2>3. entry' = None /\ NoOrphans'
    BY <2>1, <2>2, RemoveLeavesNothing DEF NoOrphans
  <2>. QED BY <1>1, <2>1, <2>2, <2>3, Focus
<1>5. CASE Add(r)
  <2>1. pc[r] = "add" /\ row' = row /\ entry' = entry
    BY <1>5 DEF Add
  <2>2. row # None /\ row.enabled /\ copy[r] = row /\ NoOrphans /\ entry = None
    BY <2>1 DEF SerialInv
  <2>3. CASE ~Registrable(copy[r])
    BY <1>1, <1>5, <2>1, <2>2, <2>3, Focus
    DEF Add, Finish, Mirrors, IsWanted, Registrable, NoOrphans
  <2>4. CASE Registrable(copy[r])
    <3>1. PICK e \in Entries : /\ cron' = [cron EXCEPT ![e] = Slot(copy[r])]
                               /\ eid' = [eid EXCEPT ![r] = e]
      BY <1>5, <2>4 DEF Add
    <3>2. pc'[r] = "setEntry" /\ eid'[r] = e
      BY <1>5, <2>4, <3>1 DEF Add, Step
    <3>3. cron'[e] = Slot(row) /\ \A d \in Entries : cron'[d] # None => d = e
      BY <2>2, <3>1, RegistryAssumption DEF NoOrphans
    <3>4. IsWanted'
      BY <2>1, <2>2, <2>4 DEF IsWanted, Registrable
    <3>5. Slot(row)' = Slot(row)
      BY <2>1 DEF Slot
    <3>. QED BY <1>1, <2>1, <2>2, <3>2, <3>3, <3>4, <3>5, Focus
  <2>. QED BY <2>3, <2>4
<1>6. CASE SetEntry(r)
  <2>1. /\ pc[r] = "setEntry" /\ pc'[r] = "idle"
        /\ row' = row /\ cron' = cron /\ entry' = eid[r]
    BY <1>6 DEF SetEntry, Finish
  <2>2. /\ IsWanted /\ cron[eid[r]] = Slot(row)
        /\ \A e \in Entries : cron[e] # None => e = eid[r]
    BY <2>1 DEF SerialInv
  <2>3. eid[r] # None
    BY <2>1 DEF HeldAreLive
  <2>. QED BY <1>1, <2>1, <2>2, <2>3, Focus
       DEF Mirrors, IsWanted, NoOrphans, Registrable, Slot
<1>. QED BY <1>2, <1>3, <1>4, <1>5, <1>6 DEF Scheduler

LEMMA SerialInvStep ==
    ASSUME ~Overlap, Failing \cap {"delete", "reload"} = {}, RegistryTyped, HeldAreLive,
           SerialInv, [RegistryNext]_registryVars
    PROVE  SerialInv'
<1>1. CASE RegistryNext
  BY <1>1, ServiceIsSerial, SchedulerIsSerial DEF RegistryNext
<1>2. CASE UNCHANGED registryVars
  BY <1>2 DEF registryVars, schedulerVars, requestVars, SerialInv, Alone, Owes, Mirrors,
    IsWanted, NoOrphans, Registrable, Slot
<1>. QED BY <1>1, <1>2

RegistryInv == RegistryTyped /\ HeldAreLive /\ SerialInv

LEMMA RegistryInvHolds ==
    ASSUME ~Overlap, Failing \cap {"delete", "reload"} = {}
    PROVE  RegistrySpec => []RegistryInv
<1>1. RegistryInit => RegistryInv
  BY RegistryInitTyped DEF RegistryInit, RegistryInv, SerialInv, Mirrors, IsWanted, NoOrphans
<1>2. RegistryInv /\ [RegistryNext]_registryVars => RegistryInv'
  BY RegistryTypedStep, HeldAreLiveStep, SerialInvStep DEF RegistryInv
<1>. QED BY <1>1, <1>2, PTL DEF RegistrySpec

\* An owner who waits for each answer before the next request, and whose reads
\* and deletes of the row succeed, finds cron in line with the row.
THEOREM CronMirrorsRow ==
    ASSUME ~Overlap, Failing \cap {"delete", "reload"} = {}
    PROVE  RegistrySpec => []CronReflectsRow
<1>1. RegistryInv => CronReflectsRow
  <2>1. SUFFICES ASSUME RegistryInv, \A r \in Requests : pc[r] = "idle"
                 PROVE  /\ Live = (IF entry = None THEN {} ELSE {entry})
                        /\ {cron[e] : e \in Live} = Wanted
    BY DEF CronReflectsRow
  <2>2. Mirrors /\ NoOrphans /\ EntryIsLive
    BY <2>1 DEF RegistryInv, SerialInv, HeldAreLive
  <2>3. Live = (IF entry = None THEN {} ELSE {entry})
    BY <2>2, RegistryAssumption DEF NoOrphans, EntryIsLive, Live
  <2>4. Wanted = IF IsWanted THEN {Slot(row)} ELSE {}
    BY DEF Wanted, WantedFor, IsWanted
  <2>. QED BY <2>2, <2>3, <2>4 DEF Mirrors
<1>. QED BY <1>1, RegistryInvHolds, PTL

\* For the same owner, a schedule is switched on by enabling it and in no other
\* way, and stays deleted once deleted.
THEOREM OnlyEnableSwitchesOn ==
    ASSUME ~Overlap, Failing \cap {"delete", "reload"} = {}
    PROVE  RegistrySpec => OnlyEnableEnables
<1>. DEFINE Kept == /\ born /\ row = None => row' = None
                    /\ row # None /\ row' # None /\ ~row.enabled /\ row'.enabled =>
                         \E r \in Requests : pc[r] = "enable" /\ pc'[r] = "reload"
<1>1. RegistryInv /\ [RegistryNext]_registryVars => [Kept]_registryVars
  <2>1. SUFFICES ASSUME RegistryInv, NEW r \in Requests, Service(r) \/ Scheduler(r)
                 PROVE  Kept
    BY DEF RegistryNext
  <2>. USE DEF RegistryInv, RegistryTyped, RegistryTypeOK
  <2>2. CASE Save(r)
    <3>1. pc[r] = "save"
      BY <2>2 DEF Save, Step
    <3>2. row # None /\ copy[r] = row
      BY <2>1, <3>1 DEF SerialInv, Owes
    <3>3. row'.enabled = row.enabled
      BY <2>1, <2>2, <3>2, EditsAreRows DEF Save
    <3>. QED BY <3>2, <3>3
  <2>3. CASE Enable(r)
    BY <2>1, <2>3 DEF Enable, Step, SetEnabled
  <2>4. CASE Disable(r)
    <3>1. row = None => row' = None
      BY <2>4 DEF Disable, SetEnabled
    <3>2. row # None => ~row'.enabled
      BY <2>1, <2>4, SwitchedRows DEF Disable, SetEnabled
    <3>. QED BY <3>1, <3>2
  <2>5. CASE Create(r)
    BY <2>5 DEF Create
  <2>6. CASE Delete(r)
    BY <2>6 DEF Delete
  <2>7. CASE row' = row
    BY <2>7
  <2>. QED
    BY <2>1, <2>2, <2>3, <2>4, <2>5, <2>6, <2>7 DEF Service, Scheduler, GetOwned,
      StatementFails, RemoveFor, Reload, Reregister, Add, SetEntry
<1>. QED BY <1>1, RegistryInvHolds, PTL DEF RegistrySpec, OnlyEnableEnables

-----------------------------------------------------------------------------
(* The contract                                                            *)

AskedBy(p) == {Asked(p[r]) : r \in {q \in Requests : p[q] # "idle"}}

Registered == {cron[e] : e \in Live}

\* With one request under way, what is asked is what it asks.
LEMMA AskedByOne ==
    ASSUME NEW p, NEW r \in Requests, \A q \in Requests : q # r => p[q] = "idle"
    PROVE  AskedBy(p) = IF p[r] = "idle" THEN {} ELSE {Asked(p[r])}
  BY DEF AskedBy

LEMMA AskedSteps ==
    /\ Asked("save") = "edit" /\ Asked("enable") = "enable" /\ Asked("disable") = "disable"
    /\ Asked("unregister") = "delete" /\ Asked("delete") = "delete"
    /\ \A s \in {"remove", "reload", "reregister", "add", "setEntry"} :
         Asked(s) = "registration"
  BY DEF Asked

LEMMA WantedIs == Wanted = IF IsWanted THEN {Slot(row)} ELSE {}
  BY DEF Wanted, WantedFor, IsWanted

\* Without orphans an empty map means that cron is empty.
LEMMA NothingRegistered ==
    ASSUME NoOrphans, entry = None
    PROVE  Registered = {}
  BY RegistryAssumption DEF NoOrphans, Registered, Live

\* What a request does to the row and to the contract's request.
LEMMA ServiceKeepsContract ==
    ASSUME ~Overlap, Failing \cap {"delete", "reload"} = {}, RegistryInv, OneHolder,
           NEW r \in Requests, Service(r)
    PROVE  Contract!ContractNext \/ UNCHANGED Contract!contractVars
<1>. USE DEF RegistryInv, RegistryTyped, RegistryTypeOK
<1>1. /\ AskedBy(pc) = IF pc[r] = "idle" THEN {} ELSE {Asked(pc[r])}
      /\ AskedBy(pc') = IF pc'[r] = "idle" THEN {} ELSE {Asked(pc'[r])}
  BY OneRequest, AskedByOne
<1>2. UNCHANGED schedulerVars => Registered' = Registered
  BY DEF schedulerVars, Registered, Live
<1>3. CASE Create(r)
  <2>1. row' \in Rows /\ row'.enabled /\ born' = TRUE /\ ~born /\ UNCHANGED schedulerVars
    BY <1>3, CreatedRows DEF Create
  <2>2. AskedBy(pc) = {} /\ AskedBy(pc') = {"registration"}
    BY <1>1, <1>3, AskedSteps DEF Create, Arrives
  <2>3. Contract!Create
    BY <1>2, <2>1, <2>2 DEF Contract!Create, AskedBy, Registered
  <2>. QED BY <2>3 DEF Contract!ContractNext
<1>4. CASE GetOwned(r)
  <2>1. UNCHANGED <<row, born, schedulerVars>> /\ row # None
    BY <1>4 DEF GetOwned
  <2>2. AskedBy(pc) = {}
    BY <1>1, <1>4 DEF GetOwned, Arrives
  <2>3. PICK op \in {"edit", "enable", "disable", "delete"} : AskedBy(pc') = {op}
    BY <1>1, <1>4, AskedSteps DEF GetOwned
  <2>4. Contract!Ask(op)
    BY <1>2, <2>1, <2>2, <2>3 DEF Contract!Ask, AskedBy, Registered
  <2>. QED BY <2>4 DEF Contract!ContractNext
<1>5. CASE Save(r) \/ Enable(r) \/ Disable(r)
  <2>1. UNCHANGED <<born, schedulerVars>> /\ pc'[r] \in {"reload", "remove"}
    BY <1>5 DEF Save, Enable, Disable, Step
  <2>2. AskedBy(pc') = {"registration"}
    BY <1>1, <2>1, AskedSteps
  <2>3. Contract!Edit \/ Contract!Enable \/ Contract!Disable
    <3>1. CASE Save(r)
      <4>1. pc[r] = "save" /\ row # None /\ copy[r] = row
        BY <3>1 DEF Save, Step, SerialInv, Owes
      <4>2. row \in Rows /\ row' \in Rows /\ row'.enabled = row.enabled
        BY <3>1, <4>1, EditsAreRows DEF Save
      <4>3. AskedBy(pc) = {"edit"}
        BY <1>1, <4>1, AskedSteps
      <4>4. Contract!Edit
        BY <4>2, <4>3 DEF Contract!Edit, AskedBy
      <4>. QED BY <4>4
    <3>2. CASE Enable(r)
      <4>1. pc[r] = "enable" /\ row # None
        BY <3>2 DEF Enable, Step, SerialInv, Owes
      <4>2. row' \in Rows /\ row'.enabled
        BY <3>2, <4>1, SwitchedRows DEF Enable, SetEnabled
      <4>3. AskedBy(pc) = {"enable"}
        BY <1>1, <4>1, AskedSteps
      <4>4. Contract!Enable
        BY <4>2, <4>3 DEF Contract!Enable, AskedBy
      <4>. QED BY <4>4
    <3>3. CASE Disable(r)
      <4>1. pc[r] = "disable" /\ row # None
        BY <3>3 DEF Disable, Step, SerialInv, Owes
      <4>2. row' \in Rows /\ ~row'.enabled
        BY <3>3, <4>1, SwitchedRows DEF Disable, SetEnabled
      <4>3. AskedBy(pc) = {"disable"}
        BY <1>1, <4>1, AskedSteps
      <4>4. Contract!Disable
        BY <4>2, <4>3 DEF Contract!Disable, AskedBy
      <4>. QED BY <4>4
    <3>. QED BY <1>5, <3>1, <3>2, <3>3
  <2>4. Contract!Change
    BY <1>2, <2>1, <2>2, <2>3 DEF Contract!Change, AskedBy, Registered
  <2>. QED BY <2>4 DEF Contract!ContractNext
<1>6. CASE Delete(r)
  <2>1. row' = None /\ UNCHANGED <<born, schedulerVars>>
    BY <1>6 DEF Delete
  <2>2. AskedBy(pc) = {"delete"} /\ AskedBy(pc') = {}
    BY <1>1, <1>6, AskedSteps DEF Delete, Finish
  <2>3. Registered = {}
    BY <1>6, NothingRegistered DEF Delete, SerialInv, Owes
  <2>4. Contract!Delete
    BY <1>2, <2>1, <2>2, <2>3 DEF Contract!Delete, AskedBy, Registered
  <2>. QED BY <2>4 DEF Contract!ContractNext
<1>7. CASE StatementFails(r)
  <2>1. UNCHANGED <<row, born, schedulerVars>> /\ pc[r] \in {"save", "enable", "disable"}
    BY <1>7 DEF StatementFails
  <2>2. AskedBy(pc) \in {{"edit"}, {"enable"}, {"disable"}} /\ AskedBy(pc') = {}
    BY <1>1, <1>7, <2>1, AskedSteps DEF StatementFails, Finish
  <2>3. Contract!Fail
    BY <1>2, <2>1, <2>2 DEF Contract!Fail, AskedBy, Registered
  <2>. QED BY <2>3 DEF Contract!ContractNext
<1>. QED BY <1>3, <1>4, <1>5, <1>6, <1>7 DEF Service

\* What a request does to cron.
LEMMA SchedulerKeepsContract ==
    ASSUME ~Overlap, RegistryInv, OneHolder, NEW r \in Requests, Scheduler(r)
    PROVE  Contract!ContractNext \/ UNCHANGED Contract!contractVars
<1>. USE DEF RegistryInv, RegistryTyped, RegistryTypeOK
<1>1. /\ AskedBy(pc) = IF pc[r] = "idle" THEN {} ELSE {Asked(pc[r])}
      /\ AskedBy(pc') = IF pc'[r] = "idle" THEN {} ELSE {Asked(pc'[r])}
  BY OneRequest, AskedByOne
<1>2. UNCHANGED schedulerVars => Registered' = Registered
  BY DEF schedulerVars, Registered, Live
<1>3. UNCHANGED <<row, born>>
  BY DEF Scheduler, RemoveFor, Reload, Reregister, Add, SetEntry
<1>. DEFINE wants == [rec \in Rows \cup {None} |-> WantedFor(rec)]
<1>4. wants[row] = IF IsWanted THEN {Slot(row)} ELSE {}
  BY WantedIs DEF Wanted
<1>5. ASSUME Remove, NoOrphans PROVE Registered' = {}
  BY <1>5, RemoveLeavesNothing DEF Registered, Live
<1>6. ASSUME AskedBy(pc) = {"registration"}, AskedBy(pc') = {}, Registered' = wants[row]
      PROVE  Contract!ContractNext
  <2>1. Contract!Answer
    BY <1>3, <1>6 DEF Contract!Answer, AskedBy, Registered
  <2>. QED BY <2>1 DEF Contract!ContractNext
<1>7. ASSUME AskedBy(pc) \in {{"registration"}, {"delete"}}, AskedBy(pc') = AskedBy(pc),
             Registered' = {}
      PROVE  Contract!ContractNext
  <2>1. Contract!Unregister
    BY <1>3, <1>7 DEF Contract!Unregister, AskedBy, Registered
  <2>. QED BY <2>1 DEF Contract!ContractNext
<1>. HIDE DEF wants
<1>8. CASE RemoveFor(r)
  <2>1. pc[r] \in {"unregister", "remove"} /\ Remove
    BY <1>8 DEF RemoveFor, Step
  <2>2. NoOrphans /\ (pc[r] = "remove" => ~row.enabled)
    BY <2>1 DEF SerialInv, Owes
  <2>3. Registered' = {}
    BY <1>5, <2>1, <2>2
  <2>4. CASE pc[r] = "unregister"
    <3>1. pc'[r] = "delete"
      BY <1>8, <2>4 DEF RemoveFor, Step
    <3>. QED BY <1>1, <1>7, <2>3, <2>4, <3>1, AskedSteps
  <2>5. CASE pc[r] = "remove"
    <3>1. pc'[r] = "idle"
      BY <1>8, <2>5 DEF RemoveFor, Step, Finish
    <3>. QED BY <1>1, <1>4, <1>6, <2>2, <2>3, <2>5, <3>1, AskedSteps DEF IsWanted
  <2>. QED BY <2>1, <2>4, <2>5
<1>9. CASE Reload(r)
  <2>1. pc[r] = "reload" /\ UNCHANGED schedulerVars
    BY <1>9 DEF Reload, Step
  <2>2. row # None /\ NoOrphans /\ (row.enabled \/ entry = None)
    BY <2>1 DEF SerialInv, Owes
  <2>3. AskedBy(pc) = {"registration"} /\ Registered' = Registered
    BY <1>1, <1>2, <2>1, AskedSteps
  <2>4. CASE row.enabled
    <3>1. pc'[r] = "reregister"
      BY <1>9, <2>2, <2>4 DEF Reload, Step
    <3>2. AskedBy(pc') = {"registration"}
      BY <1>1, <3>1, AskedSteps
    <3>. QED BY <1>3, <2>3, <3>2 DEF Contract!contractVars, AskedBy, Registered
  <2>5. CASE ~row.enabled
    <3>1. pc'[r] = "idle"
      BY <1>9, <2>5 DEF Reload, Finish
    <3>2. Registered = {}
      BY <2>2, <2>5, NothingRegistered
    <3>. QED BY <1>1, <1>4, <1>6, <2>3, <2>5, <3>1, <3>2 DEF IsWanted
  <2>. QED BY <2>4, <2>5
<1>10. CASE Reregister(r)
  <2>1. pc[r] = "reregister" /\ pc'[r] = "add" /\ Remove
    BY <1>10 DEF Reregister, Unregister, Step
  <2>2. NoOrphans
    BY <2>1 DEF SerialInv, Owes
  <2>. QED BY <1>1, <1>5, <1>7, <2>1, <2>2, AskedSteps
<1>11. CASE Add(r)
  <2>1. pc[r] = "add"
    BY <1>11 DEF Add
  <2>2. row # None /\ row.enabled /\ copy[r] = row /\ NoOrphans /\ entry = None
    BY <2>1 DEF SerialInv, Owes
  <2>3. AskedBy(pc) = {"registration"} /\ Registered = {}
    BY <1>1, <2>1, <2>2, AskedSteps, NothingRegistered
  <2>4. CASE ~Registrable(row)
    <3>1. pc'[r] = "idle" /\ UNCHANGED cron
      BY <1>11, <2>2, <2>4 DEF Add, Finish
    <3>2. Registered' = {}
      BY <2>3, <3>1 DEF Registered, Live
    <3>. QED BY <1>1, <1>4, <1>6, <2>3, <2>4, <3>1, <3>2 DEF IsWanted
  <2>5. CASE Registrable(row)
    <3>1. PICK e \in Entries : cron' = [cron EXCEPT ![e] = Slot(row)]
      BY <1>11, <2>2, <2>5 DEF Add
    <3>2. pc'[r] = "setEntry"
      BY <1>11, <2>2, <2>5 DEF Add, Step
    <3>3. Live = {}
      BY <2>2, RegistryAssumption DEF NoOrphans, Live
    <3>4. Slot(row) # None
      BY <2>2, SlotsAreSlots
    <3>5. Registered' = {Slot(row)}
      BY <3>1, <3>3, <3>4 DEF Registered, Live
    <3>6. AskedBy(pc') = {"registration"}
      BY <1>1, <3>2, AskedSteps
    <3>7. Registered' = wants[row]
      BY <1>4, <2>2, <2>5, <3>5 DEF IsWanted
    <3>8. Contract!Register
      BY <1>3, <2>3, <3>6, <3>7 DEF Contract!Register, AskedBy, Registered, wants
    <3>. QED BY <3>8 DEF Contract!ContractNext
  <2>. QED BY <2>4, <2>5
<1>12. CASE SetEntry(r)
  <2>1. pc[r] = "setEntry" /\ pc'[r] = "idle" /\ cron' = cron
    BY <1>12 DEF SetEntry, Finish
  <2>2. /\ IsWanted /\ cron[eid[r]] = Slot(row)
        /\ \A e \in Entries : cron[e] # None => e = eid[r]
    BY <2>1 DEF SerialInv, Owes
  <2>3. eid[r] \in Live
    BY <2>1 DEF HeldAreLive
  <2>4. Registered' = {Slot(row)}
    BY <2>1, <2>2, <2>3 DEF Registered, Live
  <2>. QED BY <1>1, <1>4, <1>6, <2>1, <2>2, <2>4, AskedSteps
<1>. QED BY <1>8, <1>9, <1>10, <1>11, <1>12 DEF Scheduler

\* For an owner who waits for each answer, and whose reads and deletes of the row
\* succeed, the requests and the scheduler keep the contract: what is between two
\* answers cannot be told from a single change of the row that cron follows.
THEOREM ImplementsContract ==
    ASSUME ~Overlap, Failing \cap {"delete", "reload"} = {}
    PROVE  RegistrySpec => KeepsContract
<1>1. RegistryInit => Contract!ContractInit
  BY DEF RegistryInit, Contract!ContractInit, Live
<1>2. RegistryInv /\ OneHolder /\ [RegistryNext]_registryVars
        => [Contract!ContractNext]_Contract!contractVars
  <2>1. CASE UNCHANGED registryVars
    BY <2>1 DEF registryVars, schedulerVars, requestVars, Contract!contractVars, Live
  <2>. QED
    BY <2>1, ServiceKeepsContract, SchedulerKeepsContract DEF RegistryNext
<1>3. RegistryInit => OneHolder
  BY RegistryInitHeldByOne
<1>4. RegistryInv /\ OneHolder /\ [RegistryNext]_registryVars => OneHolder'
  BY OneHolderStep DEF RegistryInv
<1>. QED
  BY <1>1, <1>2, <1>3, <1>4, RegistryInvHolds, PTL
  DEF RegistrySpec, KeepsContract, Contract!ContractSpec
=============================================================================
