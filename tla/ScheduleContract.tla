-------------------------- MODULE ScheduleContract --------------------------
(***************************************************************************)
(* What Service promises the owner of one schedule who waits for each      *)
(* answer: a request changes the row in one way, may leave the schedule    *)
(* unregistered on the way, and is answered when the running cron holds    *)
(* what the row asks for; or it fails before it has changed anything.      *)
(***************************************************************************)
CONSTANTS
    Schedules,  \* the rows there may be
    Enabled,    \* the enabled ones among them
    Wants,      \* what cron should hold for a row: nothing, or one registration
    None        \* no row

VARIABLES
    row,        \* the row, None while there is none
    born,       \* it has been created
    registered, \* the registrations cron holds
    asked       \* what the request under way has still to do to the row, if any

contractVars == <<row, born, registered, asked>>

ContractInit == row = None /\ born = FALSE /\ registered = {} /\ asked = {}

\* A schedule is created once, enabled.
Create ==
    /\ asked = {} /\ ~born
    /\ row' \in Enabled /\ born' = TRUE
    /\ asked' = {"registration"}
    /\ UNCHANGED registered

Ask(op) ==
    /\ asked = {} /\ row # None
    /\ asked' = {op}
    /\ UNCHANGED <<row, born, registered>>

\* An update leaves enabled as it was; toggling sets it.
Edit == asked = {"edit"} /\ row' \in Schedules /\ (row' \in Enabled <=> row \in Enabled)
Enable == asked = {"enable"} /\ row' \in Enabled
Disable == asked = {"disable"} /\ row' \in Schedules \ Enabled

Change ==
    /\ Edit \/ Enable \/ Disable
    /\ asked' = {"registration"}
    /\ UNCHANGED <<born, registered>>

\* The request is answered with an error, and all is as before.
Fail ==
    /\ asked \in {{"edit"}, {"enable"}, {"disable"}}
    /\ asked' = {}
    /\ UNCHANGED <<row, born, registered>>

Unregister ==
    /\ asked \in {{"registration"}, {"delete"}}
    /\ registered' = {}
    /\ UNCHANGED <<row, born, asked>>

Register ==
    /\ asked = {"registration"} /\ registered = {}
    /\ registered' = Wants[row]
    /\ UNCHANGED <<row, born, asked>>

Answer ==
    /\ asked = {"registration"}
    /\ asked' = {} /\ registered' = Wants[row]
    /\ UNCHANGED <<row, born>>

Delete ==
    /\ asked = {"delete"} /\ registered = {}
    /\ row' = None /\ asked' = {}
    /\ UNCHANGED <<born, registered>>

ContractNext ==
    \/ Create \/ (\E op \in {"edit", "enable", "disable", "delete"} : Ask(op))
    \/ Change \/ Fail \/ Unregister \/ Register \/ Answer \/ Delete

ContractSpec == ContractInit /\ [][ContractNext]_contractVars
=============================================================================
