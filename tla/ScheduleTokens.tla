--------------------------- MODULE ScheduleTokens ---------------------------
(***************************************************************************)
(* The fire tokens of the schedule of ScheduleRegistry: the owner's        *)
(* requests that replace or revoke the token (GenerateToken, RevokeToken), *)
(* beside the requests that edit and delete the schedule; and the external *)
(* system's requests to fire it, which go through                          *)
(* scheduleTokenAuthMiddleware and FireSchedule.                           *)
(***************************************************************************)
EXTENDS ScheduleRegistry

CONSTANTS
    Tokens, \* raw tokens, each generated once
    Fires   \* goroutines serving requests to fire

ASSUME TokensAssumption == None \notin Tokens

VARIABLES
    state,  \* of each token's row, "none" before it is inserted
    given,  \* the token the owner was last given, None once told it is revoked
    kept,   \* tokens that a failing UPDATE left active
    tpc,    \* where each of the owner's token requests is
    fpc,    \* where each request to fire is
    bearer, \* the token it came with
    barred  \* it came when its token was replaced or revoked, or the schedule gone

fireVars == <<fpc, bearer, barred>>
tokenVars == <<state, given, kept, tpc, fireVars>>
tokensVars == <<registryVars, tokenVars>>

TokenSteps == {"idle", "replace", "insert", "revoke"}
FireSteps == {"idle", "lookup", "load", "check", "run"}

TokensTypeOK ==
    /\ state \in [Tokens -> {"none", "active", "revoked"}]
    /\ given \in Tokens \cup {None} /\ kept \subseteq Tokens
    /\ tpc \in [Requests -> TokenSteps]
    /\ fpc \in [Fires -> FireSteps]
    /\ bearer \in [Fires -> Tokens \cup {None}]
    /\ barred \in [Fires -> BOOLEAN]

TokensInit ==
    /\ RegistryInit
    /\ state = [t \in Tokens |-> "none"] /\ given = None /\ kept = {}
    /\ tpc = [r \in Requests |-> "idle"]
    /\ fpc = [f \in Fires |-> "idle"]
    /\ bearer = [f \in Fires |-> None]
    /\ barred = [f \in Fires |-> FALSE]

Active == {t \in Tokens : state[t] = "active"}
NoTokenRequest == \A r \in Requests : tpc[r] = "idle"

TokenStep(r, from, to) == tpc[r] = from /\ tpc' = [tpc EXCEPT ![r] = to]

-----------------------------------------------------------------------------
(* GenerateToken and RevokeToken                                           *)

\* getOwned, first step of both.
TokenRequest(r) ==
    /\ row # None
    /\ Overlap \/ (NoTokenRequest /\ \A q \in Requests : pc[q] = "idle")
    /\ \E op \in {"replace", "revoke"} : TokenStep(r, "idle", op)
    /\ UNCHANGED <<state, given, kept, fireVars>>

\* Mutant: a new token leaves the old one alone.
NoneRevoked == state

\* UPDATE revoked_at WHERE schedule_id AND revoked_at IS NULL.
AllRevoked == [t \in Tokens |-> IF state[t] = "active" THEN "revoked" ELSE state[t]]

\* The error of this UPDATE is not looked at.
RevokeOld(r) ==
    /\ TokenStep(r, "replace", "insert")
    /\ \/ state' = AllRevoked /\ kept' = {}
       \/ "replace" \in Failing /\ kept' = kept \cup Active /\ UNCHANGED state
    /\ UNCHANGED <<given, fireVars>>

\* The INSERT, after which the owner is told the token.
InsertToken(r) ==
    /\ TokenStep(r, "insert", "idle")
    /\ \/ \E t \in Tokens :
            /\ state[t] = "none"
            /\ state' = [state EXCEPT ![t] = "active"]
            /\ given' = t
       \/ "insert" \in Failing /\ UNCHANGED <<state, given>>
    /\ UNCHANGED <<kept, fireVars>>

RevokeToken(r) ==
    /\ TokenStep(r, "revoke", "idle")
    /\ \/ state' = AllRevoked /\ given' = None /\ kept' = {}
       \/ "revoke" \in Failing /\ UNCHANGED <<state, given, kept>>
    /\ UNCHANGED fireVars

-----------------------------------------------------------------------------
(* Requests to fire, one SELECT to a step; any refusal ends one            *)

FireStep(f, from, to) == fpc[f] = from /\ fpc' = [fpc EXCEPT ![f] = to]

\* A request comes with a token that was generated some time.
FireRequest(f, t) ==
    /\ state[t] # "none"
    /\ FireStep(f, "idle", "lookup")
    /\ bearer' = [bearer EXCEPT ![f] = t]
    /\ barred' = [barred EXCEPT ![f] = row = None \/ (NoTokenRequest /\ t \notin {given} \cup kept)]

\* Mutant: a token that was revoked is found as well.
Inserted(t) == state[t] # "none"

\* WHERE token_hash AND revoked_at IS NULL.
FindsToken(t) == state[t] = "active"

Enabled == row # None /\ row.enabled

\* LookupScheduleByToken: the token, then its schedule; then FireSchedule loads
\* the schedule once more, calls RunFire if it is enabled, and answers.
Fire(f) ==
    /\ \/ FireStep(f, "lookup", "load") /\ FindsToken(bearer[f])
       \/ FireStep(f, "load", "check") /\ row # None
       \/ FireStep(f, "check", "run") /\ Enabled
       \/ FireStep(f, "run", "idle")
    /\ UNCHANGED <<bearer, barred>>

Refuse(f) ==
    /\ \/ FireStep(f, "lookup", "idle") /\ ~FindsToken(bearer[f])
       \/ FireStep(f, "load", "idle") /\ row = None
       \/ FireStep(f, "check", "idle") /\ ~Enabled
    /\ UNCHANGED <<bearer, barred>>

-----------------------------------------------------------------------------
Token(r) == TokenRequest(r) \/ RevokeOld(r) \/ InsertToken(r) \/ RevokeToken(r)

External(f) == (\E t \in Tokens : FireRequest(f, t)) \/ Fire(f) \/ Refuse(f)

TokensNext ==
    \/ (Overlap \/ NoTokenRequest) /\ RegistryNext /\ UNCHANGED tokenVars
    \/ (\E r \in Requests : Token(r)) /\ UNCHANGED registryVars
    \/ (\E f \in Fires : External(f)) /\ UNCHANGED <<registryVars, state, given, kept, tpc>>

TokensSpec == TokensInit /\ [][TokensNext]_tokensVars

-----------------------------------------------------------------------------
(* Properties                                                              *)

\* "Only one active token per schedule at a time" (scheduled-tasks.md:543): with
\* no request of the owner about tokens under way, the token the owner was last
\* given is the only one that may be active, and none is once it is revoked;
\* but for tokens that were left active by an UPDATE whose error was ignored.
OnlyGivenIsActive == NoTokenRequest => Active \subseteq {given} \cup kept

\* A request that comes with a token that was replaced or revoked, or after the
\* schedule was deleted, does not get to run it, whatever the owner does next.
BarredDoNotFire == \A f \in Fires : fpc[f] = "run" => ~barred[f]
=============================================================================
