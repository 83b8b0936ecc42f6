------------------------ MODULE ScheduleTokensProofs ------------------------
(***************************************************************************)
(* TLAPS proofs about ScheduleTokens, for any number of requests and       *)
(* tokens, and whatever statement fails.                                   *)
(***************************************************************************)
EXTENDS ScheduleTokens, ScheduleRegistryProofs

\* Requests about tokens and requests to fire leave the schedule to the
\* registry: with its tokens, it still implements ScheduleRegistry.
THEOREM ImplementsRegistry == TokensSpec => RegistrySpec
<1>1. TokensInit => RegistryInit
  BY DEF TokensInit
<1>2. [TokensNext]_tokensVars => [RegistryNext]_registryVars
  BY DEF TokensNext, tokensVars, registryVars
<1>. QED BY <1>1, <1>2, PTL DEF TokensSpec, RegistrySpec

-----------------------------------------------------------------------------
(* Type correctness                                                        *)

LEMMA TokenTyped ==
    ASSUME TokensTypeOK, NEW r \in Requests, Token(r)
    PROVE  TokensTypeOK'
<1>. USE DEF TokensTypeOK, TokenSteps, FireSteps, TokenStep, fireVars
<1>1. CASE TokenRequest(r)
  BY <1>1 DEF TokenRequest
<1>2. CASE RevokeOld(r)
  BY <1>2 DEF RevokeOld, AllRevoked, Active
<1>3. CASE InsertToken(r)
  BY <1>3 DEF InsertToken
<1>4. CASE RevokeToken(r)
  BY <1>4 DEF RevokeToken, AllRevoked
<1>. QED BY <1>1, <1>2, <1>3, <1>4 DEF Token

LEMMA ExternalTyped ==
    ASSUME TokensTypeOK, NEW f \in Fires, External(f), UNCHANGED <<state, given, kept, tpc>>
    PROVE  TokensTypeOK'
<1>. USE DEF TokensTypeOK, TokenSteps, FireSteps, FireStep
<1>1. ASSUME NEW t \in Tokens, FireRequest(f, t) PROVE TokensTypeOK'
  BY <1>1 DEF FireRequest
<1>2. CASE Fire(f)
  BY <1>2 DEF Fire
<1>3. CASE Refuse(f)
  BY <1>3 DEF Refuse
<1>. QED BY <1>1, <1>2, <1>3 DEF External

LEMMA TokensTypedStep ==
    ASSUME TokensTypeOK, [TokensNext]_tokensVars
    PROVE  TokensTypeOK'
<1>1. CASE UNCHANGED tokenVars
  BY <1>1 DEF tokenVars, fireVars, TokensTypeOK
<1>. QED BY <1>1, TokenTyped, ExternalTyped DEF TokensNext, tokensVars

\* The state of tokens and of requests about them has its type, always.
THEOREM TokensTypeCorrect == TokensSpec => []TokensTypeOK
<1>1. TokensInit => TokensTypeOK
  BY DEF TokensInit, TokensTypeOK, TokenSteps, FireSteps
<1>. QED BY <1>1, TokensTypedStep, PTL DEF TokensSpec

-----------------------------------------------------------------------------
(* The active tokens                                                       *)

\* One request about tokens at a time, and one that is about to insert has
\* nothing active but what failed to be revoked.
TokensSerial ==
    /\ \A q, r \in Requests : tpc[q] # "idle" /\ tpc[r] # "idle" => q = r
    /\ Active \subseteq {given} \cup kept
    /\ \A r \in Requests : tpc[r] = "insert" => Active \subseteq kept

LEMMA TokenSerial ==
    ASSUME ~Overlap, TokensTypeOK, TokensSerial, NEW r \in Requests, Token(r)
    PROVE  TokensSerial'
<1>. USE DEF TokensTypeOK, TokensSerial, TokenStep, Active
<1>1. CASE TokenRequest(r)
  BY <1>1 DEF TokenRequest, NoTokenRequest
<1>2. CASE RevokeOld(r)
  BY <1>2 DEF RevokeOld, AllRevoked
<1>3. CASE InsertToken(r)
  BY <1>3 DEF InsertToken
<1>4. CASE RevokeToken(r)
  BY <1>4 DEF RevokeToken, AllRevoked
<1>. QED BY <1>1, <1>2, <1>3, <1>4 DEF Token

LEMMA TokensSerialStep ==
    ASSUME ~Overlap, TokensTypeOK, TokensSerial, [TokensNext]_tokensVars
    PROVE  TokensSerial'
<1>1. CASE UNCHANGED <<state, given, kept, tpc>>
  BY <1>1 DEF TokensSerial, Active
<1>. QED BY <1>1, TokenSerial DEF TokensNext, tokensVars, tokenVars

\* An owner who waits for each answer before the next request has one active
\* token, the last one given out, but for failed revocations.
THEOREM OneTokenIsActive ==
    ASSUME ~Overlap
    PROVE  TokensSpec => []OnlyGivenIsActive
<1>1. TokensInit => TokensSerial
  BY DEF TokensInit, TokensSerial, Active
<1>2. TokensTypeOK /\ TokensSerial /\ [TokensNext]_tokensVars => TokensSerial'
  BY TokensSerialStep
<1>3. TokensSerial => OnlyGivenIsActive
  BY DEF TokensSerial, OnlyGivenIsActive
<1>. QED BY <1>1, <1>2, <1>3, TokensTypeCorrect, PTL DEF TokensSpec

-----------------------------------------------------------------------------
(* Requests to fire                                                        *)

\* Nobody acts on a schedule before it is created.
RegistryBorn == row # None \/ (\E r \in Requests : pc[r] # "idle") => born

LEMMA RegistryBornStep ==
    ASSUME RegistryTypeOK, RegistryBorn, [RegistryNext]_registryVars
    PROVE  RegistryBorn' /\ (born => born')
<1>. USE DEF RegistryTypeOK, RegistryBorn
<1>1. ASSUME NEW r \in Requests, Service(r)
      PROVE  RegistryBorn' /\ (born => born')
  BY <1>1 DEF Service, Create, GetOwned, Save, Enable, Disable, Delete, StatementFails,
    SetEnabled, Step, Finish, Arrives
<1>2. ASSUME NEW r \in Requests, Scheduler(r)
      PROVE  RegistryBorn' /\ (born => born')
  BY <1>2 DEF Scheduler, RemoveFor, Reload, Reregister, Add, SetEntry, Step, Finish
<1>3. CASE UNCHANGED registryVars
  BY <1>3 DEF registryVars, requestVars
<1>. QED BY <1>1, <1>2, <1>3 DEF RegistryNext

\* Tokens are of a schedule that was created.
TokensBorn ==
    (\E t \in Tokens : state[t] # "none") \/ (\E r \in Requests : tpc[r] # "idle") => born

LEMMA TokensBornStep ==
    ASSUME TokensTypeOK, RegistryBorn, TokensBorn, [TokensNext]_tokensVars, born => born'
    PROVE  TokensBorn'
<1>. USE DEF TokensTypeOK, TokensBorn
<1>1. ASSUME NEW r \in Requests, Token(r), UNCHANGED registryVars
      PROVE  TokensBorn'
  BY <1>1 DEF Token, TokenRequest, RevokeOld, InsertToken, RevokeToken, AllRevoked,
    TokenStep, RegistryBorn, registryVars
<1>2. CASE UNCHANGED <<state, tpc>>
  BY <1>2
<1>. QED BY <1>1, <1>2 DEF TokensNext, tokensVars, tokenVars

\* A schedule that was deleted stays deleted.
DeletedStays == born /\ row = None => row' = None

\* What still stops a request that is barred.
BarredStopped ==
    \A f \in Fires :
      /\ fpc[f] # "idle" => bearer[f] \in Tokens /\ state[bearer[f]] # "none"
      /\ barred[f] => /\ fpc[f] = "lookup" => row = None \/ state[bearer[f]] = "revoked"
                      /\ fpc[f] = "load" => row = None
                      /\ fpc[f] \notin {"check", "run"}

LEMMA TokenKeepsStopped ==
    ASSUME TokensTypeOK, BarredStopped, NEW r \in Requests, Token(r),
           UNCHANGED registryVars
    PROVE  BarredStopped'
<1>1. UNCHANGED <<fpc, bearer, barred, row>>
  BY DEF Token, TokenRequest, RevokeOld, InsertToken, RevokeToken, fireVars, registryVars
<1>2. \A t \in Tokens : /\ state[t] # "none" => state'[t] # "none"
                        /\ state[t] = "revoked" => state'[t] = "revoked"
  BY DEF TokensTypeOK, Token, TokenRequest, RevokeOld, InsertToken, RevokeToken, AllRevoked
<1>. QED BY <1>1, <1>2 DEF BarredStopped

LEMMA ExternalKeepsStopped ==
    ASSUME TokensTypeOK, TokensSerial, BarredStopped, NEW f \in Fires, External(f),
           UNCHANGED <<registryVars, state, given, kept, tpc>>
    PROVE  BarredStopped'
<1>. USE DEF TokensTypeOK, BarredStopped, FireStep, registryVars
<1>1. ASSUME NEW t \in Tokens, FireRequest(f, t) PROVE BarredStopped'
  <2>1. t \notin {given} \cup kept => state[t] = "revoked"
    BY <1>1 DEF FireRequest, TokensSerial, Active
  <2>. QED BY <1>1, <2>1 DEF FireRequest
<1>2. CASE Fire(f)
  BY <1>2 DEF Fire, FindsToken, Enabled
<1>3. CASE Refuse(f)
  BY <1>3 DEF Refuse
<1>. QED BY <1>1, <1>2, <1>3 DEF External

LEMMA BarredStoppedStep ==
    ASSUME TokensTypeOK, TokensSerial, TokensBorn, BarredStopped,
           [TokensNext]_tokensVars, [DeletedStays]_registryVars
    PROVE  BarredStopped'
<1>1. CASE UNCHANGED tokenVars
  <2>1. UNCHANGED <<fpc, bearer, barred, state>>
    BY <1>1 DEF tokenVars, fireVars
  <2>2. born /\ row = None => row' = None
    BY DEF DeletedStays, registryVars
  <2>. QED BY <2>1, <2>2 DEF BarredStopped, TokensBorn
<1>. QED BY <1>1, TokenKeepsStopped, ExternalKeepsStopped DEF TokensNext, tokensVars

\* For that owner, whose reads and deletes of the row succeed, a request that
\* comes too late for its token or its schedule never gets to run it.
THEOREM LateRequestsDoNotFire ==
    ASSUME ~Overlap, Failing \cap {"delete", "reload"} = {}
    PROVE  TokensSpec => []BarredDoNotFire
<1>. DEFINE Inv == RegistryBorn /\ TokensBorn /\ TokensSerial /\ BarredStopped
<1>1. TokensInit => Inv
  BY DEF TokensInit, RegistryInit, RegistryBorn, TokensBorn, TokensSerial, Active, BarredStopped
<1>2. [TokensNext]_tokensVars => [RegistryNext]_registryVars
  BY DEF TokensNext, tokensVars, registryVars
<1>3. /\ TokensTypeOK /\ RegistryTypeOK /\ Inv
      /\ [TokensNext]_tokensVars /\ [DeletedStays]_registryVars
      => Inv'
  BY <1>2, RegistryBornStep, TokensBornStep, TokensSerialStep, BarredStoppedStep
<1>4. Inv => BarredDoNotFire
  BY DEF BarredStopped, BarredDoNotFire
<1>5. RegistrySpec => [][DeletedStays]_registryVars
  <2>. DEFINE Kept == /\ born /\ row = None => row' = None
                      /\ row # None /\ row' # None /\ ~row.enabled /\ row'.enabled =>
                           \E r \in Requests : pc[r] = "enable" /\ pc'[r] = "reload"
  <2>1. [Kept]_registryVars => [DeletedStays]_registryVars
    BY DEF DeletedStays
  <2>. QED BY <2>1, OnlyEnableSwitchesOn, PTL DEF OnlyEnableEnables
<1>. QED
  BY <1>1, <1>3, <1>4, <1>5, ImplementsRegistry, RegistryTypeCorrect, TokensTypeCorrect, PTL
  DEF TokensSpec
=============================================================================
