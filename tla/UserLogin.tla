----------------------------- MODULE UserLogin -----------------------------
(***************************************************************************)
(* Users and how they log in: the users table under logins through an      *)
(* identity provider (oidc/handlers.go, sso/handlers.go, db/user.go),      *)
(* registration and changes of a user's keys (handlers_user.go); and the   *)
(* CLI's login, which begins, ends and is polled for in three requests     *)
(* that share a session in Redis.  A step is one statement on the table or *)
(* one command to Redis.                                                   *)
(***************************************************************************)


CONSTANTS
    Names,   \* user names
    Emails,  \* what an identity provider says of a user
    Secrets, \* encrypted keys
    Ids,     \* ids the CLI makes up for its sessions
    Reqs,    \* goroutines serving requests of users and browsers
    Polls,   \* goroutines serving the CLIs' polls
    None     \* no row, no key, no CLI session, no poll; of an older row, no auth_source

Users == [email : Emails \cup {None}, ssh : Secrets \cup {None}, anthropic : Secrets \cup {None}]
Columns == {"ssh", "anthropic"}
Requests == [name : Names, email : Emails \cup {None}, flow : Ids \cup {None}, row : Users \cup {None},
             set : [Columns -> Secrets \cup {None, "keep"}]]

PollsUnderWay == [of : Ids, step : {"read", "gone", "left"}]

ASSUME LoginAssumption ==
    /\ None \notin Ids \cup Secrets \cup Emails /\ None \notin Users /\ None \notin Requests
    /\ None \notin PollsUnderWay

VARIABLES
    users,  \* the row of each name
    at,     \* where each request is
    req,    \* what it is about, and the row it has read
    pages,  \* CLI sessions with a login page open and a valid state JWT
    cli,    \* cli_login_session:{id}
    fate,   \* what became of the token last stored for each id
    poll,   \* each poll that has read a token, and whether its Del went through
    fresh   \* polls that read the token last stored for their id

reqVars == <<at, req>>
cliVars == <<pages, cli, fate, poll, fresh>>
loginVars == <<users, reqVars, cliVars>>

NewRow(e) == [email |-> e, ssh |-> None, anthropic |-> None]
NoSet == [c \in Columns |-> "keep"]

\* A request writes a row it has loaded, and a token for a session it has.
LoginTypeOK ==
    /\ users \in [Names -> Users \cup {None}]
    /\ at \in [Reqs -> {"idle", "find", "save", "create", "store", "ssh", "anthropic"}]
    /\ req \in [Reqs -> Requests \cup {None}]
    /\ \A r \in Reqs : at[r] # "idle" => req[r] # None
    /\ \A r \in Reqs : at[r] = "save" => req[r].row # None
    /\ \A r \in Reqs : at[r] = "store" => req[r].flow # None
    /\ pages \subseteq Ids
    /\ cli \in [Ids -> {"none", "pending", "completed"}]
    /\ fate \in [Ids -> {"none", "waiting", "handed", "left", "lost"}]
    /\ poll \in [Polls -> PollsUnderWay \cup {None}]
    /\ fresh \subseteq {p \in Polls : poll[p] # None}

\* Some rows are older than the column auth_source: whatever an identity
\* provider says, the first login changes them.
Init ==
    /\ users \in [Names -> {None, NewRow(None)}]
    /\ at = [r \in Reqs |-> "idle"] /\ req = [r \in Reqs |-> None]
    /\ pages = {}
    /\ cli = [s \in Ids |-> "none"] /\ fate = [s \in Ids |-> "none"]
    /\ poll = [p \in Polls |-> None] /\ fresh = {}

Begins(r, step, q) ==
    at[r] = "idle" /\ at' = [at EXCEPT ![r] = step] /\ req' = [req EXCEPT ![r] = q]

Goes(r, from, to) == at[r] = from /\ at' = [at EXCEPT ![r] = to]

\* The request is answered.
Ends(r) == at' = [at EXCEPT ![r] = "idle"] /\ req' = [req EXCEPT ![r] = None]

-----------------------------------------------------------------------------
(* The CLI's requests                                                      *)

\* Whoever polls for s has read an earlier token.
Outdated(s) == fresh' = {p \in fresh : poll[p].of # s}

\* The token of s, if it is still waiting in Redis, goes without an answer.
GoesUnread(s) ==
    fate' = [fate EXCEPT ![s] = IF @ = "waiting" /\ cli[s] = "completed" THEN "lost" ELSE @]

\* CLILogin: the session is pending, and the CLI gets the page to open unless
\* the provider's document is still to be fetched and fails to come.
CLILogin(s) ==
    /\ cli' = [cli EXCEPT ![s] = "pending"]
    /\ fate' = [fate EXCEPT ![s] = IF @ = "waiting" THEN "lost" ELSE "none"]
    /\ Outdated(s)
    /\ pages' \in {pages, pages \cup {s}}
    /\ UNCHANGED <<users, reqVars, poll>>

\* Mutant: a poll takes every session for a pending one.
NeverCompleted(s) == FALSE

IsCompleted(s) == cli[s] = "completed"

\* CLIPoll: Get.  Pending and missing sessions end it.
Poll(p, s) ==
    /\ poll[p] = None /\ IsCompleted(s)
    /\ poll' = [poll EXCEPT ![p] = [of |-> s, step |-> "read"]]
    /\ fresh' = fresh \cup {p}
    /\ UNCHANGED <<users, reqVars, pages, cli, fate>>

\* Mutant: the session is left to expire.
LeftInRedis(s) == cli

Deleted(s) == [cli EXCEPT ![s] = "none"]

\* CLIPoll: Del, whatever is there by now.  Its error is not looked at.
PollDeletes(p) ==
    /\ poll[p] # None /\ poll[p].step = "read"
    /\ LET s == poll[p].of IN
       \/ /\ cli' = Deleted(s) /\ poll' = [poll EXCEPT ![p].step = "gone"]
          /\ IF p \in fresh THEN UNCHANGED fate ELSE GoesUnread(s)
       \/ poll' = [poll EXCEPT ![p].step = "left"] /\ UNCHANGED <<cli, fate>>
    /\ UNCHANGED <<users, reqVars, pages, fresh>>

PollEnds(p, outcome) ==
    /\ poll[p] # None /\ poll[p].step # "read"
    /\ poll' = [poll EXCEPT ![p] = None] /\ fresh' = fresh \ {p}
    /\ fate' = IF p \in fresh THEN [fate EXCEPT ![poll[p].of] = outcome] ELSE fate
    /\ UNCHANGED <<users, reqVars, pages, cli>>

\* The token is answered, deleted or not.
PollAnswers(p) ==
    PollEnds(p, IF poll[p].step = "gone" \/ fate[poll[p].of] = "handed" THEN "handed" ELSE "left")

\* The connection breaks or the process dies before the answer is out.  (Before
\* the Del it would be as if the poll had not been made.)
PollUnanswered(p) ==
    PollEnds(p, IF poll[p].step = "gone" /\ fate[poll[p].of] = "waiting"
                THEN "lost" ELSE fate[poll[p].of])

\* A session lapses after five minutes.
Expire(s) ==
    /\ cli[s] # "none" /\ cli' = [cli EXCEPT ![s] = "none"] /\ GoesUnread(s)
    /\ UNCHANGED <<users, reqVars, pages, poll, fresh>>

\* The state JWT of a page does after ten, by default.
PageLapses(s) ==
    /\ s \in pages /\ pages' = pages \ {s}
    /\ UNCHANGED <<users, reqVars, cli, fate, poll, fresh>>

-----------------------------------------------------------------------------
(* Callbacks of the identity provider                                      *)

LogsIn(r, n, e, s) ==
    /\ Begins(r, "find", [name |-> n, email |-> e, flow |-> s, row |-> None, set |-> NoSet])
    /\ UNCHANGED <<users, cliVars>>

\* Callback of OIDC or of SSO: state, code and what the provider tells are good.
Callback(r, n, e) == LogsIn(r, n, e, None)

\* CLICallback: so is the state JWT of the page.
CLICallback(r, n, e, s) == s \in pages /\ LogsIn(r, n, e, s)

\* Mutant: the callback of a login that no CLI began stores its token as well.
AlwaysStores(r) == TRUE

IsForCLI(r) == req[r].flow # None

\* Where a callback goes on once it has its user: done(token, session).
Logged(r) ==
    IF ~IsForCLI(r) THEN Ends(r)
    ELSE at' = [at EXCEPT ![r] = "store"] /\ req' = [req EXCEPT ![r].row = None, ![r].email = None]

\* FindOrCreate: the SELECT.
Find(r) ==
    /\ at[r] = "find"
    /\ LET u == users[req[r].name] IN
       \/ u = None /\ Goes(r, "find", "create") /\ UNCHANGED req
       \/ u # None /\ u.email = req[r].email /\ Logged(r)
       \/ /\ u # None /\ u.email # req[r].email
          /\ Goes(r, "find", "save") /\ req' = [req EXCEPT ![r].row = u]
    /\ UNCHANGED <<users, cliVars>>

\* Mutant: what is saved is a user made from what the provider says.
SavedAnew(r) == NewRow(req[r].email)

\* db.Save: every column, the keys as they were read.
Saved(r) == [req[r].row EXCEPT !.email = req[r].email]

SaveUser(r) ==
    /\ at[r] = "save"
    /\ users' = [users EXCEPT ![req[r].name] = Saved(r)]
    /\ Logged(r)
    /\ UNCHANGED cliVars

\* db.Create: a name that is taken by now is refused.
CreateUser(r) ==
    /\ at[r] = "create" /\ users[req[r].name] = None
    /\ users' = [users EXCEPT ![req[r].name] = NewRow(req[r].email)]
    /\ Logged(r)
    /\ UNCHANGED cliVars

\* CLICallback: the session is completed, be it pending, gone or completed.
StoreToken(r) ==
    /\ at[r] = "store"
    /\ LET s == req[r].flow IN
       /\ cli' = [cli EXCEPT ![s] = "completed"]
       /\ fate' = [fate EXCEPT ![s] = "waiting"]
       /\ Outdated(s)
    /\ Ends(r)
    /\ UNCHANGED <<users, pages, poll>>

\* A statement or a command fails, or db.Create meets the name: 409, 500, 502.
Fails(r) ==
    /\ at[r] # "idle" /\ Ends(r)
    /\ UNCHANGED <<users, cliVars>>

-----------------------------------------------------------------------------
(* Registration and settings                                               *)

\* CreateWithPassword.
Register(n, e) ==
    /\ users[n] = None
    /\ users' = [users EXCEPT ![n] = NewRow(e)]
    /\ UNCHANGED <<reqVars, cliVars>>

\* BearerAuth finds the user; then one UPDATE for each key that is given.
UpdateUserSettings(r, n, set) ==
    /\ users[n] # None /\ set # NoSet
    /\ Begins(r, IF set["ssh"] # "keep" THEN "ssh" ELSE "anthropic",
              [name |-> n, email |-> None, flow |-> None, row |-> None, set |-> set])
    /\ UNCHANGED <<users, cliVars>>

\* UpdateSSHKey, UpdateAnthropicAPIKey: one column.
UpdateKey(r, c) ==
    /\ at[r] = c
    /\ users' = [users EXCEPT ![req[r].name][c] = req[r].set[c]]
    /\ IF c = "ssh" /\ req[r].set["anthropic"] # "keep"
       THEN at' = [at EXCEPT ![r] = "anthropic"] /\ req' = [req EXCEPT ![r].set[c] = "keep"]
       ELSE Ends(r)
    /\ UNCHANGED cliVars

-----------------------------------------------------------------------------
CLI(s) == CLILogin(s) \/ Expire(s) \/ PageLapses(s) \/ \E p \in Polls : Poll(p, s)

PollGoesOn(p) == PollDeletes(p) \/ PollAnswers(p) \/ PollUnanswered(p)

Begin(r) ==
    \/ \E n \in Names, e \in Emails :
         Callback(r, n, e) \/ \E s \in Ids : CLICallback(r, n, e, s)
    \/ \E n \in Names, set \in [Columns -> Secrets \cup {None, "keep"}] :
         UpdateUserSettings(r, n, set)

GoOn(r) ==
    \/ Find(r) \/ SaveUser(r) \/ CreateUser(r) \/ StoreToken(r) \/ Fails(r)
    \/ \E c \in Columns : UpdateKey(r, c)

Next ==
    \/ \E s \in Ids : CLI(s)
    \/ \E p \in Polls : PollGoesOn(p)
    \/ \E n \in Names, e \in Emails : Register(n, e)
    \/ \E r \in Reqs : Begin(r) \/ GoOn(r)

\* The CLI polls until it is answered, a poll comes to its end, and a CLI that
\* polls again and again does not go without every answer.  No page is good for
\* ever.
Fairness ==
    /\ \A s \in Ids : WF_loginVars(\E p \in Polls : Poll(p, s)) /\ WF_loginVars(PageLapses(s))
    /\ \A p \in Polls : WF_loginVars(PollGoesOn(p))
    /\ \A s \in Ids : SF_loginVars(\E p \in fresh : poll[p].of = s /\ PollAnswers(p))

LoginSpec == Init /\ [][Next]_loginVars /\ Fairness

-----------------------------------------------------------------------------
(* Properties                                                              *)

\* A key of a user changes only by a request that saves or clears this key, to
\* what it was given, or by a login that read the row before such a request and
\* writes it back as it was: no login makes up a key or loses both, and no
\* request touches the other key.
KeysAreKept ==
    [][\A n \in Names, c \in Columns :
         users[n] # None /\ users'[n][c] # users[n][c] =>
            \E r \in Reqs :
                /\ at'[r] # at[r] /\ req[r].name = n
                /\ \/ at[r] = c /\ users'[n][c] = req[r].set[c]
                   \/ at[r] = "save" /\ users'[n][c] = req[r].row[c]]_loginVars

\* "When status is completed the response also contains the issued access token,
\* and the session is deleted" (oidc/handlers.go:213): once a poll whose Del went
\* through has answered with the token, the session no longer has it, whatever
\* other polls and browsers do.  A Del that fails leaves it (fate "left").
HandedIsGone == \A s \in Ids : fate[s] = "handed" => cli[s] # "completed"

\* A browser that is told "Authentication successful" means a CLI that gets its
\* token, unless the session lapses, the CLI begins anew, a poll for an earlier
\* token of the same id deletes it, or the answer to a poll is lost after its Del.
LoginArrives ==
    \A s \in Ids : fate[s] = "waiting" ~> fate[s] \in {"handed", "left", "lost"}
=============================================================================
