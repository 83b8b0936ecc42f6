--------------------------- MODULE UserLoginProofs ---------------------------
(***************************************************************************)
(* TLAPS proofs about UserLogin, for any number of users, requests and CLI *)
(* sessions: its types, that a token handed out is gone, and who changes a *)
(* user's keys.                                                            *)
(***************************************************************************)
EXTENDS UserLogin, TLAPS

\* What a request says of each key.
Settings == [Columns -> Secrets \cup {None, "keep"}]

USE DEF Settings

-----------------------------------------------------------------------------
(* Records                                                                 *)

LEMMA NewRows ==
    ASSUME NEW e \in Emails \cup {None}
    PROVE  NewRow(e) \in Users /\ NewRow(e) # None
<1>1. NewRow(e) \in Users
  BY DEF NewRow, Users
<1>. QED BY <1>1, LoginAssumption

\* A row with another e-mail address keeps its keys.
LEMMA RenamedRows ==
    ASSUME NEW u \in Users, NEW e \in Emails \cup {None}, NEW new, new = [u EXCEPT !.email = e]
    PROVE  new \in Users /\ new # None /\ new.email = e /\ \A c \in Columns : new[c] = u[c]
<1>1. new \in Users /\ new.email = e
  BY DEF Users
<1>2. new.ssh = u.ssh /\ new.anthropic = u.anthropic
  BY DEF Users
<1>. QED BY <1>1, <1>2, LoginAssumption DEF Columns

-----------------------------------------------------------------------------
(* Types                                                                   *)

\* The requests and rows, and the CLI sessions, each of a type of their own.
RequestsTyped ==
    /\ users \in [Names -> Users \cup {None}]
    /\ at \in [Reqs -> {"idle", "find", "save", "create", "store", "ssh", "anthropic"}]
    /\ req \in [Reqs -> Requests \cup {None}]
    /\ \A r \in Reqs : at[r] # "idle" => req[r] # None
    /\ \A r \in Reqs : at[r] = "save" => req[r].row # None
    /\ \A r \in Reqs : at[r] = "store" => req[r].flow # None

SessionsTyped ==
    /\ pages \subseteq Ids
    /\ cli \in [Ids -> {"none", "pending", "completed"}]
    /\ fate \in [Ids -> {"none", "waiting", "handed", "left", "lost"}]
    /\ poll \in [Polls -> PollsUnderWay \cup {None}]
    /\ fresh \subseteq {p \in Polls : poll[p] # None}

\* A request that is to write a row still finds one, and one that is to write a
\* key was given it.
RequestsServed ==
    /\ \A r \in Reqs : at[r] \in {"save", "ssh", "anthropic"} => users[req[r].name] # None
    /\ \A r \in Reqs, c \in Columns : at[r] = c => req[r].set[c] # "keep"

\* What a poll has deleted is not back while the poll is the last to have read it:
\* whoever puts a token there makes the poll an outdated one.
TakenIsGone ==
    \A p \in fresh : poll[p].step = "gone" => cli[poll[p].of] # "completed"

SessionsInv == SessionsTyped /\ TakenIsGone /\ HandedIsGone

LEMMA PollUnderWay ==
    ASSUME SessionsTyped, NEW p \in Polls, poll[p] # None
    PROVE  /\ poll[p] \in PollsUnderWay /\ poll[p].of \in Ids
           /\ poll[p].step \in {"read", "gone", "left"}
BY DEF SessionsTyped, PollsUnderWay

\* Steps on one session, and a poll that begins.
LEMMA CLIStep ==
    ASSUME SessionsInv, NEW s \in Ids, CLI(s)
    PROVE  SessionsInv' /\ UNCHANGED <<users, reqVars>>
<1>. USE LoginAssumption DEF SessionsInv
<1>1. CASE CLILogin(s)
  <2>1. /\ cli' = [cli EXCEPT ![s] = "pending"] /\ UNCHANGED <<users, reqVars, poll>>
        /\ fresh' = {p \in fresh : poll[p].of # s} /\ pages' \in {pages, pages \cup {s}}
        /\ \A i \in Ids \ {s} : fate'[i] = fate[i]
        /\ fate' \in [Ids -> {"none", "waiting", "handed", "left", "lost"}]
    BY <1>1 DEF CLILogin, Outdated, SessionsTyped
  <2>2. SessionsTyped'
    BY <2>1 DEF SessionsTyped
  <2>3. TakenIsGone' /\ HandedIsGone'
    BY <2>1 DEF SessionsTyped, TakenIsGone, HandedIsGone
  <2>. QED BY <2>1, <2>2, <2>3
<1>2. CASE Expire(s) \/ PageLapses(s)
  <2>1. /\ cli' \in {cli, [cli EXCEPT ![s] = "none"]} /\ UNCHANGED <<users, reqVars, poll, fresh>>
        /\ pages' \subseteq Ids
        /\ \A i \in Ids : fate'[i] \in {fate[i], "lost"}
        /\ fate' \in [Ids -> {"none", "waiting", "handed", "left", "lost"}]
    BY <1>2 DEF Expire, PageLapses, GoesUnread, SessionsTyped
  <2>2. SessionsTyped'
    BY <2>1 DEF SessionsTyped
  <2>3. \A i \in Ids : cli'[i] \in {cli[i], "none"}
    BY <2>1 DEF SessionsTyped
  <2>4. TakenIsGone'
    <3>. SUFFICES ASSUME NEW p \in fresh, poll[p].step = "gone"
                  PROVE  cli'[poll[p].of] # "completed"
      BY <2>1 DEF TakenIsGone
    <3>. QED BY <2>3, PollUnderWay DEF TakenIsGone, SessionsTyped
  <2>5. HandedIsGone'
    BY <2>1, <2>3 DEF HandedIsGone
  <2>. QED BY <2>1, <2>2, <2>4, <2>5
<1>3. ASSUME NEW p \in Polls, Poll(p, s) PROVE SessionsInv' /\ UNCHANGED <<users, reqVars>>
  <2>. DEFINE q == [of |-> s, step |-> "read"]
  <2>1. /\ poll' = [poll EXCEPT ![p] = q] /\ fresh' = fresh \cup {p}
        /\ UNCHANGED <<users, reqVars, pages, cli, fate>>
    BY <1>3 DEF Poll
  <2>2. q \in PollsUnderWay /\ q.step = "read"
    BY DEF PollsUnderWay
  <2>. HIDE DEF q
  <2>3. poll'[p] = q /\ \A o \in Polls \ {p} : poll'[o] = poll[o]
    BY <2>1 DEF SessionsTyped
  <2>4. SessionsTyped'
    BY <2>1, <2>2, <2>3 DEF SessionsTyped
  <2>5. TakenIsGone' /\ HandedIsGone'
    BY <2>1, <2>2, <2>3 DEF TakenIsGone, HandedIsGone, SessionsTyped
  <2>. QED BY <2>1, <2>4, <2>5
<1>. QED BY <1>1, <1>2, <1>3 DEF CLI

LEMMA PollStep ==
    ASSUME SessionsInv, NEW p \in Polls, PollGoesOn(p)
    PROVE  SessionsInv' /\ UNCHANGED <<users, reqVars>>
<1>. USE LoginAssumption DEF SessionsInv
<1>. DEFINE s == poll[p].of
<1>1. /\ poll[p] # None /\ poll[p] \in PollsUnderWay /\ s \in Ids
      /\ poll[p].step \in {"read", "gone", "left"}
  BY PollUnderWay DEF PollGoesOn, PollDeletes, PollAnswers, PollUnanswered, PollEnds
<1>2. CASE PollDeletes(p)
  <2>1. PICK x \in {"gone", "left"} :
          /\ poll' = [poll EXCEPT ![p].step = x] /\ UNCHANGED <<users, reqVars, pages, fresh>>
          /\ cli' = IF x = "gone" THEN [cli EXCEPT ![s] = "none"] ELSE cli
          /\ \A i \in Ids : fate'[i] \in {fate[i], "lost"}
          /\ fate' \in [Ids -> {"none", "waiting", "handed", "left", "lost"}]
    BY <1>1, <1>2 DEF PollDeletes, Deleted, GoesUnread, SessionsTyped
  <2>. DEFINE q == [poll[p] EXCEPT !.step = x]
  <2>2. q \in PollsUnderWay /\ q.step = x /\ q.of = s /\ q # None
    BY <1>1 DEF PollsUnderWay
  <2>3. poll' = [poll EXCEPT ![p] = q]
    BY <2>1
  <2>. HIDE DEF q
  <2>4. poll'[p] = q /\ \A o \in Polls \ {p} : poll'[o] = poll[o]
    BY <2>3 DEF SessionsTyped
  <2>5. SessionsTyped'
    BY <1>1, <2>1, <2>2, <2>3, <2>4 DEF SessionsTyped
  <2>6. \A i \in Ids : cli'[i] \in {cli[i], "none"}
    BY <1>1, <2>1 DEF SessionsTyped
  <2>7. x = "gone" => cli'[s] = "none"
    BY <1>1, <2>1 DEF SessionsTyped
  <2>8. TakenIsGone'
    <3>. SUFFICES ASSUME NEW o \in fresh', poll'[o].step = "gone"
                  PROVE  cli'[poll'[o].of] # "completed"
      BY DEF TakenIsGone
    <3>1. CASE o = p
      BY <2>2, <2>4, <2>7, <3>1
    <3>2. CASE o # p
      <4>1. o \in fresh /\ o \in Polls /\ poll[o] # None /\ poll'[o] = poll[o]
        BY <2>1, <2>4, <3>2 DEF SessionsTyped
      <4>2. poll[o].of \in Ids
        BY <4>1, PollUnderWay
      <4>. QED BY <2>6, <4>1, <4>2 DEF TakenIsGone
    <3>. QED BY <3>1, <3>2
  <2>9. HandedIsGone'
    BY <2>1, <2>6 DEF HandedIsGone
  <2>. QED BY <2>1, <2>5, <2>8, <2>9
<1>3. CASE PollAnswers(p) \/ PollUnanswered(p)
  <2>1. PICK x \in {"none", "waiting", "handed", "left", "lost"} :
          /\ PollEnds(p, x)
          /\ x = "handed" => poll[p].step = "gone" \/ fate[s] = "handed"
    BY <1>1, <1>3 DEF PollAnswers, PollUnanswered, SessionsTyped
  <2>2. /\ poll' = [poll EXCEPT ![p] = None] /\ fresh' = fresh \ {p}
        /\ fate' = IF p \in fresh THEN [fate EXCEPT ![s] = x] ELSE fate
        /\ UNCHANGED <<users, reqVars, pages, cli>>
    BY <2>1 DEF PollEnds
  <2>3. SessionsTyped'
    BY <1>1, <2>2 DEF SessionsTyped
  <2>4. TakenIsGone'
    BY <2>2 DEF TakenIsGone, SessionsTyped
  <2>5. p \in fresh /\ x = "handed" => cli[s] # "completed"
    BY <1>1, <2>1 DEF TakenIsGone, HandedIsGone
  <2>6. HandedIsGone'
    <3>. SUFFICES ASSUME NEW i \in Ids, fate'[i] = "handed" PROVE cli[i] # "completed"
      BY <2>2 DEF HandedIsGone
    <3>1. CASE i = s /\ p \in fresh
      <4>1. x = "handed"
        BY <1>1, <2>2, <3>1 DEF SessionsTyped
      <4>. QED BY <2>5, <3>1, <4>1
    <3>2. CASE ~(i = s /\ p \in fresh)
      <4>1. fate[i] = "handed"
        BY <1>1, <2>2, <3>2 DEF SessionsTyped
      <4>. QED BY <4>1 DEF HandedIsGone
    <3>. QED BY <3>1, <3>2
  <2>. QED BY <2>2, <2>3, <2>4, <2>6
<1>. QED BY <1>2, <1>3 DEF PollGoesOn

LEMMA StoreTokenStep ==
    ASSUME RequestsTyped, SessionsInv, NEW r \in Reqs, StoreToken(r)
    PROVE  SessionsInv' /\ Ends(r) /\ UNCHANGED users
<1>. DEFINE s == req[r].flow
<1>1. s \in Ids
  BY DEF StoreToken, RequestsTyped, Requests
<1>2. /\ cli' = [cli EXCEPT ![s] = "completed"] /\ UNCHANGED <<users, pages, poll>>
      /\ fate' = [fate EXCEPT ![s] = "waiting"]
      /\ fresh' = {p \in fresh : poll[p].of # s} /\ Ends(r)
  BY DEF StoreToken, Outdated
<1>. HIDE DEF s
<1>3. SessionsTyped'
  BY <1>1, <1>2 DEF SessionsInv, SessionsTyped
<1>4. TakenIsGone' /\ HandedIsGone'
  BY <1>1, <1>2 DEF SessionsInv, SessionsTyped, TakenIsGone, HandedIsGone
<1>. QED BY <1>2, <1>3, <1>4 DEF SessionsInv

-----------------------------------------------------------------------------
(* Requests of users and browsers                                          *)

\* KeysAreKept, of one step.
KeysStep ==
    \A n \in Names, c \in Columns :
      users[n] # None /\ users'[n][c] # users[n][c] =>
         \E r \in Reqs :
             /\ at'[r] # at[r] /\ req[r].name = n
             /\ \/ at[r] = c /\ users'[n][c] = req[r].set[c]
                \/ at[r] = "save" /\ users'[n][c] = req[r].row[c]

LEMMA RequestAt ==
    ASSUME RequestsTyped, NEW r \in Reqs, at[r] # "idle"
    PROVE  /\ req[r] \in Requests /\ req[r].name \in Names
           /\ req[r].email \in Emails \cup {None}
           /\ req[r].flow \in Ids \cup {None}
           /\ req[r].set \in Settings
           /\ req[r].row \in Users \cup {None}
           /\ users[req[r].name] \in Users \cup {None}
<1>1. req[r] \in Requests
  BY DEF RequestsTyped
<1>2. req[r].name \in Names
  BY <1>1 DEF Requests
<1>. QED BY <1>1, <1>2 DEF Requests, RequestsTyped

\* A step of one request that loses no row.
LEMMA OneRequestMoves ==
    ASSUME RequestsTyped, RequestsServed, NEW r \in Reqs,
           NEW x \in {"idle", "find", "save", "create", "store", "ssh", "anthropic"},
           NEW q \in Requests \cup {None},
           at' = [at EXCEPT ![r] = x], req' = [req EXCEPT ![r] = q],
           users' \in [Names -> Users \cup {None}],
           \A n \in Names : users[n] # None => users'[n] # None,
           x # "idle" => q # None,
           x = "save" => q.row # None,
           x \in {"save", "ssh", "anthropic"} => users'[q.name] # None,
           x = "store" => q.flow # None,
           \A c \in Columns : x = c => q.set[c] # "keep"
    PROVE  RequestsTyped' /\ RequestsServed'
<1>1. /\ at'[r] = x /\ req'[r] = q
      /\ \A p \in Reqs \ {r} : at'[p] = at[p] /\ req'[p] = req[p]
  BY DEF RequestsTyped
<1>2. RequestsTyped'
  BY <1>1 DEF RequestsTyped
<1>3. ASSUME NEW p \in Reqs, at'[p] \in {"save", "ssh", "anthropic"}
      PROVE  users'[req'[p].name] # None
  <2>1. CASE p = r
    BY <1>1, <1>3, <2>1
  <2>2. CASE p # r
    <3>1. at[p] = at'[p] /\ req'[p] = req[p] /\ users[req[p].name] # None
      BY <1>1, <1>3, <2>2 DEF RequestsServed
    <3>2. req[p].name \in Names
      BY <1>3, <3>1, RequestAt
    <3>. QED BY <3>1, <3>2
  <2>. QED BY <2>1, <2>2
<1>4. \A p \in Reqs, c \in Columns : at'[p] = c => req'[p].set[c] # "keep"
  BY <1>1 DEF RequestsServed
<1>. QED BY <1>2, <1>3, <1>4 DEF RequestsServed

\* The end of a request, or its user found.
LEMMA RequestEnds ==
    ASSUME RequestsTyped, RequestsServed, NEW r \in Reqs, at[r] # "idle", Ends(r) \/ Logged(r),
           users' \in [Names -> Users \cup {None}],
           \A n \in Names : users[n] # None => users'[n] # None
    PROVE  RequestsTyped' /\ RequestsServed'
<1>1. CASE Ends(r)
  BY <1>1, OneRequestMoves DEF Ends, Columns
<1>2. CASE ~Ends(r)
  <2>. DEFINE q == [req[r] EXCEPT !.row = None, !.email = None]
  <2>1. /\ at' = [at EXCEPT ![r] = "store"] /\ req' = [req EXCEPT ![r] = q]
        /\ req[r].flow # None
    BY <1>2, RequestAt DEF Logged, IsForCLI, RequestsTyped
  <2>2. q \in Requests /\ q.flow = req[r].flow
    BY RequestAt DEF Requests
  <2>. HIDE DEF q
  <2>. QED BY <2>1, <2>2, OneRequestMoves, LoginAssumption DEF Columns
<1>. QED BY <1>1, <1>2

\* Which keys a step that changes one row may change.
LEMMA OneRowChanges ==
    ASSUME RequestsTyped, NEW n \in Names, NEW new \in Users,
           users' = [users EXCEPT ![n] = new],
           \/ users[n] = None
           \/ \A c \in Columns : new[c] # users[n][c] =>
                \E r \in Reqs :
                    /\ at'[r] # at[r] /\ req[r].name = n
                    /\ \/ at[r] = c /\ new[c] = req[r].set[c]
                       \/ at[r] = "save" /\ new[c] = req[r].row[c]
    PROVE  /\ KeysStep
           /\ users' \in [Names -> Users \cup {None}]
           /\ \A m \in Names : users[m] # None => users'[m] # None
<1>1. /\ users'[n] = new /\ new # None
      /\ \A m \in Names \ {n} : users'[m] = users[m]
      /\ users' \in [Names -> Users \cup {None}]
  BY LoginAssumption DEF RequestsTyped
<1>2. KeysStep
  BY <1>1 DEF KeysStep
<1>. QED BY <1>1, <1>2

LEMMA BeginStep ==
    ASSUME RequestsTyped, RequestsServed, NEW r \in Reqs, NEW n \in Names,
           \/ \E e \in Emails, s \in Ids \cup {None} : LogsIn(r, n, e, s)
           \/ \E set \in Settings : UpdateUserSettings(r, n, set)
    PROVE  RequestsTyped' /\ RequestsServed' /\ UNCHANGED <<users, cliVars>>
<1>1. ASSUME NEW e \in Emails, NEW s \in Ids \cup {None}, LogsIn(r, n, e, s)
      PROVE  RequestsTyped' /\ RequestsServed' /\ UNCHANGED <<users, cliVars>>
  <2>. DEFINE q == [name |-> n, email |-> e, flow |-> s, row |-> None, set |-> NoSet]
  <2>1. q \in Requests
    BY DEF Requests, NoSet
  <2>2. /\ at' = [at EXCEPT ![r] = "find"] /\ req' = [req EXCEPT ![r] = q]
        /\ UNCHANGED <<users, cliVars>>
    BY <1>1 DEF LogsIn, Begins
  <2>. HIDE DEF q
  <2>3. users' \in [Names -> Users \cup {None}]
    BY <2>2 DEF RequestsTyped
  <2>. QED BY <2>1, <2>2, <2>3, OneRequestMoves, LoginAssumption DEF Columns
<1>2. ASSUME NEW set \in Settings, UpdateUserSettings(r, n, set)
      PROVE  RequestsTyped' /\ RequestsServed' /\ UNCHANGED <<users, cliVars>>
  <2>. DEFINE q == [name |-> n, email |-> None, flow |-> None, row |-> None, set |-> set]
              first == IF set["ssh"] # "keep" THEN "ssh" ELSE "anthropic"
  <2>1. q \in Requests /\ q.name = n /\ q.set = set
    BY DEF Requests, RequestsTyped
  <2>2. /\ at' = [at EXCEPT ![r] = first] /\ req' = [req EXCEPT ![r] = q]
        /\ users[n] # None /\ UNCHANGED <<users, cliVars>>
    BY <1>2 DEF UpdateUserSettings, Begins
  <2>3. \A c \in Columns : first = c => set[c] # "keep"
    <3>1. set # NoSet
      BY <1>2 DEF UpdateUserSettings
    <3>. QED BY <3>1 DEF Columns, NoSet
  <2>4. first \in {"ssh", "anthropic"}
    OBVIOUS
  <2>5. users' \in [Names -> Users \cup {None}]
    BY <2>2 DEF RequestsTyped
  <2>. HIDE DEF q, first
  <2>6. /\ q # None /\ first # "save" /\ users'[q.name] # None
        /\ \A c \in Columns : first = c => q.set[c] # "keep"
        /\ first \in {"idle", "find", "save", "create", "store", "ssh", "anthropic"} /\ first # "store"
        /\ \A m \in Names : users[m] # None => users'[m] # None
    BY <2>1, <2>2, <2>3, <2>4, LoginAssumption
  <2>7. RequestsTyped' /\ RequestsServed'
    BY <2>1, <2>2, <2>4, <2>5, <2>6, OneRequestMoves, LoginAssumption DEF Columns
  <2>. QED BY <2>2, <2>7
<1>. QED BY <1>1, <1>2

LEMMA FindStep ==
    ASSUME RequestsTyped, RequestsServed, NEW r \in Reqs, Find(r)
    PROVE  RequestsTyped' /\ RequestsServed' /\ UNCHANGED <<users, cliVars>>
<1>. DEFINE u == users[req[r].name]
<1>1. at[r] = "find" /\ UNCHANGED <<users, cliVars>> /\ u \in Users \cup {None}
  BY RequestAt DEF Find
<1>2. /\ users' \in [Names -> Users \cup {None}]
      /\ \A n \in Names : users[n] # None => users'[n] # None
      /\ req[r] \in Requests /\ req[r] # None
  BY <1>1, RequestAt, LoginAssumption DEF RequestsTyped
<1>3. CASE Logged(r)
  BY <1>1, <1>2, <1>3, RequestEnds
<1>4. CASE at' = [at EXCEPT ![r] = "create"] /\ UNCHANGED req
  <2>. DEFINE q == req[r]
  <2>1. req' = [req EXCEPT ![r] = q] /\ q \in Requests /\ q # None
    BY <1>2, <1>4 DEF RequestsTyped
  <2>. HIDE DEF q
  <2>2. RequestsTyped' /\ RequestsServed'
    BY <1>2, <1>4, <2>1, OneRequestMoves DEF Columns
  <2>. QED BY <1>1, <2>2
<1>5. CASE /\ u # None /\ at' = [at EXCEPT ![r] = "save"]
           /\ req' = [req EXCEPT ![r].row = u]
  <2>. DEFINE q == [req[r] EXCEPT !.row = u]
  <2>1. q \in Requests /\ q.row # None /\ q.name = req[r].name
    BY <1>1, <1>2, <1>5 DEF Requests
  <2>2. at' = [at EXCEPT ![r] = "save"] /\ req' = [req EXCEPT ![r] = q] /\ users'[q.name] # None
    BY <1>1, <1>5, <2>1
  <2>. HIDE DEF q
  <2>3. RequestsTyped' /\ RequestsServed'
    BY <1>2, <2>1, <2>2, OneRequestMoves, LoginAssumption DEF Columns
  <2>. QED BY <1>1, <2>3
<1>. QED BY <1>1, <1>3, <1>4, <1>5 DEF Find, Goes

LEMMA SaveUserStep ==
    ASSUME RequestsTyped, RequestsServed, NEW r \in Reqs, SaveUser(r)
    PROVE  RequestsTyped' /\ RequestsServed' /\ KeysStep /\ UNCHANGED cliVars
<1>. DEFINE n == req[r].name
            new == [req[r].row EXCEPT !.email = req[r].email]
<1>1. /\ at[r] = "save" /\ users' = [users EXCEPT ![n] = new] /\ Logged(r)
      /\ UNCHANGED cliVars
  BY DEF SaveUser, Saved
<1>2. n \in Names /\ req[r].row \in Users /\ req[r].email \in Emails \cup {None}
  BY <1>1, RequestAt DEF RequestsTyped
<1>3. new \in Users /\ \A c \in Columns : new[c] = req[r].row[c]
  BY <1>2, RenamedRows
<1>4. at'[r] # at[r]
  BY <1>1 DEF Logged, Ends, RequestsTyped
<1>. HIDE DEF new, n
<1>5. n = req[r].name
  BY DEF n
<1>6. /\ KeysStep /\ users' \in [Names -> Users \cup {None}]
      /\ \A m \in Names : users[m] # None => users'[m] # None
  BY <1>1, <1>2, <1>3, <1>4, <1>5, OneRowChanges
<1>. QED BY <1>1, <1>6, RequestEnds

LEMMA CreateUserStep ==
    ASSUME RequestsTyped, RequestsServed, NEW r \in Reqs, CreateUser(r)
    PROVE  RequestsTyped' /\ RequestsServed' /\ KeysStep /\ UNCHANGED cliVars
<1>1. /\ at[r] = "create" /\ users[req[r].name] = None /\ Logged(r) /\ UNCHANGED cliVars
      /\ users' = [users EXCEPT ![req[r].name] = NewRow(req[r].email)]
  BY DEF CreateUser
<1>2. req[r].name \in Names /\ NewRow(req[r].email) \in Users
  BY <1>1, RequestAt, NewRows
<1>3. /\ KeysStep /\ users' \in [Names -> Users \cup {None}]
      /\ \A m \in Names : users[m] # None => users'[m] # None
  BY <1>1, <1>2, OneRowChanges
<1>. QED BY <1>1, <1>3, RequestEnds

LEMMA RegisterStep ==
    ASSUME RequestsTyped, RequestsServed, NEW n \in Names, NEW e \in Emails, Register(n, e)
    PROVE  RequestsTyped' /\ RequestsServed' /\ KeysStep /\ UNCHANGED cliVars
<1>1. /\ users[n] = None /\ users' = [users EXCEPT ![n] = NewRow(e)]
      /\ UNCHANGED <<at, req>> /\ UNCHANGED cliVars
  BY DEF Register, reqVars
<1>2. NewRow(e) \in Users
  BY NewRows
<1>3. /\ KeysStep /\ users' \in [Names -> Users \cup {None}]
      /\ \A m \in Names : users[m] # None => users'[m] # None
  BY <1>1, <1>2, OneRowChanges
<1>4. RequestsTyped'
  BY <1>1, <1>3 DEF RequestsTyped
<1>5. \A r \in Reqs : at[r] \in {"save", "ssh", "anthropic"} => req[r].name \in Names
  BY RequestAt
<1>6. RequestsServed'
  BY <1>1, <1>3, <1>5 DEF RequestsServed
<1>. QED BY <1>1, <1>3, <1>4, <1>6

LEMMA UpdateKeyStep ==
    ASSUME RequestsTyped, RequestsServed, NEW r \in Reqs, NEW c \in Columns, UpdateKey(r, c)
    PROVE  RequestsTyped' /\ RequestsServed' /\ KeysStep /\ UNCHANGED cliVars
<1>. DEFINE n == req[r].name
            new == [users[n] EXCEPT ![c] = req[r].set[c]]
<1>1. at[r] = c /\ users' = [users EXCEPT ![n] = new] /\ UNCHANGED cliVars
  BY DEF UpdateKey
<1>2. /\ n \in Names /\ users[n] \in Users /\ req[r].set[c] \in Secrets \cup {None}
      /\ req[r] \in Requests
  <2>1. at[r] \in {"save", "ssh", "anthropic"} /\ at[r] # "idle"
    BY <1>1 DEF Columns
  <2>. QED BY <1>1, <2>1, RequestAt DEF RequestsServed, RequestsTyped
<1>3. /\ new \in Users /\ new # None /\ new[c] = req[r].set[c]
      /\ \A d \in Columns : d # c => new[d] = users[n][d]
  <2>. DEFINE u == users[n]
              v == req[r].set[c]
  <2>1. u \in Users /\ v \in Secrets \cup {None} /\ new = [u EXCEPT ![c] = v]
    BY <1>2
  <2>. HIDE DEF u, v, new, n
  <2>2. CASE c = "ssh"
    <3>1. new = [u EXCEPT !.ssh = v]
      BY <2>1, <2>2
    <3>2. new \in Users /\ new.ssh = v /\ new.anthropic = u.anthropic
      BY <2>1, <3>1 DEF Users
    <3>. QED BY <2>2, <3>2, LoginAssumption DEF Columns, u, v
  <2>3. CASE c = "anthropic"
    <3>1. new = [u EXCEPT !.anthropic = v]
      BY <2>1, <2>3
    <3>2. new \in Users /\ new.anthropic = v /\ new.ssh = u.ssh
      BY <2>1, <3>1 DEF Users
    <3>. QED BY <2>3, <3>2, LoginAssumption DEF Columns, u, v
  <2>. QED BY <2>2, <2>3 DEF Columns
<1>4. at'[r] # at[r]
  BY <1>1 DEF UpdateKey, Ends, RequestsTyped, Columns
<1>. HIDE DEF new, n
<1>5. n = req[r].name
  BY DEF n
<1>6. /\ KeysStep /\ users' \in [Names -> Users \cup {None}]
      /\ \A m \in Names : users[m] # None => users'[m] # None
  <2>1. ASSUME NEW d \in Columns, new[d] # users[n][d]
        PROVE  \E q \in Reqs :
                   /\ at'[q] # at[q] /\ req[q].name = n
                   /\ \/ at[q] = d /\ new[d] = req[q].set[d]
                      \/ at[q] = "save" /\ new[d] = req[q].row[d]
    BY <1>1, <1>3, <1>4, <1>5, <2>1
  <2>. QED BY <1>1, <1>2, <1>3, <2>1, OneRowChanges
<1>7. CASE Ends(r)
  BY <1>1, <1>6, <1>7, RequestEnds DEF Columns
<1>8. CASE /\ c = "ssh" /\ req[r].set["anthropic"] # "keep"
           /\ at' = [at EXCEPT ![r] = "anthropic"] /\ req' = [req EXCEPT ![r].set[c] = "keep"]
  <2>. DEFINE q == [req[r] EXCEPT !.set = [req[r].set EXCEPT ![c] = "keep"]]
  <2>1. /\ q \in Requests /\ q.name = n
        /\ q.set["anthropic"] # "keep"
    BY <1>2, <1>5, <1>8 DEF Requests, Columns
  <2>2. req' = [req EXCEPT ![r] = q]
    BY <1>8
  <2>. HIDE DEF q
  <2>3. users'[q.name] # None
    BY <1>1, <1>2, <1>3, <2>1 DEF RequestsTyped
  <2>4. q # None
    BY <2>1, LoginAssumption
  <2>5. RequestsTyped' /\ RequestsServed'
    BY <1>6, <1>8, <2>1, <2>2, <2>3, <2>4, OneRequestMoves DEF Columns
  <2>. QED BY <1>1, <1>6, <2>5
<1>. QED BY <1>7, <1>8 DEF UpdateKey

-----------------------------------------------------------------------------
(* Theorems                                                                *)

LoginInv == RequestsTyped /\ RequestsServed /\ SessionsInv

LEMMA LoginInit == Init => LoginInv
<1>1. None \in Emails \cup {None}
  OBVIOUS
<1>2. {None, NewRow(None)} \subseteq Users \cup {None}
  BY <1>1, NewRows
<1>. QED
  BY <1>2 DEF Init, LoginInv, RequestsTyped, RequestsServed, SessionsInv, SessionsTyped,
    TakenIsGone, HandedIsGone, Columns

LEMMA LoginStep ==
    ASSUME LoginInv, [Next]_loginVars
    PROVE  LoginInv' /\ KeysStep
<1>. DEFINE Goal == LoginInv' /\ KeysStep
<1>1. ASSUME RequestsTyped', RequestsServed', KeysStep, UNCHANGED cliVars PROVE Goal
  BY <1>1 DEF LoginInv, SessionsInv, SessionsTyped, TakenIsGone, HandedIsGone, cliVars
<1>2. ASSUME UNCHANGED users PROVE KeysStep
  BY <1>2 DEF KeysStep
<1>3. ASSUME SessionsInv', UNCHANGED <<users, reqVars>> PROVE Goal
  BY <1>2, <1>3 DEF LoginInv, RequestsTyped, RequestsServed, reqVars
<1>4. ASSUME UNCHANGED loginVars PROVE Goal
  <2>1. SessionsInv'
    BY <1>4 DEF LoginInv, loginVars, cliVars, SessionsInv, SessionsTyped, TakenIsGone, HandedIsGone
  <2>. QED BY <1>3, <1>4, <2>1 DEF loginVars
<1>5. ASSUME (\E s \in Ids : CLI(s)) \/ (\E p \in Polls : PollGoesOn(p)) PROVE Goal
  <2>1. SessionsInv' /\ UNCHANGED <<users, reqVars>>
    BY <1>5, CLIStep, PollStep DEF LoginInv
  <2>. QED BY <1>3, <2>1
<1>6. ASSUME \E n \in Names, e \in Emails : Register(n, e) PROVE Goal
  BY <1>1, <1>6, RegisterStep DEF LoginInv
<1>7. ASSUME NEW r \in Reqs, Begin(r) PROVE Goal
  <2>1. PICK n \in Names :
          \/ \E e \in Emails, s \in Ids \cup {None} : LogsIn(r, n, e, s)
          \/ \E set \in Settings : UpdateUserSettings(r, n, set)
    BY <1>7 DEF Begin, Callback, CLICallback
  <2>2. RequestsTyped' /\ RequestsServed' /\ UNCHANGED <<users, cliVars>>
    BY <2>1, BeginStep DEF LoginInv
  <2>. QED BY <1>1, <1>2, <2>2
<1>8. ASSUME NEW r \in Reqs, Find(r) PROVE Goal
  BY <1>1, <1>2, <1>8, FindStep DEF LoginInv
<1>9. ASSUME NEW r \in Reqs, SaveUser(r) \/ CreateUser(r) PROVE Goal
  BY <1>1, <1>9, SaveUserStep, CreateUserStep DEF LoginInv
<1>10. ASSUME NEW r \in Reqs, StoreToken(r) PROVE Goal
  <2>1. SessionsInv' /\ Ends(r) /\ UNCHANGED users
    BY <1>10, StoreTokenStep DEF LoginInv
  <2>2. RequestsTyped' /\ RequestsServed'
    BY <1>10, <2>1, RequestEnds DEF LoginInv, StoreToken, RequestsTyped
  <2>. QED BY <1>2, <2>1, <2>2 DEF LoginInv
<1>11. ASSUME NEW r \in Reqs, Fails(r) PROVE Goal
  <2>1. RequestsTyped' /\ RequestsServed'
    BY <1>11, RequestEnds DEF LoginInv, Fails, RequestsTyped
  <2>. QED BY <1>1, <1>2, <1>11, <2>1 DEF Fails
<1>12. ASSUME NEW r \in Reqs, NEW c \in Columns, UpdateKey(r, c) PROVE Goal
  BY <1>1, <1>12, UpdateKeyStep DEF LoginInv
<1>. QED
  <2>. HIDE DEF Goal
  <2>1. ASSUME NEW r \in Reqs, GoOn(r) PROVE Goal
    BY <1>8, <1>9, <1>10, <1>11, <1>12, <2>1 DEF GoOn
  <2>2. ASSUME Next PROVE Goal
    BY <1>5, <1>6, <1>7, <2>1, <2>2 DEF Next
  <2>3. Goal
    BY <1>4, <2>2
  <2>. QED BY <2>3 DEF Goal

LEMMA LoginInductive == LoginSpec => []LoginInv
  BY LoginInit, LoginStep, PTL DEF LoginSpec

\* Rows, requests and sessions have their types, however many meet.
THEOREM LoginTypeCorrect == LoginSpec => []LoginTypeOK
<1>1. LoginInv => LoginTypeOK
  BY DEF LoginInv, RequestsTyped, SessionsInv, SessionsTyped, LoginTypeOK
<1>. QED BY <1>1, LoginInductive, PTL

\* A token that a poll has handed to the CLI, its Del done, is not in Redis any
\* more, however many polls, browsers and lapses meet, and whichever Del fails.
THEOREM HandedTokensAreGone == LoginSpec => []HandedIsGone
<1>1. LoginInv => HandedIsGone
  BY DEF LoginInv, SessionsInv
<1>. QED BY <1>1, LoginInductive, PTL

\* A key of a user is changed by the requests that are to change it, to what they
\* were given, or by a login that writes the row back as it read it; not by a
\* request for the other key.
THEOREM KeysStayWithOwner == LoginSpec => KeysAreKept
<1>1. LoginInv /\ [Next]_loginVars => [KeysStep]_loginVars
  BY LoginStep
<1>. QED BY <1>1, LoginInductive, PTL DEF KeysAreKept, KeysStep, LoginSpec
=============================================================================
