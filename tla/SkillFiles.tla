------------------------------ MODULE SkillFiles ------------------------------
(***************************************************************************)
(* One skill name of one user: the kinds row with the list of its files,   *)
(* and the objects under its prefix in OFS, which the list is only kept in *)
(* step with by the order of the writes (api/handlers_resources.go).       *)
(* Requests read the list, write objects, and write the whole list back;   *)
(* ProvisionForTask copies the listed files into sandboxes meanwhile.      *)
(* Contents play no role, and the list is a set: nothing but the answers   *)
(* depends on its order, and no archive is taken to name a path twice.     *)
(***************************************************************************)
EXTENDS Naturals, FiniteSets

CONSTANTS
    Requests,   \* goroutines serving the owner's requests
    Injections, \* goroutines in injectResources
    Companions, \* the valid paths other than SKILL.md
    SkillMD,    \* the path SKILL.md
    None,       \* no row
    MaxFiles,   \* maxSkillFiles
    MaxIds,     \* bound: how often the skill is created
    MetaEdits   \* does the owner send PUT /api/resources/:id with a "meta"?

Paths == Companions \cup {SkillMD}

ASSUME SkillsAssumption ==
    /\ IsFiniteSet(Companions) /\ SkillMD \notin Companions
    /\ MaxFiles \in Nat \ {0} /\ MaxIds \in Nat \ {0}
    /\ MetaEdits \in BOOLEAN
    /\ None \notin [id : Nat, files : SUBSET Paths, active : BOOLEAN]

VARIABLES
    rec,    \* the kinds row: id, meta.files, is_active
    ids,    \* AUTO_INCREMENT: ids given out so far
    stored, \* the paths with an object under the prefix
    pc,     \* where each request is
    req,    \* what it read or was sent: the row's id, a list, a path, the paths to store
    inject  \* the listed paths each injection still has to copy

rowVars == <<rec, ids>>
requestVars == <<pc, req>>
vars == <<rowVars, stored, requestVars, inject>>

Kinds == [id : 1..ids, files : SUBSET Paths, active : BOOLEAN]

Bodies == [id : 0..ids, files : SUBSET Paths, path : Paths, todo : SUBSET Paths]

NoBody == [id |-> 0, files |-> {SkillMD}, path |-> SkillMD, todo |-> {}]

SkillsTypeOK ==
    /\ rec \in Kinds \cup {None}
    /\ ids \in 0..MaxIds
    /\ stored \subseteq Paths
    /\ pc \in [Requests -> {"idle", "putMD", "row", "companions", "put", "list",
                            "content", "update", "activate"}]
    /\ req \in [Requests -> Bodies]
    /\ inject \in [Injections -> SUBSET Paths]

\* No skill yet, or one from before skills had several files: its meta is {}.
SkillsInit ==
    /\ \/ rec = None /\ ids = 0 /\ stored = {}
       \/ /\ rec = [id |-> 1, files |-> {}, active |-> TRUE] /\ ids = 1
          /\ stored = {SkillMD}
    /\ pc = [r \in Requests |-> "idle"]
    /\ req = [r \in Requests |-> NoBody]
    /\ inject = [i \in Injections |-> {}]

\* KindRecord.SkillFiles: an empty list stands for SKILL.md alone.
SkillFilesOf(k) == IF k.files = {} THEN {SkillMD} ELSE k.files

Accept(r, step, body) ==
    /\ pc[r] = "idle"
    /\ pc' = [pc EXCEPT ![r] = step]
    /\ req' = [req EXCEPT ![r] = body]

Step(r, from, to) == pc[r] = from /\ pc' = [pc EXCEPT ![r] = to]

Finish(r) ==
    /\ pc' = [pc EXCEPT ![r] = "idle"]
    /\ req' = [req EXCEPT ![r] = NoBody]

\* Mutant: the UPDATE finds its row by the name.
MatchesName(r) == rec # None

\* WHERE id = ? of the UPDATEs.
Matches(r) == rec # None /\ rec.id = req[r].id

-----------------------------------------------------------------------------
(* CreateResource and CreateSkillFromZip                                   *)

\* The archive's companions and SKILL.md; none for CreateResource.
CreateSkill(r) ==
    /\ \E C \in SUBSET Companions :
         /\ 1 + Cardinality(C) <= MaxFiles
         /\ Accept(r, "putMD", [NoBody EXCEPT !.files = C \cup {SkillMD}, !.todo = C])
    /\ UNCHANGED <<rowVars, stored, inject>>

\* SKILL.md is stored before it is known whether the name is free.
PutSkillMD(r) ==
    /\ Step(r, "putMD", "row")
    /\ stored' = stored \cup {SkillMD}
    /\ UNCHANGED <<rowVars, req, inject>>

\* Mutant: the id of the last row is given out again.
SameId == ids

NextId == ids + 1

\* kindsRepo.Create: uq_kinds_user_kind_name refuses a second row.
CreateRow(r) ==
    /\ pc[r] = "row"
    /\ \/ rec # None /\ Finish(r) /\ UNCHANGED rowVars
       \/ /\ rec = None /\ ids < MaxIds
          /\ rec' = [id |-> NextId, files |-> {SkillMD}, active |-> TRUE]
          /\ ids' = ids + 1
          /\ IF req[r].todo = {} THEN Finish(r)
             ELSE /\ Step(r, "row", "companions")
                  /\ req' = [req EXCEPT ![r].id = NextId]
    /\ UNCHANGED <<stored, inject>>

\* One PutObject of the loop; after the last the full list is saved.
PutCompanion(r) ==
    /\ \E p \in req[r].todo :
         /\ stored' = stored \cup {p}
         /\ req' = [req EXCEPT ![r].todo = @ \ {p}]
         /\ Step(r, "companions", IF req[r].todo = {p} THEN "list" ELSE "companions")
    /\ UNCHANGED <<rowVars, inject>>

-----------------------------------------------------------------------------
(* UpsertSkillFile and DeleteSkillFile                                     *)

\* Mutant: off by one.
FitsOneMore(files) == Cardinality(files) <= MaxFiles

\* A list that may grow.
Fits(files) == Cardinality(files) < MaxFiles

\* Get, and the checks.
UpsertSkillFile(r) ==
    /\ rec # None
    /\ LET files == SkillFilesOf(rec) IN
       \E p \in Paths :
         /\ p \in files \/ Fits(files)
         /\ Accept(r, "put", [id |-> rec.id, files |-> files \cup {p}, path |-> p,
                              todo |-> {p} \ files])
    /\ UNCHANGED <<rowVars, stored, inject>>

\* PutObject; a path that was listed already needs no more.
PutFile(r) ==
    /\ pc[r] = "put"
    /\ stored' = stored \cup {req[r].path}
    /\ IF req[r].todo = {} THEN Finish(r) ELSE Step(r, "put", "list") /\ UNCHANGED req
    /\ UNCHANGED <<rowVars, inject>>

\* Mutant: SKILL.md can be removed like any other file.
AnyRemovable(p) == TRUE

Removable(p) == p # SkillMD

\* Get, and the checks; the object stays.
DeleteSkillFile(r) ==
    /\ rec # None
    /\ LET files == SkillFilesOf(rec) IN
       \E p \in files :
         /\ Removable(p)
         /\ Accept(r, "list", [NoBody EXCEPT !.id = rec.id, !.files = files \ {p}])
    /\ UNCHANGED <<rowVars, stored, inject>>

\* kindsRepo.Update with the whole list; its SELECT only decides the answer.
SaveList(r) ==
    /\ pc[r] = "list"
    /\ rec' = IF Matches(r) THEN [rec EXCEPT !.files = req[r].files] ELSE rec
    /\ Finish(r)
    /\ UNCHANGED <<ids, stored, inject>>

-----------------------------------------------------------------------------
(* UpdateResource and DeleteResource                                       *)

\* With "content" it goes by way of OFS.
UpdateResource(r) ==
    /\ rec # None
    /\ \E step \in {"content", "update"} : Accept(r, step, [NoBody EXCEPT !.id = rec.id])
    /\ UNCHANGED <<rowVars, stored, inject>>

PutContent(r) ==
    /\ Step(r, "content", "update")
    /\ stored' = stored \cup {SkillMD}
    /\ UNCHANGED <<rowVars, req, inject>>

\* kindsRepo.Update: "meta" is written as it was sent, ...
UpdateMeta(r) ==
    /\ Step(r, "update", "activate")
    /\ \/ UNCHANGED rec
       \/ /\ MetaEdits /\ Matches(r)
          /\ \E F \in SUBSET Paths : rec' = [rec EXCEPT !.files = F]
    /\ UNCHANGED <<ids, stored, req, inject>>

\* ... then "is_active".
Activate(r) ==
    /\ pc[r] = "activate"
    /\ \/ UNCHANGED rec
       \/ Matches(r) /\ \E on \in BOOLEAN : rec' = [rec EXCEPT !.active = on]
    /\ Finish(r)
    /\ UNCHANGED <<ids, stored, inject>>

\* One statement; the objects stay for a skill that takes the name later.
DeleteResource ==
    /\ rec # None /\ rec' = None
    /\ UNCHANGED <<ids, stored, requestVars, inject>>

-----------------------------------------------------------------------------
(* Failures, and the reader                                                *)

\* Mutant: a failed PutObject is logged, and the upload goes on.
LogOnly(r) ==
    /\ pc' = [pc EXCEPT ![r] = IF pc[r] = "put" THEN "list" ELSE "idle"]
    /\ UNCHANGED req

OnError(r) == Finish(r)

\* A write fails, or the client goes away and cancels the request's context. A
\* write that is done and reported as failed is the write and then this.
Fails(r) ==
    /\ pc[r] # "idle"
    /\ OnError(r)
    /\ UNCHANGED <<rowVars, stored, inject>>

\* injectResources: ListActive.
ListActive(i) ==
    /\ inject[i] = {}
    /\ rec # None /\ rec.active
    /\ inject' = [inject EXCEPT ![i] = SkillFilesOf(rec)]
    /\ UNCHANGED <<rowVars, stored, requestVars>>

\* GetObjectBytes and writeFile; an error ends the injection, all skills of it.
InjectFile(i) ==
    /\ \/ \E p \in inject[i] \cap stored : inject' = [inject EXCEPT ![i] = @ \ {p}]
       \/ inject[i] # {} /\ inject' = [inject EXCEPT ![i] = {}]
    /\ UNCHANGED <<rowVars, stored, requestVars>>

-----------------------------------------------------------------------------
Creating(r) == CreateSkill(r) \/ PutSkillMD(r) \/ CreateRow(r) \/ PutCompanion(r)

Editing(r) == UpsertSkillFile(r) \/ PutFile(r) \/ DeleteSkillFile(r) \/ SaveList(r)

Updating(r) == UpdateResource(r) \/ PutContent(r) \/ UpdateMeta(r) \/ Activate(r)

SkillsNext ==
    \/ \E r \in Requests : Creating(r) \/ Editing(r) \/ Updating(r) \/ Fails(r)
    \/ DeleteResource
    \/ \E i \in Injections : ListActive(i) \/ InjectFile(i)

SkillsSpec == SkillsInit /\ [][SkillsNext]_vars
-----------------------------------------------------------------------------
(* Properties                                                              *)

\* A listed file can be fetched: whatever uploads, removals, failures and
\* re-creations overlap, no injection comes to a path without an object, which
\* would cut it short for all skills of the user.
ListedIsStored ==
    /\ rec # None => SkillFilesOf(rec) \subseteq stored
    /\ \A i \in Injections : inject[i] \subseteq stored

\* "Max files per skill: 20" (resources.md:289), checked by every upload against
\* a list that may be old when its own is saved.
WithinLimit == rec # None => Cardinality(SkillFilesOf(rec)) <= MaxFiles

\* "SKILL.md is always the first entry and cannot be removed" (resources.md:72),
\* by no request that overlaps with another.
SkillMDListed == rec # None => SkillMD \in SkillFilesOf(rec)

\* A late request for a deleted skill does not edit the list of the one that was
\* created under its name since.
OnlyOwnRequestsEdit ==
    [][rec # None /\ rec' # None /\ rec'.files # rec.files =>
         \E r \in Requests : pc[r] \in {"list", "update"} /\ req[r].id = rec.id
                             /\ pc'[r] # pc[r]]_vars
=============================================================================
