-------------------------- MODULE SkillFilesProofs --------------------------
(***************************************************************************)
(* Proofs about SkillFiles, for any number of requests, injections, paths  *)
(* and creations. Type correctness and OnlyOwnRequestsEdit hold as they    *)
(* stand. The list's three invariants hold for an owner who sends no       *)
(* "meta", by FilesInv: what a request is about to save has been stored,   *)
(* but for the paths it has still to put, and objects are never removed.   *)
(***************************************************************************)
EXTENDS SkillFiles, FiniteSetTheorems, TLAPS

\* What a request will save, at the step it is at.
HeldIsStored(r) ==
    /\ SkillMD \in req[r].files /\ Cardinality(req[r].files) <= MaxFiles
    /\ pc[r] = "putMD" => req[r].files \subseteq {SkillMD} \cup req[r].todo
    /\ pc[r] = "row" => SkillMD \in stored
    /\ pc[r] \in {"row", "companions"} => req[r].files \subseteq stored \cup req[r].todo
    /\ pc[r] = "put" => req[r].files \subseteq stored \cup {req[r].path}
    /\ pc[r] = "list" => req[r].files \subseteq stored

RowIsStored ==
    rec # None => /\ SkillFilesOf(rec) \subseteq stored
                  /\ SkillMD \in SkillFilesOf(rec)
                  /\ Cardinality(SkillFilesOf(rec)) <= MaxFiles

FilesInv ==
    /\ SkillsTypeOK
    /\ RowIsStored
    /\ \A r \in Requests : HeldIsStored(r)
    /\ \A i \in Injections : inject[i] \subseteq stored

\* Every list has finitely many paths; the empty request's is within the limit.
LEMMA Lists ==
    /\ \A F \in SUBSET Paths : IsFiniteSet(F)
    /\ NoBody \in [id : {0}, files : SUBSET Paths, path : Paths, todo : SUBSET Paths]
    /\ Cardinality({SkillMD}) = 1 /\ 1 <= MaxFiles
<1>1. IsFiniteSet(Paths)
  BY SkillsAssumption, FS_Singleton, FS_Union DEF Paths
<1>2. Cardinality({SkillMD}) = 1 /\ 1 <= MaxFiles
  BY SkillsAssumption, FS_Singleton
<1>3. QED BY <1>1, <1>2, FS_Subset DEF NoBody, Paths

\* Adding to a list that fits, and SKILL.md to an archive's companions.
LEMMA Limit ==
    ASSUME NEW F \in SUBSET Paths, NEW p \in Paths
    PROVE  /\ p \in F => F \cup {p} = F
           /\ Fits(F) => Cardinality(F \cup {p}) <= MaxFiles
           /\ 1 + Cardinality(F) <= MaxFiles => Cardinality(F \cup {p}) <= MaxFiles
<1>1. IsFiniteSet(F) /\ Cardinality(F) \in Nat
  BY Lists, FS_CardinalityType
<1>2. Cardinality(F \cup {p}) = IF p \in F THEN Cardinality(F) ELSE Cardinality(F) + 1
  BY <1>1, FS_AddElement
<1>3. QED BY <1>1, <1>2, SkillsAssumption DEF Fits
-----------------------------------------------------------------------------
(* Type correctness                                                        *)

\* No skill, and an old one, are of their types.
LEMMA TypeInit == SkillsInit => SkillsTypeOK
<1> SUFFICES ASSUME SkillsInit PROVE SkillsTypeOK
  OBVIOUS
<1> USE SkillsAssumption DEF SkillsInit, SkillsTypeOK, Kinds, Bodies
<1>1. /\ pc \in [Requests -> {"idle"}] /\ inject \in [Injections -> SUBSET Paths]
      /\ req \in [Requests -> Bodies] /\ SkillMD \in Paths
  BY Lists DEF Paths
<1>2. CASE rec = None /\ ids = 0 /\ stored = {}
  BY <1>1, <1>2
<1>3. CASE /\ rec = [id |-> 1, files |-> {}, active |-> TRUE] /\ ids = 1
           /\ stored = {SkillMD}
  BY <1>1, <1>3
<1>4. QED BY <1>1, <1>2, <1>3

\* One step of the owner or of an injection keeps the types.
LEMMA TypeStep == SkillsTypeOK /\ [SkillsNext]_vars => SkillsTypeOK'
<1> SUFFICES ASSUME SkillsTypeOK, [SkillsNext]_vars PROVE SkillsTypeOK'
  OBVIOUS
<1> USE SkillsAssumption DEF SkillsTypeOK, Kinds, Bodies
<1>a. NoBody \in Bodies /\ SkillMD \in Paths
  BY Lists DEF Paths, NoBody
<1>b. rec # None => rec \in Kinds
  OBVIOUS
<1>1. ASSUME NEW r \in Requests, CreateSkill(r) PROVE SkillsTypeOK'
  <2>1. PICK C \in SUBSET Companions :
          Accept(r, "putMD", [NoBody EXCEPT !.files = C \cup {SkillMD}, !.todo = C])
    BY <1>1 DEF CreateSkill
  <2>2. [NoBody EXCEPT !.files = C \cup {SkillMD}, !.todo = C] \in Bodies
    BY <1>a DEF Paths
  <2>3. QED BY <1>1, <2>1, <2>2 DEF CreateSkill, Accept, rowVars
<1>2. ASSUME NEW r \in Requests, PutSkillMD(r) PROVE SkillsTypeOK'
  BY <1>2, <1>a DEF PutSkillMD, Step, rowVars
<1>3. ASSUME NEW r \in Requests, CreateRow(r) PROVE SkillsTypeOK'
  <2>1. CASE rec # None /\ Finish(r) /\ UNCHANGED rowVars
    BY <1>3, <2>1, <1>a DEF CreateRow, Finish, rowVars
  <2>2. CASE rec = None
    <3>1. ids + 1 <= MaxIds /\ ids' = ids + 1
          /\ rec' = [id |-> ids + 1, files |-> {SkillMD}, active |-> TRUE]
          /\ UNCHANGED <<stored, inject>>
      BY <1>3, <2>2 DEF CreateRow, NextId
    <3>2. rec' \in Kinds' /\ ids' \in 0..MaxIds
      BY <3>1, <1>a
    <3>3. Bodies \subseteq Bodies' /\ NoBody \in Bodies'
      BY <3>1, <1>a
    <3>4. CASE Finish(r)
      BY <3>1, <3>2, <3>3, <3>4 DEF Finish
    <3>5. CASE Step(r, "row", "companions") /\ req' = [req EXCEPT ![r].id = NextId]
      <4>1. [req[r] EXCEPT !.id = ids + 1] \in Bodies'
        BY <3>1
      <4>2. req' \in [Requests -> Bodies']
        BY <3>3, <3>5, <4>1 DEF NextId
      <4>3. QED BY <3>1, <3>2, <3>5, <4>2 DEF Step
    <3>6. QED BY <1>3, <2>2, <3>4, <3>5 DEF CreateRow
  <2>3. QED BY <1>3, <2>1, <2>2 DEF CreateRow
<1>4. ASSUME NEW r \in Requests, PutCompanion(r) PROVE SkillsTypeOK'
  BY <1>4 DEF PutCompanion, Step, rowVars
<1>5. ASSUME NEW r \in Requests, UpsertSkillFile(r) PROVE SkillsTypeOK'
  BY <1>5, <1>a DEF UpsertSkillFile, Accept, rowVars, SkillFilesOf
<1>6. ASSUME NEW r \in Requests, PutFile(r) PROVE SkillsTypeOK'
  BY <1>6, <1>a DEF PutFile, Step, Finish, rowVars
<1>7. ASSUME NEW r \in Requests, DeleteSkillFile(r) PROVE SkillsTypeOK'
  <2>1. PICK p \in Paths :
          Accept(r, "list", [NoBody EXCEPT !.id = rec.id, !.files = SkillFilesOf(rec) \ {p}])
    BY <1>7, <1>a, <1>b DEF DeleteSkillFile, SkillFilesOf
  <2>2. SkillFilesOf(rec) \in SUBSET Paths /\ rec.id \in 0..ids
    BY <1>7, <1>a, <1>b DEF DeleteSkillFile, SkillFilesOf
  <2>3. [NoBody EXCEPT !.id = rec.id, !.files = SkillFilesOf(rec) \ {p}] \in Bodies
    BY <2>2, <1>a
  <2>4. QED BY <1>7, <2>1, <2>3 DEF DeleteSkillFile, Accept, rowVars
<1>8. ASSUME NEW r \in Requests, SaveList(r) PROVE SkillsTypeOK'
  BY <1>8, <1>a DEF SaveList, Finish, Matches
<1>9. ASSUME NEW r \in Requests, UpdateResource(r) PROVE SkillsTypeOK'
  BY <1>9, <1>a DEF UpdateResource, Accept, rowVars, NoBody
<1>10. ASSUME NEW r \in Requests, PutContent(r) PROVE SkillsTypeOK'
  BY <1>10, <1>a DEF PutContent, Step, rowVars
<1>11. ASSUME NEW r \in Requests, UpdateMeta(r) PROVE SkillsTypeOK'
  BY <1>11 DEF UpdateMeta, Step, Matches
<1>12. ASSUME NEW r \in Requests, Activate(r) PROVE SkillsTypeOK'
  BY <1>12, <1>a DEF Activate, Finish, Matches
<1>13. ASSUME NEW r \in Requests, Fails(r) PROVE SkillsTypeOK'
  BY <1>13, <1>a DEF Fails, OnError, Finish, rowVars
<1>14. CASE DeleteResource
  BY <1>14 DEF DeleteResource, requestVars
<1>15. ASSUME NEW i \in Injections, ListActive(i) PROVE SkillsTypeOK'
  BY <1>15, <1>a DEF ListActive, rowVars, requestVars, SkillFilesOf
<1>16. ASSUME NEW i \in Injections, InjectFile(i) PROVE SkillsTypeOK'
  BY <1>16 DEF InjectFile, rowVars, requestVars
<1>17. CASE UNCHANGED vars
  BY <1>17 DEF vars, rowVars, requestVars
<1>18. QED
  BY <1>1, <1>2, <1>3, <1>4, <1>5, <1>6, <1>7, <1>8, <1>9, <1>10, <1>11, <1>12,
     <1>13, <1>14, <1>15, <1>16, <1>17 DEF SkillsNext, Creating, Editing, Updating

\* The row, what each request holds and what each injection has left are of
\* their types, whoever creates, edits, deletes and fails.
THEOREM SkillsTypeCorrect == SkillsSpec => []SkillsTypeOK
BY TypeInit, TypeStep, PTL DEF SkillsSpec
-----------------------------------------------------------------------------
(* Whose edits reach the list                                              *)

\* For every owner, one who sends "meta" too: a request edits the list of the
\* row whose id it was sent with, and of no later skill of the same name.
THEOREM OwnRequestsEdit == SkillsSpec => OnlyOwnRequestsEdit
<1> DEFINE Own == rec # None /\ rec' # None /\ rec'.files # rec.files =>
                    \E r \in Requests : pc[r] \in {"list", "update"} /\ req[r].id = rec.id
                                        /\ pc'[r] # pc[r]
<1>1. SkillsTypeOK /\ [SkillsNext]_vars => [Own]_vars
  <2> SUFFICES ASSUME SkillsTypeOK, SkillsNext, rec # None, rec' # None,
                      rec'.files # rec.files
               PROVE  \E r \in Requests : pc[r] \in {"list", "update"}
                        /\ req[r].id = rec.id /\ pc'[r] # pc[r]
    OBVIOUS
  <2> USE DEF SkillsTypeOK
  <2>1. rec \in Kinds
    OBVIOUS
  <2>2. ASSUME NEW r \in Requests, SaveList(r)
        PROVE  pc[r] = "list" /\ req[r].id = rec.id /\ pc'[r] = "idle"
    BY <2>2 DEF SaveList, Finish, Matches
  <2>3. ASSUME NEW r \in Requests, UpdateMeta(r)
        PROVE  pc[r] = "update" /\ req[r].id = rec.id /\ pc'[r] = "activate"
    BY <2>3 DEF UpdateMeta, Step, Matches
  <2>4. ASSUME NEW r \in Requests, Activate(r) PROVE FALSE
    BY <2>1, <2>4 DEF Activate, Kinds
  <2>5. ASSUME NEW r \in Requests,
               \/ CreateSkill(r) \/ PutSkillMD(r) \/ CreateRow(r) \/ PutCompanion(r)
               \/ UpsertSkillFile(r) \/ PutFile(r) \/ DeleteSkillFile(r)
               \/ UpdateResource(r) \/ PutContent(r) \/ Fails(r)
        PROVE  FALSE
    BY <2>5 DEF CreateSkill, PutSkillMD, CreateRow, PutCompanion, UpsertSkillFile, PutFile,
                DeleteSkillFile, UpdateResource, PutContent, Fails, rowVars
  <2>6. ASSUME \/ DeleteResource
               \/ \E i \in Injections : ListActive(i) \/ InjectFile(i)
        PROVE  FALSE
    BY <2>6 DEF DeleteResource, ListActive, InjectFile, rowVars
  <2>7. QED
    BY <2>2, <2>3, <2>4, <2>5, <2>6 DEF SkillsNext, Creating, Editing, Updating
<1>2. QED BY <1>1, SkillsTypeCorrect, PTL DEF SkillsSpec, OnlyOwnRequestsEdit
-----------------------------------------------------------------------------
(* The list and the objects                                                *)

\* A step that leaves the row, r's request and r's step alone, and removes no
\* object, leaves what r holds stored.
LEMMA HeldKept ==
    ASSUME NEW r \in Requests, HeldIsStored(r), stored \subseteq stored',
           req'[r] = req[r], pc'[r] = pc[r]
    PROVE  HeldIsStored(r)'
BY DEF HeldIsStored

\* A request that has ended holds nothing but SKILL.md.
LEMMA HeldDone ==
    ASSUME NEW r \in Requests, SkillsTypeOK, Finish(r)
    PROVE  HeldIsStored(r)'
BY Lists DEF Finish, HeldIsStored, SkillsTypeOK, NoBody

\* One step keeps FilesInv, if the owner sends no "meta".
LEMMA FilesStep == ~MetaEdits /\ FilesInv /\ [SkillsNext]_vars => FilesInv'
<1> SUFFICES ASSUME ~MetaEdits, FilesInv, [SkillsNext]_vars PROVE FilesInv'
  OBVIOUS
<1> USE DEF FilesInv
<1>a. SkillsTypeOK'
  BY TypeStep
<1>b. rec # None => rec \in Kinds /\ SkillFilesOf(rec) \in SUBSET Paths
  BY DEF SkillsTypeOK, Kinds, SkillFilesOf, Paths
<1>c. SkillMD \in Paths /\ \A r \in Requests : req[r] \in Bodies
  BY DEF Paths, SkillsTypeOK
\* A step of request r: the others keep what they hold.
<1>d. ASSUME NEW r \in Requests, HeldIsStored(r)', stored \subseteq stored',
             \A q \in Requests \ {r} : req'[q] = req[q] /\ pc'[q] = pc[q]
      PROVE  \A q \in Requests : HeldIsStored(q)'
  BY <1>d, HeldKept
\* The row and the injections under a step that writes neither.
<1>e. ASSUME rec' = rec, stored \subseteq stored', inject' = inject
      PROVE  RowIsStored' /\ \A i \in Injections : inject'[i] \subseteq stored'
  BY <1>e DEF RowIsStored
<1>1. ASSUME NEW r \in Requests, CreateSkill(r) PROVE FilesInv'
  <2>1. PICK C \in SUBSET Companions :
          /\ 1 + Cardinality(C) <= MaxFiles
          /\ Accept(r, "putMD", [NoBody EXCEPT !.files = C \cup {SkillMD}, !.todo = C])
    BY <1>1 DEF CreateSkill
  <2>2. Cardinality(C \cup {SkillMD}) <= MaxFiles
    BY <2>1, <1>c, Limit DEF Paths
  <2>3. /\ pc'[r] = "putMD" /\ req'[r].files = C \cup {SkillMD} /\ req'[r].todo = C
        /\ \A q \in Requests \ {r} : req'[q] = req[q] /\ pc'[q] = pc[q]
    BY <2>1 DEF Accept, SkillsTypeOK, NoBody
  <2>4. HeldIsStored(r)'
    BY <2>2, <2>3 DEF HeldIsStored
  <2>5. UNCHANGED <<rec, stored, inject>>
    BY <1>1 DEF CreateSkill, rowVars
  <2>6. QED BY <1>a, <1>d, <1>e, <2>3, <2>4, <2>5
<1>2. ASSUME NEW r \in Requests, PutSkillMD(r) PROVE FilesInv'
  <2>1. /\ pc[r] = "putMD" /\ pc'[r] = "row" /\ req' = req /\ UNCHANGED <<rec, inject>>
        /\ stored' = stored \cup {SkillMD}
        /\ \A q \in Requests \ {r} : pc'[q] = pc[q]
    BY <1>2 DEF PutSkillMD, Step, SkillsTypeOK, rowVars
  <2>2. HeldIsStored(r)'
    BY <2>1 DEF HeldIsStored
  <2>3. QED BY <1>a, <1>d, <1>e, <2>1, <2>2
<1>3. ASSUME NEW r \in Requests, CreateRow(r) PROVE FilesInv'
  <2>1. /\ pc[r] = "row" /\ SkillMD \in stored /\ UNCHANGED <<stored, inject>>
        /\ \A i \in Injections : inject'[i] \subseteq stored'
    BY <1>3 DEF CreateRow, HeldIsStored
  <2>2. RowIsStored'
    BY <1>3, <2>1, Lists DEF CreateRow, rowVars, RowIsStored, SkillFilesOf
  <2>3. \A q \in Requests \ {r} : req'[q] = req[q] /\ pc'[q] = pc[q]
    BY <1>3 DEF CreateRow, Finish, Step, SkillsTypeOK, rowVars
  <2>4. HeldIsStored(r)'
    <3>1. CASE Finish(r)
      BY <3>1, HeldDone
    <3>2. CASE Step(r, "row", "companions") /\ req' = [req EXCEPT ![r].id = NextId]
      <4>1. pc'[r] = "companions" /\ req'[r].files = req[r].files /\ req'[r].todo = req[r].todo
        BY <3>2, <1>c DEF Step, SkillsTypeOK, Bodies
      <4>2. QED BY <4>1, <2>1 DEF HeldIsStored
    <3>3. QED BY <1>3, <3>1, <3>2 DEF CreateRow
  <2>5. QED BY <1>a, <1>d, <2>1, <2>2, <2>3, <2>4
<1>4. ASSUME NEW r \in Requests, PutCompanion(r) PROVE FilesInv'
  <2>1. PICK p \in req[r].todo :
          /\ stored' = stored \cup {p} /\ req' = [req EXCEPT ![r].todo = @ \ {p}]
          /\ Step(r, "companions", IF req[r].todo = {p} THEN "list" ELSE "companions")
    BY <1>4 DEF PutCompanion
  <2>2. /\ UNCHANGED <<rec, inject>> /\ pc[r] = "companions"
        /\ pc'[r] = IF req[r].todo = {p} THEN "list" ELSE "companions"
        /\ req'[r].files = req[r].files /\ req'[r].todo = req[r].todo \ {p}
        /\ \A q \in Requests \ {r} : req'[q] = req[q] /\ pc'[q] = pc[q]
    BY <1>4, <2>1, <1>c DEF PutCompanion, Step, SkillsTypeOK, Bodies, rowVars
  <2>3. HeldIsStored(r)'
    BY <2>1, <2>2 DEF HeldIsStored
  <2>4. QED BY <1>a, <1>d, <1>e, <2>1, <2>2, <2>3
<1>5. ASSUME NEW r \in Requests, UpsertSkillFile(r) PROVE FilesInv'
  <2>1. /\ rec # None /\ UNCHANGED <<rec, stored, inject>>
        /\ SkillFilesOf(rec) \subseteq stored /\ SkillMD \in SkillFilesOf(rec)
        /\ Cardinality(SkillFilesOf(rec)) <= MaxFiles
    BY <1>5 DEF UpsertSkillFile, rowVars, RowIsStored
  <2>2. PICK p \in Paths :
          /\ p \in SkillFilesOf(rec) \/ Fits(SkillFilesOf(rec))
          /\ Accept(r, "put", [id |-> rec.id, files |-> SkillFilesOf(rec) \cup {p}, path |-> p,
                               todo |-> {p} \ SkillFilesOf(rec)])
    BY <1>5, <1>b DEF UpsertSkillFile
  <2>3. Cardinality(SkillFilesOf(rec) \cup {p}) <= MaxFiles
    BY <2>1, <2>2, <1>b, Limit
  <2>4. /\ pc'[r] = "put" /\ req'[r].files = SkillFilesOf(rec) \cup {p} /\ req'[r].path = p
        /\ \A q \in Requests \ {r} : req'[q] = req[q] /\ pc'[q] = pc[q]
    BY <2>2 DEF Accept, SkillsTypeOK
  <2>5. HeldIsStored(r)'
    BY <2>1, <2>3, <2>4 DEF HeldIsStored
  <2>6. QED BY <1>a, <1>d, <1>e, <2>1, <2>4, <2>5
<1>6. ASSUME NEW r \in Requests, PutFile(r) PROVE FilesInv'
  <2>1. /\ pc[r] = "put" /\ stored' = stored \cup {req[r].path} /\ UNCHANGED <<rec, inject>>
        /\ \A q \in Requests \ {r} : req'[q] = req[q] /\ pc'[q] = pc[q]
    BY <1>6 DEF PutFile, Step, Finish, SkillsTypeOK, rowVars
  <2>2. HeldIsStored(r)'
    <3>1. CASE Finish(r)
      BY <3>1, HeldDone
    <3>2. CASE Step(r, "put", "list") /\ UNCHANGED req
      BY <2>1, <3>2 DEF Step, HeldIsStored, SkillsTypeOK
    <3>3. QED BY <1>6, <3>1, <3>2 DEF PutFile
  <2>3. QED BY <1>a, <1>d, <1>e, <2>1, <2>2
<1>7. ASSUME NEW r \in Requests, DeleteSkillFile(r) PROVE FilesInv'
  <2>1. /\ rec # None /\ UNCHANGED <<rec, stored, inject>>
        /\ SkillFilesOf(rec) \subseteq stored /\ SkillMD \in SkillFilesOf(rec)
        /\ Cardinality(SkillFilesOf(rec)) <= MaxFiles
    BY <1>7 DEF DeleteSkillFile, rowVars, RowIsStored
  <2>2. PICK p \in SkillFilesOf(rec) :
          /\ p # SkillMD
          /\ Accept(r, "list", [NoBody EXCEPT !.id = rec.id, !.files = SkillFilesOf(rec) \ {p}])
    BY <1>7, <1>b DEF DeleteSkillFile, Removable
  <2>3. Cardinality(SkillFilesOf(rec) \ {p}) <= MaxFiles
    <3>1. IsFiniteSet(SkillFilesOf(rec)) /\ SkillFilesOf(rec) \ {p} \subseteq SkillFilesOf(rec)
      BY <1>b, <2>1, Lists
    <3>2. Cardinality(SkillFilesOf(rec) \ {p}) <= Cardinality(SkillFilesOf(rec))
      BY <3>1, FS_Subset
    <3>3. Cardinality(SkillFilesOf(rec)) \in Nat /\ Cardinality(SkillFilesOf(rec) \ {p}) \in Nat
      BY <3>1, FS_Subset, FS_CardinalityType
    <3>4. QED BY <2>1, <3>2, <3>3, SkillsAssumption
  <2>4. /\ pc'[r] = "list" /\ req'[r].files = SkillFilesOf(rec) \ {p}
        /\ \A q \in Requests \ {r} : req'[q] = req[q] /\ pc'[q] = pc[q]
    BY <2>2 DEF Accept, SkillsTypeOK, NoBody
  <2>5. HeldIsStored(r)'
    BY <2>1, <2>2, <2>3, <2>4 DEF HeldIsStored
  <2>6. QED BY <1>a, <1>d, <1>e, <2>1, <2>4, <2>5
<1>8. ASSUME NEW r \in Requests, SaveList(r) PROVE FilesInv'
  <2>1. /\ UNCHANGED <<stored, inject>> /\ Finish(r) /\ pc[r] = "list"
        /\ rec' = IF Matches(r) THEN [rec EXCEPT !.files = req[r].files] ELSE rec
    BY <1>8 DEF SaveList
  <2>2. /\ req[r].files \subseteq stored /\ SkillMD \in req[r].files
        /\ Cardinality(req[r].files) <= MaxFiles
    BY <2>1 DEF HeldIsStored
  <2>3. RowIsStored'
    <3>1. CASE Matches(r)
      <4>1. SkillFilesOf(rec') = req[r].files
        BY <2>1, <2>2, <3>1, <1>b DEF Matches, Kinds, SkillFilesOf
      <4>2. QED BY <2>1, <2>2, <4>1 DEF RowIsStored
    <3>2. QED BY <2>1, <3>1 DEF RowIsStored
  <2>4. HeldIsStored(r)'
    BY <2>1, HeldDone
  <2>5. \A q \in Requests \ {r} : req'[q] = req[q] /\ pc'[q] = pc[q]
    BY <2>1 DEF Finish, SkillsTypeOK
  <2>6. QED BY <1>a, <1>d, <2>1, <2>3, <2>4, <2>5
<1>9. ASSUME NEW r \in Requests, UpdateResource(r) PROVE FilesInv'
  <2>1. /\ UNCHANGED <<rec, stored, inject>>
        /\ pc'[r] \in {"content", "update"} /\ req'[r].files = {SkillMD}
        /\ \A q \in Requests \ {r} : req'[q] = req[q] /\ pc'[q] = pc[q]
    BY <1>9 DEF UpdateResource, Accept, SkillsTypeOK, NoBody, rowVars
  <2>2. HeldIsStored(r)'
    BY <2>1, Lists DEF HeldIsStored
  <2>3. QED BY <1>a, <1>d, <1>e, <2>1, <2>2
<1>10. ASSUME NEW r \in Requests, PutContent(r) PROVE FilesInv'
  <2>1. /\ UNCHANGED <<rec, req, inject>> /\ stored \subseteq stored' /\ pc'[r] = "update"
        /\ \A q \in Requests \ {r} : pc'[q] = pc[q]
    BY <1>10 DEF PutContent, Step, SkillsTypeOK, rowVars
  <2>2. HeldIsStored(r)'
    BY <2>1 DEF HeldIsStored
  <2>3. QED BY <1>a, <1>d, <1>e, <2>1, <2>2
<1>11. ASSUME NEW r \in Requests, UpdateMeta(r) PROVE FilesInv'
  <2>1. /\ UNCHANGED <<rec, stored, req, inject>> /\ pc'[r] = "activate"
        /\ \A q \in Requests \ {r} : pc'[q] = pc[q]
    BY <1>11 DEF UpdateMeta, Step, SkillsTypeOK
  <2>2. HeldIsStored(r)'
    BY <2>1 DEF HeldIsStored
  <2>3. QED BY <1>a, <1>d, <1>e, <2>1, <2>2
<1>12. ASSUME NEW r \in Requests, Activate(r) PROVE FilesInv'
  <2>1. /\ UNCHANGED <<stored, inject>> /\ Finish(r)
        /\ rec # None /\ rec' # None => SkillFilesOf(rec') = SkillFilesOf(rec)
        /\ rec' # None => rec # None
    BY <1>12, <1>b DEF Activate, Matches, Kinds, SkillFilesOf
  <2>2. RowIsStored' /\ HeldIsStored(r)'
    BY <2>1, HeldDone DEF RowIsStored
  <2>3. \A q \in Requests \ {r} : req'[q] = req[q] /\ pc'[q] = pc[q]
    BY <2>1 DEF Finish, SkillsTypeOK
  <2>4. QED BY <1>a, <1>d, <2>1, <2>2, <2>3
<1>13. ASSUME NEW r \in Requests, Fails(r) PROVE FilesInv'
  <2>1. UNCHANGED <<rec, stored, inject>> /\ Finish(r)
    BY <1>13 DEF Fails, OnError, rowVars
  <2>2. \A q \in Requests \ {r} : req'[q] = req[q] /\ pc'[q] = pc[q]
    BY <2>1 DEF Finish, SkillsTypeOK
  <2>3. QED BY <1>a, <1>d, <1>e, <2>1, <2>2, HeldDone
<1>14. CASE DeleteResource
  <2>1. UNCHANGED <<stored, req, pc, inject>> /\ rec' = None
    BY <1>14 DEF DeleteResource, requestVars
  <2>2. QED BY <1>a, <2>1, HeldKept DEF RowIsStored
<1>15. ASSUME NEW i \in Injections, ListActive(i) PROVE FilesInv'
  <2>1. /\ UNCHANGED <<rec, stored, req, pc>> /\ rec # None
        /\ inject' = [inject EXCEPT ![i] = SkillFilesOf(rec)]
    BY <1>15, <1>b DEF ListActive, rowVars, requestVars
  <2>2. \A j \in Injections : inject'[j] \subseteq stored'
    BY <2>1 DEF RowIsStored, SkillsTypeOK
  <2>3. QED BY <1>a, <2>1, <2>2, HeldKept DEF RowIsStored
<1>16. ASSUME NEW i \in Injections, InjectFile(i) PROVE FilesInv'
  <2>1. UNCHANGED <<rec, stored, req, pc>>
    BY <1>16 DEF InjectFile, rowVars, requestVars
  <2>2. \A j \in Injections : inject'[j] \subseteq inject[j]
    BY <1>16 DEF InjectFile, SkillsTypeOK
  <2>3. QED BY <1>a, <2>1, <2>2, HeldKept DEF RowIsStored
<1>17. CASE UNCHANGED vars
  <2>1. UNCHANGED <<rec, stored, req, pc, inject>>
    BY <1>17 DEF vars, rowVars, requestVars
  <2>2. QED BY <1>a, <2>1, HeldKept DEF RowIsStored
<1>18. QED
  BY <1>1, <1>2, <1>3, <1>4, <1>5, <1>6, <1>7, <1>8, <1>9, <1>10, <1>11, <1>12,
     <1>13, <1>14, <1>15, <1>16, <1>17 DEF SkillsNext, Creating, Editing, Updating

\* FilesInv holds in every state, for an owner who sends no "meta".
LEMMA FilesInductive == ~MetaEdits /\ SkillsSpec => []FilesInv
<1> SUFFICES ASSUME ~MetaEdits PROVE SkillsSpec => []FilesInv
  OBVIOUS
<1>1. SkillsInit => FilesInv
  <2> SUFFICES ASSUME SkillsInit PROVE FilesInv
    OBVIOUS
  <2>1. SkillsTypeOK
    BY TypeInit
  <2>2. RowIsStored /\ (\A i \in Injections : inject[i] \subseteq stored)
    BY Lists DEF SkillsInit, RowIsStored, SkillFilesOf
  <2>3. ASSUME NEW r \in Requests PROVE HeldIsStored(r)
    BY Lists DEF SkillsInit, HeldIsStored, NoBody
  <2>4. QED BY <2>1, <2>2, <2>3 DEF FilesInv
<1>2. FilesInv /\ [SkillsNext]_vars => FilesInv'
  BY FilesStep
<1>3. QED BY <1>1, <1>2, PTL DEF SkillsSpec

\* Whatever uploads, removals, failures and re-creations overlap: every listed
\* file can be fetched, by a reader who read the list long ago too.
THEOREM ListedFilesAreStored == ~MetaEdits /\ SkillsSpec => []ListedIsStored
<1>1. FilesInv => ListedIsStored
  BY DEF FilesInv, RowIsStored, ListedIsStored, SkillFilesOf
<1>2. QED BY <1>1, FilesInductive, PTL

\* No overlap of uploads and archives takes a list over the limit.
THEOREM ListsFit == ~MetaEdits /\ SkillsSpec => []WithinLimit
<1>1. FilesInv => WithinLimit
  BY DEF FilesInv, RowIsStored, WithinLimit
<1>2. QED BY <1>1, FilesInductive, PTL

\* No overlap of requests drops SKILL.md from the list.
THEOREM SkillMDStays == ~MetaEdits /\ SkillsSpec => []SkillMDListed
<1>1. FilesInv => SkillMDListed
  BY DEF FilesInv, RowIsStored, SkillMDListed
<1>2. QED BY <1>1, FilesInductive, PTL
=============================================================================
