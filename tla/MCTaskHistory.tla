---------------------------- MODULE MCTaskHistory ----------------------------
(* Instances of TaskHistory for TLC.                                       *)
EXTENDS TaskHistory

\* Bound: a history of more than three entries is not deleted, and one of more than
\* two not read at the same time.
FewWhenDeleted ==
    ~row => Len(entries) <= IF pc = "idle" THEN 3 ELSE 2

\* Bound: the sandbox dies in a deletion only; before, that is a pause in the writing.
PausesLeftOut == row => alive

\* Bound: one tree in a session.
OneRoot ==
    \A d, e \in Ids :
      /\ d < e /\ entries[d].session = entries[e].session /\ entries[e].session \in Mains
      => entries[e].parent # 0

\* Bound: one request for the history; the next would begin like the first.
OneRequest == pc \notin {"done", "failed"}
=============================================================================
