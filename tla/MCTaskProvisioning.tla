------------------------- MODULE MCTaskProvisioning -------------------------
(* Instances of TaskProvisioning for TLC: two requests, one per process.   *)
EXTENDS TaskProvisioning, TLC

CONSTANTS h1, h2, i1, i2

OneEach == (h1 :> i1) @@ (h2 :> i2)

Alone == h1 :> i1

\* The two requests may be swapped if their processes are swapped with them.
Swap == (h1 :> h2) @@ (h2 :> h1) @@ (i1 :> i2) @@ (i2 :> i1)
Stay == (h1 :> h1) @@ (h2 :> h2) @@ (i1 :> i1) @@ (i2 :> i2)

Symmetry ==
    {a @@ b @@ c : a \in {Stay, Swap}, b \in Permutations(Sandboxes),
                   c \in Permutations(Sessions)}

\* Bound: nothing is explored after a mishap that excuses what follows; the state
\* it leads to is still checked.
Unexcused == spoilt \subseteq {"overwrite"}
=============================================================================
