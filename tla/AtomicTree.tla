----------------------------- MODULE AtomicTree -----------------------------
(***************************************************************************)
(* What a maintainer may rely on when synchronizing the vendored protocol: *)
(* the replaced paths change all together or not at all.                   *)
(***************************************************************************)
CONSTANTS
    Snapshots,  \* the trees a synchronization may install
    Originals   \* the trees there may be to begin with

VARIABLE tree

Init == tree \in Originals

Replace == \E new \in Snapshots : tree' = new

Spec == Init /\ [][Replace]_tree
=============================================================================
