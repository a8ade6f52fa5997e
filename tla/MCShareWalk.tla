----------------------------- MODULE MCShareWalk -----------------------------
(* Small instances of ShareWalk for TLC. *)
EXTENDS ShareWalk, TLC

CONSTANTS root, d1, d2, f1, l1, gone, w1

Kinds == [e \in {root, d1, d2} |-> "dir"] @@ (f1 :> "file") @@ (l1 :> "link")

\* root / d1 / f1, root / l1; the name d2 is free.
SmallTree == (d1 :> root) @@ (f1 :> d1) @@ (l1 :> root) @@ (d2 :> gone)
=============================================================================
