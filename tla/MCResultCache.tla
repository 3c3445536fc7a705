---------------------------- MODULE MCResultCache ---------------------------
(* Two similar frames and one that is like neither; one frame is asked for *)
(* in two contexts, as when a frame has detections of two labels.          *)
EXTENDS ResultCache

CONSTANTS f1, f2, f3, x1, x2, c1, c2

MCNear == (f1 :> {f1, f2}) @@ (f2 :> {f1, f2}) @@ (f3 :> {f3})

Ask(f, x) == [frame |-> f, context |-> x]
Symmetry == Permutations({c1, c2})
MCRequests == {Ask(f1, x1), Ask(f1, x2), Ask(f2, x1), Ask(f3, x1)}
=============================================================================
