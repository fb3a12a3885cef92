---------------------------- MODULE MCLifecycle ----------------------------
(* Two analyzer handles, room for two full loads of the four resources,   *)
(* and one result held by the caller at a time.                          *)
EXTENDS Lifecycle, TLC

CONSTANTS h1, h2

MCHandles == {h1, h2}

\* The handles are interchangeable: nothing in the model refers to one.
MCSymmetry == Permutations(MCHandles)
====
