----------------------------- MODULE MCSessions -----------------------------
(***************************************************************************)
(* Two agents of a covenant and two requests at a time.                    *)
(***************************************************************************)
EXTENDS Sessions, TLC

CONSTANTS h1, h2, a1, a2

MCHandlers == {h1, h2}
MCAgents == {a1, a2}
Symmetry == Permutations(MCHandlers) \cup Permutations(MCAgents)
=============================================================================
