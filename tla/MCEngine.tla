------------------------------ MODULE MCEngine ------------------------------
(***************************************************************************)
(* A small engine: two handlers, one member, a clause tool and an admin    *)
(* tool with costs on both sides of the budget.                            *)
(***************************************************************************)
EXTENDS Engine, TLC

CONSTANTS h1, h2

MCHandlers == {h1, h2}

Request(tool, agent, cost) ==
  [tool |-> tool, agent |-> agent, cost |-> cost, ref |-> 0, by |-> "draft",
   award |-> 0, units |-> TRUE]

\* Charged clause calls, which the quota counts, and free admin calls.
MCCalls == {Request("clause", "writer", MaxCost), Request("admin", "writer", 0)}

Symmetry == Permutations(MCHandlers)
=============================================================================
