---------------------------- MODULE MCMembership ----------------------------
(***************************************************************************)
(* A small covenant: two handlers, three people besides the founder, and   *)
(* one tier with at most one slot and an entry fee.  Three entries are one *)
(* more than a tier of one slot may be overbooked by without a failure;    *)
(* they are explored without decisions, and decisions after two entries.   *)
(***************************************************************************)
EXTENDS Membership, TLC

CONSTANTS h1, h2, ann, bob, cid, founder

MCHandlers == {h1, h2}
MCPlatforms == {ann, bob, cid, founder}

\* Init, but for the counters that say what is left to happen.
EntriesInit == Fresh /\ setups = 1 /\ entries = 0 /\ calls = MaxCalls /\ faults = 0
DecisionsInit == Fresh /\ setups = 0 /\ entries = 1 /\ calls = 0 /\ faults = 0

MCSpec == (EntriesInit \/ DecisionsInit) /\ [][Next]_vars

Symmetry == Permutations(MCHandlers) \cup Permutations({ann, bob, cid})
=============================================================================
