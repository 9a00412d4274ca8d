----------------------------- MODULE MCKeyring -----------------------------
(***************************************************************************)
(* Two processes at a time, restarted as any of the subcommands.           *)
(***************************************************************************)
EXTENDS Keyring

CONSTANTS p1, p2, r1, r2

MCProcs == {p1, p2}
MCRows == {r1, r2}
Symmetry == Permutations(MCProcs) \cup Permutations(MCRows)
=============================================================================
