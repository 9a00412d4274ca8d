----------------------------- MODULE MCGitTwin -----------------------------
(***************************************************************************)
(* A repository twinned by two covenants with two bridges.  Merges and     *)
(* anchors do not touch each other's state, so they are explored from      *)
(* initial states of their own: one with no anchor left to enqueue, one    *)
(* with no webhook left to deliver.                                        *)
(***************************************************************************)
EXTENDS GitTwin

\* Init, but for the two counters that say what is left to happen.
MergesInit == Fresh /\ faults = 0 /\ deliveries = 0 /\ enqueued = MaxAnchors
AnchorsInit ==
  Fresh /\ faults = 0 /\ mapped = {} /\ deliveries = MaxDeliveries /\ enqueued = 0

MCSpec == (MergesInit \/ AnchorsInit) /\ [][Next]_vars /\ Fairness
=============================================================================
