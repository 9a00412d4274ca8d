---------------------------- MODULE MCSettlement ----------------------------
(***************************************************************************)
(* Small instances of Settlement: a covenant with an open draft and three  *)
(* tokens already booked, about to be locked and settled.                  *)
(***************************************************************************)
EXTENDS Settlement, TLC

CONSTANTS h1, h2, m1

MCHandlers == {h1, h2}
OneHandler == {h1}
MCMovers == {m1}

Request(tool, ref, award) ==
  [tool |-> tool, agent |-> "owner", cost |-> 0, ref |-> ref, by |-> "draft",
   award |-> award, units |-> TRUE]

Approve(d) == Request("approve_draft", d, 1)
Generate == Request("generate_settlement_output", 0, 0)
Confirm(o) == Request("confirm_settlement_output", o, 0)

\* Approvals, outputs and confirmations of either output.
SettleCalls == {Approve(3), Generate, Confirm(1), Confirm(2)}

\* Approvals alone, against the lock.
LockCalls == {Approve(3)}

Row(tool, agent, tokens, ref) ==
  [tool |-> tool, agent |-> agent, result |-> "success", tokens |-> tokens,
   cost |-> 0, ref |-> ref, before |-> "ACTIVE", after |-> "ACTIVE"]

\* The state after three calls: a first draft was proposed and approved, a
\* second one is open; the covenant is ACTIVE, or has been locked meanwhile.
BookedInit ==
  /\ \/ covState = "ACTIVE" /\ snapshots = <<>>
     \/ /\ covState = "LOCKED"
        /\ snapshots = <<[agent |-> "writer", tokens |-> 3, cost |-> 0]>>
  /\ memberStatus = [a \in Agents |-> "active"]
  /\ callCount = [a \in Agents |-> 0]
  /\ budget = [exists |-> FALSE, limit |-> 0, spent |-> 0]
  /\ reservations = <<>>
  /\ auditLog = <<Row("propose_passage", "writer", 0, 1),
                  Row("approve_draft", "owner", 3, 1),
                  Row("propose_passage", "writer", 0, 3)>>
  /\ pc = [r \in Handlers |-> "idle"]
  /\ run = [r \in Handlers |-> NoRun]
  /\ calls = 3 /\ hours = 0 /\ crashes = 0 /\ faults = 0
  /\ pending = {[draft |-> 3, agent |-> "writer"]}
  /\ ledger = [l \in {2} |-> [agent |-> "writer", delta |-> 3, balance |-> 3,
                              draft |-> 1, status |-> "confirmed"]]
  /\ local = [r \in Handlers |-> NoLocal]
  /\ outputs = <<>> /\ anchors = <<>>
  /\ work = [r \in Handlers |-> NoWork]
  /\ move = [m \in Movers |-> Resting]
  /\ moves = 0

BookedSpec == BookedInit /\ [][SettleNext]_allVars

Symmetry == Permutations(MCHandlers)
=============================================================================
