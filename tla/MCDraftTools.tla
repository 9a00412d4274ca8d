---------------------------- MODULE MCDraftTools ----------------------------
(***************************************************************************)
(* Small instances of DraftTools: an owner, a writer, and requests that    *)
(* name drafts and log ids which exist in some interleavings.              *)
(***************************************************************************)
EXTENDS DraftTools, TLC

CONSTANTS h1, h2

MCHandlers == {h1, h2}
OneHandler == {h1}

Request(tool, agent, cost, ref, by, award, units) ==
  [tool |-> tool, agent |-> agent, cost |-> cost, ref |-> ref, by |-> by,
   award |-> award, units |-> units]

Propose == Request("propose_passage", "writer", 1, 0, "draft", 0, TRUE)
Approve(d) == Request("approve_draft", "owner", 1, d, "draft", 1, TRUE)
ApproveLog(l) == Request("approve_draft", "owner", 1, l, "log", 1, TRUE)
RejectLog(l) == Request("reject_draft", "owner", 0, l, "log", 0, TRUE)

\* Approvals of the open draft by draft and by log id, and rejections of what
\* they have booked.
ConcurrentCalls == {Approve(1), ApproveLog(1)} \cup {RejectLog(l) : l \in 2..3}

\* A call of each tool, and one without units.
FaultCalls ==
  {Propose, Approve(1), [ApproveLog(1) EXCEPT !.units = FALSE], RejectLog(2)}

\* Everything that moves the budget, whatever the order of the calls.
SequentialCalls ==
  {Propose, Approve(1), ApproveLog(1)} \cup {RejectLog(l) : l \in 2..4}

\* The state after a first call, in which the writer proposed draft 1.
ProposedInit ==
  /\ covState = "ACTIVE"
  /\ memberStatus = [a \in Agents |-> "active"]
  /\ callCount = [a \in Agents |-> 0]
  /\ budget = [exists |-> FALSE, limit |-> 0, spent |-> 0]
  /\ reservations = <<>>
  /\ auditLog = <<[tool |-> "propose_passage", agent |-> "writer",
                   result |-> "success", tokens |-> 0, cost |-> 1, ref |-> 1,
                   before |-> "ACTIVE", after |-> "ACTIVE"]>>
  /\ pc = [r \in Handlers |-> "idle"]
  /\ run = [r \in Handlers |-> NoRun]
  /\ calls = 1 /\ hours = 0 /\ crashes = 0 /\ faults = 0
  /\ pending = {[draft |-> 1, agent |-> "writer"]}
  /\ ledger = [l \in {} |-> l]
  /\ local = [r \in Handlers |-> NoLocal]

ProposedSpec == ProposedInit /\ [][DraftNext]_vars

ProposedFairSpec == ProposedSpec /\ DraftFairness

Symmetry == Permutations(MCHandlers)
=============================================================================
