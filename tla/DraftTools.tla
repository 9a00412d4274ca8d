----------------------------- MODULE DraftTools -----------------------------
(***************************************************************************)
(* The tools that move a contribution: propose_passage, approve_draft and  *)
(* reject_draft (tools/*.go, internal/tokens/tokens.go), run by the engine *)
(* of module Engine.  The tables are pending_tokens and token_ledger.      *)
(*                                                                         *)
(* ExecuteLogic and ApplySideEffects are cut at their statements as Run is.*)
(* A read merged with its neighbour is one of an append-only table, whose  *)
(* answer no statement in between can change.                              *)
(***************************************************************************)
EXTENDS Engine, Functions

CONSTANT Owner   \* the member with is_owner = 1

ASSUME DraftToolsAssumption ==
  /\ Owner \in Agents
  /\ {"propose_passage", "approve_draft", "reject_draft"} \subseteq Tools
  /\ ClauseTools = {"propose_passage", "approve_draft"}
  /\ States = {"ACTIVE", "LOCKED", "SETTLED"}
  /\ "left" \in Statuses
  /\ Refs \subseteq Nat /\ 0..MaxCalls \subseteq Refs

VARIABLES
  pending,   \* pending_tokens
  ledger,    \* token_ledger, by log_id (which is UNIQUE)
  local      \* by handler: the local variables of the tool

draftVars == <<pending, ledger, local>>
vars == <<engineVars, draftVars>>
-----------------------------------------------------------------------------
PendingRow == [draft : Refs, agent : Agents]

Locals == {"start", "claim", "delete", "insert", "refund"}

NoLocal == [sub |-> "start", draft |-> 0, agent |-> Owner, balance |-> 0,
            cost |-> 0]

DraftTypeOK ==
  /\ pending \subseteq PendingRow
  /\ DOMAIN ledger \subseteq DOMAIN auditLog
  /\ ledger = [l \in DOMAIN ledger |-> ledger[l]]
  /\ \A l \in DOMAIN ledger :
       /\ ledger[l].agent \in Agents
       /\ ledger[l].delta \in Tokens
       /\ ledger[l].draft \in Refs
       /\ ledger[l].status \in {"confirmed", "rejected"}
  /\ DOMAIN local = Handlers
  /\ \A r \in Handlers : /\ local[r].sub \in Locals
                         /\ local[r].draft \in Refs
                         /\ local[r].agent \in Agents
                         /\ local[r].cost \in 0..MaxCost

DraftInit ==
  /\ Init
  /\ covState = "ACTIVE"
  /\ pending = {}
  /\ ledger = [l \in {} |-> l]
  /\ local = [r \in Handlers |-> NoLocal]
-----------------------------------------------------------------------------
Tool(r, name) == run[r].call.tool = name
Sub(r, name) == local[r].sub = name
Forget(r) == local' = [local EXCEPT ![r] = NoLocal]

Check(r, condition) ==
  /\ \/ condition /\ PreconditionsPass(r)
     \/ ~condition /\ PreconditionsFail(r)
  /\ UNCHANGED draftVars

GiveUp(r) ==
  /\ ExecuteFails(r)
  /\ Forget(r)
  /\ UNCHANGED <<pending, ledger>>

\* The effects of a tool that leaves the covenant's state alone.
EffectOf(r, tokens, ref) ==
  [tokens |-> tokens, ref |-> ref, after |-> run[r].state]

\* propose_passage: a fresh draft id, here the number of the call.
ProposeCheck(r) ==
  /\ Tool(r, "propose_passage")
  /\ Check(r, run[r].state = "ACTIVE" /\ run[r].call.units)

ProposeExecute(r) ==
  /\ Tool(r, "propose_passage")
  /\ ExecuteSucceeds(r, EffectOf(r, 0, run[r].no))
  /\ UNCHANGED draftVars

\* CreatePending.
ProposeApply(r) ==
  /\ Tool(r, "propose_passage")
  /\ pending' = pending \cup {[draft |-> run[r].eff.ref,
                               agent |-> run[r].call.agent]}
  /\ ApplySucceeds(r)
  /\ UNCHANGED <<ledger, local>>

\* Mutation of ApproveCheck: the covenant's state is not asked for.
ApproveCheckAnyState(r) ==
  /\ Tool(r, "approve_draft")
  /\ Check(r, run[r].call.agent = Owner)

ApproveCheck(r) ==
  /\ Tool(r, "approve_draft")
  /\ Check(r, run[r].state = "ACTIVE" /\ run[r].call.agent = Owner)

\* Drafts of whoever wrote audit row l, if there is such a row.
DraftsOfLog(l) ==
  {p \in pending : l \in DOMAIN auditLog /\ p.agent = auditLog[l].agent}

\* Mutation of ApproveWithoutUnits: unit_count is looked at after the claim.
ApproveWithoutUnitsLate(r) ==
  /\ Tool(r, "approve_draft") /\ Sub(r, "start")
  /\ ~run[r].call.units
  /\ pending' = pending \ DraftsOfLog(run[r].call.ref)
  /\ ExecuteFails(r)
  /\ Forget(r)
  /\ UNCHANGED ledger

ApproveWithoutUnits(r) ==
  /\ Tool(r, "approve_draft") /\ Sub(r, "start")
  /\ ~run[r].call.units
  /\ GiveUp(r)

\* The log_id path: any one pending draft of the agent of that row (LIMIT 1).
ApproveFindDraft(r) ==
  LET found == DraftsOfLog(run[r].call.ref) IN
  /\ Tool(r, "approve_draft") /\ Sub(r, "start")
  /\ run[r].call.units /\ run[r].call.by = "log"
  /\ \/ /\ At(r, "execute")
        /\ \E p \in found :
             local' = [local EXCEPT ![r].sub = "claim", ![r].draft = p.draft]
        /\ UNCHANGED <<engineVars, pending, ledger>>
     \/ found = {} /\ GiveUp(r)

\* Mutation of ApproveClaim: a draft that is not there is waited for.
ApproveClaimUnanswered(r) ==
  /\ Tool(r, "approve_draft")
  /\ Sub(r, "start") /\ run[r].call.units /\ run[r].call.by = "draft"
  /\ At(r, "execute")
  /\ \E p \in {q \in pending : q.draft = run[r].call.ref} :
       local' = [local EXCEPT ![r] = [NoLocal EXCEPT
                   !.sub = "delete", !.draft = p.draft, !.agent = p.agent]]
  /\ UNCHANGED <<engineVars, pending, ledger>>

\* ClaimPending, first statement: SELECT agent_id.
ApproveClaim(r) ==
  LET draft == IF Sub(r, "claim") THEN local[r].draft ELSE run[r].call.ref
      found == {p \in pending : p.draft = draft}
  IN
  /\ Tool(r, "approve_draft")
  /\ \/ Sub(r, "claim")
     \/ Sub(r, "start") /\ run[r].call.units /\ run[r].call.by = "draft"
  /\ \/ /\ At(r, "execute")
        /\ \E p \in found :
             local' = [local EXCEPT ![r] = [NoLocal EXCEPT
                         !.sub = "delete", !.draft = draft, !.agent = p.agent]]
        /\ UNCHANGED <<engineVars, pending, ledger>>
     \/ found = {} /\ GiveUp(r)

\* Mutation of ApproveDelete: the pending row stays.
ApproveDeleteKeeps(r) ==
  /\ Tool(r, "approve_draft") /\ Sub(r, "delete")
  /\ ExecuteSucceeds(r, EffectOf(r, run[r].call.award, local[r].draft))
  /\ local' = [local EXCEPT ![r].sub = "start"]
  /\ UNCHANGED <<pending, ledger>>

\* ClaimPending, second statement: DELETE, which does not look whether the row
\* is still there.  With it ends ExecuteLogic; Step 4 only reads.
ApproveDelete(r) ==
  /\ Tool(r, "approve_draft") /\ Sub(r, "delete")
  /\ pending' = {p \in pending : p.draft # local[r].draft}
  /\ ExecuteSucceeds(r, EffectOf(r, run[r].call.award, local[r].draft))
  /\ local' = [local EXCEPT ![r].sub = "start"]
  /\ UNCHANGED ledger

Confirmed(a) ==
  {l \in DOMAIN ledger : ledger[l].agent = a /\ ledger[l].status = "confirmed"}

Balance(a) == SumFunctionOnSet([l \in DOMAIN ledger |-> ledger[l].delta],
                               Confirmed(a))

\* ConfirmContribution, first statement: the proposer's balance.
ConfirmRead(r) ==
  /\ Tool(r, "approve_draft") /\ Sub(r, "start")
  /\ At(r, "apply")
  /\ local' = [local EXCEPT ![r].sub = "insert",
                            ![r].balance = Balance(local[r].agent)]
  /\ UNCHANGED <<engineVars, pending, ledger>>

\* Mutations of LedgerRow: the award goes to the caller; delta and balance
\* change places; the balance is the one before the award.
LedgerRowToApprover(r) ==
  [agent |-> run[r].call.agent, delta |-> run[r].eff.tokens,
   balance |-> local[r].balance + run[r].eff.tokens,
   draft |-> local[r].draft, status |-> "confirmed"]

LedgerRowSwapped(r) ==
  [agent |-> local[r].agent, delta |-> local[r].balance + run[r].eff.tokens,
   balance |-> run[r].eff.tokens,
   draft |-> local[r].draft, status |-> "confirmed"]

LedgerRowBefore(r) ==
  [agent |-> local[r].agent, delta |-> run[r].eff.tokens,
   balance |-> local[r].balance,
   draft |-> local[r].draft, status |-> "confirmed"]

LedgerRow(r) ==
  [agent |-> local[r].agent, delta |-> run[r].eff.tokens,
   balance |-> local[r].balance + run[r].eff.tokens,
   draft |-> local[r].draft, status |-> "confirmed"]

\* ConfirmContribution, second statement.
ConfirmInsert(r) ==
  /\ Tool(r, "approve_draft") /\ Sub(r, "insert")
  /\ ledger' = [l \in DOMAIN ledger \cup {run[r].log} |->
                  IF l = run[r].log THEN LedgerRow(r) ELSE ledger[l]]
  /\ ApplySucceeds(r)
  /\ Forget(r)
  /\ UNCHANGED pending

\* reject_draft: owner only, in any state of the covenant.
RejectCheck(r) ==
  LET l == run[r].call.ref IN
  /\ Tool(r, "reject_draft")
  /\ Check(r, /\ run[r].call.agent = Owner
              /\ l \in DOMAIN ledger
              /\ ledger[l].status # "rejected")

\* The cost to return is read here; where that read fails, nothing is returned.
RejectExecute(r) ==
  LET l == run[r].call.ref IN
  /\ Tool(r, "reject_draft")
  /\ \/ /\ ExecuteSucceeds(r, EffectOf(r, 0, l))
        /\ local' = [local EXCEPT ![r].cost = auditLog[l].cost]
     \/ ExecuteOverlooks(r, EffectOf(r, 0, l)) /\ UNCHANGED local
  /\ UNCHANGED <<pending, ledger>>

\* Mutations of RejectUpdate: the entry is deleted; the budget is not refunded.
RejectUpdateDeletes(r) ==
  /\ Tool(r, "reject_draft") /\ Sub(r, "start")
  /\ ledger' = [k \in DOMAIN ledger \ {run[r].eff.ref} |-> ledger[k]]
  /\ ApplySucceeds(r)
  /\ UNCHANGED <<pending, local>>

RejectUpdateUnrefunded(r) ==
  /\ Tool(r, "reject_draft") /\ Sub(r, "start")
  /\ ledger' = [ledger EXCEPT ![run[r].eff.ref].status = "rejected"]
  /\ ApplySucceeds(r)
  /\ UNCHANGED <<pending, local>>

\* The status is set without asking again what it is.
RejectUpdate(r) ==
  LET l == run[r].eff.ref IN
  /\ Tool(r, "reject_draft") /\ Sub(r, "start")
  /\ At(r, "apply")
  /\ ledger' = [k \in DOMAIN ledger |->
                  IF k = l THEN [ledger[k] EXCEPT !.status = "rejected"]
                           ELSE ledger[k]]
  /\ \/ /\ local[r].cost > 0
        /\ local' = [local EXCEPT ![r].sub = "refund"]
        /\ UNCHANGED engineVars
     \/ /\ local[r].cost = 0
        /\ ApplySucceeds(r)
        /\ UNCHANGED local
  /\ UNCHANGED pending

\* budget.Release of what the approval had cost.
RejectRefund(r) ==
  /\ Tool(r, "reject_draft") /\ Sub(r, "refund")
  /\ ApplyRefund(r, local[r].cost)
  /\ Forget(r)
  /\ UNCHANGED <<pending, ledger>>

\* The engine's steps leave the tool's tables alone; a failure of one of the
\* tool's statements ends the tool.
EngineOnly(r) ==
  \/ /\ \/ GetCovenant(r) \/ GetMember(r) \/ IdentityFails(r)
        \/ RateLimitGate(r) \/ CheckAndReserve(r)
        \/ GateFails(r) /\ (At(r, "preconditions") => Tool(r, "reject_draft"))
        \/ CalculateEffects(r) \/ WriteAuditLog(r)
        \/ RecordSpend(r) \/ RecordSpendFails(r) \/ SettleReservation(r)
     /\ UNCHANGED draftVars
  \/ /\ \/ ExecuteStatementFails(r) /\ ~Tool(r, "propose_passage")
        \/ AuditLogFails(r) \/ ApplyStatementFails(r)
        \/ ReleaseReservation(r) \/ LogRejection(r)
     /\ Forget(r)
     /\ UNCHANGED <<pending, ledger>>

ProposeStep(r) == ProposeCheck(r) \/ ProposeExecute(r) \/ ProposeApply(r)

ApproveStep(r) ==
  \/ ApproveCheck(r) \/ ApproveWithoutUnits(r) \/ ApproveFindDraft(r)
  \/ ApproveClaim(r) \/ ApproveDelete(r) \/ ConfirmRead(r) \/ ConfirmInsert(r)

RejectStep(r) ==
  \/ RejectCheck(r) \/ RejectExecute(r) \/ RejectUpdate(r) \/ RejectRefund(r)

Serve(r) == EngineOnly(r) \/ ProposeStep(r) \/ ApproveStep(r) \/ RejectStep(r)

\* The state UPDATE of Service.Transition, after the covenant is ACTIVE.
Advance ==
  /\ CovenantChanges
  /\ \/ covState = "ACTIVE" /\ covState' = "LOCKED"
     \/ covState = "LOCKED" /\ covState' = "SETTLED"
  /\ UNCHANGED draftVars

\* The UPDATE of leave_covenant; the owner cannot leave.
Leave ==
  /\ \E a \in Agents \ {Owner} :
       /\ memberStatus[a] = "active"
       /\ memberStatus' = [memberStatus EXCEPT ![a] = "left"]
  /\ UNCHANGED <<covState, callCount, budget, reservations, auditLog, pc, run,
                 bounds, draftVars>>

Restart ==
  /\ Crash
  /\ local' = [r \in Handlers |-> NoLocal]
  /\ UNCHANGED <<pending, ledger>>

DraftNext ==
  \/ \E r \in Handlers : (Begin(r) /\ UNCHANGED draftVars) \/ Serve(r)
  \/ (SetBudget \/ HourPasses) /\ UNCHANGED draftVars
  \/ Advance \/ Leave \/ Restart

DraftSpec == DraftInit /\ [][DraftNext]_vars

\* A covenant whose budget was set before its first call.
BudgetedInit == DraftInit /\ budget.exists
BudgetedSpec == BudgetedInit /\ [][DraftNext]_vars

DraftFairness == \A r \in Handlers : WF_vars(Serve(r))
DraftFairSpec == DraftSpec /\ DraftFairness
-----------------------------------------------------------------------------
(* Properties.                                                             *)

Success(l, tool) ==
  auditLog[l].result = "success" /\ auditLog[l].tool = tool

Credits(d) == {l \in DOMAIN ledger : ledger[l].draft = d}

\* Handlers that have read draft d as pending and not yet booked it.
Claimers(d) ==
  {r \in Handlers : /\ Tool(r, "approve_draft")
                    /\ local[r].draft = d
                    /\ \/ Sub(r, "delete")
                       \/ pc[r] \in {"effects", "audit", "apply"}}

\* Every ledger entry was logged before it was booked, as the owner's approval
\* of that draft, for that amount, decided while the covenant was ACTIVE; and
\* every reversal before it was made: a rejected entry has a later success of
\* reject_draft that names it.
BookIsLogged ==
  \A l \in DOMAIN ledger :
    /\ l \in DOMAIN auditLog
    /\ Success(l, "approve_draft")
    /\ auditLog[l].agent = Owner
    /\ auditLog[l].before = "ACTIVE"
    /\ auditLog[l].tokens = ledger[l].delta
    /\ auditLog[l].ref = ledger[l].draft
    /\ ledger[l].status = "rejected" =>
         \E k \in DOMAIN auditLog :
           k > l /\ Success(k, "reject_draft") /\ auditLog[k].ref = l

\* The award of a draft goes to the agent who proposed that draft, on the
\* log_id path too, where the code finds the draft by its agent.
AwardGoesToProposer ==
  \A l \in DOMAIN ledger :
    \E k \in DOMAIN auditLog :
      /\ k < l
      /\ Success(k, "propose_passage")
      /\ auditLog[k].ref = ledger[l].draft
      /\ auditLog[k].agent = ledger[l].agent

\* ClaimPending reads and deletes in two statements, so concurrent approvals
\* can credit one draft more than once; but once for each handler at most.
CreditsBounded ==
  \A d \in Refs : Cardinality(Credits(d)) <= Cardinality(Handlers)

Proposed == {l \in DOMAIN auditLog : Success(l, "propose_passage")}

\* Proposals that are neither open, nor booked, nor in a handler's hands.
LostDrafts ==
  {l \in Proposed :
     LET d == auditLog[l].ref IN
       /\ \A p \in pending : p.draft # d
       /\ Credits(d) = {} /\ Claimers(d) = {}
       /\ \A r \in Handlers : ~(run[r].log = l /\ pc[r] = "apply")}

\* approve_draft deletes the pending row in Step 3, before anything is logged:
\* a logged proposal disappears only where the server died or a statement
\* failed after that.
DraftsConserved ==
  CurrencyMatches =>
    Cardinality(LostDrafts) <= Cardinality(Handlers) * crashes + faults

\* What the book shows of the ledger.
Entries == [l \in DOMAIN ledger |->
              [agent |-> ledger[l].agent, delta |-> ledger[l].delta,
               draft |-> ledger[l].draft, status |-> ledger[l].status]]

\* The ledger is an append-only book whose entries can only be rejected.
Book == INSTANCE ContributionLedger WITH
  Logs <- 1..MaxCalls, Parties <- Agents, Amounts <- Tokens,
  Sources <- Refs, book <- Entries

ImplementsBook == Book!Spec

\* Every call of a tool returns, however the other calls interleave.
ToolCallsReturn == \A r \in Handlers : (pc[r] # "idle") ~> (pc[r] = "idle")

\* What holds when calls are served one at a time, as the tests serve them.

Quiet == \A r \in Handlers : pc[r] = "idle"

\* The limit is never exceeded.
WithinLimit ==
  budget.exists /\ budget.limit > 0 => budget.spent <= budget.limit

\* What RebuildFromAuditLog computes: the cost of every success whose ledger
\* entry, if it has one, is not rejected.
RebuiltSpend ==
  SumFunctionOnSet(
    [l \in DOMAIN auditLog |-> auditLog[l].cost],
    {l \in DOMAIN auditLog :
       /\ auditLog[l].result = "success"
       /\ l \in DOMAIN ledger => ledger[l].status # "rejected"})

\* Between calls the counter is what the audit log says was spent, refunds
\* taken off.
CounterIsRebuildable == Quiet => budget.spent = RebuiltSpend

\* balance_after of an entry is the beneficiary's balance with that entry: the
\* newest entry of an agent, if nothing of his was rejected, shows the balance.
BalanceAfterExact ==
  \A l \in DOMAIN ledger :
    LET mine == {k \in DOMAIN ledger : ledger[k].agent = ledger[l].agent} IN
      (\A k \in mine : k <= l /\ ledger[k].status = "confirmed")
        => ledger[l].balance = Balance(ledger[l].agent)

\* "SETTLED | Final state, immutable" (README.md).
SettledIsImmutable ==
  [][covState = "SETTLED" => UNCHANGED ledger]_vars
=============================================================================
