----------------------------- MODULE DraftProofs -----------------------------
(***************************************************************************)
(* What holds of the contribution tools for every set of handlers, agents, *)
(* drafts, calls and bounds: they are calls of the engine and inherit what *)
(* is proved of it; what they book is logged, goes to the proposer and is  *)
(* a book; a draft is credited at most once for each handler, and none is  *)
(* lost but to a crash or a failed statement.  And what holds only where   *)
(* calls are served one at a time: the limit, the balances that the ledger *)
(* shows, and that the counter can be rebuilt from the log.                *)
(***************************************************************************)
EXTENDS DraftTools, EngineProofs, Sums

Passed == {"reserve", "execute", "effects", "audit", "apply"}
Decided == {"effects", "audit", "apply"}

\* Draft d was proposed by agent a in one of the first n rows of a log.
ProposedIn(log, d, a, n) ==
  \E k \in DOMAIN log :
    /\ k <= n
    /\ log[k].result = "success" /\ log[k].tool = "propose_passage"
    /\ log[k].ref = d /\ log[k].agent = a

ApproveOK(r) ==
  Tool(r, "approve_draft") =>
    /\ pc[r] \in Passed => run[r].call.agent = Owner /\ run[r].state = "ACTIVE"
    /\ pc[r] \in Decided => run[r].eff.ref = local[r].draft
    /\ pc[r] \in {"effects", "audit"} \/ Sub(r, "delete") =>
         ProposedIn(auditLog, local[r].draft, local[r].agent, Len(auditLog))
    /\ pc[r] = "apply" =>
         ProposedIn(auditLog, local[r].draft, local[r].agent, run[r].log - 1)

RejectOK(r) ==
  Tool(r, "reject_draft") =>
    /\ pc[r] \in Passed => run[r].call.ref \in DOMAIN ledger
    /\ pc[r] \in Decided => run[r].eff.ref = run[r].call.ref
    /\ pc[r] = "apply" => run[r].call.ref < run[r].log

ProposeOK(r) ==
  Tool(r, "propose_passage") /\ pc[r] \in Decided => run[r].eff.ref = run[r].no

LoggedOK(r) ==
  pc[r] = "apply" => /\ run[r].log \in DOMAIN auditLog
                     /\ auditLog[run[r].log] = SuccessRow(r)

\* Where the tools stop between two of their statements.
SubOK(r) ==
  /\ local[r].sub \in {"claim", "delete"} =>
       pc[r] = "execute" /\ Tool(r, "approve_draft")
  /\ Sub(r, "insert") => pc[r] = "apply" /\ Tool(r, "approve_draft")
  /\ Sub(r, "refund") =>
       pc[r] = "apply" /\ Tool(r, "reject_draft") /\ local[r].cost > 0

ToolOK(r) ==
  ApproveOK(r) /\ RejectOK(r) /\ ProposeOK(r) /\ LoggedOK(r) /\ SubOK(r)

\* The record of a tool's locals, and a row of the ledger, whatever balance is
\* in them.
LocalOK(v) == v \in [sub : Locals, draft : Refs, agent : Agents,
                     balance : {v.balance}, cost : 0..MaxCost]

EntryOK(v) == v \in [agent : Agents, delta : Tokens, balance : {v.balance},
                     draft : Refs, status : {"confirmed", "rejected"}]

DraftTyped ==
  /\ pending \subseteq PendingRow
  /\ DOMAIN ledger \subseteq DOMAIN auditLog
  /\ ledger = [l \in DOMAIN ledger |-> ledger[l]]
  /\ \A l \in DOMAIN ledger : EntryOK(ledger[l])
  /\ local = [r \in Handlers |-> local[r]]
  /\ \A r \in Handlers : LocalOK(local[r])

PendingProposed ==
  \A p \in pending : ProposedIn(auditLog, p.draft, p.agent, Len(auditLog))

\* The row of an approval that is being applied is not booked yet.
Unbooked ==
  \A r \in Handlers :
    pc[r] = "apply" /\ Tool(r, "approve_draft") => run[r].log \notin DOMAIN ledger

\* The inductive invariant: what a tool still has to do is tied to the log, the
\* ledger and the pending rows at every statement in between.
DraftInv ==
  /\ TypeOK /\ ChargeInv /\ DraftTyped
  /\ \A r \in Handlers : ToolOK(r)
  /\ PendingProposed /\ Unbooked /\ BookIsLogged /\ AwardGoesToProposer
-----------------------------------------------------------------------------
(* The tools are calls of the engine.                                      *)

LEMMA ToolNames ==
  /\ Owner \in Agents /\ 0 \in Refs
  /\ "ACTIVE" \in States /\ "LOCKED" \in States /\ "SETTLED" \in States
  /\ "left" \in Statuses
BY DraftToolsAssumption, ConstantsAssumption

LEMMA ServeIsEngine ==
  ASSUME DraftInv, NEW r \in Handlers, Serve(r)
  PROVE  EngineStep(r) \/ ToolStep(r) \/ UNCHANGED engineVars
<1>1. CASE EngineOnly(r)
  BY <1>1 DEF EngineOnly, EngineStep
<1>2. ASSUME NEW tokens, NEW ref, NEW c,
             \/ Check(r, c) \/ GiveUp(r)
             \/ ExecuteSucceeds(r, EffectOf(r, tokens, ref))
             \/ ExecuteOverlooks(r, EffectOf(r, tokens, ref))
      PROVE  ToolStep(r)
  BY <1>2 DEF Check, GiveUp, ToolStep, ExecuteSucceeds, ExecuteOverlooks
<1>3. CASE ProposeStep(r)
  BY <1>2, <1>3 DEF ProposeStep, ProposeCheck, ProposeExecute, ProposeApply,
                    ToolStep
<1>4. CASE ApproveStep(r)
  BY <1>2, <1>4 DEF ApproveStep, ApproveCheck, ApproveWithoutUnits,
                    ApproveFindDraft, ApproveClaim, ApproveDelete, ConfirmRead,
                    ConfirmInsert, ToolStep
<1>5. CASE RejectStep(r)
  <2>1. CASE RejectRefund(r)
    <3>1. local[r].cost \in 0..MaxCost /\ local[r].cost > 0
      BY <2>1 DEF RejectRefund, DraftInv, DraftTyped, LocalOK, ToolOK, SubOK
    <3>2. local[r].cost \in 1..MaxCost
      BY <3>1, ConstantsAssumption
    <3>3. QED
      BY <2>1, <3>2 DEF RejectRefund, ToolStep
  <2>2. QED
    BY <1>2, <1>5, <2>1 DEF RejectStep, RejectCheck, RejectExecute,
                            RejectUpdate, ToolStep
<1>6. QED
  BY <1>1, <1>3, <1>4, <1>5 DEF Serve

LEMMA StepIsEngine == DraftInv /\ [DraftNext]_vars => [Next]_engineVars
<1> SUFFICES ASSUME DraftInv, [DraftNext]_vars
             PROVE  [Next]_engineVars
  OBVIOUS
<1>1. CASE Advance
  BY <1>1 DEF Advance, Next
<1>2. CASE Leave
  BY <1>2, ToolNames DEF Leave, MemberChanges, Next
<1>3. CASE Restart
  BY <1>3 DEF Restart, Next, Environment
<1>4. CASE UNCHANGED vars
  BY <1>4 DEF vars
<1>5. ASSUME NEW r \in Handlers, Begin(r) \/ Serve(r)
      PROVE  [Next]_engineVars
  BY <1>5, ServeIsEngine DEF Next
<1>6. QED
  BY <1>1, <1>2, <1>3, <1>4, <1>5 DEF DraftNext, Next, Environment
-----------------------------------------------------------------------------
(* What a step of one handler leaves to the others.                        *)

\* Assignments to the locals of a tool.
LEMMA SubAssigned ==
  ASSUME NEW v, LocalOK(v), NEW s \in Locals
  PROVE  LET w == [v EXCEPT !.sub = s]
         IN /\ LocalOK(w) /\ w.sub = s /\ w.draft = v.draft
            /\ w.agent = v.agent /\ w.cost = v.cost
BY DEF LocalOK

LEMMA DraftAssigned ==
  ASSUME NEW v, LocalOK(v), NEW s \in Locals, NEW d \in Refs
  PROVE  LET w == [v EXCEPT !.sub = s, !.draft = d]
         IN LocalOK(w) /\ w.sub = s /\ w.draft = d
BY DEF LocalOK

LEMMA BalanceAssigned ==
  ASSUME NEW v, LocalOK(v), NEW s \in Locals, NEW b
  PROVE  LET w == [v EXCEPT !.sub = s, !.balance = b]
         IN LocalOK(w) /\ w.sub = s /\ w.draft = v.draft /\ w.agent = v.agent
BY DEF LocalOK

LEMMA CostAssigned ==
  ASSUME NEW v, LocalOK(v), NEW c \in 0..MaxCost
  PROVE  LET w == [v EXCEPT !.cost = c]
         IN LocalOK(w) /\ w.sub = v.sub /\ w.cost = c
BY DEF LocalOK

LEMMA NoLocalOK ==
  /\ LocalOK(NoLocal) /\ NoLocal.sub = "start"
  /\ \A s \in Locals, d \in Refs, a \in Agents :
       LET w == [NoLocal EXCEPT !.sub = s, !.draft = d, !.agent = a]
       IN LocalOK(w) /\ w.sub = s /\ w.draft = d /\ w.agent = a
<1>1. /\ Owner \in Agents /\ 0 \in Refs /\ 0 \in 0..MaxCost
      /\ "start" \in Locals
  BY ToolNames, ConstantsAssumption DEF Locals
<1>2. QED
  BY <1>1 DEF NoLocal, LocalOK

\* An entry that is rejected.
LEMMA EntryRejected ==
  ASSUME NEW v, EntryOK(v)
  PROVE  LET w == [v EXCEPT !.status = "rejected"] IN
         /\ EntryOK(w) /\ w.status = "rejected" /\ w.agent = v.agent
         /\ w.delta = v.delta /\ w.draft = v.draft /\ w.balance = v.balance
BY DEF EntryOK

LEMMA ProposedStays ==
  ASSUME LogGrows, NEW d, NEW a, NEW n, NEW m, ProposedIn(auditLog, d, a, n),
         n \in Int, m \in Int, n <= m
  PROVE  ProposedIn(auditLog', d, a, m)
<1>1. PICK k \in DOMAIN auditLog :
        /\ k <= n
        /\ auditLog[k].result = "success" /\ auditLog[k].tool = "propose_passage"
        /\ auditLog[k].ref = d /\ auditLog[k].agent = a
  BY DEF ProposedIn
<1>2. k \in Nat /\ k <= m /\ k \in DOMAIN auditLog' /\ auditLog'[k] = auditLog[k]
  BY <1>1 DEF LogGrows
<1>3. QED
  BY <1>1, <1>2 DEF ProposedIn

\* A handler at rest keeps what ties it to the tables, which only grow.
LEMMA OthersKeep ==
  ASSUME TypeOK, NEW q \in Handlers, ToolOK(q), pc'[q] = pc[q],
         run'[q] = run[q], local'[q] = local[q], LogGrows,
         DOMAIN ledger \subseteq DOMAIN ledger'
  PROVE  ToolOK(q)'
<1>0. run[q].log \in Nat
  BY DEF TypeOK, RunLocals
<1>1. ApproveOK(q)'
  <2>1. ProposedIn(auditLog, local[q].draft, local[q].agent, Len(auditLog)) =>
          ProposedIn(auditLog', local[q].draft, local[q].agent, Len(auditLog'))
    BY ProposedStays DEF LogGrows
  <2>2. ProposedIn(auditLog, local[q].draft, local[q].agent, run[q].log - 1) =>
          ProposedIn(auditLog', local[q].draft, local[q].agent, run[q].log - 1)
    BY <1>0, ProposedStays
  <2>3. QED
    BY <2>1, <2>2 DEF ToolOK, ApproveOK, Tool, Sub
<1>2. RejectOK(q)' /\ ProposeOK(q)' /\ SubOK(q)'
  BY DEF ToolOK, RejectOK, ProposeOK, SubOK, Tool, Sub
<1>3. LoggedOK(q)'
  BY DEF ToolOK, LoggedOK, LogGrows, SuccessRow
<1>4. QED
  BY <1>1, <1>2, <1>3 DEF ToolOK
\* A step for handler r assigns to the tool's locals of r alone.
LEMMA LocalStep ==
  ASSUME DraftInv, NEW r \in Handlers,
         Serve(r) \/ (Begin(r) /\ UNCHANGED draftVars)
  PROVE  \E v : LocalOK(v) /\ local' = [local EXCEPT ![r] = v]
<1> DEFINE Goal == \E v : LocalOK(v) /\ local' = [local EXCEPT ![r] = v]
           u == local[r]
<1>0. /\ local = [q \in Handlers |-> local[q]] /\ LocalOK(u)
      /\ run[r] \in RunLocals
  BY DEF DraftInv, DraftTyped, TypeOK
<1>a. ASSUME UNCHANGED local
      PROVE  Goal
  <2>1. local' = [local EXCEPT ![r] = u]
    BY <1>0, <1>a
  <2> HIDE DEF u
  <2>2. QED
    BY <1>0, <2>1
<1>b. ASSUME Forget(r)
      PROVE  Goal
  BY <1>b, NoLocalOK DEF Forget
<1>c. ASSUME NEW v, LocalOK(v), local' = [local EXCEPT ![r] = v]
      PROVE  Goal
  BY <1>c
<1>l. {"start", "claim", "delete", "insert", "refund"} \subseteq Locals
  BY DEF Locals
<1>p. pending \subseteq PendingRow
  BY DEF DraftInv, DraftTyped
<1> SUFFICES Goal
  OBVIOUS
<1> HIDE DEF Goal, u
<1>1. CASE EngineOnly(r) \/ (Begin(r) /\ UNCHANGED draftVars)
  BY <1>1, <1>a, <1>b DEF EngineOnly, draftVars
<1>2. CASE ProposeStep(r)
  BY <1>2, <1>a DEF ProposeStep, ProposeCheck, Check, ProposeExecute,
                    ProposeApply, draftVars
<1>3. CASE ApproveCheck(r) \/ RejectCheck(r)
  BY <1>3, <1>a DEF ApproveCheck, RejectCheck, Check, draftVars
<1>4. CASE ApproveWithoutUnits(r) \/ ConfirmInsert(r) \/ RejectRefund(r)
  BY <1>4, <1>b DEF ApproveWithoutUnits, GiveUp, ConfirmInsert, RejectRefund
<1>5. CASE ApproveFindDraft(r)
  <2>1. CASE GiveUp(r)
    BY <2>1, <1>b DEF GiveUp
  <2>2. ASSUME NEW p \in DraftsOfLog(run[r].call.ref),
               local' = [local EXCEPT ![r].sub = "claim", ![r].draft = p.draft]
        PROVE  Goal
    <3>1. p.draft \in Refs
      BY <1>p DEF DraftsOfLog, PendingRow
    <3>2. local' = [local EXCEPT
                      ![r] = [u EXCEPT !.sub = "claim", !.draft = p.draft]]
      BY <1>0, <2>2 DEF u
    <3> DEFINE v == [u EXCEPT !.sub = "claim", !.draft = p.draft]
    <3>3. LocalOK(v)
      BY <1>0, <1>l, <3>1, DraftAssigned
    <3>4. local' = [local EXCEPT ![r] = v]
      BY <3>2
    <3> HIDE DEF v
    <3>5. QED
      BY <1>c, <3>3, <3>4
  <2>3. QED
    BY <1>5, <2>1, <2>2 DEF ApproveFindDraft
<1>6. CASE ApproveClaim(r)
  <2> DEFINE d == IF Sub(r, "claim") THEN local[r].draft ELSE run[r].call.ref
  <2>1. CASE GiveUp(r)
    BY <2>1, <1>b DEF GiveUp
  <2>2. ASSUME NEW p \in pending,
               local' = [local EXCEPT ![r] = [NoLocal EXCEPT
                           !.sub = "delete", !.draft = d, !.agent = p.agent]]
        PROVE  Goal
    <3>1. p.agent \in Agents
      BY <1>p DEF PendingRow
    <3>2. d \in Refs
      BY <1>0, CallTyped DEF u, LocalOK, RunLocals
    <3> HIDE DEF d
    <3> DEFINE v == [NoLocal EXCEPT !.sub = "delete", !.draft = d,
                                    !.agent = p.agent]
    <3>3. LocalOK(v)
      BY <1>l, <3>1, <3>2, NoLocalOK
    <3>4. local' = [local EXCEPT ![r] = v]
      BY <2>2
    <3> HIDE DEF v
    <3>5. QED
      BY <1>c, <3>3, <3>4
  <2>3. QED
    BY <1>6, <2>1, <2>2, Zenon DEF ApproveClaim
<1>7. ASSUME NEW s \in Locals, local' = [local EXCEPT ![r].sub = s]
      PROVE  Goal
  <2> DEFINE v == [u EXCEPT !.sub = s]
  <2>1. local' = [local EXCEPT ![r] = v]
    BY <1>0, <1>7 DEF u
  <2>2. LocalOK(v)
    BY <1>0, <1>7, SubAssigned
  <2> HIDE DEF v
  <2>3. QED
    BY <1>c, <2>1, <2>2
<1>8. CASE ApproveDelete(r) \/ RejectUpdate(r)
  BY <1>8, <1>7, <1>a, <1>l DEF ApproveDelete, RejectUpdate
<1>9. CASE ConfirmRead(r)
  <2> DEFINE b == Balance(local[r].agent)
             v == [u EXCEPT !.sub = "insert", !.balance = b]
  <2>1. local' = [local EXCEPT ![r].sub = "insert", ![r].balance = b]
    BY <1>9, Zenon DEF ConfirmRead
  <2> HIDE DEF b
  <2>2. local' = [local EXCEPT ![r] = v]
    BY <1>0, <2>1 DEF u
  <2>3. LocalOK(v)
    BY <1>0, <1>l, BalanceAssigned
  <2> HIDE DEF v
  <2>4. QED
    BY <1>c, <2>2, <2>3
<1>10. CASE RejectExecute(r)
  <2> DEFINE c == auditLog[run[r].call.ref].cost
             v == [u EXCEPT !.cost = c]
  <2>1. CASE UNCHANGED local
    BY <2>1, <1>a
  <2>2. CASE ~UNCHANGED local
    <3>1. /\ local' = [local EXCEPT ![r].cost = c]
          /\ Tool(r, "reject_draft") /\ pc[r] = "execute"
      BY <1>10, <2>2 DEF RejectExecute, ExecuteSucceeds, At
    <3>2. run[r].call.ref \in DOMAIN auditLog
      BY <3>1 DEF DraftInv, DraftTyped, ToolOK, RejectOK, Passed
    <3>3. c \in 0..MaxCost
      <4>1. auditLog[run[r].call.ref] \in AuditRow
        BY <3>2, LenProperties DEF DraftInv, TypeOK
      <4>2. QED
        BY <4>1 DEF AuditRow
    <3> HIDE DEF c
    <3>4. local' = [local EXCEPT ![r] = v]
      BY <1>0, <3>1 DEF u
    <3>5. LocalOK(v)
      BY <1>0, <3>3, CostAssigned
    <3> HIDE DEF v
    <3>6. QED
      BY <1>c, <3>4, <3>5
  <2>3. QED
    BY <2>1, <2>2
<1>11. QED
  BY <1>1, <1>2, <1>3, <1>4, <1>5, <1>6, <1>8, <1>9, <1>10
     DEF Serve, ApproveStep, RejectStep
LEMMA HandlerStep ==
  ASSUME DraftInv, NEW r \in Handlers,
         Serve(r) \/ (Begin(r) /\ UNCHANGED draftVars)
  PROVE  /\ local' = [q \in Handlers |-> local'[q]]
         /\ \A q \in Handlers : LocalOK(local'[q])
         /\ \A q \in Handlers : q # r => /\ pc'[q] = pc[q] /\ run'[q] = run[q]
                                        /\ local'[q] = local[q]
<1>1. PICK v : LocalOK(v) /\ local' = [local EXCEPT ![r] = v]
  BY LocalStep
<1>2. local = [q \in Handlers |-> local[q]] /\ \A q \in Handlers : LocalOK(local[q])
  BY DEF DraftInv, DraftTyped
<1>3. /\ local' = [q \in Handlers |-> local'[q]]
      /\ local'[r] = v /\ \A q \in Handlers : q # r => local'[q] = local[q]
  BY <1>1, <1>2
<1>4. \A q \in Handlers : LocalOK(local'[q])
  BY <1>1, <1>2, <1>3
<1>5. UNCHANGED engineVars \/ Begin(r) \/ EngineStep(r) \/ ToolStep(r)
  BY ServeIsEngine
<1>6. \A q \in Handlers : q # r => pc'[q] = pc[q] /\ run'[q] = run[q]
  <2>1. CASE UNCHANGED engineVars
    BY <2>1 DEF engineVars
  <2>2. QED
    BY <1>5, <2>1, EngineMoves DEF DraftInv
<1>7. QED
  BY <1>3, <1>4, <1>6

\* Only two statements write the ledger.
LEMMA LedgerKeptBy ==
  ASSUME NEW r \in Handlers, Serve(r) \/ (Begin(r) /\ UNCHANGED draftVars),
         ~ConfirmInsert(r), ~RejectUpdate(r)
  PROVE  ledger' = ledger
<1>1. CASE EngineOnly(r) \/ ProposeStep(r) \/ UNCHANGED draftVars
  BY <1>1 DEF EngineOnly, ProposeStep, ProposeCheck, ProposeExecute,
              ProposeApply, Check, draftVars
<1>2. CASE ApproveStep(r)
  <2>1. ApproveCheck(r) \/ ApproveWithoutUnits(r) \/ ApproveFindDraft(r)
        => ledger' = ledger
    BY DEF ApproveCheck, ApproveWithoutUnits, ApproveFindDraft, Check,
           GiveUp, draftVars
  <2>2. ApproveClaim(r) \/ ApproveDelete(r) \/ ConfirmRead(r) => ledger' = ledger
    BY Zenon DEF ApproveClaim, ApproveDelete, ConfirmRead, GiveUp
  <2>3. QED
    BY <1>2, <2>1, <2>2 DEF ApproveStep
<1>3. CASE RejectStep(r)
  BY <1>3 DEF RejectStep, RejectCheck, RejectExecute, RejectRefund, Check,
              draftVars
<1>4. QED
  BY <1>1, <1>2, <1>3 DEF Serve

LEMMA LedgerWrites ==
  ASSUME [DraftNext]_vars
  PROVE  \/ ledger' = ledger
         \/ \E r \in Handlers : ConfirmInsert(r) \/ RejectUpdate(r)
BY LedgerKeptBy DEF DraftNext, Advance, Leave, Restart, vars, draftVars

\* Only two write the pending rows.
LEMMA PendingWrites ==
  ASSUME [DraftNext]_vars
  PROVE  \/ pending' \subseteq pending
         \/ \E r \in Handlers : ProposeApply(r)
<1>1. ASSUME NEW r \in Handlers, Serve(r), ~ProposeApply(r)
      PROVE  pending' \subseteq pending
  <2>1. CASE EngineOnly(r) \/ ProposeStep(r)
    BY <1>1, <2>1 DEF EngineOnly, ProposeStep, ProposeCheck, ProposeExecute,
                      Check, draftVars
  <2>2. CASE ApproveStep(r)
    <3>1. ApproveCheck(r) \/ ApproveWithoutUnits(r) \/ ApproveFindDraft(r)
          => pending' = pending
      BY DEF ApproveCheck, ApproveWithoutUnits, ApproveFindDraft, Check,
             GiveUp, draftVars
    <3>2. ApproveClaim(r) \/ ConfirmRead(r) \/ ConfirmInsert(r)
          => pending' = pending
      BY Zenon DEF ApproveClaim, ConfirmInsert, ConfirmRead, GiveUp
    <3>3. ApproveDelete(r) => pending' \subseteq pending
      BY DEF ApproveDelete
    <3>4. QED
      BY <2>2, <3>1, <3>2, <3>3 DEF ApproveStep
  <2>3. CASE RejectStep(r)
    BY <2>3 DEF RejectStep, RejectCheck, RejectExecute, RejectUpdate,
                RejectRefund, Check, draftVars
  <2>4. QED
    BY <1>1, <2>1, <2>2, <2>3 DEF Serve
<1>2. QED
  BY <1>1 DEF DraftNext, Advance, Leave, Restart, vars, draftVars

\* Booking adds the entry of the call's own row.
LEMMA Booked ==
  ASSUME DraftInv, NEW r \in Handlers, ConfirmInsert(r)
  PROVE  /\ pc[r] = "apply" /\ Tool(r, "approve_draft")
         /\ run[r].log \in DOMAIN auditLog /\ run[r].log \notin DOMAIN ledger
         /\ auditLog' = auditLog /\ pc'[r] = "spend"
         /\ ledger' = [l \in DOMAIN ledger \cup {run[r].log} |->
                         IF l = run[r].log THEN LedgerRow(r) ELSE ledger[l]]
         /\ EntryOK(LedgerRow(r)) /\ LedgerRow(r).status = "confirmed"
<1>1. /\ pc[r] = "apply" /\ Tool(r, "approve_draft") /\ auditLog' = auditLog
      /\ pc' = [pc EXCEPT ![r] = "spend"]
      /\ ledger' = [l \in DOMAIN ledger \cup {run[r].log} |->
                      IF l = run[r].log THEN LedgerRow(r) ELSE ledger[l]]
  BY Zenon DEF ConfirmInsert, ApplySucceeds, At, Goto, tables
<1>2. /\ run[r].log \in DOMAIN auditLog /\ run[r].log \notin DOMAIN ledger
      /\ LocalOK(local[r]) /\ run[r].eff.tokens \in Tokens
  BY <1>1 DEF DraftInv, DraftTyped, ToolOK, LoggedOK, Unbooked, TypeOK,
              RunLocals, Effects
<1>3. local[r].draft \in Refs /\ local[r].agent \in Agents
  BY <1>2 DEF LocalOK
<1>4. EntryOK(LedgerRow(r)) /\ LedgerRow(r).status = "confirmed"
  BY <1>2, <1>3 DEF LedgerRow, EntryOK
<1>5. pc'[r] = "spend"
  BY <1>1 DEF DraftInv, TypeOK
<1>6. QED
  BY <1>1, <1>2, <1>4, <1>5

\* Rejecting changes the status of the entry that was asked for, and no more.
LEMMA Rejected ==
  ASSUME DraftInv, NEW r \in Handlers, RejectUpdate(r)
  PROVE  LET e == run[r].call.ref IN
         /\ pc[r] = "apply" /\ Tool(r, "reject_draft")
         /\ e \in DOMAIN ledger /\ auditLog' = auditLog
         /\ DOMAIN ledger' = DOMAIN ledger
         /\ ledger' = [l \in DOMAIN ledger |-> ledger'[l]]
         /\ \A l \in DOMAIN ledger :
              /\ EntryOK(ledger'[l]) /\ ledger'[l].agent = ledger[l].agent
              /\ ledger'[l].delta = ledger[l].delta
              /\ ledger'[l].draft = ledger[l].draft
              /\ ledger'[l].status =
                   IF l = e THEN "rejected" ELSE ledger[l].status
<1> DEFINE e == run[r].call.ref
           w(l) == [ledger[l] EXCEPT !.status = "rejected"]
<1>1. /\ pc[r] = "apply" /\ Tool(r, "reject_draft")
      /\ auditLog' = auditLog
      /\ ledger' = [l \in DOMAIN ledger |->
                      IF l = run[r].eff.ref THEN w(l) ELSE ledger[l]]
  BY DEF RejectUpdate, ApplySucceeds, At, tables, engineVars
<1>2. e \in DOMAIN ledger /\ run[r].eff.ref = e
  BY <1>1 DEF DraftInv, ToolOK, RejectOK, Passed, Decided
<1>3. \A l \in DOMAIN ledger : EntryOK(ledger[l])
  BY DEF DraftInv, DraftTyped
<1>4. \A l \in DOMAIN ledger :
        /\ EntryOK(w(l)) /\ w(l).status = "rejected"
        /\ w(l).agent = ledger[l].agent /\ w(l).delta = ledger[l].delta
        /\ w(l).draft = ledger[l].draft
  BY <1>3, EntryRejected
<1> HIDE DEF w, e
<1>5. /\ DOMAIN ledger' = DOMAIN ledger
      /\ ledger' = [l \in DOMAIN ledger |-> ledger'[l]]
      /\ \A l \in DOMAIN ledger : ledger'[l] = IF l = e THEN w(l) ELSE ledger[l]
  BY <1>1, <1>2
<1>6. QED
  BY <1>1, <1>2, <1>3, <1>4, <1>5 DEF e
LEMMA LedgerGrows ==
  ASSUME DraftInv, [DraftNext]_vars
  PROVE  DOMAIN ledger \subseteq DOMAIN ledger'
<1>1. ASSUME NEW r \in Handlers, ConfirmInsert(r)
      PROVE  DOMAIN ledger \subseteq DOMAIN ledger'
  BY <1>1, Booked
<1>2. ASSUME NEW r \in Handlers, RejectUpdate(r)
      PROVE  DOMAIN ledger \subseteq DOMAIN ledger'
  BY <1>2, Rejected
<1>3. QED
  BY <1>1, <1>2, LedgerWrites
-----------------------------------------------------------------------------
(* What a step leaves to the handler it serves.                            *)

LEMMA Rests ==
  ASSUME NEW r \in Handlers, pc'[r] \notin Passed, local'[r].sub = "start"
  PROVE  ToolOK(r)'
BY DEF ToolOK, ApproveOK, RejectOK, ProposeOK, LoggedOK, SubOK, Tool, Sub,
       Passed, Decided

\* Between its statements a tool stops only in Steps 3 and 6.
LEMMA StartsOutside ==
  ASSUME DraftInv, NEW r \in Handlers, pc[r] \notin {"execute", "apply"}
  PROVE  local[r].sub = "start"
BY DEF DraftInv, DraftTyped, LocalOK, Locals, ToolOK, SubOK, Sub

\* The steps of the engine that leave Steps 2.5 to 6, or are outside them.
LEMMA EngineRests ==
  ASSUME DraftInv, NEW r \in Handlers,
         EngineOnly(r) \/ (Begin(r) /\ UNCHANGED draftVars),
         ~CheckAndReserve(r), ~CalculateEffects(r), ~WriteAuditLog(r)
  PROVE  ToolOK(r)'
<1>0. pc \in [Handlers -> Labels]
  BY DEF DraftInv, TypeOK
<1>1. ASSUME pc[r] \notin {"execute", "apply"}, local' = local,
             NEW l, l \notin Passed, Goto(r, l)
      PROVE  ToolOK(r)'
  <2>1. pc'[r] = l /\ local'[r].sub = "start"
    BY <1>0, <1>1, StartsOutside DEF Goto
  <2>2. QED
    BY <1>1, <2>1, Rests
<1>2. ASSUME Forget(r), NEW l, l \notin Passed, Goto(r, l)
      PROVE  ToolOK(r)'
  <2>1. local'[r] = NoLocal
    <3>1. local = [q \in Handlers |-> local[q]]
      BY DEF DraftInv, DraftTyped
    <3>2. QED
      BY <1>2, <3>1 DEF Forget
  <2>2. pc'[r] = l /\ local'[r].sub = "start"
    BY <1>0, <1>2, <2>1, NoLocalOK DEF Goto
  <2>3. QED
    BY <1>2, <2>2, Rests
<1>3. CASE /\ \/ ExecuteStatementFails(r) \/ AuditLogFails(r)
              \/ ApplyStatementFails(r) \/ ReleaseReservation(r)
              \/ LogRejection(r)
           /\ Forget(r)
  <2>1. \E l : l \notin Passed /\ Goto(r, l)
    BY <1>3, Zenon DEF ExecuteStatementFails, AuditLogFails,
       ApplyStatementFails, ReleaseReservation, LogRejection, Return, Passed
  <2>2. QED
    BY <1>2, <1>3, <2>1
<1>4. CASE /\ \/ GetCovenant(r) \/ GetMember(r) \/ IdentityFails(r)
              \/ RateLimitGate(r) \/ GateFails(r) \/ RecordSpend(r)
              \/ RecordSpendFails(r) \/ SettleReservation(r) \/ Begin(r)
           /\ UNCHANGED draftVars
  <2>1. pc[r] \notin {"execute", "apply"} /\ local' = local
    BY <1>4 DEF GetCovenant, GetMember, IdentityFails, RateLimitGate, GateFails,
       RecordSpend, RecordSpendFails, SettleReservation, Begin, At, draftVars
  <2>2. \/ GetMember(r) \/ IdentityFails(r) \/ RateLimitGate(r) \/ GateFails(r)
        \/ RecordSpendFails(r) \/ SettleReservation(r)
        => \E l : l \notin Passed /\ Goto(r, l)
    BY Zenon DEF GetMember, IdentityFails, RateLimitGate, GateFails,
       RecordSpendFails, SettleReservation, Return, Passed
  <2>3. GetCovenant(r) \/ Begin(r) => \E l : l \notin Passed /\ Goto(r, l)
    BY Zenon DEF GetCovenant, Begin, Passed
  <2>4. RecordSpend(r) => \E l : l \notin Passed /\ Goto(r, l)
    BY DEF RecordSpend, Return, Passed
  <2>5. QED
    BY <1>1, <1>4, <2>1, <2>2, <2>3, <2>4
<1>5. QED
  BY <1>3, <1>4 DEF EngineOnly

\* The steps of the engine from gate to side effects, which keep the call.
LEMMA EngineGoesOn ==
  ASSUME DraftInv, NEW r \in Handlers, EngineOnly(r),
         CheckAndReserve(r) \/ CalculateEffects(r) \/ WriteAuditLog(r)
  PROVE  ToolOK(r)'
<1>0. /\ pc \in [Handlers -> Labels] /\ run \in [Handlers -> RunLocals]
      /\ run[r] \in RunLocals
      /\ auditLog \in Seq(AuditRow) /\ Len(auditLog) \in Nat
      /\ DOMAIN auditLog = 1..Len(auditLog)
  BY LenProperties DEF DraftInv, TypeOK
<1>1. /\ pc[r] \notin {"execute", "apply"} /\ local' = local /\ ledger' = ledger
      /\ local'[r].sub = "start"
  <2>1. pc[r] \notin {"execute", "apply"}
    BY DEF CheckAndReserve, CalculateEffects, WriteAuditLog, At
  <2>2. CASE UNCHANGED draftVars
    BY <2>1, <2>2, StartsOutside DEF draftVars
  <2>3. CASE ~UNCHANGED draftVars
    <3>1. \/ ExecuteStatementFails(r) \/ AuditLogFails(r)
          \/ ApplyStatementFails(r) \/ ReleaseReservation(r) \/ LogRejection(r)
      BY <2>3 DEF EngineOnly
    <3>2. AuditLogFails(r) \/ ReleaseReservation(r) \/ LogRejection(r)
      BY <2>1, <3>1 DEF ExecuteStatementFails, ApplyStatementFails, At
    <3>3. PICK l \in {"release", "idle", "reject"} : pc' = [pc EXCEPT ![r] = l]
      BY <3>2, Zenon DEF AuditLogFails, ReleaseReservation, LogRejection,
                         Return, Goto
    <3>4. pc'[r] \in {"release", "idle", "reject"} /\ pc[r] \in {"audit",
             "release", "releaseReject", "reject"}
      BY <1>0, <3>2, <3>3 DEF AuditLogFails, ReleaseReservation, LogRejection, At
    <3>5. /\ pc[r] = "audit" /\ pc' = [pc EXCEPT ![r] = "apply"]
      BY <3>4 DEF CheckAndReserve, CalculateEffects, WriteAuditLog, At, Goto
    <3>6. QED
      BY <1>0, <3>4, <3>5
  <2>4. QED
    BY <2>2, <2>3
<1>2. CASE CheckAndReserve(r) /\ pc'[r] = "execute"
  <2>1. run[r].call = run'[r].call /\ run'[r].state = run[r].state
    <3>1. \/ run' = run
          \/ run' = [run EXCEPT
                       ![r] = [run[r] EXCEPT !.resv = Len(reservations) + 1]]
      BY <1>2 DEF CheckAndReserve
    <3> DEFINE M == [run[r] EXCEPT !.resv = Len(reservations) + 1]
    <3>2. M.call = run[r].call /\ M.state = run[r].state
      BY <1>0, RunAssigned
    <3> HIDE DEF M
    <3>3. run' = run \/ run' = [run EXCEPT ![r] = M]
      BY <3>1 DEF M
    <3>4. QED
      BY <1>0, <3>2, <3>3
  <2>2. pc[r] = "reserve"
    BY <1>2 DEF CheckAndReserve, At
  <2>3. QED
    BY <1>1, <1>2, <2>1, <2>2
       DEF DraftInv, ToolOK, ApproveOK, RejectOK, ProposeOK, LoggedOK, SubOK,
           Tool, Sub, Passed, Decided
<1>3. CASE CalculateEffects(r)
  <2>1. /\ pc[r] = "effects" /\ run' = run /\ auditLog' = auditLog
        /\ pc'[r] \in {"releaseReject", "audit"}
    BY <1>0, <1>3 DEF CalculateEffects, At, Goto, tables
  <2>2. QED
    BY <1>1, <2>1
       DEF DraftInv, ToolOK, ApproveOK, RejectOK, ProposeOK, LoggedOK, SubOK,
           Tool, Sub, Passed, Decided
<1>4. CASE WriteAuditLog(r)
  <2> DEFINE n == Len(auditLog) + 1
             M == [run[r] EXCEPT !.log = n]
  <2>1. /\ pc[r] = "audit" /\ pc'[r] = "apply"
        /\ auditLog' = Append(auditLog, SuccessRow(r))
        /\ run' = [run EXCEPT ![r] = M]
    BY <1>0, <1>4 DEF WriteAuditLog, At, Goto
  <2>2. /\ M.call = run[r].call /\ M.state = run[r].state /\ M.no = run[r].no
        /\ M.eff = run[r].eff /\ M.log = n
    BY <1>0, RunAssigned
  <2> HIDE DEF M
  <2>3. /\ run'[r].call = run[r].call /\ run'[r].state = run[r].state
        /\ run'[r].no = run[r].no /\ run'[r].eff = run[r].eff
        /\ run'[r].log = n
    BY <1>0, <2>1, <2>2
  <2>4. SuccessRow(r) \in AuditRow
    BY RowsTyped DEF DraftInv
  <2>5. /\ n \in DOMAIN auditLog' /\ auditLog'[n] = SuccessRow(r)
    <3>1. auditLog' \in Seq(AuditRow) /\ Len(auditLog') = n /\ auditLog'[n] = SuccessRow(r)
      BY <1>0, <2>1, <2>4, Appended
    <3>2. QED
      BY <1>0, <3>1, LenProperties
  <2>6. LoggedOK(r)'
    BY <2>3, <2>5 DEF LoggedOK, SuccessRow
  <2>7. [Next]_engineVars
    BY <1>4 DEF Next, EngineStep
  <2>8. LogGrows
    BY <2>7, LogStep DEF DraftInv
  <2>9. ApproveOK(r)'
    <3>1. Tool(r, "approve_draft") =>
            /\ run[r].call.agent = Owner /\ run[r].state = "ACTIVE"
            /\ run[r].eff.ref = local[r].draft
            /\ ProposedIn(auditLog, local[r].draft, local[r].agent, Len(auditLog))
      BY <2>1 DEF DraftInv, ToolOK, ApproveOK, Passed, Decided
    <3>2. n - 1 = Len(auditLog)
      BY <1>0
    <3>3. Tool(r, "approve_draft") =>
            ProposedIn(auditLog', local[r].draft, local[r].agent, n - 1)
      BY <1>0, <2>8, <3>1, <3>2, ProposedStays
    <3> HIDE DEF n
    <3>4. QED
      BY <1>1, <2>1, <2>3, <3>1, <3>3 DEF ApproveOK, Tool, Sub
  <2>10. RejectOK(r)'
    <3>1. Tool(r, "reject_draft") =>
            /\ run[r].call.ref \in DOMAIN ledger
            /\ run[r].eff.ref = run[r].call.ref
      BY <2>1 DEF DraftInv, ToolOK, RejectOK, Passed, Decided
    <3>2. DOMAIN ledger \subseteq 1..Len(auditLog)
      BY <1>0 DEF DraftInv, DraftTyped
    <3>3. Tool(r, "reject_draft") => run[r].call.ref < n
      BY <1>0, <3>1, <3>2
    <3> HIDE DEF n
    <3>4. QED
      BY <1>1, <2>1, <2>3, <3>1, <3>3 DEF RejectOK, Tool
  <2>11. ProposeOK(r)' /\ SubOK(r)'
    BY <1>1, <2>1, <2>3 DEF DraftInv, ToolOK, ProposeOK, SubOK, Tool, Sub, Decided
  <2>12. QED
    BY <2>6, <2>9, <2>10, <2>11 DEF ToolOK
<1>5. CASE CheckAndReserve(r) /\ pc'[r] # "execute"
  <2>1. pc'[r] = "reject"
    BY <1>0, <1>5 DEF CheckAndReserve, Goto
  <2>2. QED
    BY <1>1, <2>1, Rests DEF Passed
<1>6. QED
  BY <1>2, <1>3, <1>4, <1>5
\* What the ends of Steps 2 and 3 do to the call.
LEMMA Checks ==
  ASSUME DraftInv, NEW r \in Handlers, NEW c, Check(r, c)
  PROVE  /\ pc[r] = "preconditions" /\ UNCHANGED <<run, draftVars, auditLog>>
         /\ local'[r].sub = "start"
         /\ \/ c /\ pc'[r] = "reserve"
            \/ pc'[r] = "reject"
<1>1. pc \in [Handlers -> Labels]
  BY DEF DraftInv, TypeOK
<1>2. pc[r] = "preconditions" /\ UNCHANGED <<run, draftVars, auditLog>>
  BY DEF Check, PreconditionsPass, PreconditionsFail, At, tables
<1>3. local'[r].sub = "start"
  BY <1>2, StartsOutside DEF draftVars
<1>4. QED
  BY <1>1, <1>2, <1>3 DEF Check, PreconditionsPass, PreconditionsFail, Goto

LEMMA Executes ==
  ASSUME DraftInv, NEW r \in Handlers, NEW eff,
         ExecuteSucceeds(r, eff) \/ ExecuteOverlooks(r, eff)
  PROVE  /\ pc[r] = "execute" /\ pc'[r] = "effects" /\ auditLog' = auditLog
         /\ run'[r].eff = eff
         /\ run'[r].call = run[r].call /\ run'[r].state = run[r].state
         /\ run'[r].no = run[r].no
<1> DEFINE M == [run[r] EXCEPT !.eff = eff]
<1>1. /\ pc \in [Handlers -> Labels] /\ run \in [Handlers -> RunLocals]
      /\ run[r] \in RunLocals
  BY DEF DraftInv, TypeOK
<1>2. /\ pc[r] = "execute" /\ pc' = [pc EXCEPT ![r] = "effects"]
      /\ auditLog' = auditLog /\ run' = [run EXCEPT ![r] = M]
  BY DEF ExecuteSucceeds, ExecuteOverlooks, At, Goto, tables
<1>3. /\ M.no = run[r].no /\ M.call = run[r].call
      /\ M.state = run[r].state /\ M.eff = eff
  BY <1>1, RunAssigned
<1> HIDE DEF M
<1>4. run'[r] = M /\ pc'[r] = "effects"
  BY <1>1, <1>2
<1>5. QED
  BY <1>2, <1>3, <1>4

LEMMA GivesUp ==
  ASSUME DraftInv, NEW r \in Handlers, GiveUp(r)
  PROVE  ToolOK(r)'
<1>1. /\ pc' = [pc EXCEPT ![r] = "releaseReject"]
      /\ local' = [local EXCEPT ![r] = NoLocal]
  BY DEF GiveUp, ExecuteFails, Goto, Forget
<1>2. pc \in [Handlers -> Labels] /\ local = [q \in Handlers |-> local[q]]
  BY DEF DraftInv, DraftTyped, TypeOK
<1>3. pc'[r] = "releaseReject" /\ local'[r] = NoLocal
  BY <1>1, <1>2
<1>4. QED
  BY <1>3, NoLocalOK, Rests DEF Passed

\* Step 6 ends and the tool keeps nothing.
LEMMA Applies ==
  ASSUME DraftInv, NEW r \in Handlers, Goto(r, "spend"), local'[r].sub = "start"
  PROVE  ToolOK(r)'
<1>1. pc'[r] = "spend"
  BY DEF DraftInv, TypeOK, Goto
<1>2. QED
  BY <1>1, Rests DEF Passed

LEMMA ProposeServed ==
  ASSUME DraftInv, NEW r \in Handlers, ProposeStep(r)
  PROVE  ToolOK(r)'
<1>1. CASE ProposeCheck(r)
  BY <1>1, Checks
     DEF ProposeCheck, ToolOK, ApproveOK, RejectOK, ProposeOK, LoggedOK, SubOK,
         Tool, Sub, Passed, Decided
<1>2. CASE ProposeExecute(r)
  <2>1. /\ Tool(r, "propose_passage") /\ local' = local
        /\ ExecuteSucceeds(r, EffectOf(r, 0, run[r].no))
    BY <1>2 DEF ProposeExecute, draftVars
  <2>2. local[r].sub = "start"
    BY <2>1 DEF DraftInv, DraftTyped, LocalOK, Locals, ToolOK, SubOK, Tool, Sub
  <2>3. /\ pc'[r] = "effects" /\ run'[r].call = run[r].call
        /\ run'[r].eff.ref = run'[r].no
    BY <2>1, Executes DEF EffectOf
  <2>4. QED
    BY <2>1, <2>2, <2>3
       DEF ToolOK, ApproveOK, RejectOK, ProposeOK, LoggedOK, SubOK, Tool, Sub
<1>3. CASE ProposeApply(r)
  <2>1. /\ Tool(r, "propose_passage") /\ local' = local /\ Goto(r, "spend")
    BY <1>3 DEF ProposeApply, ApplySucceeds
  <2>2. local[r].sub = "start"
    BY <2>1 DEF DraftInv, DraftTyped, LocalOK, Locals, ToolOK, SubOK, Tool, Sub
  <2>3. QED
    BY <2>1, <2>2, Applies
<1>4. QED
  BY <1>1, <1>2, <1>3 DEF ProposeStep

LEMMA ApproveServed ==
  ASSUME DraftInv, NEW r \in Handlers, ApproveStep(r)
  PROVE  ToolOK(r)'
<1>0. /\ local = [q \in Handlers |-> local[q]] /\ LocalOK(local[r])
      /\ "claim" \in Locals /\ "delete" \in Locals /\ "start" \in Locals
      /\ "insert" \in Locals
      /\ pc \in [Handlers -> Labels]
      /\ pending \subseteq PendingRow /\ run[r].call.ref \in Refs
  BY CallTyped DEF DraftInv, DraftTyped, TypeOK, Locals, RunLocals
<1>1. CASE ApproveCheck(r)
  BY <1>1, Checks
     DEF ApproveCheck, ToolOK, ApproveOK, RejectOK, ProposeOK, LoggedOK, SubOK,
         Tool, Sub, Passed, Decided
<1>2. CASE GiveUp(r)
  BY <1>2, GivesUp
\* A statement of Step 3 that is not its last.
<1>a. ASSUME Tool(r, "approve_draft"), pc[r] = "execute",
             UNCHANGED <<engineVars, ledger>>,
             NEW v, LocalOK(v), v.sub \in {"claim", "delete"},
             local' = [local EXCEPT ![r] = v],
             v.sub = "delete" =>
               ProposedIn(auditLog, v.draft, v.agent, Len(auditLog))
      PROVE  ToolOK(r)'
  <2>1. local'[r] = v /\ pc'[r] = "execute" /\ run' = run /\ auditLog' = auditLog
    BY <1>0, <1>a DEF engineVars, tables
  <2>2. QED
    BY <1>a, <2>1
       DEF DraftInv, ToolOK, ApproveOK, RejectOK, ProposeOK, LoggedOK, SubOK,
           Tool, Sub, Passed, Decided
<1>3. CASE ApproveFindDraft(r) /\ ~GiveUp(r)
  <2>1. PICK p \in DraftsOfLog(run[r].call.ref) :
          local' = [local EXCEPT ![r].sub = "claim", ![r].draft = p.draft]
    BY <1>3, Zenon DEF ApproveFindDraft
  <2>2. /\ Tool(r, "approve_draft") /\ pc[r] = "execute"
        /\ UNCHANGED <<engineVars, ledger>>
    BY <1>3 DEF ApproveFindDraft, At
  <2> DEFINE u == local[r]
             v == [u EXCEPT !.sub = "claim", !.draft = p.draft]
  <2>3. p.draft \in Refs
    BY <1>0 DEF DraftsOfLog, PendingRow
  <2>4. local' = [local EXCEPT ![r] = v]
    BY <1>0, <2>1
  <2>5. LocalOK(u)
    BY <1>0
  <2> HIDE DEF u
  <2>6. LocalOK(v) /\ v.sub = "claim"
    <3>1. LocalOK(v)
      BY <1>0, <2>3, <2>5, DraftAssigned
    <3>2. v.sub = "claim"
      BY <2>5 DEF LocalOK
    <3>3. QED
      BY <3>1, <3>2
  <2> HIDE DEF v
  <2>7. QED
    BY <1>a, <2>2, <2>4, <2>6
<1>4. CASE ApproveClaim(r) /\ ~GiveUp(r)
  <2> DEFINE d == IF Sub(r, "claim") THEN local[r].draft ELSE run[r].call.ref
             v(a) == [NoLocal EXCEPT !.sub = "delete", !.draft = d, !.agent = a]
  <2>1. PICK p \in pending : p.draft = d /\ local' = [local EXCEPT ![r] = v(p.agent)]
    BY <1>4, Zenon DEF ApproveClaim
  <2>2. /\ Tool(r, "approve_draft") /\ pc[r] = "execute"
        /\ UNCHANGED <<engineVars, ledger>>
    BY <1>4, Zenon DEF ApproveClaim, At
  <2>3. /\ p.agent \in Agents /\ p.draft \in Refs
        /\ ProposedIn(auditLog, p.draft, p.agent, Len(auditLog))
    BY <1>0 DEF PendingRow, DraftInv, PendingProposed
  <2> HIDE DEF d
  <2> DEFINE w == v(p.agent)
  <2>4. LocalOK(w) /\ w.sub = "delete" /\ w.draft = d /\ w.agent = p.agent
    <3>1. d \in Refs
      BY <2>1, <2>3
    <3>2. LocalOK(w)
      BY <1>0, <2>3, <3>1, NoLocalOK
    <3>3. w.sub = "delete" /\ w.draft = d /\ w.agent = p.agent
      BY DEF NoLocal
    <3>4. QED
      BY <3>2, <3>3
  <2>5. local' = [local EXCEPT ![r] = w]
    BY <2>1
  <2> HIDE DEF w
  <2>6. QED
    BY <1>a, <2>1, <2>2, <2>3, <2>4, <2>5
<1>5. CASE ApproveDelete(r)
  <2>1. /\ Tool(r, "approve_draft") /\ Sub(r, "delete")
        /\ ExecuteSucceeds(r, EffectOf(r, run[r].call.award, local[r].draft))
        /\ local' = [local EXCEPT ![r].sub = "start"]
    BY <1>5 DEF ApproveDelete
  <2> DEFINE u == local[r]
             v == [u EXCEPT !.sub = "start"]
  <2>2. local'[r] = v
    BY <1>0, <2>1
  <2>3. LocalOK(u)
    BY <1>0
  <2> HIDE DEF u
  <2>4. v.sub = "start" /\ v.draft = u.draft /\ v.agent = u.agent
    BY <1>0, <2>3, SubAssigned
  <2> HIDE DEF v
  <2>5. /\ pc[r] = "execute" /\ pc'[r] = "effects" /\ auditLog' = auditLog
        /\ run'[r].call = run[r].call /\ run'[r].state = run[r].state
        /\ run'[r].eff.ref = u.draft
    BY <2>1, Executes DEF EffectOf, u
  <2>6. ToolOK(r)
    BY DEF DraftInv
  <2>7. ApproveOK(r)'
    BY <2>1, <2>2, <2>4, <2>5, <2>6
       DEF ToolOK, ApproveOK, Tool, Sub, Passed, Decided, u
  <2>8. QED
    BY <2>1, <2>2, <2>4, <2>5, <2>7
       DEF ToolOK, RejectOK, ProposeOK, LoggedOK, SubOK, Tool, Sub
<1>6. CASE ConfirmRead(r)
  <2> DEFINE u == local[r]
             b == Balance(local[r].agent)
             v == [u EXCEPT !.sub = "insert", !.balance = b]
  <2>1. /\ Tool(r, "approve_draft") /\ pc[r] = "apply"
        /\ local' = [local EXCEPT ![r].sub = "insert", ![r].balance = b]
        /\ UNCHANGED engineVars
    BY <1>6, Zenon DEF ConfirmRead, At
  <2> HIDE DEF b
  <2>2. local'[r] = v
    BY <1>0, <2>1
  <2>3. LocalOK(u)
    BY <1>0
  <2> HIDE DEF u
  <2>4. v.sub = "insert" /\ v.draft = u.draft /\ v.agent = u.agent
    BY <2>3 DEF LocalOK
  <2> HIDE DEF v
  <2>5. pc' = pc /\ run' = run /\ auditLog' = auditLog
    BY <2>1 DEF engineVars, tables
  <2>6. ToolOK(r)
    BY DEF DraftInv
  <2>7. ApproveOK(r)' /\ LoggedOK(r)'
    BY <2>1, <2>2, <2>4, <2>5, <2>6
       DEF ToolOK, ApproveOK, LoggedOK, SuccessRow, Tool, Sub, Passed, Decided, u
  <2>8. QED
    BY <2>1, <2>2, <2>4, <2>5, <2>7
       DEF ToolOK, RejectOK, ProposeOK, SubOK, Tool, Sub
<1>7. CASE ConfirmInsert(r)
  <2>1. Goto(r, "spend") /\ local' = [local EXCEPT ![r] = NoLocal]
    BY <1>7, Zenon DEF ConfirmInsert, ApplySucceeds, Forget
  <2>2. local'[r] = NoLocal
    BY <1>0, <2>1
  <2>3. QED
    BY <2>1, <2>2, NoLocalOK, Applies
<1>8. QED
  BY <1>1, <1>2, <1>3, <1>4, <1>5, <1>6, <1>7
     DEF ApproveStep, ApproveWithoutUnits
LEMMA RejectServed ==
  ASSUME DraftInv, NEW r \in Handlers, RejectStep(r)
  PROVE  ToolOK(r)'
<1>0. /\ local = [q \in Handlers |-> local[q]] /\ LocalOK(local[r])
      /\ "start" \in Locals /\ "refund" \in Locals
      /\ pc \in [Handlers -> Labels]
  BY DEF DraftInv, DraftTyped, TypeOK, Locals
<1> DEFINE u == local[r]
<1>u. LocalOK(u)
  BY <1>0
<1>1. CASE RejectCheck(r)
  <2>1. /\ Tool(r, "reject_draft")
        /\ Check(r, /\ run[r].call.agent = Owner
                    /\ run[r].call.ref \in DOMAIN ledger
                    /\ ledger[run[r].call.ref].status # "rejected")
    BY <1>1 DEF RejectCheck
  <2>2. /\ UNCHANGED <<run, ledger>> /\ local'[r].sub = "start"
        /\ \/ run[r].call.ref \in DOMAIN ledger /\ pc'[r] = "reserve"
           \/ pc'[r] = "reject"
    BY <2>1, Checks DEF draftVars
  <2>3. QED
    BY <2>1, <2>2
       DEF ToolOK, ApproveOK, RejectOK, ProposeOK, LoggedOK, SubOK,
           Tool, Sub, Passed, Decided
<1>2. CASE RejectExecute(r)
  <2> DEFINE eff == EffectOf(r, 0, run[r].call.ref)
             c == auditLog[run[r].call.ref].cost
             v == [u EXCEPT !.cost = c]
  <2>1. /\ Tool(r, "reject_draft") /\ ledger' = ledger
        /\ ExecuteSucceeds(r, eff) \/ ExecuteOverlooks(r, eff)
        /\ local' = local \/ local' = [local EXCEPT ![r].cost = c]
    BY <1>2 DEF RejectExecute
  <2>2. /\ pc[r] = "execute" /\ pc'[r] = "effects"
        /\ run'[r].eff.ref = run[r].call.ref /\ run'[r].call = run[r].call
    BY <2>1, Executes DEF EffectOf
  <2>3. u.sub = "start"
    BY <1>0, <2>1, <2>2 DEF DraftInv, LocalOK, Locals, ToolOK, SubOK, Tool, Sub
  <2> HIDE DEF c
  <2>4. local'[r] = u \/ local'[r] = v
    BY <1>0, <2>1
  <2> HIDE DEF u
  <2>5. v.sub = "start"
    BY <1>u, <2>3 DEF LocalOK
  <2> HIDE DEF v
  <2>6. local'[r].sub = "start"
    BY <2>3, <2>4, <2>5
  <2>7. run[r].call.ref \in DOMAIN ledger
    BY <2>1, <2>2 DEF DraftInv, ToolOK, RejectOK, Passed
  <2>8. QED
    BY <2>1, <2>2, <2>6, <2>7
       DEF ToolOK, ApproveOK, RejectOK, ProposeOK, LoggedOK, SubOK, Tool, Sub
<1>3. CASE RejectUpdate(r) /\ local[r].cost > 0 /\ UNCHANGED engineVars
  <2> DEFINE v == [u EXCEPT !.sub = "refund"]
  <2>1. /\ pc[r] = "apply" /\ Tool(r, "reject_draft")
        /\ DOMAIN ledger' = DOMAIN ledger
    BY <1>3, Rejected
  <2>2. pc' = pc /\ run' = run /\ auditLog' = auditLog
    BY <1>3 DEF engineVars, tables
  <2>3. local'[r] = v
    <3>1. local' = [local EXCEPT ![r].sub = "refund"]
      <4>1. \/ local' = [local EXCEPT ![r].sub = "refund"]
            \/ ApplySucceeds(r)
        BY <1>3 DEF RejectUpdate
      <4>2. ~ApplySucceeds(r)
        BY <1>0, <2>1, <2>2 DEF ApplySucceeds, Goto
      <4>3. QED
        BY <4>1, <4>2
    <3>2. QED
      BY <1>0, <3>1
  <2>4. u.cost > 0
    BY <1>3
  <2> HIDE DEF u
  <2>5. v.sub = "refund" /\ v.cost > 0
    BY <1>u, <2>4 DEF LocalOK
  <2> HIDE DEF v
  <2>6. ToolOK(r)
    BY DEF DraftInv
  <2>7. RejectOK(r)' /\ LoggedOK(r)'
    BY <2>1, <2>2, <2>6
       DEF ToolOK, RejectOK, LoggedOK, SuccessRow, Tool, Passed, Decided
  <2>8. ApproveOK(r)' /\ ProposeOK(r)' /\ SubOK(r)'
    BY <2>1, <2>2, <2>3, <2>5 DEF ApproveOK, ProposeOK, SubOK, Tool, Sub
  <2>9. QED
    BY <2>7, <2>8 DEF ToolOK
<1>4. CASE RejectUpdate(r) /\ ApplySucceeds(r) /\ UNCHANGED local
  BY <1>4, Applies DEF RejectUpdate, ApplySucceeds, Sub
<1>5. CASE RejectRefund(r)
  <2>1. Goto(r, "spend") /\ local' = [local EXCEPT ![r] = NoLocal]
    BY <1>5 DEF RejectRefund, ApplyRefund, Forget
  <2>2. local'[r] = NoLocal
    BY <1>0, <2>1
  <2>3. QED
    BY <2>1, <2>2, NoLocalOK, Applies
<1>6. RejectUpdate(r) =>
        \/ local[r].cost > 0 /\ UNCHANGED engineVars
        \/ ApplySucceeds(r) /\ UNCHANGED local
  BY DEF RejectUpdate
<1>7. QED
  BY <1>1, <1>2, <1>3, <1>4, <1>5, <1>6 DEF RejectStep
LEMMA Served ==
  ASSUME DraftInv, NEW r \in Handlers,
         Serve(r) \/ (Begin(r) /\ UNCHANGED draftVars)
  PROVE  ToolOK(r)'
<1>1. CASE EngineOnly(r) \/ (Begin(r) /\ UNCHANGED draftVars)
  <2>1. Begin(r) /\ UNCHANGED draftVars =>
          ~CheckAndReserve(r) /\ ~CalculateEffects(r) /\ ~WriteAuditLog(r)
    BY DEF Begin, CheckAndReserve, CalculateEffects, WriteAuditLog, At
  <2>2. QED
    BY <1>1, <2>1, EngineRests, EngineGoesOn
<1>2. QED
  BY <1>1, ProposeServed, ApproveServed, RejectServed DEF Serve
-----------------------------------------------------------------------------
(* What a step leaves of each part of the invariant.                       *)

\* The parts of a step that no handler takes, and that leave the tables of the
\* tools and what the handlers are doing alone.
LEMMA OtherSteps ==
  ASSUME [DraftNext]_vars
  PROVE  \/ \E r \in Handlers : Serve(r) \/ (Begin(r) /\ UNCHANGED draftVars)
         \/ Restart
         \/ UNCHANGED <<pc, run, draftVars>>
<1>1. ASSUME SetBudget \/ HourPasses, UNCHANGED draftVars
      PROVE  UNCHANGED <<pc, run, draftVars>>
  BY <1>1 DEF SetBudget, HourPasses
<1>2. Advance => UNCHANGED <<pc, run, draftVars>>
  BY DEF Advance, CovenantChanges
<1>3. Leave => UNCHANGED <<pc, run, draftVars>>
  BY DEF Leave
<1>4. UNCHANGED vars => UNCHANGED <<pc, run, draftVars>>
  BY DEF vars, engineVars
<1>5. QED
  BY <1>1, <1>2, <1>3, <1>4 DEF DraftNext

LEMMA ToolsKept ==
  ASSUME DraftInv, [DraftNext]_vars, LogGrows
  PROVE  /\ \A q \in Handlers : ToolOK(q)'
         /\ local' = [q \in Handlers |-> local'[q]]
         /\ \A q \in Handlers : LocalOK(local'[q])
<1>0. TypeOK /\ DOMAIN ledger \subseteq DOMAIN ledger'
  BY LedgerGrows DEF DraftInv
<1>1. ASSUME NEW r \in Handlers, Serve(r) \/ (Begin(r) /\ UNCHANGED draftVars)
      PROVE  \A q \in Handlers : ToolOK(q)'
  <2>1. \A q \in Handlers : q # r => /\ pc'[q] = pc[q] /\ run'[q] = run[q]
                                    /\ local'[q] = local[q]
    BY <1>1, HandlerStep
  <2>2. ToolOK(r)'
    BY <1>1, Served
  <2>3. ASSUME NEW q \in Handlers, q # r
        PROVE  ToolOK(q)'
    BY <1>0, <2>1, <2>3, OthersKeep DEF DraftInv
  <2>4. QED
    BY <2>2, <2>3
<1>2. CASE Restart
  <2>1. /\ pc' = [q \in Handlers |-> "idle"]
        /\ local' = [q \in Handlers |-> NoLocal]
    BY <1>2 DEF Restart, Crash
  <2>2. \A q \in Handlers : pc'[q] = "idle" /\ local'[q] = NoLocal
    BY <2>1
  <2>3. ASSUME NEW q \in Handlers
        PROVE  ToolOK(q)'
    BY <2>2, NoLocalOK, Rests DEF Passed
  <2>4. \A q \in Handlers : LocalOK(local'[q])
    BY <2>2, NoLocalOK
  <2>5. local' = [q \in Handlers |-> local'[q]]
    BY <2>1
  <2>6. QED
    BY <2>3, <2>4, <2>5
<1>3. CASE UNCHANGED <<pc, run, draftVars>>
  <2>1. ASSUME NEW q \in Handlers
        PROVE  ToolOK(q)'
    BY <1>0, <1>3, OthersKeep DEF DraftInv, draftVars
  <2>2. QED
    BY <1>3, <2>1 DEF DraftInv, DraftTyped, draftVars
<1>4. QED
  <2>1. CASE \E r \in Handlers : Serve(r) \/ (Begin(r) /\ UNCHANGED draftVars)
    BY <1>1, <2>1, HandlerStep
  <2>2. QED
    BY <1>2, <1>3, <2>1, OtherSteps

\* A handler that comes to Step 6 has just logged its success.
LEMMA ToApply ==
  ASSUME TypeOK, [Next]_engineVars, NEW q \in Handlers, pc'[q] = "apply"
  PROVE  \/ pc[q] = "apply" /\ run'[q] = run[q]
         \/ WriteAuditLog(q)
<1>0. pc \in [Handlers -> Labels]
  BY DEF TypeOK
<1>1. ASSUME NEW r \in Handlers, r # q, Begin(r) \/ EngineStep(r) \/ ToolStep(r)
      PROVE  pc[q] = "apply" /\ run'[q] = run[q]
  BY <1>1, EngineMoves
<1>2. ASSUME NEW l, Goto(q, l)
      PROVE  l = "apply"
  BY <1>0, <1>2 DEF Goto
<1>3. ~Begin(q) /\ ~Return(q)
  BY <1>2 DEF Begin, Return
<1>4. EngineStep(q) => WriteAuditLog(q)
  <2>1. /\ ~GetCovenant(q) /\ ~GetMember(q) /\ ~IdentityFails(q)
        /\ ~RateLimitGate(q) /\ ~GateFails(q) /\ ~CheckAndReserve(q)
        /\ ~ExecuteStatementFails(q)
    BY <1>2, <1>3 DEF GetCovenant, GetMember, IdentityFails, RateLimitGate,
       GateFails, CheckAndReserve, ExecuteStatementFails
  <2>2. /\ ~AuditLogFails(q) /\ ~ApplyStatementFails(q) /\ ~RecordSpend(q)
        /\ ~RecordSpendFails(q) /\ ~SettleReservation(q)
        /\ ~ReleaseReservation(q) /\ ~LogRejection(q)
    BY <1>2, <1>3 DEF AuditLogFails, ApplyStatementFails,
       RecordSpend, RecordSpendFails, SettleReservation, ReleaseReservation,
       LogRejection
  <2>3. ~CalculateEffects(q)
    BY <1>0 DEF CalculateEffects, Goto
  <2>4. QED
    BY <2>1, <2>2, <2>3 DEF EngineStep
<1>5. ~ToolStep(q)
  BY <1>2 DEF ToolStep, PreconditionsPass, PreconditionsFail,
     ExecuteSucceeds, ExecuteOverlooks, ExecuteFails, ApplySucceeds, ApplyFails,
     ApplyOverlooks, ApplyRefund
<1>6. CASE Environment \/ CovenantChanges \/ MemberChanges \/ UNCHANGED engineVars
  <2>1. CASE Crash
    BY <2>1 DEF Crash
  <2>2. QED
    BY <1>6, <2>1 DEF Environment, SetBudget, HourPasses, CovenantChanges,
                      MemberChanges, engineVars
<1>7. QED
  BY <1>1, <1>3, <1>4, <1>5, <1>6 DEF Next

LEMMA UnbookedKept ==
  ASSUME DraftInv, [DraftNext]_vars
  PROVE  Unbooked'
<1>0. /\ pc \in [Handlers -> Labels] /\ TypeOK /\ Unbooked /\ LogOnce
      /\ DOMAIN ledger \subseteq DOMAIN auditLog
  BY DEF DraftInv, TypeOK, ChargeInv, DraftTyped
<1>1. ASSUME NEW r \in Handlers, ConfirmInsert(r)
      PROVE  Unbooked'
  <2>1. /\ pc' = [pc EXCEPT ![r] = "spend"] /\ run' = run /\ pc[r] = "apply"
        /\ DOMAIN ledger' = DOMAIN ledger \cup {run[r].log}
    BY <1>1, Zenon DEF ConfirmInsert, ApplySucceeds, At, Goto
  <2>2. \A q \in Handlers : pc'[q] = "apply" => q # r /\ pc[q] = "apply"
    BY <1>0, <2>1
  <2>3. \A q \in Handlers : pc'[q] = "apply" => run[q].log # run[r].log
    BY <1>0, <2>1, <2>2 DEF LogOnce, Logged
  <2>4. QED
    BY <1>0, <2>1, <2>2, <2>3 DEF Unbooked, Tool
<1>2. ASSUME NEW r \in Handlers, RejectUpdate(r)
      PROVE  Unbooked'
  <2>1. run' = run /\ (pc' = pc \/ pc' = [pc EXCEPT ![r] = "spend"])
    BY <1>2 DEF RejectUpdate, ApplySucceeds, Goto, engineVars
  <2>2. DOMAIN ledger' = DOMAIN ledger
    BY <1>2, Rejected
  <2>3. \A q \in Handlers : pc'[q] = "apply" => pc[q] = "apply"
    BY <1>0, <2>1
  <2>4. QED
    BY <1>0, <2>1, <2>2, <2>3 DEF Unbooked, Tool
<1>3. CASE ledger' = ledger
  <2> SUFFICES ASSUME NEW q \in Handlers, pc'[q] = "apply",
                      run'[q].call.tool = "approve_draft"
               PROVE  run'[q].log \notin DOMAIN ledger
    BY <1>3 DEF Unbooked, Tool
  <2>1. \/ pc[q] = "apply" /\ run'[q] = run[q]
        \/ WriteAuditLog(q)
    BY <1>0, StepIsEngine, ToApply
  <2>2. CASE WriteAuditLog(q)
    <3> DEFINE n == Len(auditLog) + 1
               M == [run[q] EXCEPT !.log = n]
    <3>1. run' = [run EXCEPT ![q] = M]
      BY <2>2 DEF WriteAuditLog
    <3>2. M.log = n
      BY <1>0, RunAssigned DEF TypeOK
    <3> HIDE DEF M
    <3>3. run'[q].log = n
      BY <1>0, <3>1, <3>2 DEF TypeOK
    <3>4. Len(auditLog) \in Nat /\ DOMAIN auditLog = 1..Len(auditLog)
      BY <1>0, LenProperties DEF TypeOK
    <3>5. n \notin DOMAIN auditLog
      BY <3>4
    <3> HIDE DEF n
    <3>6. QED
      BY <1>0, <3>3, <3>5
  <2>3. QED
    BY <1>0, <2>1, <2>2 DEF Unbooked, Tool
<1>4. QED
  BY <1>1, <1>2, <1>3, LedgerWrites

LEMMA PendingKept ==
  ASSUME DraftInv, [DraftNext]_vars, LogGrows
  PROVE  pending' \subseteq PendingRow /\ PendingProposed'
<1>0. pending \subseteq PendingRow /\ TypeOK
  BY DEF DraftInv, DraftTyped
<1>1. \A p \in pending : ProposedIn(auditLog', p.draft, p.agent, Len(auditLog'))
  BY ProposedStays DEF DraftInv, PendingProposed, LogGrows
<1>2. CASE pending' \subseteq pending
  BY <1>0, <1>1, <1>2 DEF PendingProposed
<1>3. ASSUME NEW r \in Handlers, ProposeApply(r)
      PROVE  pending' \subseteq PendingRow /\ PendingProposed'
  <2> DEFINE d == run[r].eff.ref
             a == run[r].call.agent
             n == run[r].log
  <2>1. /\ pc[r] = "apply" /\ Tool(r, "propose_passage")
        /\ pending' = pending \cup {[draft |-> d, agent |-> a]}
    BY <1>3 DEF ProposeApply, ApplySucceeds, At
  <2>2. d \in Refs /\ a \in Agents
    BY <1>0, CallTyped DEF TypeOK, RunLocals, Effects
  <2>3. n \in DOMAIN auditLog /\ auditLog[n] = SuccessRow(r)
    BY <2>1 DEF DraftInv, ToolOK, LoggedOK
  <2>4. /\ auditLog[n].result = "success"
        /\ auditLog[n].tool = "propose_passage"
        /\ auditLog[n].ref = d /\ auditLog[n].agent = a
    BY <2>1, <2>3 DEF SuccessRow, Tool
  <2> HIDE DEF d, a, n
  <2>5. n \in 1..Len(auditLog) /\ n <= Len(auditLog)
    BY <2>3 DEF LogGrows
  <2>6. ProposedIn(auditLog, d, a, Len(auditLog))
    BY <2>3, <2>4, <2>5 DEF ProposedIn
  <2>7. ProposedIn(auditLog', d, a, Len(auditLog'))
    BY <2>6, ProposedStays DEF LogGrows
  <2>8. QED
    BY <1>0, <1>1, <2>1, <2>2, <2>7 DEF PendingProposed, PendingRow
<1>4. QED
  BY <1>2, <1>3, PendingWrites

\* An entry that is backed by the log: approved, reversed only on request, and
\* of a draft that its beneficiary proposed.
EntryLogged(log, l, e) ==
  /\ l \in DOMAIN log
  /\ log[l].result = "success" /\ log[l].tool = "approve_draft"
  /\ log[l].agent = Owner /\ log[l].before = "ACTIVE"
  /\ log[l].tokens = e.delta /\ log[l].ref = e.draft
  /\ e.status = "rejected" =>
       \E k \in DOMAIN log :
         /\ k > l /\ log[k].result = "success"
         /\ log[k].tool = "reject_draft" /\ log[k].ref = l

LEMMA EntryStaysLogged ==
  ASSUME LogGrows, NEW l, NEW e, EntryLogged(auditLog, l, e)
  PROVE  EntryLogged(auditLog', l, e)
BY DEF LogGrows, EntryLogged

LEMMA LedgerKept ==
  ASSUME DraftInv, [DraftNext]_vars, LogGrows
  PROVE  /\ DOMAIN ledger' \subseteq DOMAIN auditLog'
         /\ ledger' = [l \in DOMAIN ledger' |-> ledger'[l]]
         /\ \A l \in DOMAIN ledger' :
              /\ EntryOK(ledger'[l])
              /\ EntryLogged(auditLog', l, ledger'[l])
              /\ ProposedIn(auditLog', ledger'[l].draft, ledger'[l].agent, l - 1)
<1>0. /\ DOMAIN ledger \subseteq DOMAIN auditLog /\ TypeOK
      /\ ledger = [l \in DOMAIN ledger |-> ledger[l]]
      /\ DOMAIN auditLog \subseteq DOMAIN auditLog'
      /\ DOMAIN auditLog \subseteq Nat
  BY DEF DraftInv, DraftTyped, LogGrows
<1>1. \A l \in DOMAIN ledger :
        /\ EntryOK(ledger[l]) /\ l \in Nat
        /\ EntryLogged(auditLog, l, ledger[l])
        /\ ProposedIn(auditLog, ledger[l].draft, ledger[l].agent, l - 1)
  <2>1. ASSUME NEW l \in DOMAIN ledger
        PROVE  EntryOK(ledger[l]) /\ l \in Nat
               /\ EntryLogged(auditLog, l, ledger[l])
    BY <1>0 DEF DraftInv, DraftTyped, BookIsLogged, Success, EntryLogged
  <2>2. ASSUME NEW l \in DOMAIN ledger
        PROVE  ProposedIn(auditLog, ledger[l].draft, ledger[l].agent, l - 1)
    <3>1. PICK k \in DOMAIN auditLog :
            /\ k < l /\ Success(k, "propose_passage")
            /\ auditLog[k].ref = ledger[l].draft
            /\ auditLog[k].agent = ledger[l].agent
      BY DEF DraftInv, AwardGoesToProposer
    <3>2. k <= l - 1
      BY <1>0, <3>1
    <3>3. QED
      BY <3>1, <3>2 DEF ProposedIn, Success
  <2>3. QED
    BY <2>1, <2>2
<1>2. \A l \in DOMAIN ledger :
        /\ EntryLogged(auditLog', l, ledger[l])
        /\ ProposedIn(auditLog', ledger[l].draft, ledger[l].agent, l - 1)
  <2>1. ASSUME NEW l \in DOMAIN ledger
        PROVE  EntryLogged(auditLog', l, ledger[l])
    BY <1>1, EntryStaysLogged
  <2>2. ASSUME NEW l \in DOMAIN ledger
        PROVE  ProposedIn(auditLog', ledger[l].draft, ledger[l].agent, l - 1)
    BY <1>1, ProposedStays
  <2>3. QED
    BY <2>1, <2>2
<1>3. CASE ledger' = ledger
  BY <1>0, <1>1, <1>2, <1>3
<1>4. ASSUME NEW r \in Handlers, ConfirmInsert(r)
      PROVE  /\ DOMAIN ledger' \subseteq DOMAIN auditLog'
             /\ ledger' = [l \in DOMAIN ledger' |-> ledger'[l]]
             /\ \A l \in DOMAIN ledger' :
                  /\ EntryOK(ledger'[l])
                  /\ EntryLogged(auditLog', l, ledger'[l])
                  /\ ProposedIn(auditLog', ledger'[l].draft,
                                ledger'[l].agent, l - 1)
  <2> DEFINE n == run[r].log
             e == LedgerRow(r)
  <2>1. /\ pc[r] = "apply" /\ Tool(r, "approve_draft")
        /\ n \in DOMAIN auditLog /\ auditLog' = auditLog
        /\ ledger' = [l \in DOMAIN ledger \cup {n} |->
                        IF l = n THEN e ELSE ledger[l]]
        /\ EntryOK(e) /\ e.status = "confirmed"
    BY <1>4, Booked
  <2>2. auditLog[n] = SuccessRow(r) /\ ApproveOK(r)
    BY <2>1 DEF DraftInv, ToolOK, LoggedOK
  <2>3. /\ e.agent = local[r].agent /\ e.draft = local[r].draft
        /\ e.delta = run[r].eff.tokens
    BY DEF LedgerRow
  <2>4. ProposedIn(auditLog, e.draft, e.agent, n - 1)
    BY <2>1, <2>2, <2>3 DEF ApproveOK
  <2>5. EntryLogged(auditLog, n, e)
    <3>1. /\ run[r].call.agent = Owner /\ run[r].state = "ACTIVE"
          /\ run[r].eff.ref = local[r].draft
      BY <2>1, <2>2 DEF ApproveOK, Passed, Decided
    <3>2. /\ auditLog[n].result = "success"
          /\ auditLog[n].tool = "approve_draft"
          /\ auditLog[n].agent = Owner /\ auditLog[n].before = "ACTIVE"
          /\ auditLog[n].tokens = e.delta /\ auditLog[n].ref = e.draft
      BY <2>1, <2>2, <2>3, <3>1 DEF SuccessRow, Tool
    <3> HIDE DEF e, n
    <3>3. QED
      BY <2>1, <3>2 DEF EntryLogged
  <2> HIDE DEF e, n
  <2>6. DOMAIN ledger' = DOMAIN ledger \cup {n}
    BY <2>1
  <2>7. \A l \in DOMAIN ledger' : ledger'[l] = IF l = n THEN e ELSE ledger[l]
    BY <2>1
  <2>8. QED
    BY <1>0, <1>1, <1>2, <2>1, <2>4, <2>5, <2>6, <2>7
<1>5. ASSUME NEW r \in Handlers, RejectUpdate(r)
      PROVE  /\ DOMAIN ledger' \subseteq DOMAIN auditLog'
             /\ ledger' = [l \in DOMAIN ledger' |-> ledger'[l]]
             /\ \A l \in DOMAIN ledger' :
                  /\ EntryOK(ledger'[l])
                  /\ EntryLogged(auditLog', l, ledger'[l])
                  /\ ProposedIn(auditLog', ledger'[l].draft,
                                ledger'[l].agent, l - 1)
  <2> DEFINE x == run[r].call.ref
             n == run[r].log
  <2>1. /\ pc[r] = "apply" /\ Tool(r, "reject_draft")
        /\ x \in DOMAIN ledger /\ auditLog' = auditLog
        /\ DOMAIN ledger' = DOMAIN ledger
        /\ ledger' = [l \in DOMAIN ledger |-> ledger'[l]]
        /\ \A l \in DOMAIN ledger :
             /\ EntryOK(ledger'[l]) /\ ledger'[l].agent = ledger[l].agent
             /\ ledger'[l].delta = ledger[l].delta
             /\ ledger'[l].draft = ledger[l].draft
             /\ ledger'[l].status =
                  IF l = x THEN "rejected" ELSE ledger[l].status
    BY <1>5, Rejected
  <2>2. /\ n \in DOMAIN auditLog /\ auditLog[n] = SuccessRow(r)
        /\ run[r].eff.ref = x /\ x < n
    BY <2>1 DEF DraftInv, ToolOK, LoggedOK, RejectOK, Decided
  <2>3. /\ auditLog[n].result = "success" /\ auditLog[n].tool = "reject_draft"
        /\ auditLog[n].ref = x
    BY <2>1, <2>2 DEF SuccessRow, Tool
  <2> HIDE DEF x, n
  <2>4. ASSUME NEW l \in DOMAIN ledger
        PROVE  EntryLogged(auditLog', l, ledger'[l])
    <3>1. CASE l = x
      <4>1. n > l
        BY <1>0, <2>1, <2>2, <3>1
      <4>2. QED
        BY <1>1, <2>1, <2>2, <2>3, <3>1, <4>1 DEF EntryLogged
    <3>2. CASE l # x
      BY <1>1, <2>1, <3>2 DEF EntryLogged
    <3>3. QED
      BY <3>1, <3>2
  <2>5. QED
    BY <1>0, <1>1, <2>1, <2>4
<1>6. QED
  BY <1>3, <1>4, <1>5, LedgerWrites

LEMMA BookKept ==
  ASSUME DraftInv, [DraftNext]_vars, LogGrows
  PROVE  BookIsLogged' /\ AwardGoesToProposer'
<1>0. DOMAIN auditLog' \subseteq Nat
  BY DEF LogGrows
<1>1. BookIsLogged'
  BY LedgerKept DEF BookIsLogged, EntryLogged, Success
<1>2. AwardGoesToProposer'
  <2> SUFFICES ASSUME NEW l \in DOMAIN ledger'
               PROVE  \E k \in DOMAIN auditLog' :
                        /\ k < l
                        /\ auditLog'[k].result = "success"
                        /\ auditLog'[k].tool = "propose_passage"
                        /\ auditLog'[k].ref = ledger'[l].draft
                        /\ auditLog'[k].agent = ledger'[l].agent
    BY DEF AwardGoesToProposer, Success
  <2>1. /\ ProposedIn(auditLog', ledger'[l].draft, ledger'[l].agent, l - 1)
        /\ l \in Nat
    BY <1>0, LedgerKept
  <2>2. QED
    BY <1>0, <2>1 DEF ProposedIn
<1>3. QED
  BY <1>1, <1>2
-----------------------------------------------------------------------------
LEMMA DraftInvInit == DraftInit => DraftInv
<1> SUFFICES ASSUME DraftInit
             PROVE  DraftInv
  OBVIOUS
<1>1. TypeOK /\ ChargeInv
  BY TypeInit, ChargeInit DEF DraftInit
<1>2. /\ \A r \in Handlers : pc[r] = "idle" /\ local[r] = NoLocal
      /\ local = [r \in Handlers |-> local[r]]
      /\ pending = {} /\ DOMAIN ledger = {} /\ ledger = [l \in {} |-> l]
  BY DEF DraftInit, Init
<1>3. ledger = [l \in DOMAIN ledger |-> ledger[l]]
  BY <1>2
<1>4. DraftTyped
  BY <1>2, <1>3, NoLocalOK DEF DraftTyped
<1>5. \A r \in Handlers : ToolOK(r)
  BY <1>2, NoLocalOK DEF ToolOK, ApproveOK, RejectOK, ProposeOK, LoggedOK,
     SubOK, Tool, Sub, Passed, Decided
<1>6. PendingProposed /\ Unbooked /\ BookIsLogged /\ AwardGoesToProposer
  BY <1>2 DEF PendingProposed, Unbooked, BookIsLogged, AwardGoesToProposer
<1>7. QED
  BY <1>1, <1>4, <1>5, <1>6 DEF DraftInv

LEMMA DraftInvStep == DraftInv /\ [DraftNext]_vars => DraftInv'
<1> SUFFICES ASSUME DraftInv, [DraftNext]_vars
             PROVE  DraftInv'
  OBVIOUS
<1>1. [Next]_engineVars
  BY StepIsEngine
<1>2. TypeOK' /\ ChargeInv'
  BY <1>1, TypeStep, ChargeStep DEF DraftInv
<1>3. LogGrows
  BY <1>1, LogStep DEF DraftInv
<1>4. DraftTyped'
  BY <1>3, ToolsKept, PendingKept, LedgerKept DEF DraftTyped
<1>5. \A r \in Handlers : ToolOK(r)'
  BY <1>3, ToolsKept
<1>6. PendingProposed' /\ Unbooked' /\ BookIsLogged' /\ AwardGoesToProposer'
  BY <1>3, PendingKept, UnbookedKept, BookKept
<1>7. QED
  BY <1>2, <1>4, <1>5, <1>6 DEF DraftInv

LEMMA DraftInvariant == DraftSpec => []DraftInv
BY DraftInvInit, DraftInvStep, PTL DEF DraftSpec

\* The contribution tools implement the specification of the engine: a tool
\* is a choice of what the engine leaves open, so what is proved of the engine
\* is true of the tools.
THEOREM ToolsImplementEngine == DraftSpec => Spec
<1>1. DraftInit => Init
  BY DEF DraftInit
<1>2. DraftInv /\ [DraftNext]_vars => [Next]_engineVars
  BY StepIsEngine
<1>3. QED
  BY <1>1, <1>2, DraftInvariant, PTL DEF DraftSpec, Spec

\* A settled reservation names the success it was made for, under the tools of
\* a contribution too.
THEOREM ToolsSettleLogged == DraftSpec => []SettledIsLogged
BY ToolsImplementEngine, SettledReservationsAreLogged, PTL

\* The tables of the tools keep their types: no step books, claims or refunds
\* for an agent, a draft or an amount that is none.
THEOREM DraftTablesTyped == DraftSpec => []DraftTypeOK
<1>1. DraftInv => DraftTypeOK
  BY DEF DraftInv, DraftTyped, DraftTypeOK, LocalOK, EntryOK
<1>2. QED
  BY <1>1, DraftInvariant, PTL

\* Every entry of the ledger was logged before it was booked, as the owner's
\* approval of that draft for that amount while the covenant was ACTIVE, and
\* every reversal before it was made: for any number of concurrent approvals,
\* rejections, crashes and failing statements.
THEOREM BookAlwaysLogged == DraftSpec => []BookIsLogged
<1>1. DraftInv => BookIsLogged
  BY DEF DraftInv
<1>2. QED
  BY <1>1, DraftInvariant, PTL

\* The award of a draft goes to the agent whose proposal of that draft is in
\* the log before it, also where approve_draft finds the draft by a log_id.
THEOREM AwardAlwaysToProposer == DraftSpec => []AwardGoesToProposer
<1>1. DraftInv => AwardGoesToProposer
  BY DEF DraftInv
<1>2. QED
  BY <1>1, DraftInvariant, PTL
-----------------------------------------------------------------------------
(* The ledger is a book.                                                   *)

LEMMA BookStep ==
  ASSUME DraftInv, LogRoom,
         \/ ledger' = ledger
         \/ \E r \in Handlers : ConfirmInsert(r) \/ RejectUpdate(r)
  PROVE  [Book!Next]_Entries
<1>0. /\ DOMAIN ledger \subseteq 1..MaxCalls /\ DOMAIN auditLog \subseteq 1..MaxCalls
      /\ \A l \in DOMAIN ledger : EntryOK(ledger[l])
  <2>1. /\ DOMAIN auditLog = 1..Len(auditLog) /\ Len(auditLog) \in Nat
        /\ calls \in 0..MaxCalls
        /\ DOMAIN ledger \subseteq DOMAIN auditLog
        /\ \A l \in DOMAIN ledger : EntryOK(ledger[l])
    BY LenProperties DEF DraftInv, DraftTyped, TypeOK
  <2>2. Cardinality(Loggers) \in Nat
    <3>1. Loggers \in SUBSET Handlers
      BY DEF Loggers
    <3>2. IsFiniteSet(Loggers)
      BY <3>1, ConstantsAssumption, FS_Subset
    <3>3. QED
      BY <3>2, FS_CardinalityType
  <2>3. Len(auditLog) <= MaxCalls
    BY <2>1, <2>2, ConstantsAssumption DEF LogRoom
  <2>4. QED
    BY <2>1, <2>3, ConstantsAssumption
<1>1. DOMAIN Entries = DOMAIN ledger
  BY DEF Entries
<1>2. CASE ledger' = ledger
  BY <1>2 DEF Entries
<1>3. ASSUME NEW r \in Handlers, ConfirmInsert(r)
      PROVE  Book!Next
  <2> DEFINE n == run[r].log
             e == LedgerRow(r)
             b == [agent |-> e.agent, delta |-> e.delta, draft |-> e.draft,
                   status |-> e.status]
  <2>1. /\ n \in 1..MaxCalls /\ n \notin DOMAIN ledger
        /\ ledger' = [l \in DOMAIN ledger \cup {n} |->
                        IF l = n THEN e ELSE ledger[l]]
        /\ EntryOK(e) /\ e.status = "confirmed"
    BY <1>0, <1>3, Booked
  <2> HIDE DEF n, e
  <2>2. b \in Book!Entry /\ b.status = "confirmed"
    BY <2>1 DEF EntryOK, Book!Entry
  <2>3. Entries' = [l \in DOMAIN Entries \cup {n} |->
                      IF l = n THEN b ELSE Entries[l]]
    BY <1>1, <2>1 DEF Entries
  <2> HIDE DEF b
  <2>4. Book!Confirm(n, b)
    BY <1>1, <2>1, <2>2, <2>3 DEF Book!Confirm
  <2>5. QED
    BY <2>1, <2>2, <2>4 DEF Book!Next
<1>4. ASSUME NEW r \in Handlers, RejectUpdate(r)
      PROVE  [Book!Next]_Entries
  <2> DEFINE x == run[r].call.ref
  <2>1. /\ x \in DOMAIN ledger /\ DOMAIN ledger' = DOMAIN ledger
        /\ \A l \in DOMAIN ledger :
             /\ ledger'[l].agent = ledger[l].agent
             /\ ledger'[l].delta = ledger[l].delta
             /\ ledger'[l].draft = ledger[l].draft
             /\ ledger'[l].status =
                  IF l = x THEN "rejected" ELSE ledger[l].status
    BY <1>4, Rejected
  <2> HIDE DEF x
  <2>2. CASE ledger[x].status = "rejected"
    BY <2>1, <2>2 DEF Entries
  <2>3. CASE ledger[x].status # "rejected"
    <3>1. ledger[x].status = "confirmed"
      BY <1>0, <2>1, <2>3 DEF EntryOK
    <3>2. Entries' = [Entries EXCEPT ![x].status = "rejected"]
      BY <2>1 DEF Entries
    <3>3. Book!Reject(x)
      BY <1>1, <2>1, <3>1, <3>2 DEF Book!Reject, Entries
    <3>4. QED
      BY <1>0, <2>1, <3>3 DEF Book!Next
  <2>4. QED
    BY <2>2, <2>3
<1>5. QED
  BY <1>2, <1>3, <1>4

\* The ledger, whatever runs around it, is an append-only book: an entry is
\* booked once, under its own log id; its beneficiary, amount and draft never
\* change; it can only be rejected, for good; and none disappears.
THEOREM LedgerIsBook == DraftSpec => ImplementsBook
<1>1. DraftInit => Book!Init
  BY DEF DraftInit, Entries, Book!Init
<1>2. DraftInv /\ LogRoom /\ [DraftNext]_vars => [Book!Next]_Entries
  BY BookStep, LedgerWrites
<1>3. DraftSpec => []LogRoom
  BY ToolsImplementEngine, LogRoomAlways, PTL
<1>4. QED
  BY <1>1, <1>2, <1>3, DraftInvariant, PTL DEF DraftSpec, ImplementsBook, Book!Spec
-----------------------------------------------------------------------------
(* How often a draft is credited, and which drafts are lost.               *)

\* A call has a number of its own.
NumbersOK ==
  \A r \in Handlers : pc[r] # "idle" =>
    /\ run[r].no \in 1..calls
    /\ \A q \in Handlers : pc[q] # "idle" /\ run[q].no = run[r].no => q = r

Open(d) == \E p \in pending : p.draft = d

\* Draft d is open, in the hands of an approval, or booked.
Known(d) == Open(d) \/ Credits(d) # {} \/ Claimers(d) # {}

\* The steps of a call up to the end of its side effects.
Early == Labels \ {"idle", "spend", "settle", "release"}

\* A draft is known by the number of the call that proposed it, once that call
\* has opened it.
KnownOK ==
  /\ \A d \in Refs : Known(d) => d \in 1..calls
  /\ \A r \in Handlers : pc[r] \in Early => ~Known(run[r].no)

\* A draft that is open is not booked, and no approval has deleted it yet.
OpenOK ==
  \A d \in Refs :
    Open(d) => Credits(d) = {} /\ \A r \in Claimers(d) : Sub(r, "delete")

\* Approvals that have read one draft as pending book it once each.
ClaimsBounded ==
  \A d \in Refs :
    Cardinality(Credits(d)) + Cardinality(Claimers(d)) <= Cardinality(Handlers)

\* A logged proposal is of the draft with the number of its call.
ProposedOK ==
  /\ \A l \in Proposed : auditLog[l].ref \in 1..calls
  /\ \A k, l \in Proposed : auditLog[k].ref = auditLog[l].ref => k = l
  /\ \A l \in Proposed, r \in Handlers :
       pc[r] \in MayLog => auditLog[l].ref # run[r].no

CountInv == NumbersOK /\ KnownOK /\ OpenOK /\ ClaimsBounded /\ ProposedOK
-----------------------------------------------------------------------------
LEMMA NumbersStep == TypeOK /\ NumbersOK /\ [Next]_engineVars => NumbersOK'
<1> SUFFICES ASSUME TypeOK, NumbersOK, [Next]_engineVars
             PROVE  NumbersOK'
  OBVIOUS
<1>0. /\ pc \in [Handlers -> Labels] /\ run \in [Handlers -> RunLocals]
      /\ calls \in Nat
  BY DEF TypeOK
<1>1. ASSUME NEW r \in Handlers, Begin(r)
      PROVE  NumbersOK'
  <2>1. \A q \in Handlers : q # r => pc'[q] = pc[q] /\ run'[q] = run[q]
    BY <1>1, EngineMoves
  <2>2. calls' = calls + 1 /\ run'[r].no = calls + 1
    <3>1. PICK c \in Calls : run' = [run EXCEPT ![r] = RunOf(calls + 1, c)]
      BY <1>1 DEF Begin
    <3>2. run'[r] = RunOf(calls + 1, c)
      BY <1>0, <3>1
    <3>3. RunOf(calls + 1, c).no = calls + 1
      BY DEF RunOf
    <3>4. calls' = calls + 1
      BY <1>1 DEF Begin
    <3>5. QED
      BY <3>2, <3>3, <3>4
  <2>3. \A q \in Handlers : q # r /\ pc'[q] # "idle" =>
          run'[q].no \in 1..calls /\ run'[q].no # run'[r].no
    BY <1>0, <2>1, <2>2 DEF NumbersOK
  <2>4. \A q \in Handlers : pc'[q] # "idle" => run'[q].no \in 1..calls'
    BY <1>0, <2>2, <2>3
  <2>5. QED
    BY <2>1, <2>3, <2>4 DEF NumbersOK
<1>2. ASSUME NEW r \in Handlers, EngineStep(r) \/ ToolStep(r)
      PROVE  NumbersOK'
  <2>1. \A q \in Handlers : q # r => pc'[q] = pc[q] /\ run'[q] = run[q]
    BY <1>2, EngineMoves
  <2>2. /\ pc[r] # "idle"
        /\ pc'[r] # "idle" => run'[r].no = run[r].no
    BY <1>2, Flow DEF Follows
  <2>3. \A q \in Handlers : pc'[q] # "idle" =>
          pc[q] # "idle" /\ run'[q].no = run[q].no
    BY <2>1, <2>2
  <2>4. calls' = calls \/ calls' = calls + 1
    BY CountersStep
  <2>5. QED
    BY <1>0, <2>3, <2>4 DEF NumbersOK
<1>3. CASE Environment \/ CovenantChanges \/ MemberChanges \/ UNCHANGED engineVars
  <2>1. calls' = calls \/ calls' = calls + 1
    BY CountersStep
  <2>2. QED
    BY <1>0, <1>3, <2>1, NoCallMoves DEF NumbersOK
<1>4. QED
  BY <1>1, <1>2, <1>3 DEF Next
-----------------------------------------------------------------------------
(* What a step of a handler does to the draft it deals with.               *)

\* Handler r is about to book a draft that it has read as pending.
Claims(r) ==
  Tool(r, "approve_draft") /\ (Sub(r, "delete") \/ pc[r] \in Decided)

CreditsKept == \A d \in Refs : Credits(d)' = Credits(d)

\* The step deals with no draft; a proposal may fail as it is to be opened.
Rest(r) ==
  /\ ~Claims(r) /\ ~Claims(r)' /\ pending' = pending /\ CreditsKept
  /\ Tool(r, "propose_passage") /\ pc[r] = "apply" => StatementFails

Opens(r) ==
  /\ Tool(r, "propose_passage") /\ ~Claims(r) /\ ~Claims(r)'
  /\ pc[r] = "apply" /\ pc'[r] = "spend"
  /\ pending' = pending \cup {[draft |-> run[r].no,
                               agent |-> run[r].call.agent]}
  /\ CreditsKept

Takes(r) ==
  /\ ~Claims(r) /\ Claims(r)' /\ Sub(r, "delete")'
  /\ Open(local'[r].draft)
  /\ UNCHANGED <<engineVars, pending, ledger>>

Deletes(r) ==
  /\ Claims(r) /\ Claims(r)' /\ local'[r].draft = local[r].draft
  /\ pending' = {p \in pending : p.draft # local[r].draft}
  /\ CreditsKept

HoldsOn(r) ==
  /\ Claims(r) /\ Claims(r)' /\ local'[r].draft = local[r].draft
  /\ ~Sub(r, "delete") /\ pending' = pending /\ CreditsKept

Books(r) ==
  /\ Claims(r) /\ ~Sub(r, "delete") /\ ~Claims(r)' /\ pending' = pending
  /\ \A d \in Refs : Credits(d)' = IF d = local[r].draft
                                   THEN Credits(d) \cup {run[r].log}
                                   ELSE Credits(d)

Drops(r) ==
  /\ Claims(r) /\ ~Claims(r)' /\ pending' = pending /\ CreditsKept
  /\ StatementFails \/ ~CurrencyMatches

LEMMA EngineOnlyKind ==
  ASSUME DraftInv, NEW r \in Handlers,
         EngineOnly(r) \/ (Begin(r) /\ UNCHANGED draftVars)
  PROVE  Rest(r) \/ HoldsOn(r) \/ Drops(r)
<1>0. /\ pc \in [Handlers -> Labels] /\ TypeOK /\ pc[r] \in Labels
      /\ local = [q \in Handlers |-> local[q]]
      /\ SubOK(r)
  BY DEF DraftInv, DraftTyped, TypeOK, ToolOK
<1>1. pending' = pending /\ ledger' = ledger
  BY DEF EngineOnly, draftVars
<1>2. CreditsKept
  BY <1>1 DEF CreditsKept, Credits
<1>3. CASE CalculateEffects(r) /\ UNCHANGED draftVars
  <2>1. /\ pc[r] = "effects" /\ run' = run /\ local' = local
        /\ pc'[r] = IF run[r].call.cost > 0 /\ ~CurrencyMatches
                    THEN "releaseReject" ELSE "audit"
    BY <1>0, <1>3 DEF CalculateEffects, At, Goto, draftVars
  <2>2. QED
    BY <1>0, <1>1, <1>2, <2>1
       DEF Rest, HoldsOn, Drops, Claims, Tool, Sub, SubOK, Decided
<1>4. CASE WriteAuditLog(r) /\ UNCHANGED draftVars
  <2>1. /\ pc[r] = "audit" /\ pc'[r] = "apply" /\ local' = local
        /\ EngineStep(r)
    BY <1>0, <1>4 DEF WriteAuditLog, At, Goto, draftVars, EngineStep
  <2>2. run'[r].call = run[r].call
    BY <1>0, <2>1, Flow DEF Follows
  <2>3. QED
    BY <1>0, <1>1, <1>2, <2>1, <2>2
       DEF Rest, HoldsOn, Drops, Claims, Tool, Sub, SubOK, Decided
<1>5. CASE /\ \/ ExecuteStatementFails(r) \/ AuditLogFails(r)
              \/ ApplyStatementFails(r) \/ ReleaseReservation(r)
              \/ LogRejection(r)
           /\ Forget(r)
  <2>1. local'[r].sub = "start"
    <3>1. local'[r] = NoLocal
      BY <1>0, <1>5 DEF Forget
    <3>2. QED
      BY <3>1, NoLocalOK
  <2>2. pc'[r] \in {"idle", "reject", "release", "releaseReject"}
    <3>1. \E l \in {"idle", "reject", "release", "releaseReject"} : Goto(r, l)
      BY <1>5, Zenon DEF ExecuteStatementFails, AuditLogFails,
         ApplyStatementFails, ReleaseReservation, LogRejection, Return
    <3>2. QED
      BY <1>0, <3>1 DEF Goto
  <2>3. \/ StatementFails
        \/ pc[r] \in {"release", "releaseReject", "reject"}
    BY <1>5, Zenon DEF ExecuteStatementFails, AuditLogFails, At,
       ApplyStatementFails, ReleaseReservation, LogRejection
  <2>4. ~Claims(r)'
    BY <2>1, <2>2 DEF Claims, Sub, Decided
  <2>5. Claims(r) => StatementFails
    BY <1>0, <2>3 DEF Claims, SubOK, Sub, Decided
  <2>6. pc[r] = "apply" => StatementFails
    BY <2>3
  <2>7. QED
    BY <1>1, <1>2, <2>4, <2>5, <2>6 DEF Rest, Drops
<1>6. CASE /\ \/ GetCovenant(r) \/ GetMember(r) \/ IdentityFails(r)
              \/ RateLimitGate(r) \/ GateFails(r) \/ CheckAndReserve(r)
              \/ RecordSpend(r)
              \/ RecordSpendFails(r) \/ SettleReservation(r) \/ Begin(r)
           /\ UNCHANGED draftVars
  <2>1. /\ pc[r] \notin Decided \cup {"execute"} /\ local' = local
    BY <1>6 DEF GetCovenant, GetMember, IdentityFails, RateLimitGate, GateFails,
       RecordSpend, RecordSpendFails, SettleReservation, Begin, At, draftVars,
       CheckAndReserve, Decided
  <2>2. pc'[r] \notin Decided
    <3>1. CASE Begin(r)
      BY <1>0, <3>1 DEF Begin, Goto, Decided
    <3>2. CASE ~Begin(r)
      <4>1. EngineStep(r)
        BY <1>6, <3>2 DEF EngineStep
      <4>2. Follows(r)
        BY <1>0, <4>1, Flow
      <4>3. QED
        BY <2>1, <4>2 DEF Follows, Edge, Decided
    <3>3. QED
      BY <3>1, <3>2
  <2>3. ~Claims(r) /\ ~Claims(r)'
    BY <1>0, <2>1, <2>2 DEF Claims, Sub, SubOK
  <2>4. QED
    BY <1>1, <1>2, <2>1, <2>3 DEF Rest, Decided
<1>7. QED
  BY <1>3, <1>4, <1>5, <1>6 DEF EngineOnly

LEMMA ProposeKind ==
  ASSUME DraftInv, NEW r \in Handlers, ProposeStep(r)
  PROVE  Rest(r) \/ Opens(r)
<1>0. /\ pc \in [Handlers -> Labels] /\ ProposeOK(r)
  BY DEF DraftInv, TypeOK, ToolOK
<1>1. Tool(r, "propose_passage")
  BY DEF ProposeStep, ProposeCheck, ProposeExecute, ProposeApply
<1>2. ~Claims(r)
  BY <1>1 DEF Claims, Tool
<1>3. CASE ProposeCheck(r)
  <2>1. /\ pc[r] = "preconditions" /\ UNCHANGED <<run, draftVars>>
    BY <1>3, Checks DEF ProposeCheck
  <2>2. QED
    BY <1>1, <1>2, <2>1 DEF Rest, Claims, Tool, CreditsKept, Credits, draftVars
<1>4. CASE ProposeExecute(r)
  <2>1. /\ pc[r] = "execute" /\ run'[r].call = run[r].call /\ UNCHANGED draftVars
    BY <1>4, Executes DEF ProposeExecute
  <2>2. QED
    BY <1>1, <1>2, <2>1 DEF Rest, Claims, Tool, CreditsKept, Credits, draftVars
<1>5. CASE ProposeApply(r)
  <2>1. /\ pc[r] = "apply" /\ pc'[r] = "spend" /\ run' = run /\ ledger' = ledger
        /\ pending' = pending \cup {[draft |-> run[r].eff.ref,
                                     agent |-> run[r].call.agent]}
    BY <1>0, <1>5 DEF ProposeApply, ApplySucceeds, At, Goto
  <2>2. run[r].eff.ref = run[r].no
    BY <1>0, <1>1, <2>1 DEF ProposeOK, Decided
  <2>3. QED
    BY <1>1, <1>2, <2>1, <2>2 DEF Opens, Claims, Tool, CreditsKept, Credits
<1>6. QED
  BY <1>3, <1>4, <1>5 DEF ProposeStep

LEMMA RejectKind ==
  ASSUME DraftInv, NEW r \in Handlers, RejectStep(r)
  PROVE  Rest(r)
<1>1. Tool(r, "reject_draft")
  BY DEF RejectStep, RejectCheck, RejectExecute, RejectUpdate, RejectRefund
<1>2. pending' = pending
  BY DEF RejectStep, RejectCheck, Check, RejectExecute, RejectUpdate,
         RejectRefund, draftVars
<1>3. CreditsKept
  <2>1. CASE RejectUpdate(r)
    <3>1. /\ DOMAIN ledger' = DOMAIN ledger
          /\ \A l \in DOMAIN ledger : ledger'[l].draft = ledger[l].draft
      BY <2>1, Rejected
    <3>2. QED
      BY <3>1 DEF CreditsKept, Credits
  <2>2. CASE ~RejectUpdate(r)
    <3>1. ledger' = ledger
      BY <2>2 DEF RejectStep, RejectCheck, Check, RejectExecute, RejectRefund,
                  draftVars
    <3>2. QED
      BY <3>1 DEF CreditsKept, Credits
  <2>3. QED
    BY <2>1, <2>2
<1>4. run'[r].call = run[r].call
  <2>1. CASE RejectCheck(r)
    BY <2>1, Checks DEF RejectCheck
  <2>2. CASE RejectExecute(r)
    BY <2>2, Executes DEF RejectExecute
  <2>3. CASE RejectUpdate(r) \/ RejectRefund(r)
    BY <2>3 DEF RejectUpdate, RejectRefund, ApplySucceeds, ApplyRefund,
                engineVars
  <2>4. QED
    BY <2>1, <2>2, <2>3 DEF RejectStep
<1>5. QED
  BY <1>1, <1>2, <1>3, <1>4 DEF Rest, Claims, Tool
LEMMA ApproveKind ==
  ASSUME DraftInv, NEW r \in Handlers, ApproveStep(r)
  PROVE  Rest(r) \/ Takes(r) \/ Deletes(r) \/ HoldsOn(r) \/ Books(r)
<1>0. /\ local = [q \in Handlers |-> local[q]] /\ LocalOK(local[r])
      /\ pc \in [Handlers -> Labels] /\ SubOK(r)
      /\ DOMAIN ledger \subseteq DOMAIN auditLog
  BY DEF DraftInv, DraftTyped, TypeOK, ToolOK
<1> DEFINE u == local[r]
<1>1. Tool(r, "approve_draft")
  BY Zenon DEF ApproveStep, ApproveCheck, ApproveWithoutUnits,
     ApproveFindDraft, ApproveClaim, ApproveDelete, ConfirmRead, ConfirmInsert
<1>2. ASSUME ledger' = ledger
      PROVE  CreditsKept
  BY <1>2 DEF CreditsKept, Credits
<1>3. ASSUME u.sub \in {"start", "claim"}, GiveUp(r)
      PROVE  Rest(r)
  <2>1. /\ pc[r] = "execute" /\ pc'[r] = "releaseReject" /\ local'[r] = NoLocal
        /\ pending' = pending /\ ledger' = ledger
    BY <1>0, <1>3 DEF GiveUp, ExecuteFails, At, Goto, Forget
  <2>2. ~Claims(r) /\ ~Claims(r)'
    BY <1>3, <2>1, NoLocalOK DEF Claims, Sub, Decided
  <2>3. QED
    BY <1>2, <2>1, <2>2 DEF Rest
<1>4. CASE ApproveCheck(r)
  <2>1. /\ pc[r] = "preconditions" /\ UNCHANGED <<run, draftVars>>
        /\ pc'[r] \in {"reserve", "reject"} /\ local'[r].sub = "start"
    BY <1>4, Checks DEF ApproveCheck
  <2>2. ~Claims(r) /\ ~Claims(r)'
    BY <2>1 DEF Claims, Sub, Decided, draftVars
  <2>3. QED
    BY <1>2, <2>1, <2>2 DEF Rest, draftVars
<1>5. CASE ApproveWithoutUnits(r)
  BY <1>3, <1>5 DEF ApproveWithoutUnits, Sub
<1>6. CASE ApproveFindDraft(r)
  <2>1. CASE GiveUp(r)
    BY <1>3, <1>6, <2>1 DEF ApproveFindDraft, Sub
  <2>2. CASE ~GiveUp(r)
    <3>1. PICK p \in DraftsOfLog(run[r].call.ref) :
            local' = [local EXCEPT ![r].sub = "claim", ![r].draft = p.draft]
      BY <1>6, <2>2, Zenon DEF ApproveFindDraft
    <3>2. pc[r] = "execute" /\ UNCHANGED <<engineVars, pending, ledger>>
          /\ u.sub = "start"
      BY <1>6, <2>2 DEF ApproveFindDraft, At, Sub
    <3> DEFINE v == [u EXCEPT !.sub = "claim", !.draft = p.draft]
    <3>3. local'[r] = v
      BY <1>0, <3>1
    <3>4. v.sub = "claim"
      BY <1>0 DEF LocalOK
    <3> HIDE DEF v, u
    <3>5. ~Claims(r) /\ ~Claims(r)'
      BY <3>2, <3>3, <3>4 DEF Claims, Sub, Decided, engineVars, u
    <3>6. QED
      BY <1>2, <3>2, <3>5 DEF Rest
  <2>3. QED
    BY <2>1, <2>2
<1>7. CASE ApproveClaim(r)
  <2> DEFINE d == IF Sub(r, "claim") THEN local[r].draft ELSE run[r].call.ref
             w(a) == [NoLocal EXCEPT !.sub = "delete", !.draft = d, !.agent = a]
  <2>0. u.sub \in {"start", "claim"}
    BY <1>7, Zenon DEF ApproveClaim, Sub
  <2>1. CASE GiveUp(r)
    BY <1>3, <2>0, <2>1
  <2>2. CASE ~GiveUp(r)
    <3>1. PICK p \in pending : p.draft = d /\ local' = [local EXCEPT ![r] = w(p.agent)]
      BY <1>7, <2>2, Zenon DEF ApproveClaim
    <3>2. pc[r] = "execute" /\ UNCHANGED <<engineVars, pending, ledger>>
      BY <1>7, <2>2, Zenon DEF ApproveClaim, At
    <3> HIDE DEF d
    <3>3. local'[r] = w(p.agent)
      BY <1>0, <3>1
    <3>4. w(p.agent).sub = "delete" /\ w(p.agent).draft = d
      BY DEF NoLocal
    <3> HIDE DEF w
    <3>5. Sub(r, "delete")' /\ Claims(r)' /\ Open(local'[r].draft)
      BY <1>1, <3>1, <3>2, <3>3, <3>4 DEF Claims, Sub, Tool, Open, engineVars
    <3>6. ~Claims(r)
      BY <2>0, <3>2 DEF Claims, Sub, Decided
    <3>7. QED
      BY <3>2, <3>5, <3>6 DEF Takes
  <2>3. QED
    BY <2>1, <2>2
<1>8. CASE ApproveDelete(r)
  <2>1. /\ Sub(r, "delete") /\ local' = [local EXCEPT ![r].sub = "start"]
        /\ pending' = {p \in pending : p.draft # local[r].draft}
        /\ ExecuteSucceeds(r, EffectOf(r, run[r].call.award, local[r].draft))
        /\ ledger' = ledger
    BY <1>8 DEF ApproveDelete
  <2> DEFINE v == [u EXCEPT !.sub = "start"]
  <2>2. local'[r] = v
    BY <1>0, <2>1
  <2>3. v.draft = local[r].draft
    BY <1>0 DEF LocalOK
  <2>4. pc'[r] = "effects" /\ run'[r].call = run[r].call
    BY <2>1, Executes
  <2>5. Claims(r) /\ Claims(r)'
    BY <1>1, <2>1, <2>4 DEF Claims, Tool, Decided
  <2> HIDE DEF v
  <2>6. QED
    BY <1>2, <2>1, <2>2, <2>3, <2>5 DEF Deletes
<1>9. CASE ConfirmRead(r)
  <2> DEFINE b == Balance(local[r].agent)
             v == [u EXCEPT !.sub = "insert", !.balance = b]
  <2>1. /\ pc[r] = "apply" /\ Sub(r, "start")
        /\ local' = [local EXCEPT ![r].sub = "insert", ![r].balance = b]
        /\ UNCHANGED <<engineVars, pending, ledger>>
    BY <1>9, Zenon DEF ConfirmRead, At
  <2> HIDE DEF b
  <2>2. local'[r] = v
    BY <1>0, <2>1
  <2>3. v.draft = local[r].draft
    BY <1>0 DEF LocalOK
  <2>4. Claims(r) /\ Claims(r)' /\ ~Sub(r, "delete")
    BY <1>1, <2>1 DEF Claims, Tool, Sub, Decided, engineVars
  <2> HIDE DEF v, u
  <2>5. QED
    BY <1>2, <2>1, <2>2, <2>3, <2>4 DEF HoldsOn
<1>10. CASE ConfirmInsert(r)
  <2> DEFINE n == run[r].log
             e == LedgerRow(r)
  <2>1. /\ pc[r] = "apply" /\ pc'[r] = "spend" /\ n \notin DOMAIN ledger
        /\ ledger' = [l \in DOMAIN ledger \cup {n} |->
                        IF l = n THEN e ELSE ledger[l]]
    BY <1>10, Booked
  <2>2. /\ local' = [local EXCEPT ![r] = NoLocal] /\ pending' = pending
        /\ Sub(r, "insert")
    BY <1>10, Zenon DEF ConfirmInsert, Forget
  <2>3. local'[r] = NoLocal
    BY <1>0, <2>2
  <2>4. Claims(r) /\ ~Claims(r)' /\ ~Sub(r, "delete")
    BY <1>1, <2>1, <2>2, <2>3, NoLocalOK DEF Claims, Sub, Decided
  <2>5. e.draft = local[r].draft
    BY DEF LedgerRow
  <2> HIDE DEF n, e, u
  <2>6. \A d \in Refs : Credits(d)' = IF d = local[r].draft
                                      THEN Credits(d) \cup {n} ELSE Credits(d)
    BY <2>1, <2>5 DEF Credits
  <2>7. QED
    BY <2>2, <2>4, <2>6 DEF Books, n
<1>11. QED
  BY <1>4, <1>5, <1>6, <1>7, <1>8, <1>9, <1>10 DEF ApproveStep

LEMMA ServeKind ==
  ASSUME DraftInv, NEW r \in Handlers,
         Serve(r) \/ (Begin(r) /\ UNCHANGED draftVars)
  PROVE  \/ Rest(r) \/ Opens(r) \/ Takes(r) \/ Deletes(r)
         \/ HoldsOn(r) \/ Books(r) \/ Drops(r)
BY EngineOnlyKind, ProposeKind, RejectKind, ApproveKind DEF Serve
-----------------------------------------------------------------------------
(* The counts are kept.                                                    *)

\* A step for handler r leaves the drafts of the others to them.
LEMMA OthersClaim ==
  ASSUME DraftInv, NEW r \in Handlers,
         Serve(r) \/ (Begin(r) /\ UNCHANGED draftVars)
  PROVE  \A q \in Handlers : q # r =>
           /\ (Sub(q, "delete")' <=> Sub(q, "delete"))
           /\ \A d : (q \in Claimers(d))' <=> q \in Claimers(d)
<1>1. \A q \in Handlers : q # r => /\ pc'[q] = pc[q] /\ run'[q] = run[q]
                                  /\ local'[q] = local[q]
  BY HandlerStep
<1>2. QED
  BY <1>1 DEF Claimers, Sub, Tool

\* Which drafts the handler itself deals with.
LEMMA OwnClaim ==
  ASSUME NEW r \in Handlers, NEW d
  PROVE  /\ r \in Claimers(d) <=> Claims(r) /\ local[r].draft = d
         /\ (r \in Claimers(d))' <=> Claims(r)' /\ local'[r].draft = d
BY DEF Claimers, Claims, Decided

\* A draft becomes known only by being opened.
LEMMA KnownStep ==
  ASSUME DraftInv, NEW r \in Handlers,
         Serve(r) \/ (Begin(r) /\ UNCHANGED draftVars), NEW d \in Refs, Known(d)'
  PROVE  Known(d) \/ (Opens(r) /\ d = run[r].no)
<1>1. \A q \in Handlers : q # r /\ (q \in Claimers(d))' => q \in Claimers(d)
  BY OthersClaim
<1>2. Claimers(d)' \subseteq Handlers /\ Claimers(d) \subseteq Handlers
  BY DEF Claimers
<1>3. ASSUME (r \in Claimers(d))' => Known(d), Open(d)' => Known(d),
             (Credits(d) # {})' => Known(d)
      PROVE  Known(d)
  BY <1>1, <1>2, <1>3 DEF Known
<1>4. CASE Rest(r) \/ HoldsOn(r) \/ Drops(r)
  <2>1. (r \in Claimers(d))' => r \in Claimers(d)
    BY <1>4, OwnClaim DEF Rest, HoldsOn, Drops
  <2>2. pending' = pending /\ Credits(d)' = Credits(d)
    BY <1>4 DEF Rest, HoldsOn, Drops, CreditsKept
  <2>3. QED
    BY <1>3, <2>1, <2>2 DEF Known, Open
<1>5. CASE Opens(r) /\ d # run[r].no
  <2>1. ~(r \in Claimers(d))'
    BY <1>5, OwnClaim DEF Opens
  <2>2. (Open(d)' => Open(d)) /\ Credits(d)' = Credits(d)
    BY <1>5 DEF Opens, CreditsKept, Open
  <2>3. QED
    BY <1>3, <2>1, <2>2 DEF Known
<1>6. CASE Takes(r)
  <2>1. (r \in Claimers(d))' => Open(d)
    BY <1>6, OwnClaim DEF Takes
  <2>2. pending' = pending /\ Credits(d)' = Credits(d)
    BY <1>6 DEF Takes, Credits
  <2>3. QED
    BY <1>3, <2>1, <2>2 DEF Known, Open
<1>7. CASE Deletes(r)
  <2>1. (r \in Claimers(d))' => r \in Claimers(d)
    BY <1>7, OwnClaim DEF Deletes
  <2>2. (Open(d)' => Open(d)) /\ Credits(d)' = Credits(d)
    BY <1>7 DEF Deletes, CreditsKept, Open
  <2>3. QED
    BY <1>3, <2>1, <2>2 DEF Known
<1>8. CASE Books(r)
  <2>1. ~(r \in Claimers(d))' /\ (d = local[r].draft => r \in Claimers(d))
    BY <1>8, OwnClaim DEF Books
  <2>2. /\ pending' = pending
        /\ d # local[r].draft => Credits(d)' = Credits(d)
    BY <1>8 DEF Books
  <2>3. QED
    BY <1>3, <2>1, <2>2 DEF Known, Open
<1>9. QED
  BY <1>4, <1>5, <1>6, <1>7, <1>8, ServeKind

\* A call that may still log, or open a draft, did so before, or has just begun.
LEMMA EarlyStep ==
  ASSUME TypeOK, [Next]_engineVars, NEW q \in Handlers, pc'[q] \in Early
  PROVE  \/ /\ pc[q] \in Early /\ run'[q].no = run[q].no
            /\ pc'[q] \in MayLog => pc[q] \in MayLog
         \/ Begin(q) /\ run'[q].no = calls + 1 /\ calls' = calls + 1
<1>0. pc \in [Handlers -> Labels] /\ run \in [Handlers -> RunLocals]
  BY DEF TypeOK
<1>1. CASE Begin(q)
  <2>1. PICK c \in Calls : run' = [run EXCEPT ![q] = RunOf(calls + 1, c)]
    BY <1>1 DEF Begin
  <2>2. run'[q] = RunOf(calls + 1, c)
    BY <1>0, <2>1
  <2>3. RunOf(calls + 1, c).no = calls + 1 /\ calls' = calls + 1
    BY <1>1 DEF RunOf, Begin
  <2>4. QED
    BY <1>1, <2>2, <2>3
<1>2. CASE EngineStep(q) \/ ToolStep(q)
  <2>1. Follows(q) /\ pc'[q] # "idle"
    BY <1>2, Flow DEF Early
  <2>2. Edge(pc[q], pc'[q]) /\ run'[q].no = run[q].no /\ pc[q] \in Labels
    BY <1>0, <2>1 DEF Follows
  <2>3. QED
    BY <2>2 DEF Edge, Early, MayLog, Labels
<1>3. ASSUME NEW r \in Handlers, r # q, Begin(r) \/ EngineStep(r) \/ ToolStep(r)
      PROVE  pc'[q] = pc[q] /\ run'[q] = run[q]
  BY <1>3, EngineMoves
<1>4. CASE Environment \/ CovenantChanges \/ MemberChanges \/ UNCHANGED engineVars
  BY <1>4, NoCallMoves DEF Early
<1>5. QED
  BY <1>1, <1>2, <1>3, <1>4 DEF Next

\* A crash and the steps of no handler leave no draft with one that did not
\* have it.
LEMMA RestartClaims ==
  ASSUME DraftInv, Restart \/ UNCHANGED <<pc, run, draftVars>>
  PROVE  /\ UNCHANGED <<pending, ledger>>
         /\ \A d : Claimers(d)' \subseteq Claimers(d)
         /\ \A r \in Handlers : \A d :
              (r \in Claimers(d))' => (Sub(r, "delete")' <=> Sub(r, "delete"))
         /\ \A d : Credits(d)' = Credits(d) /\ (Open(d)' <=> Open(d))
<1>1. UNCHANGED <<pending, ledger>>
  BY DEF Restart, draftVars
<1>2. CASE Restart
  <2>1. /\ local' = [r \in Handlers |-> NoLocal]
        /\ pc' = [r \in Handlers |-> "idle"]
    BY <1>2 DEF Restart, Crash
  <2>2. \A r \in Handlers : local'[r].sub = "start" /\ pc'[r] = "idle"
    BY <2>1, NoLocalOK
  <2>3. \A d : Claimers(d)' = {}
    BY <2>2 DEF Claimers, Sub
  <2>4. QED
    BY <1>1, <2>3 DEF Credits, Open
<1>3. CASE UNCHANGED <<pc, run, draftVars>>
  <2>1. \A d : Claimers(d)' = Claimers(d)
    BY <1>3 DEF Claimers, Sub, Tool, draftVars
  <2>2. QED
    BY <1>1, <1>3, <2>1 DEF Credits, Open, Sub, draftVars
<1>4. QED
  BY <1>2, <1>3

LEMMA KnownKept ==
  ASSUME DraftInv, CountInv, [DraftNext]_vars
  PROVE  KnownOK'
<1>0. /\ TypeOK /\ [Next]_engineVars /\ calls \in Nat
      /\ calls' = calls \/ calls' = calls + 1
      /\ \A q \in Handlers : run[q].no \in 0..MaxCalls
      /\ 0..MaxCalls \subseteq Refs /\ TypeOK'
  <2>1. TypeOK /\ [Next]_engineVars
    BY StepIsEngine DEF DraftInv
  <2>2. TypeOK'
    BY <2>1, TypeStep
  <2>3. QED
    BY <2>1, <2>2, CountersStep, DraftToolsAssumption DEF TypeOK, RunLocals
<1>1. ASSUME NEW d \in Refs, Known(d)'
      PROVE  \/ Known(d)
             \/ \E r \in Handlers : pc[r] = "apply" /\ pc'[r] = "spend"
                                    /\ d = run[r].no
  <2>1. CASE \E r \in Handlers : Serve(r) \/ (Begin(r) /\ UNCHANGED draftVars)
    BY <1>1, <2>1, KnownStep DEF Opens
  <2>2. CASE Restart \/ UNCHANGED <<pc, run, draftVars>>
    BY <1>1, <2>2, RestartClaims DEF Known
  <2>3. QED
    BY <2>1, <2>2, OtherSteps
<1>2. ASSUME NEW d \in Refs, Known(d)'
      PROVE  d \in 1..calls
  BY <1>1, <1>2 DEF CountInv, NumbersOK, KnownOK
<1>3. ASSUME NEW q \in Handlers, pc'[q] \in Early, NEW n, n = run'[q].no,
             Known(n)'
      PROVE  FALSE
  <2>1. n \in Refs
    BY <1>0, <1>3 DEF TypeOK, RunLocals
  <2>2. n \in 1..calls
    BY <1>2, <1>3, <2>1
  <2>3. pc[q] \in Early /\ n = run[q].no
    BY <1>0, <1>3, <2>2, EarlyStep
  <2>4. ~Known(n)
    BY <2>3 DEF CountInv, KnownOK
  <2>5. PICK r \in Handlers : /\ pc[r] = "apply" /\ pc'[r] = "spend"
                              /\ n = run[r].no
    BY <1>1, <1>3, <2>1, <2>4
  <2>6. pc[q] # "idle"
    BY <2>3 DEF Early
  <2>7. r = q
    BY <2>3, <2>5, <2>6 DEF CountInv, NumbersOK
  <2>8. QED
    BY <1>3, <2>5, <2>7 DEF Early
<1>4. \A d \in Refs : Known(d)' => d \in 1..calls'
  BY <1>0, <1>2
<1>5. ASSUME NEW q \in Handlers, pc'[q] \in Early
      PROVE  (~Known(run[q].no))'
  <2>1. \A n : n = run'[q].no => ~Known(n)'
    BY <1>3, <1>5
  <2>2. QED
    BY <2>1 DEF Known, Open, Credits, Claimers, Tool, Sub
<1>6. QED
  BY <1>4, <1>5 DEF KnownOK

LEMMA OpenKept ==
  ASSUME DraftInv, CountInv, [DraftNext]_vars
  PROVE  OpenOK'
<1> SUFFICES ASSUME NEW d \in Refs, Open(d)'
             PROVE  /\ (Credits(d) = {})'
                    /\ \A q \in Handlers : (q \in Claimers(d))' => Sub(q, "delete")'
  BY DEF OpenOK, Claimers
<1>1. ASSUME Open(d)
      PROVE  /\ Credits(d) = {}
             /\ \A q \in Handlers : q \in Claimers(d) => Sub(q, "delete")
  BY <1>1 DEF CountInv, OpenOK
<1>2. ASSUME NEW r \in Handlers, Serve(r) \/ (Begin(r) /\ UNCHANGED draftVars)
      PROVE  /\ (Credits(d) = {})'
             /\ \A q \in Handlers : (q \in Claimers(d))' => Sub(q, "delete")'
  <2> DEFINE Goal == /\ (Credits(d) = {})'
                     /\ (r \in Claimers(d))' => Sub(r, "delete")'
  <2>0. ASSUME Open(d), Goal
        PROVE  /\ (Credits(d) = {})'
               /\ \A q \in Handlers : (q \in Claimers(d))' => Sub(q, "delete")'
    BY <1>1, <1>2, <2>0, OthersClaim
  <2>1. CASE Rest(r) \/ Drops(r)
    <3>1. Open(d) /\ Credits(d)' = Credits(d) /\ ~(r \in Claimers(d))'
      BY <2>1, OwnClaim DEF Rest, Drops, CreditsKept, Open
    <3>2. QED
      BY <1>1, <2>0, <3>1
  <2>2. CASE HoldsOn(r) \/ Books(r)
    <3>1. Open(d)
      BY <2>2 DEF HoldsOn, Books, Open
    <3>2. r \notin Claimers(d)
      BY <1>1, <2>2, <3>1 DEF HoldsOn, Books
    <3>3. d # local[r].draft
      BY <2>2, <3>2, OwnClaim DEF HoldsOn, Books
    <3>4. ~(r \in Claimers(d))' /\ Credits(d)' = Credits(d)
      BY <2>2, <3>3, OwnClaim DEF HoldsOn, Books, CreditsKept
    <3>5. QED
      BY <1>1, <2>0, <3>1, <3>4
  <2>3. CASE Takes(r)
    <3>1. Open(d) /\ Credits(d)' = Credits(d) /\ Sub(r, "delete")'
      BY <2>3 DEF Takes, Open, Credits
    <3>2. QED
      BY <1>1, <2>0, <3>1
  <2>4. CASE Deletes(r)
    <3>1. Open(d) /\ Credits(d)' = Credits(d) /\ d # local[r].draft
      BY <2>4 DEF Deletes, Open, CreditsKept
    <3>2. ~(r \in Claimers(d))'
      BY <2>4, <3>1, OwnClaim DEF Deletes
    <3>3. QED
      BY <1>1, <2>0, <3>1, <3>2
  <2>5. CASE Opens(r) /\ Open(d)
    <3>1. Credits(d)' = Credits(d) /\ ~(r \in Claimers(d))'
      BY <2>5, OwnClaim DEF Opens, CreditsKept
    <3>2. QED
      BY <1>1, <2>0, <2>5, <3>1
  <2>6. CASE Opens(r) /\ ~Open(d)
    <3>1. d = run[r].no /\ Credits(d)' = Credits(d) /\ ~(r \in Claimers(d))'
      BY <2>6, OwnClaim DEF Opens, Open, CreditsKept
    <3>2. ~Known(d)
      BY <2>6, <3>1 DEF Opens, CountInv, KnownOK, Early, Labels
    <3>3. Credits(d) = {} /\ \A q \in Handlers : q \notin Claimers(d)
      BY <3>2 DEF Known
    <3>4. QED
      BY <1>2, <3>1, <3>3, OthersClaim
  <2>7. QED
    BY <1>2, <2>1, <2>2, <2>3, <2>4, <2>5, <2>6, ServeKind
<1>3. CASE Restart \/ UNCHANGED <<pc, run, draftVars>>
  <2>1. /\ Open(d) /\ Credits(d)' = Credits(d)
        /\ \A q \in Handlers : (q \in Claimers(d))' =>
             q \in Claimers(d) /\ (Sub(q, "delete")' <=> Sub(q, "delete"))
    BY <1>3, RestartClaims
  <2>2. QED
    BY <1>1, <2>1
<1>4. QED
  BY <1>2, <1>3, OtherSteps

LEMMA CreditsFinite ==
  ASSUME DraftInv
  PROVE  \A d : /\ IsFiniteSet(Credits(d)) /\ Cardinality(Credits(d)) \in Nat
                /\ Claimers(d) \in SUBSET Handlers
                /\ IsFiniteSet(Claimers(d)) /\ Cardinality(Claimers(d)) \in Nat
<1>1. /\ DOMAIN auditLog = 1..Len(auditLog) /\ Len(auditLog) \in Int
      /\ DOMAIN ledger \subseteq DOMAIN auditLog /\ 1 \in Int
  BY LenProperties DEF DraftInv, DraftTyped, TypeOK
<1>2. IsFiniteSet(DOMAIN auditLog)
  BY <1>1, FS_Interval
<1>3. \A d : Credits(d) \in SUBSET DOMAIN auditLog
  BY <1>1 DEF Credits
<1>4. \A d : Claimers(d) \in SUBSET Handlers
  BY DEF Claimers
<1>5. \A d : IsFiniteSet(Credits(d)) /\ IsFiniteSet(Claimers(d))
  BY <1>2, <1>3, <1>4, FS_Subset, ConstantsAssumption
<1>6. QED
  BY <1>4, <1>5, FS_CardinalityType

LEMMA ClaimsStep ==
  ASSUME DraftInv, DraftInv', CountInv, [DraftNext]_vars
  PROVE  ClaimsBounded'
<1> SUFFICES ASSUME NEW d \in Refs
             PROVE  Cardinality(Credits(d)') + Cardinality(Claimers(d)')
                      <= Cardinality(Handlers)
  BY DEF ClaimsBounded
<1> DEFINE C == Credits(d)
           D == Credits(d)'
           S == Claimers(d)
           T == Claimers(d)'
           H == Cardinality(Handlers)
<1>0. /\ IsFiniteSet(C) /\ IsFiniteSet(S) /\ IsFiniteSet(D) /\ IsFiniteSet(T)
      /\ Cardinality(C) \in Nat /\ Cardinality(S) \in Nat
      /\ Cardinality(D) \in Nat /\ Cardinality(T) \in Nat
      /\ S \in SUBSET Handlers /\ T \in SUBSET Handlers /\ H \in Nat
      /\ Cardinality(C) + Cardinality(S) <= H
  <2>1. /\ IsFiniteSet(C) /\ IsFiniteSet(S)
        /\ Cardinality(C) \in Nat /\ Cardinality(S) \in Nat
        /\ S \in SUBSET Handlers
    BY CreditsFinite
  <2>2. T \in SUBSET Handlers
    BY DEF Claimers
  <2>3. IsFiniteSet(D)
    <3>1. /\ DOMAIN auditLog' = 1..Len(auditLog') /\ Len(auditLog') \in Int
          /\ DOMAIN ledger' \subseteq DOMAIN auditLog' /\ 1 \in Int
      BY LenProperties DEF DraftInv, DraftTyped, TypeOK
    <3>2. IsFiniteSet(DOMAIN auditLog')
      BY <3>1, FS_Interval
    <3>3. D \in SUBSET DOMAIN auditLog'
      BY <3>1 DEF Credits
    <3>4. QED
      BY <3>2, <3>3, FS_Subset
  <2>4. IsFiniteSet(T)
    BY <2>2, ConstantsAssumption, FS_Subset
  <2>5. QED
    BY <2>1, <2>2, <2>3, <2>4, ConstantsAssumption, FS_CardinalityType
       DEF CountInv, ClaimsBounded
<1>1. ASSUME D = C, T \in SUBSET S
      PROVE  Cardinality(D) + Cardinality(T) <= H
  <2>1. Cardinality(T) <= Cardinality(S)
    BY <1>0, <1>1, FS_Subset
  <2>2. QED
    BY <1>0, <1>1, <2>1
<1>2. ASSUME D = {}
      PROVE  Cardinality(D) + Cardinality(T) <= H
  <2>1. Cardinality(T) <= H /\ Cardinality(D) = 0
    BY <1>0, <1>2, FS_Subset, FS_EmptySet, ConstantsAssumption
  <2>2. QED
    BY <1>0, <2>1
<1>3. ASSUME NEW r \in Handlers, NEW l, r \in S, T \in SUBSET (S \ {r}),
             D = C \cup {l}
      PROVE  Cardinality(D) + Cardinality(T) <= H
  <2>1. Cardinality(D) <= Cardinality(C) + 1
    BY <1>0, <1>3, FS_AddElement
  <2>2. IsFiniteSet(S \ {r}) /\ Cardinality(S \ {r}) = Cardinality(S) - 1
    BY <1>0, <1>3, FS_RemoveElement
  <2>3. Cardinality(T) <= Cardinality(S) - 1
    BY <1>3, <2>2, FS_Subset
  <2>4. QED
    BY <1>0, <2>1, <2>3
<1>4. ASSUME NEW r \in Handlers, Serve(r) \/ (Begin(r) /\ UNCHANGED draftVars)
      PROVE  Cardinality(D) + Cardinality(T) <= H
  <2>0. \A q \in Handlers : q # r /\ q \in T => q \in S
    BY <1>4, OthersClaim
  <2>1. CASE Rest(r) \/ Opens(r) \/ Deletes(r) \/ HoldsOn(r) \/ Drops(r)
    <3>1. D = C
      BY <2>1 DEF Rest, Opens, Deletes, HoldsOn, Drops, CreditsKept
    <3>2. r \in T => r \in S
      BY <2>1, OwnClaim DEF Rest, Opens, Deletes, HoldsOn, Drops
    <3>3. T \in SUBSET S
      BY <1>0, <2>0, <3>2
    <3>4. QED
      BY <1>1, <3>1, <3>3
  <2>2. CASE Takes(r) /\ d = local'[r].draft
    <3>1. D = C /\ Open(d)
      BY <2>2 DEF Takes, Credits
    <3>2. QED
      BY <1>2, <3>1 DEF CountInv, OpenOK
  <2>3. CASE Takes(r) /\ d # local'[r].draft
    <3>1. D = C /\ r \notin T
      BY <2>3, OwnClaim DEF Takes, Credits
    <3>2. T \in SUBSET S
      BY <1>0, <2>0, <3>1
    <3>3. QED
      BY <1>1, <3>1, <3>2
  <2>4. CASE Books(r) /\ d = local[r].draft
    <3>1. D = C \cup {run[r].log} /\ r \in S /\ r \notin T
      BY <2>4, OwnClaim DEF Books
    <3>2. T \in SUBSET (S \ {r})
      BY <1>0, <2>0, <3>1
    <3>3. QED
      BY <1>3, <3>1, <3>2
  <2>5. CASE Books(r) /\ d # local[r].draft
    <3>1. D = C /\ r \notin T
      BY <2>5, OwnClaim DEF Books
    <3>2. T \in SUBSET S
      BY <1>0, <2>0, <3>1
    <3>3. QED
      BY <1>1, <3>1, <3>2
  <2>6. QED
    BY <1>4, <2>1, <2>2, <2>3, <2>4, <2>5, ServeKind
<1>5. CASE Restart \/ UNCHANGED <<pc, run, draftVars>>
  BY <1>1, <1>5, RestartClaims
<1>6. QED
  BY <1>4, <1>5, OtherSteps

\* What a new row of the log proposes.
LEMMA ProposedStep ==
  ASSUME DraftInv, [DraftNext]_vars
  PROVE  /\ \A l \in Proposed : l \in Proposed' /\ auditLog'[l].ref = auditLog[l].ref
         /\ \A l \in Proposed' : l \notin Proposed =>
              \E r \in Handlers :
                /\ pc[r] = "audit" /\ pc'[r] = "apply" /\ run'[r].log = l
                /\ auditLog'[l].ref = run[r].no /\ l = Len(auditLog) + 1
<1>0. /\ TypeOK /\ [Next]_engineVars /\ pc \in [Handlers -> Labels]
      /\ run \in [Handlers -> RunLocals] /\ auditLog \in Seq(AuditRow)
      /\ Len(auditLog) \in Nat
  BY StepIsEngine, LenProperties DEF DraftInv, TypeOK
<1>1. LogGrows
  BY <1>0, LogStep
<1>2. \A l \in Proposed : l \in Proposed' /\ auditLog'[l].ref = auditLog[l].ref
  BY <1>1 DEF Proposed, Success, LogGrows
<1>3. ASSUME NEW l \in Proposed', l \notin Proposed
      PROVE  \E r \in Handlers :
                /\ pc[r] = "audit" /\ pc'[r] = "apply" /\ run'[r].log = l
                /\ auditLog'[l].ref = run[r].no /\ l = Len(auditLog) + 1
  <2>1. /\ l \in DOMAIN auditLog' /\ auditLog'[l].result = "success"
        /\ auditLog'[l].tool = "propose_passage"
    BY <1>3 DEF Proposed, Success
  <2>2. l \notin DOMAIN auditLog
    BY <1>1, <1>3, <2>1 DEF Proposed, Success, LogGrows
  <2>3. PICK r \in Handlers : WriteAuditLog(r) \/ LogRejection(r)
    BY <1>0, <2>1, <2>2, LogStep
  <2>4. ASSUME NEW row \in AuditRow, auditLog' = Append(auditLog, row)
        PROVE  l = Len(auditLog) + 1 /\ auditLog'[l] = row
    <3>1. /\ Len(auditLog') = Len(auditLog) + 1
          /\ auditLog'[Len(auditLog) + 1] = row
      BY <1>0, <2>4, Appended
    <3>2. l \in 1..Len(auditLog') /\ l \notin 1..Len(auditLog)
      BY <1>1, <2>1, <2>2 DEF LogGrows
    <3>3. l = Len(auditLog) + 1
      BY <1>0, <3>1, <3>2
    <3>4. QED
      BY <3>1, <3>3
  <2>5. SuccessRow(r) \in AuditRow /\ RejectedRow(r) \in AuditRow
    BY <1>0, RowsTyped
  <2>6. CASE LogRejection(r)
    <3>1. auditLog' = Append(auditLog, RejectedRow(r))
      BY <2>1, <2>2, <2>6 DEF LogRejection
    <3>2. auditLog'[l] = RejectedRow(r)
      BY <2>4, <2>5, <3>1
    <3>3. RejectedRow(r).result = "rejected"
      BY DEF RejectedRow
    <3>4. QED
      BY <2>1, <3>2, <3>3
  <2>7. CASE WriteAuditLog(r)
    <3> DEFINE n == Len(auditLog) + 1
               M == [run[r] EXCEPT !.log = n]
    <3>1. /\ auditLog' = Append(auditLog, SuccessRow(r)) /\ pc[r] = "audit"
          /\ pc'[r] = "apply" /\ run' = [run EXCEPT ![r] = M]
      BY <1>0, <2>7 DEF WriteAuditLog, At, Goto
    <3>2. l = n /\ auditLog'[l] = SuccessRow(r)
      BY <2>4, <2>5, <3>1
    <3>3. M.log = n
      BY <1>0, RunAssigned
    <3> HIDE DEF M
    <3>4. run'[r].log = l
      BY <1>0, <3>1, <3>2, <3>3
    <3>5. /\ SuccessRow(r).ref = run[r].eff.ref
          /\ SuccessRow(r).tool = run[r].call.tool
      BY DEF SuccessRow
    <3>6. run[r].eff.ref = run[r].no
      BY <2>1, <3>1, <3>2, <3>5 DEF DraftInv, ToolOK, ProposeOK, Tool, Decided
    <3>7. QED
      BY <3>1, <3>2, <3>4, <3>5, <3>6
  <2>8. QED
    BY <2>3, <2>6, <2>7
<1>4. QED
  BY <1>2, <1>3

LEMMA ProposedKept ==
  ASSUME DraftInv, CountInv, [DraftNext]_vars
  PROVE  ProposedOK'
<1>0. /\ TypeOK /\ [Next]_engineVars /\ calls \in Nat
      /\ calls' = calls \/ calls' = calls + 1
  <2>1. TypeOK /\ [Next]_engineVars
    BY StepIsEngine DEF DraftInv
  <2>2. QED
    BY <2>1, CountersStep DEF TypeOK
<1> DEFINE New(l, r) == /\ pc[r] = "audit" /\ pc'[r] = "apply"
                        /\ auditLog'[l].ref = run[r].no
                        /\ l = Len(auditLog) + 1
<1>1. ASSUME NEW l \in Proposed'
      PROVE  \/ l \in Proposed /\ auditLog'[l].ref = auditLog[l].ref
             \/ l \notin Proposed /\ \E r \in Handlers : New(l, r)
  BY ProposedStep
<1>2. ASSUME NEW l, NEW r \in Handlers, New(l, r)
      PROVE  /\ auditLog'[l].ref \in 1..calls
             /\ \A k \in Proposed : auditLog[k].ref # auditLog'[l].ref
             /\ \A q \in Handlers : pc'[q] \in MayLog =>
                  auditLog'[l].ref # run'[q].no
  <2>1. pc[r] \in MayLog /\ pc[r] # "idle" /\ pc'[r] \notin MayLog
    BY <1>2 DEF MayLog, Labels
  <2>2. ASSUME NEW q \in Handlers, pc'[q] \in MayLog
        PROVE  auditLog'[l].ref # run'[q].no
    <3>1. \/ pc[q] \in MayLog /\ run'[q].no = run[q].no
          \/ run'[q].no = calls + 1
      BY <1>0, <2>2, EarlyStep DEF Early, MayLog
    <3>2. q # r /\ run[r].no \in 1..calls
      BY <2>1, <2>2 DEF CountInv, NumbersOK
    <3>3. pc[q] \in MayLog => pc[q] # "idle"
      BY DEF MayLog
    <3>4. QED
      BY <1>0, <1>2, <2>1, <3>1, <3>2, <3>3 DEF CountInv, NumbersOK
  <2>3. QED
    BY <1>2, <2>1, <2>2 DEF CountInv, NumbersOK, ProposedOK
<1>3. ASSUME NEW l \in Proposed, NEW q \in Handlers, pc'[q] \in MayLog
      PROVE  auditLog[l].ref # run'[q].no
  <2>1. \/ pc[q] \in MayLog /\ run'[q].no = run[q].no
        \/ run'[q].no = calls + 1
    BY <1>0, <1>3, EarlyStep DEF Early, MayLog
  <2>2. auditLog[l].ref \in 1..calls
    BY DEF CountInv, ProposedOK
  <2>3. QED
    BY <1>0, <2>1, <2>2 DEF CountInv, ProposedOK
<1>4. \A l \in Proposed' : auditLog'[l].ref \in 1..calls'
  BY <1>0, <1>1, <1>2 DEF CountInv, ProposedOK
<1>5. \A k, l \in Proposed' : auditLog'[k].ref = auditLog'[l].ref => k = l
  <2> SUFFICES ASSUME NEW k \in Proposed', NEW l \in Proposed',
                      auditLog'[k].ref = auditLog'[l].ref
               PROVE  k = l
    OBVIOUS
  <2>1. CASE k \in Proposed /\ l \in Proposed
    BY <1>1, <2>1 DEF CountInv, ProposedOK
  <2>2. CASE k \notin Proposed /\ l \notin Proposed
    BY <1>1, <2>2
  <2>3. CASE k \in Proposed /\ l \notin Proposed
    BY <1>1, <1>2, <2>3
  <2>4. CASE k \notin Proposed /\ l \in Proposed
    BY <1>1, <1>2, <2>4
  <2>5. QED
    BY <2>1, <2>2, <2>3, <2>4
<1>6. \A l \in Proposed', q \in Handlers :
        pc'[q] \in MayLog => auditLog'[l].ref # run'[q].no
  BY <1>1, <1>2, <1>3
<1>7. QED
  BY <1>4, <1>5, <1>6 DEF ProposedOK

LEMMA CountInit == DraftInit => CountInv
<1> SUFFICES ASSUME DraftInit
             PROVE  CountInv
  OBVIOUS
<1>1. /\ \A r \in Handlers : pc[r] = "idle" /\ local[r].sub = "start"
      /\ pending = {} /\ DOMAIN ledger = {} /\ auditLog = <<>>
  BY NoLocalOK DEF DraftInit, Init
<1>2. \A d : Credits(d) = {} /\ Claimers(d) = {} /\ ~Open(d)
  BY <1>1 DEF Credits, Claimers, Open, Sub
<1>3. NumbersOK /\ KnownOK /\ OpenOK
  BY <1>1, <1>2 DEF NumbersOK, KnownOK, OpenOK, Known, Early
<1>4. ClaimsBounded
  <2>1. Cardinality({}) = 0 /\ Cardinality(Handlers) \in Nat
    BY FS_EmptySet, FS_CardinalityType, ConstantsAssumption
  <2>2. QED
    BY <1>2, <2>1 DEF ClaimsBounded
<1>5. Proposed = {}
  BY <1>1 DEF Proposed
<1>6. ProposedOK
  BY <1>5 DEF ProposedOK
<1>7. QED
  BY <1>3, <1>4, <1>6 DEF CountInv

LEMMA CountInvariant == DraftSpec => [](DraftInv /\ CountInv)
<1>1. DraftInv /\ CountInv /\ [DraftNext]_vars => DraftInv' /\ CountInv'
  <2> SUFFICES ASSUME DraftInv, CountInv, [DraftNext]_vars
               PROVE  DraftInv' /\ CountInv'
    OBVIOUS
  <2>1. DraftInv' /\ TypeOK /\ [Next]_engineVars
    BY DraftInvStep, StepIsEngine DEF DraftInv
  <2>2. NumbersOK'
    BY <2>1, NumbersStep DEF CountInv
  <2>3. KnownOK' /\ OpenOK' /\ ClaimsBounded' /\ ProposedOK'
    BY <2>1, KnownKept, OpenKept, ClaimsStep, ProposedKept
  <2>4. QED
    BY <2>1, <2>2, <2>3 DEF CountInv
<1>2. QED
  BY <1>1, DraftInvInit, CountInit, PTL DEF DraftSpec

\* ClaimPending reads the pending row and deletes it in two statements, so
\* approvals that run together can credit one draft more than once; but for
\* any number of handlers, once for each of them at most.
THEOREM CreditsAlwaysBounded == DraftSpec => []CreditsBounded
<1>1. DraftInv /\ CountInv => CreditsBounded
  <2> SUFFICES ASSUME DraftInv, CountInv, NEW d \in Refs
               PROVE  Cardinality(Credits(d)) <= Cardinality(Handlers)
    BY DEF CreditsBounded
  <2>1. Cardinality(Handlers) \in Nat
    BY FS_CardinalityType, ConstantsAssumption
  <2>2. Cardinality(Credits(d)) \in Nat /\ Cardinality(Claimers(d)) \in Nat
    BY CreditsFinite
  <2>3. Cardinality(Credits(d)) + Cardinality(Claimers(d)) <= Cardinality(Handlers)
    BY DEF CountInv, ClaimsBounded
  <2>4. QED
    BY <2>1, <2>2, <2>3
<1>2. QED
  BY <1>1, CountInvariant, PTL
-----------------------------------------------------------------------------
(* Proposals that are lost.                                                *)

\* Handler r has what becomes of proposal l in its hands.
InHands(r, l) ==
  \/ r \in Claimers(auditLog[l].ref)
  \/ run[r].log = l /\ pc[r] = "apply"

LEMMA LostAre ==
  LostDrafts = {l \in Proposed : /\ ~Open(auditLog[l].ref)
                                 /\ Credits(auditLog[l].ref) = {}
                                 /\ \A r \in Handlers : ~InHands(r, l)}
BY DEF LostDrafts, Open, InHands, Claimers

LEMMA LostFinite ==
  ASSUME DraftInv
  PROVE  IsFiniteSet(Proposed) /\ IsFiniteSet(LostDrafts)
         /\ Cardinality(LostDrafts) \in Nat
<1>1. /\ DOMAIN auditLog = 1..Len(auditLog) /\ Len(auditLog) \in Int /\ 1 \in Int
  BY LenProperties DEF DraftInv, TypeOK
<1>2. IsFiniteSet(DOMAIN auditLog)
  BY <1>1, FS_Interval
<1>3. Proposed \in SUBSET DOMAIN auditLog /\ LostDrafts \in SUBSET DOMAIN auditLog
  BY DEF LostDrafts, Proposed
<1>4. IsFiniteSet(Proposed) /\ IsFiniteSet(LostDrafts)
  BY <1>2, <1>3, FS_Subset
<1>5. QED
  BY <1>4, FS_CardinalityType

\* A handler has one proposal in its hands at a time.
LEMMA HandsHoldOne ==
  ASSUME DraftInv, CountInv, NEW r \in Handlers, NEW k \in Proposed,
         NEW l \in Proposed, InHands(r, k), InHands(r, l)
  PROVE  k = l
<1>1. ASSUME NEW m \in Proposed, InHands(r, m)
      PROVE  \/ /\ Tool(r, "approve_draft") /\ auditLog[m].ref = local[r].draft
             \/ /\ Tool(r, "propose_passage") /\ run[r].log = m
  <2>1. CASE r \in Claimers(auditLog[m].ref)
    BY <2>1 DEF Claimers
  <2>2. CASE run[r].log = m /\ pc[r] = "apply"
    <3>1. auditLog[m] = SuccessRow(r)
      BY <2>2 DEF DraftInv, ToolOK, LoggedOK
    <3>2. auditLog[m].tool = "propose_passage"
      BY DEF Proposed, Success
    <3>3. SuccessRow(r).tool = run[r].call.tool
      BY DEF SuccessRow
    <3>4. QED
      BY <2>2, <3>1, <3>2, <3>3 DEF Tool
  <2>3. QED
    BY <1>1, <2>1, <2>2 DEF InHands
<1>2. QED
  BY <1>1 DEF CountInv, ProposedOK, Tool

\* A step of a handler loses the proposal in its own hands at most, and that
\* only if a statement failed.
LEMMA LostByHandler ==
  ASSUME DraftInv, CountInv, CurrencyMatches, [DraftNext]_vars,
         NEW r \in Handlers, Serve(r) \/ (Begin(r) /\ UNCHANGED draftVars),
         NEW l \in LostDrafts', l \notin LostDrafts
  PROVE  l \in Proposed /\ InHands(r, l) /\ StatementFails
<1>0. /\ l \in Proposed' /\ run \in [Handlers -> RunLocals]
      /\ \A q \in Handlers : q # r => pc'[q] = pc[q] /\ run'[q] = run[q]
  BY HandlerStep DEF LostDrafts, DraftInv, TypeOK
<1>1. l \in Proposed /\ auditLog'[l].ref = auditLog[l].ref
  <2>1. CASE l \notin Proposed
    <3>1. PICK q \in Handlers : pc'[q] = "apply" /\ run'[q].log = l
      BY <1>0, <2>1, ProposedStep
    <3>2. QED
      BY <3>1 DEF LostDrafts
  <2>2. QED
    BY <2>1, ProposedStep
<1>2. PICK d \in Refs : d = auditLog[l].ref
  <2>1. auditLog[l].ref \in 1..calls
    BY <1>1 DEF CountInv, ProposedOK
  <2>2. calls \in 0..MaxCalls /\ MaxCalls \in Nat
    BY ConstantsAssumption DEF DraftInv, TypeOK
  <2>3. 1..calls \subseteq Refs
    BY <2>2, DraftToolsAssumption
  <2>4. QED
    BY <2>1, <2>3
<1>3. /\ ~Open(d)' /\ Credits(d)' = {}
      /\ \A q \in Handlers : ~(q \in Claimers(d))'
      /\ \A q \in Handlers : ~(run'[q].log = l /\ pc'[q] = "apply")
  BY <1>1, <1>2 DEF LostDrafts, Open, Claimers
<1>4. Open(d) \/ Credits(d) # {} \/ \E q \in Handlers : InHands(q, l)
  BY <1>1, <1>2, LostAre
<1>5. \A q \in Handlers : q # r => ~InHands(q, l)
  BY <1>0, <1>2, <1>3, OthersClaim DEF InHands
<1>6. Credits(d) = {}
  <2>1. Credits(d) \subseteq Credits(d)'
    BY <1>2, ServeKind DEF Rest, Opens, Takes, Deletes, HoldsOn, Books, Drops,
                           CreditsKept, Credits
  <2>2. QED
    BY <1>3, <2>1
<1>7. ~Open(d)
  <2>1. CASE Deletes(r)
    <3>1. local'[r].draft # d
      BY <1>3, <2>1, OwnClaim DEF Deletes
    <3>2. Open(d) => Open(d)'
      BY <2>1, <3>1 DEF Deletes, Open
    <3>3. QED
      BY <1>3, <3>2
  <2>2. CASE ~Deletes(r)
    <3>1. pending \subseteq pending'
      BY <2>2, ServeKind DEF Rest, Opens, Takes, HoldsOn, Books, Drops
    <3>2. QED
      BY <1>3, <3>1 DEF Open
  <2>3. QED
    BY <2>1, <2>2
<1>8. InHands(r, l)
  BY <1>4, <1>5, <1>6, <1>7
<1>9. StatementFails
  <2>1. CASE r \in Claimers(d)
    <3>1. Claims(r) /\ local[r].draft = d
      BY <2>1, OwnClaim
    <3>2. ~Rest(r) /\ ~Opens(r) /\ ~Takes(r)
      BY <3>1 DEF Rest, Opens, Takes
    <3>3. ~Deletes(r) /\ ~HoldsOn(r)
      BY <1>3, <3>1, OwnClaim DEF Deletes, HoldsOn
    <3>4. ~Books(r)
      BY <1>2, <1>3, <3>1 DEF Books
    <3>5. Drops(r)
      BY <3>2, <3>3, <3>4, ServeKind
    <3>6. QED
      BY <3>5 DEF Drops
  <2>2. CASE r \notin Claimers(d)
    <3>1. run[r].log = l /\ pc[r] = "apply"
      BY <1>2, <1>8, <2>2 DEF InHands
    <3>2. auditLog[l] = SuccessRow(r)
      BY <3>1 DEF DraftInv, ToolOK, LoggedOK
    <3>3. Tool(r, "propose_passage")
      <4>1. auditLog[l].tool = "propose_passage"
        BY <1>1 DEF Proposed, Success
      <4>2. SuccessRow(r).tool = run[r].call.tool
        BY DEF SuccessRow
      <4>3. QED
        BY <3>2, <4>1, <4>2 DEF Tool
    <3>4. ~Claims(r)
      BY <3>3 DEF Claims, Tool
    <3>5. CASE Opens(r)
      <4>1. auditLog[l].ref = run[r].eff.ref
        BY <3>2 DEF SuccessRow
      <4>2. run[r].eff.ref = run[r].no
        BY <3>1, <3>3 DEF DraftInv, ToolOK, ProposeOK, Decided
      <4>3. [draft |-> run[r].no, agent |-> run[r].call.agent] \in pending'
        BY <3>5 DEF Opens
      <4>4. Open(d)'
        BY <1>2, <4>1, <4>2, <4>3 DEF Open
      <4>5. QED
        BY <1>3, <4>4
    <3>6. CASE Takes(r)
      <4>1. Tool(r, "approve_draft")'
        BY <3>6 DEF Takes, Claims
      <4>2. run' = run
        BY <3>6 DEF Takes, engineVars
      <4>3. QED
        BY <3>3, <4>1, <4>2 DEF Tool
    <3>7. ~Deletes(r) /\ ~HoldsOn(r) /\ ~Books(r) /\ ~Drops(r)
      BY <3>4 DEF Deletes, HoldsOn, Books, Drops
    <3>8. CASE Rest(r)
      BY <3>1, <3>3, <3>8 DEF Rest
    <3>9. QED
      BY <3>5, <3>6, <3>7, <3>8, ServeKind
  <2>3. QED
    BY <2>1, <2>2
<1>10. QED
  BY <1>1, <1>8, <1>9

\* A crash loses what the handlers had in their hands, one proposal each.
LEMMA LostByCrash ==
  ASSUME DraftInv, CountInv, Restart
  PROVE  /\ IsFiniteSet(LostDrafts')
         /\ Cardinality(LostDrafts') <=
              Cardinality(LostDrafts) + Cardinality(Handlers)
<1> DEFINE N == {l \in Proposed : \E r \in Handlers : InHands(r, l)}
           f == [l \in N |-> CHOOSE r \in Handlers : InHands(r, l)]
<1>1. LostDrafts' \in SUBSET (LostDrafts \cup N)
  <2>1. UNCHANGED <<auditLog, pending, ledger>>
    BY DEF Restart, Crash, tables
  <2>2. Proposed' = Proposed
    BY <2>1 DEF Proposed, Success
  <2>3. ASSUME NEW l \in LostDrafts'
        PROVE  l \in Proposed /\ ~Open(auditLog[l].ref)
               /\ Credits(auditLog[l].ref) = {}
    BY <2>1, <2>2 DEF LostDrafts, Open, Credits
  <2>4. QED
    BY <2>3, LostAre
<1>2. f \in Injection(N, Handlers)
  <2>1. \A l \in N : f[l] \in Handlers /\ InHands(f[l], l)
    OBVIOUS
  <2>2. f \in [N -> Handlers]
    BY <2>1
  <2>3. N \subseteq Proposed
    OBVIOUS
  <2> HIDE DEF f, N
  <2>4. \A k, l \in N : f[k] = f[l] => k = l
    BY <2>1, <2>3, HandsHoldOne
  <2>5. QED
    BY <2>2, <2>4 DEF Injection, IsInjective
<1> HIDE DEF f, N
<1>3. IsFiniteSet(N) /\ Cardinality(N) <= Cardinality(Handlers)
  BY <1>2, ConstantsAssumption, FS_Injection
<1>4. /\ IsFiniteSet(LostDrafts \cup N)
      /\ Cardinality(LostDrafts \cup N) =
           Cardinality(LostDrafts) + Cardinality(N) - Cardinality(LostDrafts \cap N)
  BY <1>3, LostFinite, FS_Union
<1>5. /\ IsFiniteSet(LostDrafts')
      /\ Cardinality(LostDrafts') <= Cardinality(LostDrafts \cup N)
  BY <1>1, <1>4, FS_Subset
<1>6. IsFiniteSet(LostDrafts \cap N)
  BY <1>3, FS_Intersection
<1>7. /\ Cardinality(N) \in Nat /\ Cardinality(LostDrafts \cap N) \in Nat
      /\ Cardinality(LostDrafts') \in Nat /\ Cardinality(LostDrafts) \in Nat
      /\ Cardinality(Handlers) \in Nat
  BY <1>3, <1>5, <1>6, LostFinite, FS_CardinalityType, ConstantsAssumption
<1>8. QED
  BY <1>3, <1>4, <1>5, <1>7

LEMMA HandlerKeepsCrashes ==
  ASSUME DraftInv, NEW r \in Handlers,
         Serve(r) \/ (Begin(r) /\ UNCHANGED draftVars)
  PROVE  crashes' = crashes
<1>1. UNCHANGED engineVars \/ Begin(r) \/ EngineStep(r) \/ ToolStep(r)
  BY ServeIsEngine
<1>2. UNCHANGED engineVars \/ Begin(r) => crashes' = crashes
  BY DEF engineVars, bounds, Begin
<1>3. EngineStep(r) => crashes' = crashes
  BY DEF EngineStep, GetCovenant, GetMember, IdentityFails, RateLimitGate,
     GateFails, CheckAndReserve, ExecuteStatementFails, CalculateEffects,
     WriteAuditLog, AuditLogFails, ApplyStatementFails, RecordSpend,
     RecordSpendFails, SettleReservation, ReleaseReservation, LogRejection,
     bounds, StatementFails
<1>4. ToolStep(r) => crashes' = crashes
  BY DEF ToolStep, PreconditionsPass, PreconditionsFail, ExecuteFails,
     ExecuteSucceeds, ExecuteOverlooks, ApplySucceeds, ApplyFails,
     ApplyOverlooks, ApplyRefund, bounds, StatementFails
<1>5. QED
  BY <1>1, <1>2, <1>3, <1>4

LEMMA LostStep ==
  ASSUME DraftInv, DraftInv', CountInv, DraftsConserved, [DraftNext]_vars
  PROVE  DraftsConserved'
<1> SUFFICES ASSUME CurrencyMatches
             PROVE  Cardinality(LostDrafts') <=
                      Cardinality(Handlers) * crashes' + faults'
  BY DEF DraftsConserved
<1> DEFINE H == Cardinality(Handlers)
           L == Cardinality(LostDrafts)
           M == Cardinality(LostDrafts')
<1>0. TypeOK /\ TypeOK' /\ [Next]_engineVars
  BY StepIsEngine DEF DraftInv
<1>1. /\ crashes \in Nat /\ faults \in Nat /\ crashes' \in Nat /\ faults' \in Nat
      /\ H \in Nat /\ L \in Nat /\ L <= H * crashes + faults
  BY <1>0, LostFinite, ConstantsAssumption, FS_CardinalityType
     DEF TypeOK, DraftsConserved
<1>2. /\ faults' >= faults
      /\ crashes' = crashes \/ crashes' = crashes + 1
      /\ StatementFails => faults' = faults + 1
      /\ crashes' = crashes \/ Crash
  BY <1>0, <1>1, CountersStep DEF StatementFails, Crash
<1>f. IsFiniteSet(LostDrafts') /\ M \in Nat
  <2>1. /\ DOMAIN auditLog' = 1..Len(auditLog') /\ Len(auditLog') \in Int
        /\ 1 \in Int
    BY <1>0, LenProperties DEF TypeOK
  <2>2. IsFiniteSet(DOMAIN auditLog')
    BY <2>1, FS_Interval
  <2>3. LostDrafts' \in SUBSET DOMAIN auditLog'
    BY DEF LostDrafts, Proposed
  <2>4. IsFiniteSet(LostDrafts')
    BY <2>2, <2>3, FS_Subset
  <2>5. QED
    BY <2>4, FS_CardinalityType
<1>g. SUFFICES M <= H * crashes' + faults'
  OBVIOUS
<1> HIDE DEF H
<1>3. /\ H * crashes \in Nat /\ H * crashes' \in Nat
      /\ H * (crashes + 1) = H * crashes + H
  BY <1>1, Products
<1>4. ASSUME NEW r \in Handlers, Serve(r) \/ (Begin(r) /\ UNCHANGED draftVars)
      PROVE  M <= H * crashes' + faults'
  <2>0. crashes' = crashes
    BY <1>4, HandlerKeepsCrashes
  <2>1. CASE ~StatementFails
    <3>1. LostDrafts' \in SUBSET LostDrafts
      BY <1>4, <2>1, LostByHandler
    <3>2. M <= L
      BY <3>1, LostFinite, FS_Subset
    <3>3. QED
      BY <1>1, <1>2, <1>3, <1>f, <2>0, <3>2
  <2>2. CASE StatementFails
    <3> DEFINE x == CHOOSE l \in Proposed : InHands(r, l)
    <3>1. ASSUME NEW l \in LostDrafts', l \notin LostDrafts
          PROVE  l = x
      <4>1. l \in Proposed /\ InHands(r, l)
        BY <1>4, <3>1, LostByHandler
      <4>2. x \in Proposed /\ InHands(r, x)
        BY <4>1
      <4> HIDE DEF x
      <4>3. QED
        BY <4>1, <4>2, HandsHoldOne
    <3> HIDE DEF x
    <3>2. LostDrafts' \in SUBSET (LostDrafts \cup {x})
      BY <3>1
    <3>3. /\ IsFiniteSet(LostDrafts \cup {x})
          /\ Cardinality(LostDrafts \cup {x}) =
               IF x \in LostDrafts THEN L ELSE L + 1
      BY LostFinite, FS_AddElement
    <3>4. M <= Cardinality(LostDrafts \cup {x})
      BY <3>2, <3>3, FS_Subset
    <3>5. M <= L + 1
      BY <1>1, <1>f, <3>3, <3>4
    <3>6. QED
      BY <1>1, <1>2, <1>3, <1>f, <2>0, <2>2, <3>5
  <2>3. QED
    BY <2>1, <2>2
<1>5. CASE Restart
  <2>1. M <= L + H
    BY <1>5, LostByCrash DEF H
  <2>2. crashes' = crashes + 1
    BY <1>5 DEF Restart, Crash
  <2>3. QED
    BY <1>1, <1>2, <1>3, <1>f, <2>1, <2>2
<1>6. CASE UNCHANGED <<pc, run, draftVars>>
  <2>1. Proposed' = Proposed
    <3>1. ~\E q \in Handlers : pc[q] = "audit" /\ pc'[q] = "apply"
      BY <1>6
    <3>2. QED
      BY <3>1, ProposedStep
  <2>2. \A l \in Proposed : auditLog'[l].ref = auditLog[l].ref
    BY ProposedStep
  <2>3. \A d : Claimers(d)' = Claimers(d) /\ Credits(d)' = Credits(d)
    BY <1>6 DEF Claimers, Credits, Sub, Tool, draftVars
  <2>4. LostDrafts' \in SUBSET LostDrafts
    BY <1>6, <2>1, <2>2, <2>3 DEF LostDrafts, draftVars
  <2>5. M <= L
    BY <2>4, LostFinite, FS_Subset
  <2>6. H * crashes <= H * crashes'
    <3>1. CASE crashes' = crashes
      BY <1>3, <3>1
    <3>2. CASE crashes' = crashes + 1
      BY <1>1, <1>3, <3>2
    <3>3. QED
      BY <1>2, <3>1, <3>2
  <2>7. QED
    BY <1>1, <1>2, <1>3, <1>f, <2>5, <2>6
<1>7. QED
  BY <1>4, <1>5, <1>6, OtherSteps DEF H

\* approve_draft deletes the pending row before anything is logged; yet where
\* the tools' currency is the covenant's, a logged proposal disappears only
\* where the server died, one for each handler, or a statement failed, one for
\* each failure: however the approvals of one draft interleave.
THEOREM DraftsAlwaysConserved == DraftSpec => []DraftsConserved
<1>1. DraftInit => DraftsConserved
  <2> SUFFICES ASSUME DraftInit
               PROVE  Cardinality(LostDrafts) <=
                        Cardinality(Handlers) * crashes + faults
    BY DEF DraftsConserved
  <2>1. auditLog = <<>> /\ crashes = 0 /\ faults = 0
    BY DEF DraftInit, Init
  <2>2. LostDrafts = {}
    BY <2>1 DEF LostDrafts, Proposed
  <2>3. Cardinality({}) = 0 /\ Cardinality(Handlers) \in Nat
    BY FS_EmptySet, FS_CardinalityType, ConstantsAssumption
  <2>4. Cardinality(Handlers) * 0 = 0
    BY <2>3
  <2>5. QED
    BY <2>1, <2>2, <2>3, <2>4
<1>2. DraftInv /\ CountInv /\ (DraftInv /\ CountInv)' /\ DraftsConserved
        /\ [DraftNext]_vars => DraftsConserved'
  BY LostStep
<1>3. QED
  BY <1>1, <1>2, CountInvariant, PTL DEF DraftSpec
-----------------------------------------------------------------------------
(* Calls that are served one at a time.                                    *)

\* Calls are served one at a time, as the tests serve them.
OneAtATime == \E h : Handlers = {h}

\* With room for the call under way, if it has passed the gate.
LimitInv ==
  /\ budget.exists
  /\ budget.limit > 0 =>
       /\ budget.spent <= budget.limit
       /\ \A r \in Chargers : budget.spent + run[r].call.cost <= budget.limit

LEMMA LimitStep ==
  ASSUME OneAtATime, TypeOK, LimitInv, [Next]_engineVars
  PROVE  LimitInv'
<1>1. /\ budget \in [exists : BOOLEAN, limit : Int, spent : Nat]
      /\ \A r \in Handlers : run[r].call.cost \in Nat
      /\ budget.exists /\ budget' \in [exists : BOOLEAN, limit : Int, spent : Nat]
  BY ChargersFinite, TypeStep DEF TypeOK, LimitInv
<1>2. ASSUME NEW r \in Handlers, Begin(r) \/ EngineStep(r) \/ ToolStep(r)
      PROVE  LimitInv'
  <2>1. budget'.exists /\ budget'.limit = budget.limit
    BY <1>1, <1>2, CounterWrites
  <2> SUFFICES ASSUME budget.limit > 0
               PROVE  /\ budget'.spent <= budget.limit
                      /\ r \in Chargers' =>
                           budget'.spent + run'[r].call.cost <= budget.limit
    BY <2>1 DEF LimitInv, OneAtATime, Chargers
  <2>2. CASE RecordSpend(r) /\ run[r].call.cost > 0
             /\ budget'.spent = budget.spent + run[r].call.cost
    <3>1. r \in Chargers /\ r \notin Chargers'
      BY <2>2 DEF RecordSpend, At, Goto, Return, Chargers, Unsettled, TypeOK
    <3>2. QED
      BY <2>2, <3>1 DEF LimitInv
  <2>3. CASE budget'.spent <= budget.spent
    <3>1. budget'.spent <= budget.limit
      BY <1>1, <2>3 DEF LimitInv
    <3>2. ASSUME r \in Chargers'
          PROVE  budget'.spent + run'[r].call.cost <= budget.limit
      <4>1. /\ run'[r].call = run[r].call
            /\ r \in Chargers \/ CheckAndReserve(r)
        BY <1>2, <3>2, ChargerCalls
      <4>2. CASE r \in Chargers
        BY <1>1, <2>3, <4>1, <4>2 DEF LimitInv
      <4>3. CASE CheckAndReserve(r)
        <5>1. run[r].call.cost > 0 /\ budget.exists
          BY <1>1, <3>2, <4>1 DEF Chargers
        <5>2. ~Exhausted(run[r].call.cost)
          <6>1. pc'[r] # "reject"
            BY <3>2 DEF Chargers, Unsettled
          <6>2. QED
            BY <4>3, <5>1, <6>1 DEF CheckAndReserve, Goto, TypeOK
        <5>3. QED
          BY <1>1, <2>3, <4>1, <5>2 DEF Exhausted
      <4>4. QED
        BY <4>1, <4>2, <4>3
    <3>3. QED
      BY <3>1, <3>2
  <2>4. QED
    BY <1>2, <2>2, <2>3, CounterWrites
<1>3. CASE Environment \/ CovenantChanges \/ MemberChanges
           \/ UNCHANGED engineVars
  <2>1. budget' = budget
    BY <1>1, <1>3 DEF Environment, SetBudget, HourPasses, Crash,
       CovenantChanges, MemberChanges, engineVars, tables
  <2>2. /\ Chargers' \in SUBSET Chargers
        /\ \A q \in Chargers' : run'[q].call = run[q].call
    BY <1>3, NoCallMoves DEF Chargers, Unsettled
  <2>3. QED
    BY <2>1, <2>2 DEF LimitInv
<1>4. QED
  BY <1>2, <1>3 DEF Next

LEMMA LimitInit == BudgetedInit => LimitInv
<1> SUFFICES ASSUME BudgetedInit
             PROVE  LimitInv
  OBVIOUS
<1>1. Chargers = {}
  BY DEF BudgetedInit, DraftInit, Init, Chargers, Unsettled
<1>2. budget.exists /\ budget.spent = 0
  BY DEF BudgetedInit, DraftInit, Init
<1>3. budget.limit \in Int
  BY TypeInit DEF BudgetedInit, DraftInit, TypeOK
<1>4. QED
  BY <1>1, <1>2, <1>3 DEF LimitInv

\* The gate compares with the counter and deducts nothing; still, where calls
\* are served one at a time under a budget that was set first, what is spent
\* never passes the limit.
THEOREM LimitAlwaysKept == OneAtATime /\ BudgetedSpec => []WithinLimit
<1> SUFFICES ASSUME OneAtATime
             PROVE  BudgetedSpec => []WithinLimit
  OBVIOUS
<1>1. DraftInv /\ LimitInv /\ [DraftNext]_vars => LimitInv'
  BY StepIsEngine, LimitStep DEF DraftInv
<1>2. BudgetedInit => DraftInv
  BY DraftInvInit DEF BudgetedInit
<1>3. LimitInv => WithinLimit
  BY DEF LimitInv, WithinLimit
<1>4. QED
  BY <1>1, <1>2, <1>3, LimitInit, DraftInvStep, PTL DEF BudgetedSpec
-----------------------------------------------------------------------------
\* The row of a call that is being applied is the last one of the log.
OwnIsLast == \A r \in Handlers : pc[r] = "apply" => run[r].log = Len(auditLog)

\* The balance that was read for an entry is still the balance.
ReadIsBalance ==
  \A r \in Handlers, a \in Agents :
    Sub(r, "insert") /\ local[r].agent = a => local[r].balance = Balance(a)

\* Entry l is the newest one of agent a, of whose entries none is rejected.
ShowsBalance(l, a) ==
  /\ ledger[l].agent = a
  /\ \A k \in DOMAIN ledger :
       ledger[k].agent = a => k <= l /\ ledger[k].status = "confirmed"

BalanceInv ==
  /\ OwnIsLast /\ ReadIsBalance
  /\ \A l \in DOMAIN ledger, a \in Agents :
       ShowsBalance(l, a) => ledger[l].balance = Balance(a)


LEMMA ConfirmedFinite ==
  ASSUME DraftTyped, TypeOK, NEW a
  PROVE  /\ IsFiniteSet(DOMAIN auditLog) /\ IsFiniteSet(DOMAIN ledger)
         /\ IsFiniteSet(Confirmed(a))
         /\ \A l \in DOMAIN ledger : ledger[l].delta \in Int
         /\ Balance(a) \in Int
<1>1. /\ DOMAIN auditLog = 1..Len(auditLog) /\ Len(auditLog) \in Int /\ 1 \in Int
  BY LenProperties DEF TypeOK
<1>2. IsFiniteSet(DOMAIN auditLog)
  BY <1>1, FS_Interval
<1>3. DOMAIN ledger \in SUBSET DOMAIN auditLog
  BY DEF DraftTyped
<1>4. Confirmed(a) \in SUBSET DOMAIN ledger
  BY DEF Confirmed
<1>5. IsFiniteSet(DOMAIN ledger) /\ IsFiniteSet(Confirmed(a))
  BY <1>2, <1>3, <1>4, FS_Subset
<1>6. \A l \in DOMAIN ledger : ledger[l].delta \in Int
  BY ConstantsAssumption DEF DraftTyped, EntryOK
<1> DEFINE f == [l \in DOMAIN ledger |-> ledger[l].delta]
<1>7. \A l \in Confirmed(a) : f[l] \in Int
  BY <1>4, <1>6
<1> HIDE DEF f
<1>8. SumFunctionOnSet(f, Confirmed(a)) \in Int
  BY <1>5, <1>7, SumTyped
<1>9. QED
  BY <1>2, <1>5, <1>6, <1>8 DEF Balance, f

\* A balance is read off the deltas of the agent's confirmed entries.
LEMMA BalanceReads ==
  ASSUME DraftTyped, TypeOK, NEW a, Confirmed(a)' = Confirmed(a),
         \A l \in Confirmed(a) : ledger'[l].delta = ledger[l].delta
  PROVE  Balance(a)' = Balance(a)
<1> DEFINE f == [l \in DOMAIN ledger |-> ledger[l].delta]
           g == [l \in DOMAIN ledger' |-> ledger'[l].delta]
<1>1. \A l \in Confirmed(a) : l \in DOMAIN ledger /\ l \in DOMAIN ledger'
  BY DEF Confirmed
<1>2. \A l \in Confirmed(a) : g[l] = f[l]
  BY <1>1
<1> HIDE DEF f, g
<1>3. IsFiniteSet(Confirmed(a))
  BY ConfirmedFinite
<1>4. SumFunctionOnSet(g, Confirmed(a)) = SumFunctionOnSet(f, Confirmed(a))
  BY <1>2, <1>3, SumReads
<1>5. QED
  BY <1>4 DEF Balance, f, g

\* Booking adds the award to the balance of the beneficiary, and to no other.
LEMMA BookedBalance ==
  ASSUME DraftInv, NEW r \in Handlers, ConfirmInsert(r), NEW a
  PROVE  Balance(a)' = IF a = local[r].agent
                       THEN Balance(a) + run[r].eff.tokens ELSE Balance(a)
<1> DEFINE n == run[r].log
           g == [l \in DOMAIN ledger' |-> ledger'[l].delta]
           f == [l \in DOMAIN ledger |-> ledger[l].delta]
<1>1. /\ n \notin DOMAIN ledger
      /\ ledger' = [l \in DOMAIN ledger \cup {n} |->
                      IF l = n THEN LedgerRow(r) ELSE ledger[l]]
  BY Booked
<1>2. /\ LedgerRow(r).agent = local[r].agent
      /\ LedgerRow(r).delta = run[r].eff.tokens
      /\ LedgerRow(r).status = "confirmed"
      /\ run[r].eff.tokens \in Int
  <2>1. run[r].eff.tokens \in Tokens
    BY DEF DraftInv, TypeOK, RunLocals, Effects
  <2>2. QED
    BY <2>1, ConstantsAssumption DEF LedgerRow
<1> HIDE DEF n
<1>3. /\ DOMAIN ledger' = DOMAIN ledger \cup {n} /\ ledger'[n] = LedgerRow(r)
      /\ \A l \in DOMAIN ledger : ledger'[l] = ledger[l]
  BY <1>1
<1>4. /\ IsFiniteSet(Confirmed(a)) /\ \A l \in DOMAIN ledger : ledger[l].delta \in Int
      /\ Confirmed(a) \subseteq DOMAIN ledger
  BY ConfirmedFinite DEF DraftInv, Confirmed
<1>5. CASE a = local[r].agent
  <2>1. Confirmed(a)' = Confirmed(a) \cup {n} /\ n \notin Confirmed(a)
    BY <1>1, <1>2, <1>3, <1>5 DEF Confirmed
  <2>2. /\ \A l \in Confirmed(a) : g[l] = f[l]
        /\ \A l \in Confirmed(a) \cup {n} : g[l] \in Int
        /\ g[n] = run[r].eff.tokens
    BY <1>2, <1>3, <1>4
  <2> HIDE DEF f, g
  <2>3. SumFunctionOnSet(g, Confirmed(a) \cup {n}) =
          SumFunctionOnSet(g, Confirmed(a)) + g[n]
    BY <1>4, <2>1, <2>2, SumAdds
  <2>4. SumFunctionOnSet(g, Confirmed(a)) = SumFunctionOnSet(f, Confirmed(a))
    BY <1>4, <2>2, SumReads
  <2>5. Balance(a)' = SumFunctionOnSet(g, Confirmed(a) \cup {n})
    BY <2>1 DEF Balance, g
  <2>6. Balance(a) = SumFunctionOnSet(f, Confirmed(a))
    BY DEF Balance, f
  <2>7. QED
    BY <1>5, <2>2, <2>3, <2>4, <2>5, <2>6
<1>6. CASE a # local[r].agent
  <2>1. Confirmed(a)' = Confirmed(a)
    BY <1>1, <1>2, <1>3, <1>6 DEF Confirmed
  <2>2. \A l \in Confirmed(a) : ledger'[l].delta = ledger[l].delta
    BY <1>3, <1>4
  <2>3. QED
    BY <1>6, <2>1, <2>2, BalanceReads DEF DraftInv
<1>7. QED
  BY <1>5, <1>6

\* Where a balance that was read is still waiting to be booked.
LEMMA ReadsBalance ==
  ASSUME DraftInv, DraftInv', NEW r \in Handlers,
         Serve(r) \/ (Begin(r) /\ UNCHANGED draftVars), Sub(r, "insert")'
  PROVE  ConfirmRead(r)
<1>1. pc'[r] = "apply" /\ Tool(r, "approve_draft")'
  BY DEF DraftInv, ToolOK, SubOK, Sub, Tool
<1>2. local = [q \in Handlers |-> local[q]] /\ pc \in [Handlers -> Labels]
  BY DEF DraftInv, DraftTyped, TypeOK
<1>3. ~Forget(r)
  <2>1. Forget(r) => local'[r] = NoLocal
    BY <1>2 DEF Forget
  <2>2. QED
    BY <2>1, NoLocalOK DEF Sub
<1>4. /\ \/ UNCHANGED engineVars
         \/ pc[r] = "audit"
  <2>1. CASE Begin(r)
    BY <1>1, <1>2, <2>1 DEF Begin, Goto
  <2>2. CASE EngineStep(r) \/ ToolStep(r)
    <3>1. Follows(r)
      BY <2>2, Flow DEF DraftInv
    <3>2. QED
      BY <1>1, <3>1 DEF Follows, Edge
  <2>3. QED
    BY <2>1, <2>2, ServeIsEngine
<1>5. CASE pc[r] = "audit"
  <2>1. local[r].sub = "start"
    BY <1>5, StartsOutside
  <2>2. local' = local
    <3>1. Begin(r) => ~(pc[r] = "audit")
      BY DEF Begin, At
    <3>2. EngineOnly(r) => local' = local
      BY <1>3 DEF EngineOnly, draftVars
    <3>3. ~ProposeStep(r) /\ ~ApproveStep(r) /\ ~RejectStep(r)
      BY <1>5, <2>1 DEF ProposeStep, ProposeCheck, ProposeExecute, ProposeApply,
         ApproveStep, ApproveCheck, ApproveWithoutUnits, ApproveFindDraft,
         ApproveClaim, ApproveDelete, ConfirmRead, ConfirmInsert, RejectStep,
         RejectCheck, RejectExecute, RejectUpdate, RejectRefund, Check, GiveUp,
         PreconditionsPass, PreconditionsFail, ExecuteSucceeds, ExecuteOverlooks,
         ExecuteFails, ApplySucceeds, ApplyRefund, At
    <3>4. QED
      BY <1>5, <3>1, <3>2, <3>3 DEF Serve
  <2>3. QED
    BY <2>1, <2>2 DEF Sub
<1>6. CASE UNCHANGED engineVars
  <2>1. pc[r] = "apply" /\ Tool(r, "approve_draft")
    BY <1>1, <1>6 DEF engineVars, Tool
  <2>2. ~Begin(r)
    BY <2>1 DEF Begin, At
  <2>3. ~EngineOnly(r)
    BY <1>3, <2>1 DEF EngineOnly, GetCovenant, GetMember, IdentityFails,
       RateLimitGate, CheckAndReserve, GateFails, CalculateEffects,
       WriteAuditLog, RecordSpend, RecordSpendFails, SettleReservation, At
  <2>4. ~ProposeStep(r) /\ ~RejectStep(r)
    BY <2>1 DEF ProposeStep, ProposeCheck, ProposeExecute, ProposeApply,
       RejectStep, RejectCheck, RejectExecute, RejectUpdate, RejectRefund, Tool
  <2>5. ApproveStep(r) => ConfirmRead(r)
    BY <1>3, <2>1 DEF ApproveStep, ApproveCheck, ApproveWithoutUnits,
       ApproveFindDraft, ApproveClaim, ApproveDelete, ConfirmInsert, Check,
       GiveUp, PreconditionsPass, PreconditionsFail, ExecuteSucceeds, At
  <2>6. QED
    BY <2>2, <2>3, <2>4, <2>5 DEF Serve
<1>7. QED
  BY <1>4, <1>5, <1>6

LEMMA BalanceStays ==
  ASSUME ledger' = ledger, NEW a
  PROVE  Balance(a)' = Balance(a)
BY DEF Balance, Confirmed

LEMMA LastRow ==
  ASSUME OneAtATime, TypeOK, [Next]_engineVars, OwnIsLast
  PROVE  OwnIsLast'
<1> SUFFICES ASSUME NEW r \in Handlers, pc'[r] = "apply"
             PROVE  run'[r].log = Len(auditLog')
  BY DEF OwnIsLast
<1>0. /\ auditLog \in Seq(AuditRow) /\ pc \in [Handlers -> Labels]
      /\ run \in [Handlers -> RunLocals] /\ run[r] \in RunLocals
  BY DEF TypeOK
<1>1. CASE WriteAuditLog(r)
  <2> DEFINE n == Len(auditLog) + 1
             M == [run[r] EXCEPT !.log = n]
  <2>1. run' = [run EXCEPT ![r] = M] /\ auditLog' = Append(auditLog, SuccessRow(r))
    BY <1>1 DEF WriteAuditLog
  <2>2. M.log = n
    BY <1>0, RunAssigned
  <2>3. Len(auditLog') = n
    BY <1>0, <2>1, RowsTyped, Appended DEF TypeOK
  <2> HIDE DEF n, M
  <2>4. QED
    BY <1>0, <2>1, <2>2, <2>3
<1>2. CASE pc[r] = "apply" /\ run'[r] = run[r]
  <2>1. ~WriteAuditLog(r) /\ ~LogRejection(r)
    BY <1>2 DEF WriteAuditLog, LogRejection, At
  <2>2. auditLog' = auditLog
    BY <2>1, LogStep DEF OneAtATime
  <2>3. QED
    BY <1>2, <2>2 DEF OwnIsLast
<1>3. QED
  BY <1>1, <1>2, ToApply

LEMMA ReadStep ==
  ASSUME OneAtATime, DraftInv, DraftInv', ReadIsBalance, [DraftNext]_vars
  PROVE  ReadIsBalance'
<1> SUFFICES ASSUME NEW r \in Handlers, NEW a \in Agents,
                    Sub(r, "insert")', local'[r].agent = a
             PROVE  local'[r].balance = Balance(a)'
  BY DEF ReadIsBalance
<1>0. local = [q \in Handlers |-> local[q]] /\ LocalOK(local[r])
  BY DEF DraftInv, DraftTyped
<1>1. CASE UNCHANGED <<pc, run, draftVars>>
  <2>1. local' = local /\ ledger' = ledger
    BY <1>1 DEF draftVars
  <2>2. QED
    BY <2>1, BalanceStays DEF ReadIsBalance, Sub
<1>2. ~Restart
  <2>1. Restart => local'[r] = NoLocal
    BY DEF Restart
  <2>2. QED
    BY <2>1, NoLocalOK DEF Sub
<1>3. CASE Serve(r) \/ (Begin(r) /\ UNCHANGED draftVars)
  <2>1. ConfirmRead(r)
    BY <1>3, ReadsBalance
  <2> DEFINE b == Balance(local[r].agent)
             v == [local[r] EXCEPT !.sub = "insert", !.balance = b]
  <2>2. local' = [local EXCEPT ![r] = v] /\ ledger' = ledger
    BY <2>1 DEF ConfirmRead
  <2>3. v.balance = b /\ v.agent = local[r].agent
    <3> HIDE DEF b
    <3>1. "insert" \in Locals
      BY DEF Locals
    <3>2. QED
      BY <1>0, <3>1, BalanceAssigned DEF LocalOK
  <2> HIDE DEF v
  <2>4. local'[r].balance = b /\ local'[r].agent = local[r].agent
    BY <1>0, <2>2, <2>3
  <2>5. QED
    BY <2>2, <2>4, BalanceStays
<1>4. QED
  BY <1>1, <1>2, <1>3, OtherSteps DEF OneAtATime

LEMMA BalanceStep ==
  ASSUME OneAtATime, DraftInv, DraftInv', BalanceInv, [DraftNext]_vars
  PROVE  BalanceInv'
<1>0. /\ TypeOK /\ DraftTyped /\ [Next]_engineVars
  BY StepIsEngine DEF DraftInv
<1>1. OwnIsLast' /\ ReadIsBalance'
  BY <1>0, LastRow, ReadStep DEF BalanceInv
<1> SUFFICES ASSUME NEW l \in DOMAIN ledger', NEW a \in Agents,
                    ShowsBalance(l, a)'
             PROVE  ledger'[l].balance = Balance(a)'
  BY <1>1 DEF BalanceInv
<1>2. CASE ledger' = ledger
  BY <1>2, BalanceStays DEF BalanceInv, ShowsBalance
<1>3. ASSUME NEW r \in Handlers, ConfirmInsert(r)
      PROVE  ledger'[l].balance = Balance(a)'
  <2> DEFINE n == run[r].log
  <2>1. /\ n \notin DOMAIN ledger /\ pc[r] = "apply"
        /\ ledger' = [k \in DOMAIN ledger \cup {n} |->
                        IF k = n THEN LedgerRow(r) ELSE ledger[k]]
    BY <1>3, Booked
  <2>2. /\ DOMAIN ledger' = DOMAIN ledger \cup {n}
        /\ ledger'[n] = LedgerRow(r)
        /\ \A k \in DOMAIN ledger : ledger'[k] = ledger[k]
    BY <2>1
  <2>3. n \in Nat /\ \A k \in DOMAIN ledger : k \in Nat /\ k < n
    <3>1. n = Len(auditLog)
      BY <2>1 DEF BalanceInv, OwnIsLast
    <3>2. /\ DOMAIN ledger \subseteq 1..Len(auditLog)
          /\ Len(auditLog) \in Nat
      BY <1>0, LenProperties DEF TypeOK, DraftTyped
    <3>3. QED
      BY <2>1, <3>1, <3>2
  <2>4. /\ LedgerRow(r).agent = local[r].agent
        /\ LedgerRow(r).balance = local[r].balance + run[r].eff.tokens
    BY DEF LedgerRow
  <2> HIDE DEF n
  <2>5. CASE l = n
    <3>1. a = local[r].agent
      BY <2>2, <2>4, <2>5 DEF ShowsBalance
    <3>2. local[r].balance = Balance(a)
      BY <1>3, <3>1 DEF BalanceInv, ReadIsBalance, ConfirmInsert
    <3>3. Balance(a)' = Balance(a) + run[r].eff.tokens
      BY <1>3, <3>1, BookedBalance
    <3>4. QED
      BY <2>2, <2>4, <2>5, <3>2, <3>3
  <2>6. CASE l # n
    <3>1. l \in DOMAIN ledger /\ l < n
      BY <2>2, <2>3, <2>6
    <3>2. a # local[r].agent
      <4>1. ledger'[n].agent # a
        BY <2>2, <2>3, <3>1 DEF ShowsBalance
      <4>2. QED
        BY <2>2, <2>4, <4>1
    <3>3. Balance(a)' = Balance(a)
      BY <1>3, <3>2, BookedBalance
    <3>4. ShowsBalance(l, a)
      BY <2>2, <3>1 DEF ShowsBalance
    <3>5. QED
      BY <2>2, <3>1, <3>3, <3>4 DEF BalanceInv
  <2>7. QED
    BY <2>5, <2>6
<1>4. ASSUME NEW r \in Handlers, RejectUpdate(r)
      PROVE  ledger'[l].balance = Balance(a)'
  <2> DEFINE e == run[r].call.ref
  <2>1. /\ e \in DOMAIN ledger /\ DOMAIN ledger' = DOMAIN ledger
        /\ \A k \in DOMAIN ledger :
             /\ ledger'[k].agent = ledger[k].agent
             /\ ledger'[k].delta = ledger[k].delta
             /\ ledger'[k].status =
                  IF k = e THEN "rejected" ELSE ledger[k].status
    BY <1>4, Rejected
  <2>2. \A k \in DOMAIN ledger : ledger'[k].balance = ledger[k].balance
    <3> DEFINE w(k) == [ledger[k] EXCEPT !.status = "rejected"]
    <3>1. ledger' = [k \in DOMAIN ledger |->
                       IF k = run[r].eff.ref THEN w(k) ELSE ledger[k]]
      BY <1>4 DEF RejectUpdate
    <3>2. \A k \in DOMAIN ledger : w(k).balance = ledger[k].balance
      BY <1>0, EntryRejected DEF DraftTyped
    <3> HIDE DEF w
    <3>3. QED
      BY <3>1, <3>2
  <2> HIDE DEF e
  <2>3. ledger[e].agent # a
    BY <2>1 DEF ShowsBalance
  <2>4. Confirmed(a)' = Confirmed(a) /\ Confirmed(a) \subseteq DOMAIN ledger
    BY <2>1, <2>3 DEF Confirmed
  <2>5. Balance(a)' = Balance(a)
    BY <1>0, <2>1, <2>4, BalanceReads
  <2>6. ShowsBalance(l, a) /\ l \in DOMAIN ledger
    BY <2>1, <2>3 DEF ShowsBalance
  <2>7. QED
    BY <2>2, <2>5, <2>6 DEF BalanceInv
<1>5. QED
  BY <1>2, <1>3, <1>4, LedgerWrites

\* balance_after is computed from a balance that was read a statement earlier;
\* where calls are served one at a time it is nevertheless the balance, wherever
\* calls fail and the server dies.
THEOREM BalanceAfterAlwaysExact ==
  OneAtATime /\ DraftSpec => []BalanceAfterExact
<1> SUFFICES ASSUME OneAtATime
             PROVE  DraftSpec => []BalanceAfterExact
  OBVIOUS
<1>1. DraftInv /\ BalanceInv /\ (DraftInv)' /\ [DraftNext]_vars => BalanceInv'
  BY BalanceStep
<1>2. DraftInit => BalanceInv
  <2> SUFFICES ASSUME DraftInit
               PROVE  BalanceInv
    OBVIOUS
  <2>1. /\ \A r \in Handlers : pc[r] = "idle" /\ local[r].sub = "start"
        /\ DOMAIN ledger = {}
    BY NoLocalOK DEF DraftInit, Init
  <2>2. QED
    BY <2>1 DEF BalanceInv, OwnIsLast, ReadIsBalance, Sub
<1>3. DraftInv /\ BalanceInv => BalanceAfterExact
  <2> SUFFICES ASSUME DraftInv, BalanceInv, NEW l \in DOMAIN ledger,
                      \A k \in {k \in DOMAIN ledger :
                                  ledger[k].agent = ledger[l].agent} :
                        k <= l /\ ledger[k].status = "confirmed"
               PROVE  ledger[l].balance = Balance(ledger[l].agent)
    BY DEF BalanceAfterExact
  <2>1. ledger[l].agent \in Agents
    BY DEF DraftInv, DraftTyped, EntryOK
  <2>2. ShowsBalance(l, ledger[l].agent)
    BY DEF ShowsBalance
  <2>3. QED
    BY <2>1, <2>2 DEF BalanceInv
<1>4. QED
  BY <1>1, <1>2, <1>3, DraftInvariant, PTL DEF DraftSpec
-----------------------------------------------------------------------------
(* The counter of the budget is what the audit log says was spent.         *)

Costs == [l \in DOMAIN auditLog |-> auditLog[l].cost]

\* The rows RebuildFromAuditLog counts, and those of them whose call has
\* recorded its charge, or will not.
Charged ==
  {l \in DOMAIN auditLog :
     /\ auditLog[l].result = "success"
     /\ l \in DOMAIN ledger => ledger[l].status # "rejected"}

Recording == {r \in Handlers : pc[r] \in {"apply", "spend"}}

Recorded == {l \in Charged : \A r \in Recording : run[r].log # l}

\* What the handler has taken off the ledger and not yet off the counter.
Returning(r) == IF Sub(r, "refund") THEN local[r].cost ELSE 0

CounterExact ==
  \A r \in Handlers :
    budget.spent = SumFunctionOnSet(Costs, Recorded) + Returning(r)

OwnCharged == \A r \in Recording : run[r].log \in Charged

\* A rejection under way is of an entry that is not rejected yet, and knows its
\* cost.
RejectKnows ==
  \A r \in Handlers : Tool(r, "reject_draft") =>
    /\ pc[r] \in Passed /\ Sub(r, "start") => run[r].call.ref \in Charged
    /\ pc[r] \in Decided => local[r].cost = auditLog[run[r].call.ref].cost

CounterInv ==
  /\ budget.exists
  /\ crashes = 0 /\ faults = 0 =>
       CounterExact /\ OwnCharged /\ RejectKnows

LEMMA CountsFinite ==
  ASSUME TypeOK
  PROVE  /\ DOMAIN auditLog = 1..Len(auditLog) /\ Len(auditLog) \in Nat
         /\ IsFiniteSet(Charged) /\ IsFiniteSet(Recorded)
         /\ Recorded \subseteq Charged /\ Charged \subseteq DOMAIN auditLog
         /\ \A l \in DOMAIN auditLog :
              Costs[l] = auditLog[l].cost /\ auditLog[l].cost \in Nat
         /\ SumFunctionOnSet(Costs, Recorded) \in Nat
<1>1. /\ DOMAIN auditLog = 1..Len(auditLog) /\ Len(auditLog) \in Nat
      /\ auditLog \in Seq(AuditRow)
  BY LenProperties DEF TypeOK
<1>2. IsFiniteSet(DOMAIN auditLog)
  BY <1>1, FS_Interval
<1>3. Recorded \in SUBSET Charged /\ Charged \in SUBSET DOMAIN auditLog
  BY DEF Recorded, Charged
<1>4. IsFiniteSet(Charged) /\ IsFiniteSet(Recorded)
  BY <1>2, <1>3, FS_Subset
<1>5. \A l \in DOMAIN auditLog : auditLog[l].cost \in Nat
  <2>1. \A l \in DOMAIN auditLog : auditLog[l] \in AuditRow
    BY <1>1
  <2>2. \A row \in AuditRow : row.cost \in 0..MaxCost
    BY DEF AuditRow
  <2>3. 0..MaxCost \subseteq Nat
    BY ConstantsAssumption
  <2>4. QED
    BY <2>1, <2>2, <2>3
<1>6. \A l \in DOMAIN auditLog :
        Costs[l] = auditLog[l].cost /\ auditLog[l].cost \in Nat
  BY <1>5 DEF Costs
<1>7. \A l \in Recorded : Costs[l] \in Nat
  BY <1>3, <1>6
<1>8. SumFunctionOnSet(Costs, Recorded) \in Nat
  BY <1>4, <1>7, SumNatural
<1>9. QED
  BY <1>1, <1>3, <1>4, <1>6, <1>8

\* A step that leaves the counted rows and their costs alone leaves the sum.
LEMMA RecordedReads ==
  ASSUME TypeOK, Recorded' = Recorded,
         \A l \in Recorded : /\ l \in DOMAIN auditLog'
                             /\ auditLog'[l] = auditLog[l]
  PROVE  SumFunctionOnSet(Costs, Recorded)' = SumFunctionOnSet(Costs, Recorded)
<1>1. \A l \in Recorded : Costs'[l] = Costs[l]
  BY CountsFinite DEF Costs
<1>2. SumFunctionOnSet(Costs', Recorded) = SumFunctionOnSet(Costs, Recorded)
  BY <1>1, CountsFinite, SumReads
<1>3. QED
  BY <1>2

\* The row a call has logged is counted, and is no entry of a rejection's.
LEMMA OwnRow ==
  ASSUME DraftInv, NEW r \in Handlers, pc[r] = "apply"
  PROVE  /\ run[r].log \in DOMAIN auditLog
         /\ auditLog[run[r].log] = SuccessRow(r)
         /\ run[r].log \notin DOMAIN ledger
         /\ run[r].log \in Charged
<1>1. /\ run[r].log \in DOMAIN auditLog
      /\ auditLog[run[r].log] = SuccessRow(r)
  BY DEF DraftInv, ToolOK, LoggedOK
<1>2. SuccessRow(r).result = "success" /\ SuccessRow(r).tool = run[r].call.tool
  BY DEF SuccessRow
<1>3. run[r].log \notin DOMAIN ledger
  <2>1. CASE Tool(r, "approve_draft")
    BY <2>1 DEF DraftInv, Unbooked
  <2>2. CASE ~Tool(r, "approve_draft")
    BY <1>1, <1>2, <2>2 DEF DraftInv, BookIsLogged, Success, Tool
  <2>3. QED
    BY <2>1, <2>2
<1>4. QED
  BY <1>1, <1>2, <1>3 DEF Charged

LEMMA BookingCounts ==
  ASSUME OneAtATime, DraftInv, NEW r \in Handlers, ConfirmInsert(r),
         CounterExact, OwnCharged, budget.exists
  PROVE  CounterExact' /\ OwnCharged'
<1>0. TypeOK /\ pc \in [Handlers -> Labels]
  BY DEF DraftInv, TypeOK
<1> DEFINE n == run[r].log
<1>1. /\ pc[r] = "apply" /\ pc'[r] = "spend" /\ auditLog' = auditLog
      /\ run' = run /\ budget' = budget /\ Sub(r, "insert")
      /\ local' = [local EXCEPT ![r] = NoLocal]
  BY Booked DEF ConfirmInsert, ApplySucceeds, tables, Forget
<1>2. /\ n \notin DOMAIN ledger /\ LedgerRow(r).status = "confirmed"
      /\ ledger' = [l \in DOMAIN ledger \cup {n} |->
                      IF l = n THEN LedgerRow(r) ELSE ledger[l]]
  BY Booked
<1> HIDE DEF n
<1>3. /\ DOMAIN ledger' = DOMAIN ledger \cup {n} /\ ledger'[n] = LedgerRow(r)
      /\ \A l \in DOMAIN ledger : ledger'[l] = ledger[l]
  BY <1>2
<1>4. Charged' = Charged
  BY <1>1, <1>2, <1>3 DEF Charged
<1>5. Recording' = {r} /\ Recording = {r}
  BY <1>1 DEF Recording, OneAtATime
<1>6. Recorded' = Recorded
  BY <1>1, <1>4, <1>5 DEF Recorded
<1>7. SumFunctionOnSet(Costs, Recorded)' = SumFunctionOnSet(Costs, Recorded)
  <2>1. \A l \in Recorded : l \in DOMAIN auditLog' /\ auditLog'[l] = auditLog[l]
    BY <1>0, <1>1, CountsFinite
  <2>2. QED
    BY <1>0, <1>6, <2>1, RecordedReads
<1>8. Returning(r) = 0 /\ Returning(r)' = 0
  <2>1. local'[r] = NoLocal
    BY <1>1 DEF DraftInv, DraftTyped
  <2>2. QED
    BY <1>1, <2>1, NoLocalOK DEF Returning, Sub
<1>9. QED
  BY <1>1, <1>4, <1>5, <1>7, <1>8 DEF CounterExact, OwnCharged, OneAtATime

\* What a call without failures does next, by the step it is at.
LEMMA ServedAt ==
  ASSUME DraftInv, NEW r \in Handlers,
         Serve(r) \/ (Begin(r) /\ UNCHANGED draftVars), ~StatementFails
  PROVE  /\ pc[r] = "audit" => WriteAuditLog(r) /\ UNCHANGED draftVars
         /\ pc[r] = "spend" => RecordSpend(r) /\ UNCHANGED draftVars
         /\ pc[r] = "apply" =>
              \/ ProposeApply(r) \/ ConfirmRead(r) \/ ConfirmInsert(r)
              \/ RejectUpdate(r) \/ RejectRefund(r)
<1>1. Begin(r) => pc[r] = "idle"
  BY DEF Begin, At
<1>2. ASSUME EngineOnly(r), pc[r] \in {"audit", "apply", "spend"}
      PROVE  /\ pc[r] = "audit" => WriteAuditLog(r) /\ UNCHANGED draftVars
             /\ pc[r] = "spend" => RecordSpend(r) /\ UNCHANGED draftVars
             /\ pc[r] # "apply"
  <2>1. /\ ~GetCovenant(r) /\ ~GetMember(r) /\ ~IdentityFails(r)
        /\ ~RateLimitGate(r) /\ ~CheckAndReserve(r) /\ ~GateFails(r)
        /\ ~CalculateEffects(r) /\ ~SettleReservation(r)
    BY <1>2 DEF GetCovenant, GetMember, IdentityFails, RateLimitGate,
       CheckAndReserve, GateFails, CalculateEffects, SettleReservation, At
  <2>2. /\ ~ExecuteStatementFails(r) /\ ~AuditLogFails(r)
        /\ ~ApplyStatementFails(r) /\ ~ReleaseReservation(r)
        /\ ~LogRejection(r) /\ ~RecordSpendFails(r)
    BY <1>2 DEF ExecuteStatementFails, AuditLogFails, ApplyStatementFails,
       ReleaseReservation, LogRejection, RecordSpendFails, At
  <2>3. (WriteAuditLog(r) \/ RecordSpend(r)) /\ UNCHANGED draftVars
    BY <1>2, <2>1, <2>2 DEF EngineOnly
  <2>4. /\ WriteAuditLog(r) => pc[r] = "audit"
        /\ RecordSpend(r) => pc[r] = "spend"
    BY DEF WriteAuditLog, RecordSpend, At
  <2>5. QED
    BY <2>3, <2>4
<1>3. ASSUME ProposeStep(r) \/ ApproveStep(r) \/ RejectStep(r),
             pc[r] \in {"audit", "apply", "spend"}
      PROVE  \/ ProposeApply(r) \/ ConfirmRead(r) \/ ConfirmInsert(r)
             \/ RejectUpdate(r) \/ RejectRefund(r)
  <2>1. ProposeStep(r) => ProposeApply(r)
    BY <1>3 DEF ProposeStep, ProposeCheck, ProposeExecute, Check,
       PreconditionsPass, PreconditionsFail, ExecuteSucceeds, At
  <2>2. ApproveStep(r) => ConfirmRead(r) \/ ConfirmInsert(r)
    BY <1>3 DEF ApproveStep, ApproveCheck, ApproveWithoutUnits,
       ApproveFindDraft, ApproveClaim, ApproveDelete, Check, GiveUp,
       PreconditionsPass, PreconditionsFail, ExecuteSucceeds, ExecuteFails, At
  <2>3. RejectStep(r) => RejectUpdate(r) \/ RejectRefund(r)
    BY <1>3 DEF RejectStep, RejectCheck, RejectExecute, Check,
       PreconditionsPass, PreconditionsFail, ExecuteSucceeds, ExecuteOverlooks,
       At
  <2>4. QED
    BY <1>3, <2>1, <2>2, <2>3
<1>4. \/ ProposeApply(r) \/ ConfirmRead(r) \/ ConfirmInsert(r)
      \/ RejectUpdate(r) \/ RejectRefund(r)
      => pc[r] = "apply"
  BY DEF ProposeApply, ConfirmRead, ConfirmInsert, RejectUpdate, RejectRefund,
         ApplySucceeds, ApplyRefund, At
<1>5. QED
  BY <1>1, <1>2, <1>3, <1>4 DEF Serve

\* Elsewhere the step touches neither the counter nor the ledger, and logs no
\* success.
LEMMA ServedElsewhere ==
  ASSUME DraftInv, DraftInv', NEW r \in Handlers,
         Serve(r) \/ (Begin(r) /\ UNCHANGED draftVars),
         pc[r] \notin {"audit", "apply", "spend"}
  PROVE  /\ budget' = budget /\ ledger' = ledger
         /\ pc'[r] \notin {"apply", "spend"}
         /\ auditLog' = auditLog \/ auditLog' = Append(auditLog, RejectedRow(r))
<1>0. TypeOK /\ pc \in [Handlers -> Labels]
  BY DEF DraftInv, TypeOK
<1>1. UNCHANGED engineVars \/ Begin(r) \/ EngineStep(r) \/ ToolStep(r)
  BY ServeIsEngine
<1>2. budget' = budget
  <2>1. Begin(r) \/ UNCHANGED engineVars => budget' = budget
    BY DEF Begin, tables, engineVars
  <2>2. ToolStep(r) => budget' = budget
    BY <1>0 DEF ToolStep, PreconditionsPass, PreconditionsFail, ExecuteSucceeds,
       ExecuteOverlooks, ExecuteFails, ApplySucceeds, ApplyFails,
       ApplyOverlooks, ApplyRefund, At, tables
  <2>3. EngineStep(r) => budget' = budget
    BY DEF EngineStep, GetCovenant, GetMember, IdentityFails, RateLimitGate,
       GateFails, CheckAndReserve, ExecuteStatementFails, CalculateEffects,
       WriteAuditLog, AuditLogFails, ApplyStatementFails, RecordSpend,
       RecordSpendFails, SettleReservation, ReleaseReservation, LogRejection,
       At, tables
  <2>4. QED
    BY <1>1, <2>1, <2>2, <2>3
<1>3. ledger' = ledger
  <2>1. ~ConfirmInsert(r) /\ ~RejectUpdate(r)
    BY DEF ConfirmInsert, RejectUpdate, ApplySucceeds, At
  <2>2. QED
    BY <2>1, LedgerKeptBy
<1>4. pc'[r] \notin {"apply", "spend"}
  <2>1. CASE UNCHANGED engineVars
    BY <2>1 DEF engineVars
  <2>2. CASE Begin(r)
    BY <1>0, <2>2 DEF Begin, Goto
  <2>3. CASE EngineStep(r) \/ ToolStep(r)
    <3>1. Follows(r)
      BY <1>0, <2>3, Flow
    <3>2. QED
      BY <3>1 DEF Follows, Edge
  <2>4. QED
    BY <1>1, <2>1, <2>2, <2>3
<1>5. auditLog' = auditLog \/ auditLog' = Append(auditLog, RejectedRow(r))
  <2>1. Begin(r) \/ UNCHANGED engineVars => auditLog' = auditLog
    BY DEF Begin, tables, engineVars
  <2>2. ToolStep(r) => auditLog' = auditLog
    BY DEF ToolStep, PreconditionsPass, PreconditionsFail, ExecuteSucceeds,
       ExecuteOverlooks, ExecuteFails, ApplySucceeds, ApplyFails,
       ApplyOverlooks, ApplyRefund, tables
  <2>3. EngineStep(r) => \/ auditLog' = auditLog
                         \/ auditLog' = Append(auditLog, RejectedRow(r))
    BY DEF EngineStep, GetCovenant, GetMember, IdentityFails, RateLimitGate,
       GateFails, CheckAndReserve, ExecuteStatementFails, CalculateEffects,
       WriteAuditLog, AuditLogFails, ApplyStatementFails, RecordSpend,
       RecordSpendFails, SettleReservation, ReleaseReservation, LogRejection,
       At, tables
  <2>4. QED
    BY <1>1, <2>1, <2>2, <2>3
<1>6. QED
  BY <1>2, <1>3, <1>4, <1>5

\* A step that counts the same rows, and leaves what is being recorded, the
\* counter and what is being returned alone.
LEMMA SameCounts ==
  ASSUME OneAtATime, TypeOK, NEW r \in Handlers, CounterExact, OwnCharged,
         Charged' = Charged, Recording' = Recording,
         \A l \in Charged : l \in DOMAIN auditLog' /\ auditLog'[l] = auditLog[l],
         r \in Recording => run'[r].log = run[r].log,
         budget' = budget, Returning(r)' = Returning(r)
  PROVE  CounterExact' /\ OwnCharged'
<1>1. Recorded' = Recorded
  BY DEF Recorded, Recording, OneAtATime
<1>2. \A l \in Recorded : l \in DOMAIN auditLog' /\ auditLog'[l] = auditLog[l]
  BY DEF Recorded
<1>3. SumFunctionOnSet(Costs, Recorded)' = SumFunctionOnSet(Costs, Recorded)
  BY <1>1, <1>2, RecordedReads
<1>4. CounterExact'
  BY <1>3 DEF CounterExact, OneAtATime
<1>5. OwnCharged'
  BY DEF OwnCharged, Recording, OneAtATime
<1>6. QED
  BY <1>4, <1>5

LEMMA QuietCounts ==
  ASSUME OneAtATime, DraftInv, DraftInv', NEW r \in Handlers,
         Serve(r) \/ (Begin(r) /\ UNCHANGED draftVars),
         pc[r] \notin {"audit", "apply", "spend"}, CounterExact, OwnCharged
  PROVE  CounterExact' /\ OwnCharged'
<1>0. /\ TypeOK /\ auditLog \in Seq(AuditRow) /\ RejectedRow(r) \in AuditRow
      /\ DOMAIN auditLog = 1..Len(auditLog)
      /\ TypeOK' /\ DOMAIN auditLog' = 1..Len(auditLog')
  BY RowsTyped, LenProperties DEF DraftInv, TypeOK
<1>1. /\ budget' = budget /\ ledger' = ledger
      /\ pc'[r] \notin {"apply", "spend"}
      /\ auditLog' = auditLog \/ auditLog' = Append(auditLog, RejectedRow(r))
  BY ServedElsewhere
<1>2. /\ \A l \in DOMAIN auditLog :
           l \in DOMAIN auditLog' /\ auditLog'[l] = auditLog[l]
      /\ \A l \in DOMAIN auditLog' : l \notin DOMAIN auditLog =>
           auditLog'[l].result = "rejected"
  <2>1. CASE auditLog' = auditLog
    BY <2>1
  <2>2. CASE auditLog' = Append(auditLog, RejectedRow(r))
    <3>1. RejectedRow(r).result = "rejected"
      BY DEF RejectedRow
    <3>2. /\ Len(auditLog') = Len(auditLog) + 1 /\ Len(auditLog) \in Nat
          /\ \A l \in 1..Len(auditLog) : auditLog'[l] = auditLog[l]
          /\ auditLog'[Len(auditLog) + 1] = RejectedRow(r)
      BY <1>0, <2>2, Appended
    <3>3. \A l \in 1..Len(auditLog') : l \in 1..Len(auditLog) \/ l = Len(auditLog) + 1
      BY <3>2
    <3>4. 1..Len(auditLog) \subseteq 1..Len(auditLog')
      BY <3>2
    <3>5. QED
      BY <1>0, <3>1, <3>2, <3>3, <3>4
  <2>3. QED
    BY <1>1, <2>1, <2>2
<1>3. Charged' = Charged
  BY <1>1, <1>2 DEF Charged
<1>4. Recording' = Recording /\ r \notin Recording
  BY <1>1 DEF Recording, OneAtATime
<1>5. Returning(r) = 0 /\ Returning(r)' = 0
  BY <1>1 DEF Returning, DraftInv, ToolOK, SubOK, Sub
<1>6. \A l \in Charged : l \in DOMAIN auditLog' /\ auditLog'[l] = auditLog[l]
  BY <1>2 DEF Charged
<1>7. QED
  BY <1>0, <1>1, <1>3, <1>4, <1>5, <1>6, SameCounts

\* Opening a draft, and reading a balance, count nothing.
LEMMA ProposalCounts ==
  ASSUME OneAtATime, DraftInv, DraftInv', NEW r \in Handlers,
         ProposeApply(r) \/ ConfirmRead(r), CounterExact, OwnCharged
  PROVE  CounterExact' /\ OwnCharged'
<1>1. /\ pc[r] = "apply" /\ pc'[r] \in {"apply", "spend"}
      /\ UNCHANGED <<run, budget, auditLog, ledger>>
  BY DEF ProposeApply, ConfirmRead, ApplySucceeds, At, Goto, tables, engineVars,
         DraftInv, TypeOK
<1>2. Charged' = Charged
  BY <1>1 DEF Charged
<1>3. Recording' = Recording
  BY <1>1 DEF Recording, OneAtATime
<1>4. Returning(r) = 0 /\ Returning(r)' = 0
  <2>1. ~Tool(r, "reject_draft") /\ ~Tool(r, "reject_draft")'
    BY <1>1 DEF ProposeApply, ConfirmRead, Tool
  <2>2. QED
    BY <2>1 DEF Returning, DraftInv, ToolOK, SubOK, Sub, Tool
<1>5. \A l \in Charged : l \in DOMAIN auditLog' /\ auditLog'[l] = auditLog[l]
  BY <1>1 DEF Charged
<1>6. QED
  BY <1>1, <1>2, <1>3, <1>4, <1>5, SameCounts DEF DraftInv

LEMMA AuditCounts ==
  ASSUME OneAtATime, DraftInv, DraftInv', NEW r \in Handlers, WriteAuditLog(r),
         UNCHANGED draftVars, CounterExact, OwnCharged
  PROVE  CounterExact' /\ OwnCharged'
<1> DEFINE n == Len(auditLog) + 1
<1>0. /\ TypeOK /\ auditLog \in Seq(AuditRow) /\ SuccessRow(r) \in AuditRow
      /\ DOMAIN auditLog = 1..Len(auditLog)
      /\ TypeOK' /\ DOMAIN auditLog' = 1..Len(auditLog')
      /\ pc \in [Handlers -> Labels]
  BY RowsTyped, LenProperties DEF DraftInv, TypeOK
<1>1. /\ pc[r] = "audit" /\ pc'[r] = "apply" /\ budget' = budget
      /\ auditLog' = Append(auditLog, SuccessRow(r))
      /\ ledger' = ledger /\ local' = local
  BY <1>0 DEF WriteAuditLog, At, Goto, draftVars
<1>2. /\ Len(auditLog') = n /\ Len(auditLog) \in Nat
      /\ \A l \in 1..Len(auditLog) : auditLog'[l] = auditLog[l]
      /\ auditLog'[n] = SuccessRow(r)
  BY <1>0, <1>1, Appended
<1>3. run'[r].log = n
  <2> DEFINE M == [run[r] EXCEPT !.log = n]
  <2>1. run' = [run EXCEPT ![r] = M]
    BY DEF WriteAuditLog
  <2>2. M.log = n
    BY <1>0, RunAssigned DEF TypeOK
  <2> HIDE DEF M, n
  <2>3. QED
    BY <1>0, <2>1, <2>2 DEF TypeOK
<1>4. /\ DOMAIN auditLog' = DOMAIN auditLog \cup {n} /\ n \notin DOMAIN auditLog
      /\ n \notin DOMAIN ledger
  BY <1>0, <1>2 DEF DraftInv, DraftTyped
<1>5. SuccessRow(r).result = "success"
  BY DEF SuccessRow
<1> HIDE DEF n
<1>6. Charged' = Charged \cup {n} /\ n \notin Charged
  BY <1>0, <1>1, <1>2, <1>4, <1>5 DEF Charged
<1>7. Recording = {} /\ Recording' = {r}
  BY <1>1 DEF Recording, OneAtATime
<1>8. Recorded' = Recorded /\ Recorded = Charged
  BY <1>3, <1>6, <1>7 DEF Recorded
<1>9. \A l \in Recorded : l \in DOMAIN auditLog' /\ auditLog'[l] = auditLog[l]
  BY <1>0, <1>2, <1>4 DEF Recorded, Charged
<1>10. SumFunctionOnSet(Costs, Recorded)' = SumFunctionOnSet(Costs, Recorded)
  BY <1>0, <1>8, <1>9, RecordedReads
<1>11. Returning(r)' = Returning(r)
  BY <1>1 DEF Returning, Sub
<1>12. QED
  BY <1>1, <1>3, <1>6, <1>7, <1>10, <1>11 DEF CounterExact, OwnCharged, OneAtATime

LEMMA SpendCounts ==
  ASSUME OneAtATime, DraftInv, DraftInv', NEW r \in Handlers, RecordSpend(r),
         UNCHANGED draftVars, CounterExact, OwnCharged, budget.exists
  PROVE  CounterExact' /\ OwnCharged'
<1> DEFINE n == run[r].log
           c == run[r].call.cost
<1>0. /\ TypeOK /\ pc \in [Handlers -> Labels]
      /\ budget \in [exists : BOOLEAN, limit : Int, spent : Nat] /\ c \in Nat
  BY ChargersFinite DEF DraftInv, TypeOK
<1>1. /\ pc[r] = "spend" /\ pc'[r] \notin {"apply", "spend"}
      /\ auditLog' = auditLog /\ ledger' = ledger /\ local' = local
      /\ budget' = [budget EXCEPT !.spent = budget.spent + c]
  BY <1>0 DEF RecordSpend, Return, At, Goto, draftVars
<1>2. budget'.spent = budget.spent + c
  BY <1>0, <1>1
<1>3. n \in Charged /\ Costs[n] = c /\ c \in Nat
  <2>1. n \in Charged
    BY <1>1 DEF OwnCharged, Recording
  <2>2. auditLog[n].cost = c
    BY <1>1 DEF DraftInv, ChargeInv, LogIsOwn, Logged
  <2>3. QED
    BY <1>0, <2>1, <2>2, CountsFinite
<1>4. Charged' = Charged /\ Costs' = Costs
  BY <1>1 DEF Charged, Costs
<1>5. Recording = {r} /\ Recording' = {}
  BY <1>1 DEF Recording, OneAtATime
<1>6. Recorded' = Recorded \cup {n} /\ n \notin Recorded
  BY <1>3, <1>4, <1>5 DEF Recorded
<1> HIDE DEF n, c
<1>7. \A l \in Recorded \cup {n} : Costs[l] \in Int
  BY <1>0, <1>3, CountsFinite
<1>8. SumFunctionOnSet(Costs, Recorded \cup {n}) =
        SumFunctionOnSet(Costs, Recorded) + Costs[n]
  BY <1>0, <1>6, <1>7, CountsFinite, SumAdds
<1>9. SumFunctionOnSet(Costs, Recorded)' =
        SumFunctionOnSet(Costs, Recorded \cup {n})
  BY <1>4, <1>6
<1>10. Returning(r) = 0 /\ Returning(r)' = 0
  BY <1>1 DEF Returning, DraftInv, ToolOK, SubOK, Sub
<1>11. SumFunctionOnSet(Costs, Recorded) \in Nat
  BY <1>0, CountsFinite
<1>12. budget'.spent = SumFunctionOnSet(Costs, Recorded)' + 0
  BY <1>0, <1>2, <1>3, <1>8, <1>9, <1>10, <1>11 DEF CounterExact
<1>13. QED
  BY <1>5, <1>10, <1>12 DEF CounterExact, OwnCharged, OneAtATime

\* A rejection takes its entry off the rows that are counted, and owes the
\* counter what that entry had cost.
LEMMA RejectionCounts ==
  ASSUME OneAtATime, DraftInv, NEW r \in Handlers, RejectUpdate(r),
         CounterExact, OwnCharged, RejectKnows
  PROVE  CounterExact' /\ OwnCharged'
<1> DEFINE e == run[r].call.ref
           n == run[r].log
<1>0. /\ TypeOK /\ pc \in [Handlers -> Labels] /\ LocalOK(local[r])
      /\ local = [q \in Handlers |-> local[q]]
  BY DEF DraftInv, TypeOK, DraftTyped
<1>1. /\ pc[r] = "apply" /\ pc'[r] \in {"apply", "spend"}
      /\ Tool(r, "reject_draft") /\ Sub(r, "start")
      /\ UNCHANGED <<run, budget, auditLog>>
  BY <1>0 DEF RejectUpdate, ApplySucceeds, At, Goto, tables, engineVars
<1>2. /\ e \in DOMAIN ledger /\ DOMAIN ledger' = DOMAIN ledger
      /\ \A l \in DOMAIN ledger :
           ledger'[l].status = IF l = e THEN "rejected" ELSE ledger[l].status
  BY Rejected
<1>3. e \in Charged /\ local[r].cost = auditLog[e].cost
  BY <1>1 DEF RejectKnows, Passed, Decided
<1>4. n \in Charged /\ n \notin DOMAIN ledger
  BY <1>1, OwnRow
<1>5. Returning(r) = 0 /\ Returning(r)' = local[r].cost
  <2>1. CASE local[r].cost > 0
    <3> DEFINE v == [local[r] EXCEPT !.sub = "refund"]
    <3>1. local' = [local EXCEPT ![r] = v]
      BY <1>0, <2>1 DEF RejectUpdate, LocalOK
    <3>2. v.sub = "refund" /\ v.cost = local[r].cost
      BY <1>0 DEF LocalOK
    <3> HIDE DEF v
    <3>3. QED
      BY <1>0, <1>1, <3>1, <3>2 DEF Returning, Sub
  <2>2. CASE local[r].cost = 0
    BY <1>1, <2>2 DEF RejectUpdate, Returning, Sub
  <2>3. local[r].cost \in Nat
    BY <1>0, ConstantsAssumption DEF LocalOK
  <2>4. QED
    BY <2>1, <2>2, <2>3
<1> HIDE DEF e, n
<1>6. Charged' = Charged \ {e}
  BY <1>1, <1>2 DEF Charged
<1>7. Recording = {r} /\ Recording' = {r}
  BY <1>1 DEF Recording, OneAtATime
<1>8. Recorded' = Recorded \ {e} /\ e \in Recorded
  <2>1. Recorded = Charged \ {n} /\ Recorded' = Charged' \ {n}
    BY <1>1, <1>7 DEF Recorded, n
  <2>2. QED
    BY <1>2, <1>3, <1>4, <1>6, <2>1
<1>9. /\ IsFiniteSet(Recorded) /\ \A l \in Recorded : Costs[l] \in Int
      /\ Costs[e] = auditLog[e].cost /\ Costs' = Costs
  BY <1>0, <1>1, <1>3, CountsFinite DEF Costs
<1>10. SumFunctionOnSet(Costs, Recorded) =
         Costs[e] + SumFunctionOnSet(Costs, Recorded \ {e})
  BY <1>8, <1>9, SumRemoves
<1>11. SumFunctionOnSet(Costs, Recorded)' =
         SumFunctionOnSet(Costs, Recorded \ {e})
  BY <1>8, <1>9
<1>12. \A l \in Recorded \ {e} : Costs[l] \in Int
  BY <1>9
<1>13. IsFiniteSet(Recorded \ {e})
  BY <1>9, FS_Difference
<1>14. SumFunctionOnSet(Costs, Recorded \ {e}) \in Int /\ Costs[e] \in Int
  BY <1>8, <1>9, <1>12, <1>13, SumTyped
<1>15. budget'.spent = SumFunctionOnSet(Costs, Recorded)' + Returning(r)'
  <2> DEFINE x == SumFunctionOnSet(Costs, Recorded \ {e})
  <2>1. budget.spent = SumFunctionOnSet(Costs, Recorded) + 0
    BY <1>5 DEF CounterExact
  <2>2. budget'.spent = budget.spent /\ Costs[e] = local[r].cost
    BY <1>1, <1>3, <1>9
  <2>3. x \in Int /\ Costs[e] \in Int
    BY <1>14
  <2>4. budget.spent = (Costs[e] + x) + 0
    BY <1>10, <2>1
  <2> HIDE DEF x
  <2>5. budget'.spent = x + local[r].cost
    BY <2>2, <2>3, <2>4
  <2>6. QED
    BY <1>5, <1>11, <2>5 DEF x
<1>16. OwnCharged'
  BY <1>1, <1>2, <1>4, <1>6, <1>7 DEF OwnCharged, n
<1>17. QED
  BY <1>15, <1>16 DEF CounterExact, OneAtATime

\* What is returned never exceeds the counter, so the refund is exact.
LEMMA RefundCounts ==
  ASSUME OneAtATime, DraftInv, NEW r \in Handlers, RejectRefund(r),
         CounterExact, OwnCharged, budget.exists
  PROVE  CounterExact' /\ OwnCharged'
<1> DEFINE c == local[r].cost
           s == SumFunctionOnSet(Costs, Recorded)
<1>0. /\ TypeOK /\ pc \in [Handlers -> Labels] /\ LocalOK(local[r])
      /\ local = [q \in Handlers |-> local[q]]
      /\ budget \in [exists : BOOLEAN, limit : Int, spent : Nat]
  BY DEF DraftInv, TypeOK, DraftTyped
<1>1. /\ pc[r] = "apply" /\ pc'[r] = "spend" /\ Sub(r, "refund")
      /\ UNCHANGED <<run, auditLog, ledger>>
      /\ budget' = [budget EXCEPT !.spent = IF ~budget.exists THEN @
                      ELSE IF @ < c THEN 0 ELSE @ - c]
      /\ local' = [local EXCEPT ![r] = NoLocal]
  BY <1>0 DEF RejectRefund, ApplyRefund, At, Goto, Forget
<1>2. c \in Nat /\ s \in Nat
  BY <1>0, ConstantsAssumption, CountsFinite DEF LocalOK
<1>3. Returning(r) = c /\ Returning(r)' = 0
  <2>1. local'[r] = NoLocal
    BY <1>0, <1>1
  <2>2. QED
    BY <1>1, <2>1, NoLocalOK DEF Returning, Sub
<1>4. budget.spent = s + c
  BY <1>3 DEF CounterExact
<1>5. budget'.spent = s
  <2>1. ~(budget.spent < c) /\ budget.spent - c = s
    BY <1>2, <1>4
  <2>2. budget' = [budget EXCEPT !.spent = s]
    BY <1>1, <2>1
  <2> HIDE DEF s
  <2>3. QED
    BY <1>0, <2>2
<1>6. Recorded' = Recorded /\ Charged' = Charged /\ Costs' = Costs
  BY <1>1 DEF Recorded, Charged, Costs, Recording, OneAtATime
<1>7. OwnCharged'
  BY <1>1, <1>6 DEF OwnCharged, Recording, OneAtATime
<1>8. SumFunctionOnSet(Costs, Recorded)' = s
  BY <1>6
<1>9. budget'.spent = SumFunctionOnSet(Costs, Recorded)' + Returning(r)'
  BY <1>2, <1>3, <1>5, <1>8
<1>10. QED
  BY <1>7, <1>9 DEF CounterExact, OneAtATime

\* What a rejection without failures does before its side effects.
LEMMA RejectAt ==
  ASSUME DraftInv, NEW r \in Handlers,
         Serve(r) \/ (Begin(r) /\ UNCHANGED draftVars), ~StatementFails,
         Tool(r, "reject_draft")
  PROVE  /\ pc[r] = "preconditions" => RejectCheck(r)
         /\ pc[r] = "execute" => RejectExecute(r)
         /\ pc[r] \in {"reserve", "effects", "audit"} => local' = local
<1>1. ~ProposeStep(r) /\ ~ApproveStep(r)
  BY DEF ProposeStep, ProposeCheck, ProposeExecute, ProposeApply, ApproveStep,
     ApproveCheck, ApproveWithoutUnits, ApproveFindDraft, ApproveClaim,
     ApproveDelete, ConfirmRead, ConfirmInsert, Tool
<1>2. Begin(r) => pc[r] = "idle"
  BY DEF Begin, At
<1>3. RejectStep(r) => /\ pc[r] = "preconditions" => RejectCheck(r)
                       /\ pc[r] = "execute" => RejectExecute(r)
                       /\ pc[r] \notin {"reserve", "effects", "audit"}
  BY DEF RejectStep, RejectCheck, RejectExecute, RejectUpdate, RejectRefund,
     Check, PreconditionsPass, PreconditionsFail, ExecuteSucceeds,
     ExecuteOverlooks, ApplyRefund, At
<1>4. ASSUME EngineOnly(r), pc[r] \in {"preconditions", "execute", "reserve",
                                       "effects", "audit"}
      PROVE  pc[r] \notin {"preconditions", "execute"} /\ local' = local
  <2>1. /\ ~GetCovenant(r) /\ ~GetMember(r) /\ ~IdentityFails(r)
        /\ ~RateLimitGate(r) /\ ~GateFails(r) /\ ~RecordSpend(r)
        /\ ~RecordSpendFails(r) /\ ~SettleReservation(r)
    BY <1>4 DEF GetCovenant, GetMember, IdentityFails, RateLimitGate,
       GateFails, RecordSpend, RecordSpendFails, SettleReservation, At
  <2>2. /\ ~ExecuteStatementFails(r) /\ ~AuditLogFails(r)
        /\ ~ApplyStatementFails(r) /\ ~ReleaseReservation(r)
        /\ ~LogRejection(r)
    BY <1>4 DEF ExecuteStatementFails, AuditLogFails, ApplyStatementFails,
       ReleaseReservation, LogRejection, At
  <2>3. /\ CheckAndReserve(r) \/ CalculateEffects(r) \/ WriteAuditLog(r)
        /\ UNCHANGED draftVars
    BY <1>4, <2>1, <2>2 DEF EngineOnly
  <2>4. QED
    BY <2>3 DEF CheckAndReserve, CalculateEffects, WriteAuditLog, At, draftVars
<1>5. QED
  BY <1>1, <1>2, <1>3, <1>4 DEF Serve

LEMMA KnowsStep ==
  ASSUME OneAtATime, DraftInv, DraftInv', RejectKnows, NEW r \in Handlers,
         Serve(r) \/ (Begin(r) /\ UNCHANGED draftVars), ~StatementFails
  PROVE  RejectKnows'
<1> SUFFICES ASSUME Tool(r, "reject_draft")', pc'[r] \in Passed
             PROVE  /\ Sub(r, "start")' => run'[r].call.ref \in Charged'
                    /\ pc'[r] \in Decided =>
                         local'[r].cost = auditLog'[run'[r].call.ref].cost
  BY DEF RejectKnows, OneAtATime, Passed, Decided
<1>0. /\ TypeOK /\ pc \in [Handlers -> Labels] /\ LocalOK(local[r])
      /\ local = [q \in Handlers |-> local[q]]
      /\ auditLog \in Seq(AuditRow)
      /\ DOMAIN ledger \subseteq DOMAIN auditLog
      /\ UNCHANGED engineVars \/ Begin(r) \/ EngineStep(r) \/ ToolStep(r)
  BY ServeIsEngine DEF DraftInv, TypeOK, DraftTyped
<1>1. LogGrows
  <2>1. [Next]_engineVars
    BY <1>0 DEF Next
  <2>2. QED
    BY <1>0, <2>1, LogStep
<1>2. /\ run'[r].call = run[r].call
      /\ pc[r] \in Passed \cup {"preconditions"}
      /\ pc'[r] \in Decided => pc[r] \in Decided \cup {"execute"}
  <2>1. CASE UNCHANGED engineVars
    BY <2>1 DEF engineVars
  <2>2. CASE Begin(r)
    BY <1>0, <2>2 DEF Begin, Goto, Passed
  <2>3. CASE EngineStep(r) \/ ToolStep(r)
    <3>1. Follows(r)
      BY <1>0, <2>3, Flow
    <3>2. QED
      BY <3>1 DEF Follows, Edge, Passed, Decided
  <2>4. QED
    BY <1>0, <2>1, <2>2, <2>3
<1> DEFINE e == run[r].call.ref
<1>3. Tool(r, "reject_draft") /\ run'[r].call.ref = e
  BY <1>2 DEF Tool
<1> HIDE DEF e
<1>4. ASSUME e \in Charged, e \in DOMAIN ledger, ledger' = ledger
      PROVE  e \in Charged' /\ auditLog'[e] = auditLog[e]
  BY <1>0, <1>1, <1>4 DEF Charged, LogGrows
<1>5. CASE pc[r] = "preconditions"
  <2>1. RejectCheck(r)
    BY <1>3, <1>5, RejectAt
  <2>2. /\ e \in DOMAIN ledger /\ ledger[e].status # "rejected"
        /\ ledger' = ledger
    <3>1. PreconditionsFail(r) => pc'[r] = "reject"
      BY <1>0 DEF PreconditionsFail, Goto
    <3>2. ~PreconditionsFail(r)
      BY <3>1 DEF Passed
    <3>3. QED
      BY <2>1, <3>2 DEF RejectCheck, Check, draftVars, e
  <2>3. e \in Charged
    BY <1>0, <2>2 DEF Charged, DraftInv, BookIsLogged, Success
  <2>4. pc'[r] \notin Decided
    BY <1>2, <1>5 DEF Decided
  <2>5. QED
    BY <1>3, <1>4, <2>2, <2>3, <2>4
<1>6. ASSUME pc[r] \in Passed
      PROVE  e \in DOMAIN ledger /\ e \in DOMAIN auditLog
  BY <1>0, <1>3, <1>6 DEF DraftInv, ToolOK, RejectOK, e
<1>7. CASE pc[r] \in {"reserve", "effects", "audit"}
  <2>1. local' = local /\ Sub(r, "start")
    BY <1>3, <1>7, RejectAt, StartsOutside DEF Sub
  <2>2. ledger' = ledger
    <3>1. ~ConfirmInsert(r) /\ ~RejectUpdate(r)
      BY <1>7 DEF ConfirmInsert, RejectUpdate, ApplySucceeds, At
    <3>2. QED
      BY <3>1, LedgerKeptBy
  <2>3. /\ e \in Charged
        /\ pc[r] \in Decided => local[r].cost = auditLog[e].cost
    BY <1>3, <1>7, <2>1 DEF RejectKnows, Passed, e
  <2>4. QED
    BY <1>2, <1>3, <1>4, <1>6, <1>7, <2>1, <2>2, <2>3 DEF Passed
<1>8. CASE pc[r] = "execute"
  <2>1. RejectExecute(r)
    BY <1>3, <1>8, RejectAt
  <2>2. /\ ledger' = ledger
        /\ local' = [local EXCEPT ![r].cost = auditLog[e].cost]
    BY <2>1 DEF RejectExecute, ExecuteOverlooks, e
  <2>3. Sub(r, "start")
    BY <1>3, <1>8 DEF Sub, DraftInv, DraftTyped, ToolOK, SubOK, Tool, LocalOK,
                      Locals
  <2>4. e \in Charged
    BY <1>3, <1>8, <2>3 DEF RejectKnows, Passed, e
  <2>5. local'[r].cost = auditLog[e].cost
    <3> DEFINE c == auditLog[e].cost
               v == [local[r] EXCEPT !.cost = c]
    <3>1. local' = [local EXCEPT ![r] = v]
      BY <2>2
    <3>2. v.cost = c
      BY <1>0 DEF LocalOK
    <3> HIDE DEF v
    <3>3. QED
      BY <1>0, <3>1, <3>2
  <2>6. QED
    BY <1>3, <1>4, <1>6, <1>8, <2>2, <2>4, <2>5 DEF Passed
<1>9. CASE pc[r] = "apply"
  <2>1. RejectUpdate(r)
    <3>1. ~ProposeApply(r) /\ ~ConfirmRead(r) /\ ~ConfirmInsert(r)
      BY <1>3 DEF ProposeApply, ConfirmRead, ConfirmInsert, Tool
    <3>2. ~RejectRefund(r)
      BY <1>0 DEF RejectRefund, ApplyRefund, Goto, Passed
    <3>3. QED
      BY <1>9, <3>1, <3>2, ServedAt
  <2>2. ~ApplySucceeds(r)
    BY <1>0 DEF ApplySucceeds, Goto, Passed
  <2>3. /\ local' = [local EXCEPT ![r].sub = "refund"]
        /\ auditLog' = auditLog
    BY <2>1, <2>2 DEF RejectUpdate, engineVars, tables
  <2> DEFINE v == [local[r] EXCEPT !.sub = "refund"]
  <2>4. local' = [local EXCEPT ![r] = v]
    BY <2>3
  <2>5. v.sub = "refund" /\ v.cost = local[r].cost
    BY <1>0 DEF LocalOK
  <2> HIDE DEF v
  <2>6. local'[r].sub = "refund" /\ local'[r].cost = local[r].cost
    BY <1>0, <2>4, <2>5
  <2>7. local[r].cost = auditLog[e].cost
    BY <1>3, <1>9 DEF RejectKnows, Decided, e
  <2>8. QED
    BY <1>3, <2>3, <2>6, <2>7 DEF Sub
<1>10. QED
  BY <1>2, <1>5, <1>7, <1>8, <1>9 DEF Passed

LEMMA CounterStep ==
  ASSUME OneAtATime, DraftInv, DraftInv', CounterInv, [DraftNext]_vars
  PROVE  CounterInv'
<1>0. TypeOK /\ [Next]_engineVars /\ crashes \in Nat /\ faults \in Nat
  BY StepIsEngine DEF DraftInv, TypeOK
<1>1. ASSUME NEW r \in Handlers, Serve(r) \/ (Begin(r) /\ UNCHANGED draftVars)
      PROVE  CounterInv'
  <2>1. budget'.exists
    <3>1. CASE UNCHANGED engineVars
      BY <3>1 DEF CounterInv, engineVars, tables
    <3>2. CASE Begin(r) \/ EngineStep(r) \/ ToolStep(r)
      BY <1>0, <3>2, CounterWrites DEF CounterInv
    <3>3. QED
      BY <1>1, <3>1, <3>2, ServeIsEngine
  <2> SUFFICES ASSUME crashes' = 0, faults' = 0
               PROVE  CounterExact' /\ OwnCharged' /\ RejectKnows'
    BY <2>1 DEF CounterInv
  <2>2. /\ crashes = 0 /\ faults = 0 /\ ~StatementFails
    <3>1. crashes' = crashes
      BY <1>1, HandlerKeepsCrashes
    <3>2. faults' = faults \/ faults' = faults + 1
      BY <1>0, CountersStep
    <3>3. StatementFails => faults' = faults + 1
      BY DEF StatementFails
    <3>4. QED
      BY <1>0, <3>1, <3>2, <3>3
  <2>3. CounterExact /\ OwnCharged /\ RejectKnows /\ budget.exists
    BY <2>2 DEF CounterInv
  <2>4. RejectKnows'
    BY <1>1, <2>2, <2>3, KnowsStep
  <2>5. CASE pc[r] = "audit"
    BY <1>1, <2>2, <2>3, <2>4, <2>5, ServedAt, AuditCounts
  <2>6. CASE pc[r] = "spend"
    BY <1>1, <2>2, <2>3, <2>4, <2>6, ServedAt, SpendCounts
  <2>7. CASE pc[r] = "apply"
    BY <1>1, <2>2, <2>3, <2>4, <2>7, ServedAt, ProposalCounts, BookingCounts,
       RejectionCounts, RefundCounts
  <2>8. CASE pc[r] \notin {"audit", "apply", "spend"}
    BY <1>1, <2>3, <2>4, <2>8, QuietCounts
  <2>9. QED
    BY <2>5, <2>6, <2>7, <2>8
<1>2. CASE Restart
  <2>1. crashes' # 0 /\ budget' = budget
    BY <1>0, <1>2 DEF Restart, Crash, tables
  <2>2. QED
    BY <2>1 DEF CounterInv
<1>3. CASE \/ (SetBudget \/ HourPasses) /\ UNCHANGED draftVars
           \/ Advance \/ Leave \/ UNCHANGED vars
  <2>1. ~SetBudget
    BY DEF SetBudget, CounterInv
  <2>2. UNCHANGED <<budget, auditLog, pc, run, draftVars, crashes, faults>>
    BY <1>3, <2>1 DEF HourPasses, Advance, CovenantChanges, Leave, bounds, vars,
                      engineVars, tables
  <2>3. UNCHANGED <<pending, ledger, local>>
    BY <2>2 DEF draftVars
  <2>4. /\ Recorded' = Recorded /\ Charged' = Charged /\ Costs' = Costs
        /\ Recording' = Recording
    BY <2>2, <2>3 DEF Recorded, Charged, Costs, Recording
  <2>5. CounterExact => CounterExact'
    BY <2>2, <2>3, <2>4 DEF CounterExact, Returning, Sub
  <2>6. OwnCharged => OwnCharged'
    BY <2>2, <2>4 DEF OwnCharged
  <2>7. RejectKnows => RejectKnows'
    BY <2>2, <2>3, <2>4 DEF RejectKnows, Sub, Tool
  <2>8. QED
    BY <2>2, <2>5, <2>6, <2>7 DEF CounterInv
<1>4. QED
  BY <1>1, <1>2, <1>3 DEF DraftNext

LEMMA CounterInit == ASSUME BudgetedInit PROVE CounterInv
<1>1. /\ \A r \in Handlers : pc[r] = "idle" /\ local[r].sub = "start"
      /\ auditLog = <<>> /\ budget.exists /\ budget.spent = 0
  <2>1. /\ \A r \in Handlers : pc[r] = "idle" /\ local[r] = NoLocal
        /\ auditLog = <<>>
    BY DEF BudgetedInit, DraftInit, Init
  <2>2. budget.exists /\ budget.spent = 0
    BY DEF BudgetedInit, DraftInit, Init
  <2>3. QED
    BY <2>1, <2>2, NoLocalOK
<1>2. Recorded = {} /\ Recording = {}
  BY <1>1 DEF Recorded, Charged, Recording
<1>3. SumFunctionOnSet(Costs, {}) = 0
  BY SumEmpty
<1>4. CounterExact
  BY <1>1, <1>2, <1>3 DEF CounterExact, Returning, Sub
<1>5. QED
  BY <1>1, <1>2, <1>4 DEF CounterInv, OwnCharged, RejectKnows, Passed, Decided

\* The counter and the log are written by different statements, and refunds
\* are taken off by a third; still, where calls are served one at a time under
\* a budget that was set first, and as long as the server has not died and no
\* statement has failed, RebuildFromAuditLog computes between calls what the
\* counter says.
THEOREM CounterAlwaysRebuildable ==
  OneAtATime /\ BudgetedSpec =>
    [](crashes = 0 /\ faults = 0 => CounterIsRebuildable)
<1> SUFFICES ASSUME OneAtATime
             PROVE  BudgetedSpec =>
                      [](crashes = 0 /\ faults = 0 => CounterIsRebuildable)
  OBVIOUS
<1>1. DraftInv /\ CounterInv /\ (DraftInv)' /\ [DraftNext]_vars => CounterInv'
  BY CounterStep
<1>2. DraftInv /\ CounterInv =>
        (crashes = 0 /\ faults = 0 => CounterIsRebuildable)
  <2> SUFFICES ASSUME DraftInv, CounterInv, crashes = 0, faults = 0, Quiet
               PROVE  budget.spent = RebuiltSpend
    BY DEF CounterIsRebuildable
  <2>1. PICK r \in Handlers : TRUE
    BY DEF OneAtATime
  <2>2. Recording = {} /\ Returning(r) = 0
    BY DEF Quiet, Recording, Returning, DraftInv, ToolOK, SubOK, Sub
  <2>3. Recorded = Charged
    BY <2>2 DEF Recorded
  <2>4. budget.spent = SumFunctionOnSet(Costs, Charged) + 0
    BY <2>2, <2>3 DEF CounterInv, CounterExact
  <2>5. SumFunctionOnSet(Costs, Charged) \in Nat
    BY <2>3, CountsFinite DEF DraftInv
  <2>6. SumFunctionOnSet(Costs, Charged) = RebuiltSpend
    BY DEF RebuiltSpend, Costs, Charged
  <2>7. QED
    BY <2>4, <2>5, <2>6
<1>3. BudgetedInit => DraftInv /\ CounterInv
  BY DraftInvInit, CounterInit DEF BudgetedInit
<1>4. QED
  BY <1>1, <1>2, <1>3, DraftInvStep, PTL DEF BudgetedSpec
=============================================================================
