-------------------------- MODULE SettlementProofs --------------------------
(***************************************************************************)
(* What holds of a covenant's settlement for any number of handlers,       *)
(* owner's requests, outputs and snapshots: the contribution tools beside  *)
(* it keep their invariant, and every output is triggered by a logged      *)
(* success of its own.  And what holds with one transition request at a    *)
(* time: anchors, confirmations and the snapshot.                          *)
(***************************************************************************)
EXTENDS Settlement, DraftProofs

ConfirmOK(r) ==
  Tool(r, "confirm_settlement_output") =>
    /\ pc[r] \in Passed =>
         run[r].call.ref \in DOMAIN outputs /\ run[r].state = "LOCKED"
    /\ pc[r] \in Decided => run[r].eff.ref = run[r].call.ref

GenerateOK(r) ==
  Tool(r, "generate_settlement_output") =>
    /\ pc[r] \in Passed => run[r].call.agent = Owner
    /\ pc[r] = "apply" => \A o \in DOMAIN outputs : outputs[o].log # run[r].log

\* Where the settlement tools stop between two of their statements.
WorkOK(r) ==
  /\ work[r].sub # "start" => pc[r] = "apply"
  /\ work[r].sub \in {"total", "save"} =>
       Tool(r, "generate_settlement_output")
  /\ work[r].sub \in {"transition", "flip", "rollup", "anchor"} =>
       Tool(r, "confirm_settlement_output")

SettleTyped ==
  /\ outputs \in Seq(Output)
  /\ snapshots \in Seq(SnapshotRow)
  /\ anchors \in Seq(Anchor)
  /\ \A i \in DOMAIN anchors : anchors[i].output \in DOMAIN outputs
  /\ work \in [Handlers -> [sub : WorkLabels, shares : [Agents -> Int],
                            rows : 0..Len(snapshots)]]
  /\ move \in [Movers -> [step : {"idle", "flip", "capture", "insert"},
                          from : States, to : States,
                          todo : SUBSET SnapshotRow]]
  /\ \A m \in Movers : move[m].step = "insert" <=> move[m].todo # {}

Triggered ==
  /\ \A o \in DOMAIN outputs : outputs[o].log \in DOMAIN auditLog
  /\ OutputIsTriggered

SettleInv ==
  /\ DraftInv /\ SettleTyped /\ Triggered
  /\ \A r \in Handlers : ConfirmOK(r) /\ GenerateOK(r) /\ WorkOK(r)

-----------------------------------------------------------------------------
(* What the steps are.                                                     *)

\* The steps of a settlement tool.
Settles(r) ==
  \/ IsSettlement(r) /\ SettleEngineOnly(r)
  \/ GenerateStep(r) \/ ConfirmOutputStep(r)

\* The steps of the other tools, and the beginning of any call.
Contributes(r) ==
  /\ (Serve(r) /\ ~IsSettlement(r)) \/ (Begin(r) /\ UNCHANGED draftVars)
  /\ UNCHANGED settleVars

LEMMA SettleCases ==
  ASSUME [SettleNext]_allVars
  PROVE  \/ \E r \in Handlers : Contributes(r) \/ Settles(r)
         \/ \E m \in Movers : MoveGet(m) \/ MoveStep(m)
         \/ ServerDies \/ UNCHANGED allVars
BY DEF SettleNext, ServeAll, Settles, Contributes

LEMMA SettlesInEngine ==
  ASSUME NEW r \in Handlers, Settles(r)
  PROVE  /\ UNCHANGED <<draftVars, snapshots, move, moves>>
         /\ IsSettlement(r)
         /\ \/ EngineStep(r) \/ ToolStep(r) \/ UNCHANGED engineVars
            \/ ConfirmOutputFlip(r)
<1> DEFINE Goal == /\ UNCHANGED <<draftVars, snapshots, move, moves>>
                   /\ IsSettlement(r)
                   /\ \/ EngineStep(r) \/ ToolStep(r) \/ UNCHANGED engineVars
                      \/ ConfirmOutputFlip(r)
<1>1. CASE IsSettlement(r) /\ SettleEngineOnly(r)
  BY <1>1 DEF SettleEngineOnly, EngineStep, settleVars
<1>2. ASSUME NEW tokens, NEW ref, NEW c,
             \/ Check(r, c) \/ ExecuteSucceeds(r, EffectOf(r, tokens, ref))
             \/ ExecuteSucceeds(r, [tokens |-> tokens, ref |-> ref,
                                    after |-> "SETTLED"])
             \/ ApplySucceeds(r) \/ ApplyFails(r) \/ ApplyOverlooks(r)
      PROVE  ToolStep(r)
  BY <1>2 DEF Check, ToolStep, ExecuteSucceeds
<1>3. CASE GenerateStep(r)
  <2>1. IsSettlement(r)
    BY <1>3 DEF GenerateStep, GenerateCheck, GenerateExecute, GenerateGet,
       GenerateTotal, GenerateSave, AtWork, Tool, IsSettlement
  <2>2. CASE GenerateCheck(r) \/ GenerateExecute(r)
    BY <1>2, <2>1, <2>2 DEF GenerateCheck, GenerateExecute, Check, settleVars
  <2>3. CASE GenerateGet(r) \/ GenerateTotal(r) \/ GenerateSave(r)
    BY <1>2, <2>1, <2>3 DEF GenerateGet, GenerateTotal, GenerateSave
  <2>4. QED
    BY <1>3, <2>2, <2>3 DEF GenerateStep
<1>4. CASE ConfirmOutputStep(r)
  <2>1. IsSettlement(r)
    BY <1>4 DEF ConfirmOutputStep, ConfirmOutputCheck, ConfirmOutputExecute,
       ConfirmOutputMark, ConfirmOutputGet, ConfirmOutputFlip,
       ConfirmOutputRollup, ConfirmOutputAnchor, ConfirmOutputUnanchored,
       AtWork, Tool, IsSettlement
  <2>2. CASE ConfirmOutputCheck(r) \/ ConfirmOutputExecute(r)
    BY <1>2, <2>1, <2>2 DEF ConfirmOutputCheck, ConfirmOutputExecute, Check,
       settleVars
  <2>3. CASE \/ ConfirmOutputMark(r) \/ ConfirmOutputGet(r)
             \/ ConfirmOutputFlip(r) \/ ConfirmOutputRollup(r)
             \/ ConfirmOutputAnchor(r) \/ ConfirmOutputUnanchored(r)
    BY <1>2, <2>1, <2>3 DEF ConfirmOutputMark, ConfirmOutputGet,
       ConfirmOutputFlip, ConfirmOutputRollup, ConfirmOutputAnchor,
       ConfirmOutputUnanchored
  <2>4. QED
    BY <1>4, <2>2, <2>3 DEF ConfirmOutputStep
<1>5. QED
  BY <1>1, <1>3, <1>4 DEF Settles

\* What a step of the engine does to the locals of Run.
LEMMA LocalsStep ==
  ASSUME TypeOK, NEW r \in Handlers, EngineStep(r) \/ ToolStep(r),
         pc'[r] # "idle"
  PROVE  /\ Edge(pc[r], pc'[r]) /\ run'[r].call = run[r].call
         /\ \/ run'[r].state = run[r].state
            \/ pc[r] = "getCovenant" /\ run'[r].state = covState
         /\ run'[r].eff = run[r].eff \/ pc[r] = "execute"
         /\ run'[r].log = run[r].log \/ WriteAuditLog(r)
         /\ WriteAuditLog(r) =>
              /\ run'[r].log = Len(auditLog) + 1
              /\ auditLog' = Append(auditLog, SuccessRow(r))
              /\ SuccessRow(r)' = SuccessRow(r)
              /\ run'[r].eff = run[r].eff /\ run'[r].state = run[r].state
<1>0. /\ pc \in [Handlers -> Labels] /\ run \in [Handlers -> RunLocals]
      /\ run[r] \in RunLocals
  BY DEF TypeOK
<1>1. Edge(pc[r], pc'[r]) /\ run'[r].call = run[r].call
  BY Flow DEF Follows
<1>2. ~Return(r)
  BY <1>0 DEF Return, Goto
<1> DEFINE Goal == /\ \/ run'[r].state = run[r].state
                      \/ pc[r] = "getCovenant" /\ run'[r].state = covState
                   /\ run'[r].eff = run[r].eff \/ pc[r] = "execute"
                   /\ run'[r].log = run[r].log
<1>a. UNCHANGED run => Goal
  OBVIOUS
<1>3. GetCovenant(r) => Goal
  <2> DEFINE M == [run[r] EXCEPT !.state = covState]
  <2> SUFFICES ASSUME GetCovenant(r)
               PROVE  Goal
    OBVIOUS
  <2>1. run' = [run EXCEPT ![r] = M] /\ pc[r] = "getCovenant"
    BY DEF GetCovenant, At
  <2>2. M.state = covState /\ M.eff = run[r].eff /\ M.log = run[r].log
    BY <1>0, RunAssigned, StateAssigned DEF RunLocals
  <2> HIDE DEF M
  <2>3. run'[r] = M
    BY <1>0, <2>1
  <2>4. QED
    BY <2>1, <2>2, <2>3
<1>4. CheckAndReserve(r) => Goal
  <2> DEFINE x == Len(reservations) + 1
             M == [run[r] EXCEPT !.resv = x]
  <2> SUFFICES ASSUME CheckAndReserve(r)
               PROVE  Goal
    OBVIOUS
  <2>1. UNCHANGED run \/ run' = [run EXCEPT ![r] = M]
    BY DEF CheckAndReserve
  <2>2. M.state = run[r].state /\ M.eff = run[r].eff /\ M.log = run[r].log
    BY <1>0, RunAssigned
  <2> HIDE DEF M
  <2>3. CASE run' = [run EXCEPT ![r] = M]
    <3>1. run'[r] = M
      BY <1>0, <2>3
    <3>2. QED
      BY <2>2, <3>1
  <2>4. QED
    BY <1>a, <2>1, <2>3
<1>5. ReleaseReservation(r) => Goal
  <2> DEFINE M == [run[r] EXCEPT !.resv = 0]
  <2> SUFFICES ASSUME ReleaseReservation(r)
               PROVE  Goal
    OBVIOUS
  <2>1. run' = [run EXCEPT ![r] = M]
    BY <1>2 DEF ReleaseReservation
  <2>2. M.state = run[r].state /\ M.eff = run[r].eff /\ M.log = run[r].log
    BY <1>0, RunAssigned
  <2> HIDE DEF M
  <2>3. run'[r] = M
    BY <1>0, <2>1
  <2>4. QED
    BY <2>2, <2>3
<1>6. ASSUME NEW eff \in Effects,
             ExecuteSucceeds(r, eff) \/ ExecuteOverlooks(r, eff)
      PROVE  Goal
  <2> DEFINE M == [run[r] EXCEPT !.eff = eff]
  <2>1. run' = [run EXCEPT ![r] = M] /\ pc[r] = "execute"
    BY <1>6 DEF ExecuteSucceeds, ExecuteOverlooks, At
  <2>2. M.state = run[r].state /\ M.log = run[r].log
    BY <1>0, RunAssigned
  <2> HIDE DEF M
  <2>3. run'[r] = M
    BY <1>0, <2>1
  <2>4. QED
    BY <2>1, <2>2, <2>3
<1>7. ASSUME WriteAuditLog(r)
      PROVE  /\ run'[r].log = Len(auditLog) + 1
             /\ auditLog' = Append(auditLog, SuccessRow(r))
             /\ SuccessRow(r)' = SuccessRow(r)
             /\ run'[r].eff = run[r].eff /\ run'[r].state = run[r].state
  <2> DEFINE n == Len(auditLog) + 1
             M == [run[r] EXCEPT !.log = n]
  <2>1. run' = [run EXCEPT ![r] = M] /\ auditLog' = Append(auditLog, SuccessRow(r))
    BY <1>7 DEF WriteAuditLog
  <2>2. /\ M.call = run[r].call /\ M.state = run[r].state
        /\ M.eff = run[r].eff /\ M.log = n
    BY <1>0, RunAssigned
  <2> HIDE DEF M
  <2>3. run'[r] = M
    BY <1>0, <2>1
  <2>4. QED
    BY <2>1, <2>2, <2>3 DEF SuccessRow
<1>8. RateLimitGate(r) \/ GateFails(r) \/ ExecuteStatementFails(r)
        \/ CalculateEffects(r) \/ AuditLogFails(r) \/ ApplyStatementFails(r)
        \/ PreconditionsPass(r) \/ PreconditionsFail(r)
        \/ ExecuteFails(r) \/ ApplySucceeds(r) \/ ApplyFails(r)
        \/ ApplyOverlooks(r) \/ (\E amount \in 1..MaxCost : ApplyRefund(r, amount))
      => UNCHANGED run
  BY DEF RateLimitGate, GateFails, ExecuteStatementFails, CalculateEffects,
     AuditLogFails, ApplyStatementFails, PreconditionsPass, PreconditionsFail,
     ExecuteFails, ApplySucceeds, ApplyFails, ApplyOverlooks, ApplyRefund
<1>9. GetMember(r) \/ RecordSpend(r) => UNCHANGED run
  BY <1>2 DEF GetMember, RecordSpend
<1>10. /\ ~IdentityFails(r) /\ ~RecordSpendFails(r) /\ ~SettleReservation(r)
       /\ ~LogRejection(r)
  BY <1>2 DEF IdentityFails, RecordSpendFails, SettleReservation, LogRejection
<1> HIDE DEF Goal
<1>11. Goal \/ WriteAuditLog(r)
  BY <1>a, <1>3, <1>4, <1>5, <1>6, <1>8, <1>9, <1>10 DEF EngineStep, ToolStep
<1>12. QED
  BY <1>1, <1>7, <1>11 DEF Goal
-----------------------------------------------------------------------------
(* The contribution tools beside the settlement tools.                     *)

\* A step that writes no entry and no pending row keeps the invariant of the
\* contribution tools, if every handler is left what ties it to the tables.
LEMMA DraftKept ==
  ASSUME DraftInv, TypeOK', ChargeInv', LogGrows, UNCHANGED <<pending, ledger>>,
         local' = [q \in Handlers |-> local'[q]],
         \A q \in Handlers : LocalOK(local'[q]) /\ ToolOK(q)',
         Unbooked'
  PROVE  DraftInv'
<1>1. DraftTyped'
  BY DEF DraftInv, DraftTyped, LogGrows
<1>2. PendingProposed'
  BY ProposedStays DEF DraftInv, PendingProposed, LogGrows
<1>3. BookIsLogged'
  BY DEF DraftInv, BookIsLogged, Success, LogGrows
<1>4. AwardGoesToProposer'
  BY DEF DraftInv, AwardGoesToProposer, Success, LogGrows
<1>5. QED
  BY <1>1, <1>2, <1>3, <1>4 DEF DraftInv

\* What happens beside the engine to a handler: nothing, its end, or the end of
\* Step 6 of a settlement tool.
Aside(q) ==
  \/ UNCHANGED <<pc[q], run[q], local[q]>>
  \/ pc'[q] = "idle" /\ run'[q] = NoRun /\ local'[q] = NoLocal
  \/ /\ pc[q] = "apply" /\ pc'[q] = "spend" /\ local[q].sub = "start"
     /\ UNCHANGED <<run[q], local[q]>>

LEMMA AsideKept ==
  ASSUME DraftInv, TypeOK', UNCHANGED <<reservations, auditLog, pending, ledger>>,
         local' = [q \in Handlers |-> local'[q]],
         \A q \in Handlers : Aside(q)
  PROVE  DraftInv'
<1>0. /\ Len(auditLog) \in Nat /\ DOMAIN auditLog = 1..Len(auditLog)
      /\ TypeOK /\ ChargeInv /\ DraftTyped /\ Unbooked
  BY LenProperties DEF DraftInv, TypeOK
<1>1. LogGrows
  BY <1>0 DEF LogGrows
<1>2. \A q \in Handlers : Keeps(q)
  BY <1>0, NoRunHoldsNothing DEF Aside, Keeps, Logged, ChargeInv, SettlerHolds
<1>3. ChargeInv'
  BY <1>0, <1>2, QuietStep
<1>4. ASSUME NEW q \in Handlers
      PROVE  LocalOK(local'[q]) /\ ToolOK(q)'
  <2>a. LocalOK(NoLocal) /\ NoLocal.sub = "start"
    BY Zenon, NoLocalOK
  <2>b. LocalOK(local[q]) /\ ToolOK(q)
    BY <1>0 DEF DraftTyped, DraftInv
  <2>0. /\ Aside(q) /\ LocalOK(local[q]) /\ LocalOK(NoLocal)
        /\ NoLocal.sub = "start" /\ ToolOK(q)
    BY <2>a, <2>b
  <2>1. LocalOK(local'[q])
    BY <2>0 DEF Aside
  <2>2. CASE UNCHANGED <<pc[q], run[q], local[q]>>
    <3>1. pc'[q] = pc[q] /\ run'[q] = run[q] /\ local'[q] = local[q]
      BY <2>2
    <3>2. ToolOK(q)'
      BY <1>0, <1>1, <2>0, <3>1, OthersKeep
    <3>3. QED
      BY <2>1, <3>2
  <2>3. CASE ~UNCHANGED <<pc[q], run[q], local[q]>>
    <3>1. pc'[q] \notin Passed /\ local'[q].sub = "start"
      BY <2>0, <2>3 DEF Aside, Passed
    <3>2. QED
      BY <2>1, <3>1, Rests
  <2>4. QED
    BY <2>2, <2>3
<1>5. Unbooked'
  BY <1>0 DEF Aside, Unbooked, Tool
<1>6. QED
  BY <1>1, <1>3, <1>4, <1>5, DraftKept

\* A settlement tool's call rests, for the contribution tools.
LEMMA SettlerRests ==
  ASSUME DraftInv, NEW r \in Handlers, IsSettlement(r)
  PROVE  local[r].sub = "start"
BY DEF IsSettlement, DraftInv, DraftTyped, LocalOK, Locals, ToolOK, SubOK, Sub,
       Tool

LEMMA SettlerKept ==
  ASSUME DraftInv, NEW r \in Handlers, IsSettlement(r), UNCHANGED draftVars,
         EngineStep(r) \/ ToolStep(r)
  PROVE  DraftInv'
<1>0. /\ TypeOK /\ ChargeInv /\ DraftTyped /\ Unbooked
      /\ pc \in [Handlers -> Labels]
      /\ auditLog \in Seq(AuditRow) /\ Len(auditLog) \in Nat
      /\ DOMAIN auditLog = 1..Len(auditLog)
  BY LenProperties DEF DraftInv, TypeOK
<1>1. [Next]_engineVars
  BY DEF Next
<1>2. TypeOK' /\ ChargeInv' /\ LogGrows
  BY <1>0, <1>1, TypeStep, ChargeStep, LogStep
<1>3. local[r].sub = "start" /\ UNCHANGED <<pending, ledger, local>>
  BY SettlerRests DEF draftVars
<1>4. \A q \in Handlers : q # r => pc'[q] = pc[q] /\ run'[q] = run[q]
  BY <1>0, EngineMoves
<1>5. ToolOK(r)'
  <2>1. CASE pc'[r] = "idle"
    BY <1>3, <2>1, Rests DEF Passed
  <2>2. CASE pc'[r] # "idle"
    <3>1. run'[r].call = run[r].call
      BY <1>0, <2>2, LocalsStep
    <3>2. ApproveOK(r)' /\ RejectOK(r)' /\ ProposeOK(r)' /\ SubOK(r)'
      BY <1>3, <3>1 DEF IsSettlement, ApproveOK, RejectOK, ProposeOK, SubOK,
                        Tool, Sub
    <3>3. LoggedOK(r)'
      <4>1. CASE WriteAuditLog(r)
        <5>1. /\ run'[r].log = Len(auditLog) + 1
              /\ auditLog' = Append(auditLog, SuccessRow(r))
              /\ SuccessRow(r)' = SuccessRow(r)
          BY <1>0, <2>2, <4>1, LocalsStep
        <5>2. SuccessRow(r) \in AuditRow
          BY <1>0, RowsTyped
        <5>3. /\ auditLog' \in Seq(AuditRow) /\ Len(auditLog') = Len(auditLog) + 1
              /\ auditLog'[Len(auditLog) + 1] = SuccessRow(r)
          BY <1>0, <5>1, <5>2, Appended
        <5>4. Len(auditLog) + 1 \in DOMAIN auditLog'
          BY <1>0, <5>3, LenProperties
        <5>5. QED
          BY <5>1, <5>3, <5>4 DEF LoggedOK
      <4>2. CASE ~WriteAuditLog(r)
        <5>1. pc'[r] = "apply" => pc[r] = "apply" /\ run'[r] = run[r]
          BY <1>0, <1>1, <4>2, ToApply
        <5>2. QED
          BY <1>2, <5>1 DEF DraftInv, ToolOK, LoggedOK, LogGrows, SuccessRow
      <4>3. QED
        BY <4>1, <4>2
    <3>4. QED
      BY <3>2, <3>3 DEF ToolOK
  <2>3. QED
    BY <2>1, <2>2
<1>6. ASSUME NEW q \in Handlers
      PROVE  LocalOK(local'[q]) /\ ToolOK(q)'
  <2>1. LocalOK(local'[q])
    BY <1>0, <1>3 DEF DraftTyped
  <2>2. CASE q = r
    BY <1>5, <2>1, <2>2
  <2>3. CASE q # r
    BY <1>0, <1>2, <1>3, <1>4, <2>1, <2>3, OthersKeep DEF DraftInv
  <2>4. QED
    BY <2>2, <2>3
<1>7. Unbooked'
  <2>1. pc'[r] = "idle" \/ run'[r].call = run[r].call
    BY <1>0, LocalsStep
  <2>2. QED
    BY <1>0, <1>3, <1>4, <2>1 DEF Unbooked, Tool, IsSettlement
<1>8. local' = [q \in Handlers |-> local'[q]]
  BY <1>0, <1>3 DEF DraftTyped
<1>9. QED
  BY <1>2, <1>3, <1>6, <1>7, <1>8, DraftKept

\* The last statement of Transition, for a confirmation.
LEMMA FlipsState ==
  ASSUME TypeOK, NEW r \in Handlers, ConfirmOutputFlip(r)
  PROVE  /\ pc[r] = "apply" /\ pc'[r] \in {"apply", "spend"}
         /\ \A q \in Handlers : q # r => pc'[q] = pc[q]
         /\ pc' \in [Handlers -> Labels] /\ run' = run
         /\ covState' = "SETTLED"
         /\ UNCHANGED <<memberStatus, callCount, budget, reservations, auditLog,
                        bounds, draftVars, outputs, snapshots, anchors, move,
                        moves>>
<1>1. TwinBound \in BOOLEAN
  BY SettlementAssumption
<1>2. QED
  BY <1>1 DEF ConfirmOutputFlip, TypeOK, At, Goto, Labels

LEMMA MoveTyped ==
  ASSUME SettleTyped, NEW m \in Movers
  PROVE  move[m] \in [step : {"idle", "flip", "capture", "insert"},
                      from : States, to : States, todo : SUBSET SnapshotRow]
BY DEF SettleTyped

\* An owner's request touches the state of the covenant, or a bound.
LEMMA MoveTables ==
  ASSUME TypeOK, SettleTyped, NEW m \in Movers, MoveGet(m) \/ MoveStep(m)
  PROVE  /\ TypeOK' /\ UNCHANGED <<memberStatus, callCount, budget, reservations,
                                   auditLog, pc, run, crashes, draftVars>>
         /\ UNCHANGED <<outputs, anchors, work>>
         /\ covState' = covState \/ MoveFlip(m)
         /\ faults' = faults \/ MoveFails(m)
<1>1. CASE MoveGet(m) \/ MoveCapture(m) \/ MoveInsert(m)
  <2>1. UNCHANGED vars /\ UNCHANGED <<outputs, anchors, work>>
    BY <1>1 DEF MoveGet, MoveCapture, MoveInsert
  <2>2. QED
    BY <2>1 DEF vars, engineVars, tables, bounds, TypeOK
<1>2. CASE MoveFlip(m)
  BY <1>2, MoveTyped DEF MoveFlip, TypeOK, bounds
<1>3. CASE MoveFails(m)
  BY <1>3 DEF MoveFails, StatementFails, TypeOK, tables
<1>4. QED
  BY <1>1, <1>2, <1>3 DEF MoveStep

\* The server's death ends what is under way, and nothing else.
LEMMA ServerStops ==
  ASSUME TypeOK, ServerDies
  PROVE  /\ \A r \in Handlers : /\ pc'[r] = "idle" /\ run'[r] = NoRun
                                /\ local'[r] = NoLocal /\ work'[r] = NoWork
         /\ local' = [r \in Handlers |-> local'[r]]
         /\ \A m \in Movers : move'[m] = Resting
         /\ UNCHANGED <<tables, pending, ledger, outputs, snapshots, anchors>>
         /\ crashes' = crashes + 1 /\ faults' = faults
         /\ TypeOK'
<1>1. /\ pc' = [r \in Handlers |-> "idle"] /\ run' = [r \in Handlers |-> NoRun]
      /\ local' = [r \in Handlers |-> NoLocal]
      /\ work' = [r \in Handlers |-> NoWork] /\ move' = [m \in Movers |-> Resting]
      /\ UNCHANGED <<tables, calls, hours, faults, pending, ledger, outputs,
                     snapshots, anchors>>
      /\ crashes' = crashes + 1
  BY DEF ServerDies
<1>2. /\ pc' \in [Handlers -> Labels] /\ run' \in [Handlers -> RunLocals]
  BY <1>1, NoRunType DEF Labels
<1>3. TypeOK'
  BY <1>1, <1>2 DEF TypeOK, tables
<1>4. QED
  BY <1>1, <1>3

\* What the contribution tools rely on is not disturbed by the covenant's
\* settlement, nor by the owner's requests.
LEMMA DraftInvSettles ==
  ASSUME DraftInv, SettleTyped, [SettleNext]_allVars
  PROVE  DraftInv' /\ LogGrows
<1>0. /\ TypeOK /\ Len(auditLog) \in Nat /\ DOMAIN auditLog = 1..Len(auditLog)
      /\ local = [q \in Handlers |-> local[q]]
  BY LenProperties DEF DraftInv, DraftTyped, TypeOK
<1>1. ASSUME NEW r \in Handlers, Contributes(r)
      PROVE  DraftInv' /\ LogGrows
  <2>1. [DraftNext]_vars
    BY <1>1 DEF Contributes, DraftNext
  <2>2. QED
    BY <1>0, <2>1, DraftInvStep, StepIsEngine, LogStep
<1>2. ASSUME NEW r \in Handlers, Settles(r)
      PROVE  DraftInv' /\ LogGrows
  <2>1. IsSettlement(r) /\ UNCHANGED draftVars
    BY <1>2, SettlesInEngine
  <2>2. CASE EngineStep(r) \/ ToolStep(r)
    <3>1. [Next]_engineVars
      BY <2>2 DEF Next
    <3>2. QED
      BY <1>0, <2>1, <2>2, <3>1, SettlerKept, LogStep
  <2>3. CASE UNCHANGED engineVars
    <3>1. UNCHANGED vars
      BY <2>1, <2>3 DEF vars
    <3>2. QED
      BY <1>0, <3>1, DraftInvStep, StepIsEngine, LogStep
  <2>4. CASE ConfirmOutputFlip(r)
    <3>1. /\ pc[r] = "apply" /\ pc'[r] \in {"apply", "spend"}
          /\ \A q \in Handlers : q # r => pc'[q] = pc[q]
          /\ pc' \in [Handlers -> Labels] /\ run' = run
          /\ covState' = "SETTLED"
          /\ UNCHANGED <<memberStatus, callCount, budget, reservations, auditLog,
                         bounds, pending, ledger, local>>
      BY <1>0, <2>4, FlipsState DEF draftVars
    <3>2. TypeOK'
      BY <1>0, <3>1, ToolNames DEF TypeOK, bounds
    <3>3. \A q \in Handlers : Aside(q)
      BY <2>1, <3>1, SettlerRests DEF Aside
    <3>4. DraftInv'
      BY <1>0, <3>1, <3>2, <3>3, AsideKept
    <3>5. QED
      BY <1>0, <3>1, <3>4 DEF LogGrows
  <2>5. QED
    BY <1>2, <2>2, <2>3, <2>4, SettlesInEngine
<1>3. ASSUME NEW m \in Movers, MoveGet(m) \/ MoveStep(m)
      PROVE  DraftInv' /\ LogGrows
  <2>1. /\ TypeOK' /\ UNCHANGED <<reservations, auditLog, pending, ledger>>
        /\ UNCHANGED <<pc, run, local>>
    BY <1>0, <1>3, MoveTables DEF draftVars
  <2>2. \A q \in Handlers : Aside(q)
    BY <2>1 DEF Aside
  <2>3. DraftInv'
    BY <1>0, <2>1, <2>2, AsideKept
  <2>4. QED
    BY <1>0, <2>1, <2>3 DEF LogGrows
<1>4. CASE ServerDies
  <2>1. /\ TypeOK' /\ UNCHANGED <<reservations, auditLog, pending, ledger>>
        /\ local' = [q \in Handlers |-> local'[q]]
        /\ \A q \in Handlers : Aside(q)
    BY <1>0, <1>4, ServerStops DEF Aside, tables
  <2>2. DraftInv'
    BY <2>1, AsideKept
  <2>3. QED
    BY <1>0, <2>1, <2>2 DEF LogGrows
<1>5. CASE UNCHANGED allVars
  <2>1. UNCHANGED vars
    BY <1>5 DEF allVars
  <2>2. QED
    BY <1>0, <2>1, DraftInvStep, StepIsEngine, LogStep
<1>6. QED
  BY <1>1, <1>2, <1>3, <1>4, <1>5, SettleCases
-----------------------------------------------------------------------------
(* What the statements of the settlement tools do.                         *)

WorkRecord(n) == [sub : WorkLabels, shares : [Agents -> Int], rows : 0..n]

LEMMA NoWorkTyped ==
  ASSUME NEW n \in Nat
  PROVE  NoWork \in WorkRecord(n) /\ NoWork.sub = "start"
BY DEF NoWork, WorkRecord, WorkLabels

LEMMA WorkNames == {"start", "total", "save", "transition", "flip", "rollup",
                     "anchor"} \subseteq WorkLabels
BY DEF WorkLabels

LEMMA SubWritten ==
  ASSUME NEW n \in Nat, NEW u \in WorkRecord(n), NEW s \in WorkLabels
  PROVE  [u EXCEPT !.sub = s] \in WorkRecord(n) /\ [u EXCEPT !.sub = s].sub = s
BY DEF WorkRecord

\* The steps of a settlement tool are the engine's own and the ends of Steps 2
\* and 3; ...
Runs(r) ==
  /\ UNCHANGED settleVars
  /\ pc[r] # "apply" /\ (EngineStep(r) \/ ToolStep(r))

\* ... or they end Step 6; ...
Ends(r) ==
  /\ pc[r] = "apply" /\ pc'[r] \in {"spend", "release"} /\ run'[r] = run[r]
  /\ work'[r].sub = "start"

\* ... or they go on in Step 6.
Onward(r, s, t) == work[r].sub = s /\ work'[r].sub = t

Advances(r) ==
  /\ pc[r] = "apply" /\ UNCHANGED <<pc, run>>
  /\ \/ /\ Tool(r, "generate_settlement_output")
        /\ Onward(r, "start", "total") \/ Onward(r, "total", "save")
     \/ /\ Tool(r, "confirm_settlement_output")
        /\ \/ Onward(r, "start", "transition") /\ ConfirmOutputMark(r)
           \/ Onward(r, "transition", "flip") /\ covState = "LOCKED"
           \/ Onward(r, "flip", "rollup") /\ ConfirmOutputFlip(r)
           \/ Onward(r, "rollup", "anchor")

\* The step of r assigns to its work, or leaves all work alone.
LEMMA WorkWritten ==
  ASSUME SettleTyped, TypeOK, NEW r \in Handlers,
         NEW w \in WorkRecord(Len(snapshots)),
         work' = [work EXCEPT ![r] = w], snapshots' = snapshots
  PROVE  /\ work' \in [Handlers -> WorkRecord(Len(snapshots'))]
         /\ work'[r] = w /\ \A q \in Handlers : q # r => work'[q] = work[q]
BY DEF SettleTyped, WorkRecord

Written(r) ==
  /\ work' \in [Handlers -> WorkRecord(Len(snapshots'))]
  /\ \A q \in Handlers : q # r => work'[q] = work[q]

LEMMA SharesTyped ==
  ASSUME DraftTyped, TypeOK
  PROVE  [a \in Agents |-> Balance(a)] \in [Agents -> Int]
BY ConfirmedFinite

LEMMA GenerateKinds ==
  ASSUME DraftInv, SettleTyped, NEW r \in Handlers, WorkOK(r), GenerateStep(r)
  PROVE  Written(r) /\ (Runs(r) \/ Ends(r) \/ Advances(r))
<1> DEFINE u == work[r]
           n == Len(snapshots)
<1>0. /\ TypeOK /\ pc \in [Handlers -> Labels] /\ n \in Nat
      /\ work \in [Handlers -> WorkRecord(n)] /\ u \in WorkRecord(n)
  BY DEF DraftInv, TypeOK, SettleTyped, WorkRecord
<1>1. CASE GenerateCheck(r) \/ GenerateExecute(r)
  <2>1. /\ UNCHANGED settleVars /\ (EngineStep(r) \/ ToolStep(r))
        /\ pc[r] # "apply"
    BY <1>1 DEF GenerateCheck, GenerateExecute, Check, ExecuteSucceeds,
       ToolStep, PreconditionsPass, PreconditionsFail, At
  <2>2. QED
    BY <1>0, <2>1 DEF Runs, Written, settleVars
<1>2. CASE GenerateGet(r)
  <2>1. CASE GotoWork(r, "total") /\ UNCHANGED engineVars /\ At(r, "apply")
    <3> DEFINE w == [u EXCEPT !.sub = "total"]
    <3>1. /\ work' = [work EXCEPT ![r] = w] /\ snapshots' = snapshots
          /\ Tool(r, "generate_settlement_output") /\ u.sub = "start"
          /\ pc[r] = "apply" /\ UNCHANGED <<pc, run>>
      BY <1>2, <2>1 DEF GenerateGet, GotoWork, AtWork, At, engineVars
    <3>2. w \in WorkRecord(n) /\ w.sub = "total"
      BY <1>0, SubWritten, WorkNames
    <3> HIDE DEF w
    <3>3. QED
      BY <1>0, <3>1, <3>2, WorkWritten DEF Written, Advances, Onward
  <2>2. CASE ApplyFails(r) /\ UNCHANGED work
    <3>1. /\ pc[r] = "apply" /\ pc'[r] = "release" /\ run' = run
          /\ snapshots' = snapshots /\ u.sub = "start"
      BY <1>0, <1>2, <2>2 DEF ApplyFails, At, Goto, GenerateGet, AtWork
    <3>2. QED
      BY <1>0, <2>2, <3>1 DEF Written, Ends
  <2>3. QED
    BY <1>2, <2>1, <2>2 DEF GenerateGet
<1>3. CASE GenerateTotal(r)
  <2> DEFINE f == [a \in Agents |-> Balance(a)]
             w == [u EXCEPT !.sub = "save", !.shares = f]
  <2>1. /\ work' = [work EXCEPT ![r].sub = "save", ![r].shares = f]
        /\ snapshots' = snapshots /\ UNCHANGED <<pc, run>>
        /\ Tool(r, "generate_settlement_output") /\ u.sub = "total"
        /\ pc[r] = "apply"
    BY <1>3 DEF GenerateTotal, AtWork, At, engineVars
  <2>2. f \in [Agents -> Int]
    BY SharesTyped DEF DraftInv
  <2> HIDE DEF f
  <2>3. work' = [work EXCEPT ![r] = w]
    BY <1>0, <2>1
  <2> HIDE DEF u, n
  <2>4. w \in WorkRecord(n) /\ w.sub = "save"
    BY <1>0, <2>2, WorkNames DEF WorkRecord
  <2> USE DEF u, n
  <2> HIDE DEF w
  <2>5. QED
    BY <1>0, <2>1, <2>3, <2>4, WorkWritten DEF Written, Advances, Onward
<1>4. CASE GenerateSave(r)
  <2>1. /\ work' = [work EXCEPT ![r] = NoWork] /\ snapshots' = snapshots
        /\ pc[r] = "apply" /\ pc'[r] = "spend" /\ run' = run
    BY <1>0, <1>4, Zenon DEF GenerateSave, Clear, ApplySucceeds, At, Goto
  <2>2. QED
    BY <1>0, <2>1, NoWorkTyped, WorkWritten DEF Written, Ends
<1>5. QED
  BY <1>1, <1>2, <1>3, <1>4 DEF GenerateStep

LEMMA ConfirmKinds ==
  ASSUME DraftInv, SettleTyped, NEW r \in Handlers, WorkOK(r),
         ConfirmOutputStep(r)
  PROVE  Written(r) /\ (Runs(r) \/ Ends(r) \/ Advances(r))
<1> DEFINE u == work[r]
           n == Len(snapshots)
<1>0. /\ TypeOK /\ pc \in [Handlers -> Labels] /\ n \in Nat
      /\ work \in [Handlers -> WorkRecord(n)] /\ u \in WorkRecord(n)
  BY DEF DraftInv, TypeOK, SettleTyped, WorkRecord
<1>a. ASSUME work' = [work EXCEPT ![r] = NoWork], snapshots' = snapshots,
             pc[r] = "apply", run' = run,
             NEW l \in {"spend", "release"}, pc' = [pc EXCEPT ![r] = l]
      PROVE  Written(r) /\ Ends(r)
  BY <1>0, <1>a, NoWorkTyped, WorkWritten DEF Written, Ends
<1>b. ASSUME NEW s \in WorkLabels, work' = [work EXCEPT ![r].sub = s],
             snapshots' = snapshots
      PROVE  Written(r) /\ work'[r].sub = s
  <2> DEFINE w == [u EXCEPT !.sub = s]
  <2>1. work' = [work EXCEPT ![r] = w]
    BY <1>b
  <2>2. w \in WorkRecord(n) /\ w.sub = s
    BY <1>0, SubWritten
  <2> HIDE DEF w
  <2>3. QED
    BY <1>0, <1>b, <2>1, <2>2, WorkWritten DEF Written
<1>1. CASE ConfirmOutputCheck(r) \/ ConfirmOutputExecute(r)
  <2>1. /\ UNCHANGED settleVars /\ (EngineStep(r) \/ ToolStep(r))
        /\ pc[r] # "apply"
    BY <1>1 DEF ConfirmOutputCheck, ConfirmOutputExecute, Check,
       ExecuteSucceeds, ToolStep, PreconditionsPass, PreconditionsFail, At
  <2>2. QED
    BY <1>0, <2>1 DEF Runs, Written, settleVars
<1>2. CASE ConfirmOutputMark(r)
  <2>1. /\ work' = [work EXCEPT ![r].sub = "transition"]
        /\ snapshots' = snapshots /\ UNCHANGED <<pc, run>> /\ pc[r] = "apply"
        /\ Tool(r, "confirm_settlement_output") /\ u.sub = "start"
    BY <1>2 DEF ConfirmOutputMark, GotoWork, AtWork, At, engineVars
  <2>2. Written(r) /\ work'[r].sub = "transition"
    BY <1>b, <2>1, WorkNames
  <2>3. QED
    BY <1>2, <2>1, <2>2 DEF Advances, Onward
<1>3. CASE ConfirmOutputGet(r)
  <2>1. CASE GotoWork(r, "flip") /\ UNCHANGED engineVars /\ At(r, "apply")
    <3>1. /\ work' = [work EXCEPT ![r].sub = "flip"]
          /\ snapshots' = snapshots /\ UNCHANGED <<pc, run>> /\ pc[r] = "apply"
          /\ Tool(r, "confirm_settlement_output") /\ u.sub = "transition"
      BY <1>3, <2>1 DEF ConfirmOutputGet, GotoWork, AtWork, At, engineVars
    <3>2. covState = "LOCKED"
      <4>1. Allowed(covState, "SETTLED")
        <5>1. ApplyFails(r) => pc'[r] = "release"
          BY <1>0 DEF ApplyFails, Goto
        <5>2. pc'[r] = "apply"
          BY <3>1
        <5>3. QED
          BY <1>3, <5>1, <5>2 DEF ConfirmOutputGet
      <4>2. QED
        BY <4>1 DEF Allowed, transitions
    <3>3. Written(r) /\ work'[r].sub = "flip"
      BY <1>b, <3>1, WorkNames
    <3>4. QED
      BY <3>1, <3>2, <3>3 DEF Advances, Onward
  <2>2. CASE ApplyFails(r) /\ Clear(r)
    <3>1. /\ work' = [work EXCEPT ![r] = NoWork] /\ snapshots' = snapshots
          /\ pc[r] = "apply" /\ pc' = [pc EXCEPT ![r] = "release"] /\ run' = run
      BY <1>3, <2>2 DEF ConfirmOutputGet, ApplyFails, Clear, At, Goto
    <3>2. QED
      BY <1>a, <3>1
  <2>3. QED
    BY <1>3, <2>1, <2>2 DEF ConfirmOutputGet
<1>4. CASE ConfirmOutputFlip(r)
  <2>1. /\ pc[r] = "apply" /\ run' = run /\ snapshots' = snapshots
        /\ pc' = [pc EXCEPT ![r] = IF TwinBound THEN "apply" ELSE "spend"]
        /\ work' = [work EXCEPT ![r].sub = IF TwinBound THEN "rollup" ELSE "start"]
        /\ Tool(r, "confirm_settlement_output") /\ u.sub = "flip"
    BY <1>4 DEF ConfirmOutputFlip, At, Goto, AtWork
  <2>2. CASE TwinBound
    <3>1. /\ work' = [work EXCEPT ![r].sub = "rollup"]
          /\ pc' = pc
      BY <1>0, <2>1, <2>2
    <3>2. Written(r) /\ work'[r].sub = "rollup"
      BY <1>b, <2>1, <3>1, WorkNames
    <3>3. QED
      BY <1>4, <2>1, <3>1, <3>2 DEF Advances, Onward
  <2>3. CASE ~TwinBound
    <3>1. /\ work' = [work EXCEPT ![r].sub = "start"]
          /\ pc'[r] = "spend"
      BY <1>0, <2>1, <2>3
    <3>2. Written(r) /\ work'[r].sub = "start"
      BY <1>b, <2>1, <3>1, WorkNames
    <3>3. QED
      BY <2>1, <3>1, <3>2 DEF Ends
  <2>4. QED
    BY <2>2, <2>3
<1>5. CASE ConfirmOutputRollup(r)
  <2> DEFINE w == [u EXCEPT !.sub = "anchor", !.rows = n]
  <2>1. /\ work' = [work EXCEPT ![r].sub = "anchor", ![r].rows = n]
        /\ snapshots' = snapshots /\ UNCHANGED <<pc, run>> /\ pc[r] = "apply"
        /\ Tool(r, "confirm_settlement_output") /\ u.sub = "rollup"
    BY <1>5 DEF ConfirmOutputRollup, AtWork, At, engineVars
  <2>2. work' = [work EXCEPT ![r] = w]
    BY <1>0, <2>1
  <2>3. n \in 0..n
    BY <1>0
  <2> HIDE DEF u, n
  <2>4. w \in WorkRecord(n) /\ w.sub = "anchor"
    BY <1>0, <2>3, WorkNames DEF WorkRecord
  <2> USE DEF u, n
  <2> HIDE DEF w
  <2>5. QED
    BY <1>0, <2>1, <2>2, <2>4, WorkWritten DEF Written, Advances, Onward
<1>6. CASE ConfirmOutputAnchor(r)
  <2>1. /\ work' = [work EXCEPT ![r] = NoWork] /\ snapshots' = snapshots
        /\ pc[r] = "apply" /\ pc' = [pc EXCEPT ![r] = "spend"] /\ run' = run
    BY <1>6, Zenon DEF ConfirmOutputAnchor, Clear, ApplySucceeds, At, Goto
  <2>2. QED
    BY <1>a, <2>1
<1>7. CASE ConfirmOutputUnanchored(r)
  <2>1. /\ work' = [work EXCEPT ![r] = NoWork] /\ snapshots' = snapshots
        /\ pc[r] = "apply" /\ pc' = [pc EXCEPT ![r] = "spend"] /\ run' = run
    BY <1>7, Zenon DEF ConfirmOutputUnanchored, Clear, ApplyOverlooks, At, Goto
  <2>2. QED
    BY <1>a, <2>1
<1>8. QED
  BY <1>1, <1>2, <1>3, <1>4, <1>5, <1>6, <1>7 DEF ConfirmOutputStep

LEMMA SettleKinds ==
  ASSUME DraftInv, SettleTyped, NEW r \in Handlers, WorkOK(r), Settles(r)
  PROVE  Written(r) /\ (Runs(r) \/ Ends(r) \/ Advances(r))
<1>0. /\ TypeOK /\ pc \in [Handlers -> Labels]
      /\ work \in [Handlers -> WorkRecord(Len(snapshots))]
      /\ Len(snapshots) \in Nat
  BY DEF DraftInv, TypeOK, SettleTyped, WorkRecord
<1>1. CASE IsSettlement(r) /\ SettleEngineOnly(r)
  <2>1. CASE ApplyStatementFails(r) /\ Clear(r) /\ snapshots' = snapshots
    <3>1. /\ work' = [work EXCEPT ![r] = NoWork]
          /\ pc[r] = "apply" /\ pc'[r] = "release" /\ run' = run
      BY <1>0, <2>1, Zenon DEF Clear, ApplyStatementFails, At, Goto
    <3>2. QED
      BY <1>0, <2>1, <3>1, NoWorkTyped, WorkWritten DEF Written, Ends
  <2>2. CASE ~(ApplyStatementFails(r) /\ Clear(r) /\ snapshots' = snapshots)
    <3>1. UNCHANGED settleVars /\ EngineStep(r) /\ pc[r] # "apply"
      BY <1>1, <2>2 DEF SettleEngineOnly, EngineStep, GetCovenant, GetMember,
         IdentityFails, RateLimitGate, CheckAndReserve, GateFails,
         CalculateEffects, WriteAuditLog, AuditLogFails, RecordSpend,
         RecordSpendFails, SettleReservation, ReleaseReservation, LogRejection,
         At
    <3>2. QED
      BY <1>0, <3>1 DEF Runs, Written, settleVars
  <2>3. QED
    BY <2>1, <2>2
<1>2. QED
  BY <1>1, GenerateKinds, ConfirmKinds DEF Settles
-----------------------------------------------------------------------------
(* Who writes the outputs and the anchors.                                 *)

LEMMA OutputsWrites ==
  ASSUME NEW r \in Handlers, Settles(r)
  PROVE  /\ outputs' = outputs \/ GenerateSave(r) \/ ConfirmOutputMark(r)
         /\ anchors' = anchors \/ ConfirmOutputAnchor(r)
<1>1. CASE IsSettlement(r) /\ SettleEngineOnly(r)
  BY <1>1 DEF SettleEngineOnly, settleVars
<1>2. CASE GenerateStep(r)
  BY <1>2 DEF GenerateStep, GenerateCheck, GenerateExecute, GenerateGet,
              GenerateTotal, GenerateSave, settleVars
<1>3. CASE ConfirmOutputStep(r)
  BY <1>3, Zenon DEF ConfirmOutputStep, ConfirmOutputCheck,
     ConfirmOutputExecute, ConfirmOutputMark, ConfirmOutputGet,
     ConfirmOutputFlip, ConfirmOutputRollup, ConfirmOutputAnchor,
     ConfirmOutputUnanchored, settleVars
<1>4. QED
  BY <1>1, <1>2, <1>3 DEF Settles

\* Output o with another log row, status or shares keeps its type.
LEMMA OutputOK ==
  ASSUME NEW e \in Output
  PROVE  LET w == [e EXCEPT !.status = "confirmed"]
         IN w \in Output /\ w.status = "confirmed" /\ w.log = e.log
BY DEF Output

\* Saving adds an output, triggered by the call's own row.
LEMMA Saved ==
  ASSUME SettleInv, NEW r \in Handlers, GenerateSave(r)
  PROVE  /\ pc[r] = "apply" /\ pc'[r] = "spend" /\ UNCHANGED <<run, tables>>
         /\ Tool(r, "generate_settlement_output")
         /\ run[r].log \in DOMAIN auditLog
         /\ auditLog[run[r].log] = SuccessRow(r)
         /\ \A o \in DOMAIN outputs : outputs[o].log # run[r].log
         /\ outputs' \in Seq(Output) /\ Len(outputs) \in Nat
         /\ DOMAIN outputs = 1..Len(outputs)
         /\ DOMAIN outputs' = 1..(Len(outputs) + 1)
         /\ \A o \in DOMAIN outputs : outputs'[o] = outputs[o]
         /\ outputs'[Len(outputs) + 1].log = run[r].log
         /\ outputs'[Len(outputs) + 1].status = "pending_confirmation"
<1> DEFINE e == [log |-> run[r].log, shares |-> work[r].shares,
                 status |-> "pending_confirmation"]
<1>0. /\ DraftInv /\ TypeOK /\ pc \in [Handlers -> Labels]
      /\ DOMAIN auditLog = 1..Len(auditLog) /\ Len(auditLog) \in Nat
      /\ outputs \in Seq(Output) /\ Len(outputs) \in Nat
      /\ DOMAIN outputs = 1..Len(outputs)
  BY LenProperties DEF SettleInv, DraftInv, TypeOK, SettleTyped
<1>1. /\ pc[r] = "apply" /\ pc'[r] = "spend" /\ UNCHANGED <<run, tables>>
      /\ Tool(r, "generate_settlement_output")
      /\ outputs' = Append(outputs, e)
  BY <1>0 DEF GenerateSave, AtWork, ApplySucceeds, At, Goto
<1>2. run[r].log \in DOMAIN auditLog /\ auditLog[run[r].log] = SuccessRow(r)
  BY <1>0, <1>1 DEF DraftInv, ToolOK, LoggedOK
<1>3. \A o \in DOMAIN outputs : outputs[o].log # run[r].log
  BY <1>1 DEF SettleInv, GenerateOK
<1>4. e \in Output
  <2>1. run[r].log \in Nat \ {0}
    BY <1>0, <1>2
  <2>2. work[r].shares \in [Agents -> Int]
    BY DEF SettleInv, SettleTyped
  <2>3. QED
    BY <2>1, <2>2 DEF Output
<1>5. e.log = run[r].log /\ e.status = "pending_confirmation"
  OBVIOUS
<1> HIDE DEF e
<1>6. /\ outputs' \in Seq(Output) /\ Len(outputs') = Len(outputs) + 1
      /\ \A o \in 1..Len(outputs) : outputs'[o] = outputs[o]
      /\ outputs'[Len(outputs) + 1] = e
  BY <1>0, <1>1, <1>4, Appended
<1>7. DOMAIN outputs' = 1..(Len(outputs) + 1)
  BY <1>6, LenProperties
<1>8. QED
  BY <1>0, <1>1, <1>2, <1>3, <1>5, <1>6, <1>7

\* Marking changes the status of the output that was asked for.
LEMMA MarkedOne ==
  ASSUME SettleInv, NEW r \in Handlers, ConfirmOutputMark(r)
  PROVE  LET e == run[r].eff.ref IN
         /\ pc[r] = "apply" /\ UNCHANGED engineVars /\ work[r].sub = "start"
         /\ Tool(r, "confirm_settlement_output") /\ run[r].state = "LOCKED"
         /\ e \in DOMAIN outputs
         /\ outputs' \in Seq(Output) /\ DOMAIN outputs' = DOMAIN outputs
         /\ \A o \in DOMAIN outputs :
              /\ outputs'[o].log = outputs[o].log
              /\ outputs'[o].status =
                   IF o = e THEN "confirmed" ELSE outputs[o].status
<1> DEFINE e == run[r].eff.ref
           w(o) == [outputs[o] EXCEPT !.status = "confirmed"]
<1>1. /\ pc[r] = "apply" /\ UNCHANGED engineVars /\ work[r].sub = "start"
      /\ Tool(r, "confirm_settlement_output")
      /\ outputs' = [outputs EXCEPT ![e].status = "confirmed"]
  BY DEF ConfirmOutputMark, AtWork, At
<1>2. e \in DOMAIN outputs /\ run[r].state = "LOCKED"
  BY <1>1 DEF SettleInv, ConfirmOK, Passed, Decided
<1>3. /\ outputs \in Seq(Output) /\ DOMAIN outputs = 1..Len(outputs)
      /\ Len(outputs) \in Nat
      /\ \A o \in DOMAIN outputs : outputs[o] \in Output
  BY LenProperties, ElementOfSeq DEF SettleInv, SettleTyped
<1>4. outputs' = [outputs EXCEPT ![e] = w(e)]
  BY <1>1, <1>3
<1>5. w(e) \in Output /\ w(e).status = "confirmed" /\ w(e).log = outputs[e].log
  BY <1>2, <1>3, OutputOK
<1> HIDE DEF e, w
<1>6. /\ DOMAIN outputs' = DOMAIN outputs /\ outputs'[e] = w(e)
      /\ \A o \in DOMAIN outputs : o # e => outputs'[o] = outputs[o]
      /\ outputs' \in Seq(Output)
  <2>1. /\ DOMAIN outputs' = DOMAIN outputs /\ outputs'[e] = w(e)
        /\ \A o \in DOMAIN outputs : o # e => outputs'[o] = outputs[o]
    BY <1>2, <1>3, <1>4
  <2>2. outputs' \in Seq(Output)
    BY <1>2, <1>3, <1>4, <1>5, ExceptSeq
  <2>3. QED
    BY <2>1, <2>2
<1>7. QED
  BY <1>1, <1>2, <1>5, <1>6 DEF e
-----------------------------------------------------------------------------
(* The owner's requests.                                                   *)

MoveRecord == [step : {"idle", "flip", "capture", "insert"}, from : States,
               to : States, todo : SUBSET SnapshotRow]

MoveTypes ==
  /\ move \in [Movers -> MoveRecord]
  /\ \A m \in Movers : move[m].step = "insert" <=> move[m].todo # {}

LEMMA RestingTyped == Resting \in MoveRecord /\ Resting.todo = {}
BY ToolNames DEF Resting, MoveRecord

\* A step of m assigns to its locals alone.
LEMMA MoveWritten ==
  ASSUME MoveTypes, NEW m \in Movers, NEW v \in MoveRecord,
         v.step = "insert" <=> v.todo # {}, move' = [move EXCEPT ![m] = v]
  PROVE  /\ MoveTypes' /\ move'[m] = v
         /\ \A n \in Movers : n # m => move'[n] = move[n]
BY DEF MoveTypes

\* The five steps of a request, each seen from its own locals.
Gets(m) ==
  /\ move[m].step = "idle" /\ move'[m].step = "flip" /\ move'[m].todo = {}
  /\ move'[m].from = covState /\ Allowed(covState, move'[m].to)
  /\ UNCHANGED <<vars, snapshots>>

Flips(m) ==
  /\ move[m].step = "flip" /\ covState' = move[m].to
  /\ IF move[m].from = "ACTIVE" /\ move[m].to = "LOCKED"
     THEN move'[m].step = "capture" /\ move'[m].todo = {}
     ELSE move'[m] = Resting
  /\ UNCHANGED <<memberStatus, callCount, budget, reservations, auditLog, pc,
                 run, bounds, draftVars, snapshots>>

Captures(m) ==
  /\ move[m].step = "capture"
  /\ IF SnapshotRows = {} THEN move'[m] = Resting
     ELSE move'[m].step = "insert" /\ move'[m].todo = SnapshotRows
  /\ UNCHANGED <<vars, snapshots>>

Inserts(m) ==
  /\ move[m].step = "insert"
  /\ \E row \in move[m].todo :
       /\ snapshots' = Append(snapshots, row)
       /\ move'[m].todo = move[m].todo \ {row}
       /\ move'[m].step \in {"idle", "insert"}
  /\ UNCHANGED vars

Fails(m) ==
  /\ move'[m] = Resting /\ faults' = faults + 1
  /\ UNCHANGED <<tables, pc, run, draftVars, snapshots>>

LEMMA CostTyped ==
  ASSUME TypeOK, NEW a
  PROVE  LoggedCost(a) \in Nat
<1> DEFINE f == [l \in DOMAIN auditLog |-> auditLog[l].cost]
           S == {l \in DOMAIN auditLog : /\ auditLog[l].agent = a
                                         /\ auditLog[l].result = "success"}
<1>1. /\ DOMAIN auditLog = 1..Len(auditLog) /\ Len(auditLog) \in Int /\ 1 \in Int
      /\ \A l \in DOMAIN auditLog : auditLog[l] \in AuditRow
  BY LenProperties, ElementOfSeq DEF TypeOK
<1>2. IsFiniteSet(DOMAIN auditLog)
  BY <1>1, FS_Interval
<1>3. S \in SUBSET DOMAIN auditLog
  OBVIOUS
<1>4. IsFiniteSet(S)
  BY <1>2, <1>3, FS_Subset
<1>5. \A l \in S : f[l] \in Nat
  BY <1>1, ConstantsAssumption DEF AuditRow
<1>6. LoggedCost(a) = SumFunctionOnSet(f, S)
  BY DEF LoggedCost
<1> HIDE DEF f, S
<1>7. QED
  BY <1>4, <1>5, <1>6, SumNatural

LEMMA RowsAreTyped ==
  ASSUME TypeOK, DraftTyped
  PROVE  SnapshotRows \subseteq SnapshotRow
<1>1. ASSUME NEW a \in Agents
      PROVE  [agent |-> a, tokens |-> Balance(a), cost |-> LoggedCost(a)]
               \in SnapshotRow
  BY CostTyped, ConfirmedFinite DEF SnapshotRow
<1>2. QED
  BY <1>1 DEF SnapshotRows

LEMMA MoveKinds ==
  ASSUME TypeOK, DraftTyped, MoveTypes, NEW m \in Movers,
         MoveGet(m) \/ MoveStep(m)
  PROVE  /\ MoveTypes' /\ \A n \in Movers : n # m => move'[n] = move[n]
         /\ Gets(m) \/ Flips(m) \/ Captures(m) \/ Inserts(m) \/ Fails(m)
<1> DEFINE v == move[m]
<1>0. /\ v \in MoveRecord /\ v.todo \subseteq SnapshotRow
      /\ v.step = "insert" <=> v.todo # {}
      /\ covState \in States
  BY DEF TypeOK, MoveTypes, MoveRecord
<1>a. ASSUME move' = [move EXCEPT ![m] = Resting]
      PROVE  /\ MoveTypes' /\ move'[m] = Resting
             /\ \A n \in Movers : n # m => move'[n] = move[n]
  <2>1. Resting.step = "insert" <=> Resting.todo # {}
    BY DEF Resting
  <2>2. QED
    BY <1>a, <2>1, RestingTyped, MoveWritten
<1>1. CASE MoveGet(m)
  <2>1. PICK to \in States :
          /\ Allowed(covState, to)
          /\ move' = [move EXCEPT ![m] = [Resting EXCEPT
                        !.step = "flip", !.from = covState, !.to = to]]
    BY <1>1 DEF MoveGet
  <2> DEFINE w == [Resting EXCEPT !.step = "flip", !.from = covState, !.to = to]
  <2>2. /\ w \in MoveRecord /\ w.step = "flip" /\ w.todo = {}
        /\ w.from = covState /\ w.to = to
    BY <1>0, RestingTyped DEF MoveRecord
  <2>3. move' = [move EXCEPT ![m] = w]
    BY <2>1
  <2> HIDE DEF w
  <2>4. /\ MoveTypes' /\ move'[m] = w
        /\ \A n \in Movers : n # m => move'[n] = move[n]
    BY <2>2, <2>3, MoveWritten
  <2>5. QED
    BY <1>1, <2>1, <2>2, <2>4 DEF MoveGet, Gets
<1>2. CASE MoveFlip(m)
  <2>1. CASE v.from = "ACTIVE" /\ v.to = "LOCKED"
    <3> DEFINE w == [v EXCEPT !.step = "capture"]
    <3>1. move' = [move EXCEPT ![m] = w] /\ v.step = "flip"
      BY <1>2, <2>1 DEF MoveFlip
    <3>2. w \in MoveRecord /\ w.step = "capture" /\ w.todo = {}
      BY <1>0, <3>1 DEF MoveRecord
    <3> HIDE DEF w
    <3>3. /\ MoveTypes' /\ move'[m] = w
          /\ \A n \in Movers : n # m => move'[n] = move[n]
      BY <3>1, <3>2, MoveWritten
    <3>4. QED
      BY <1>2, <2>1, <3>2, <3>3 DEF MoveFlip, Flips
  <2>2. CASE ~(v.from = "ACTIVE" /\ v.to = "LOCKED")
    BY <1>2, <1>a, <2>2 DEF MoveFlip, Flips
  <2>3. QED
    BY <2>1, <2>2
<1>3. CASE MoveCapture(m)
  <2>1. CASE SnapshotRows = {}
    BY <1>3, <1>a, <2>1 DEF MoveCapture, Captures
  <2>2. CASE SnapshotRows # {}
    <3>1. PICK S : S = SnapshotRows
      OBVIOUS
    <3> DEFINE w == [v EXCEPT !.step = "insert", !.todo = S]
    <3>2. S \subseteq SnapshotRow
      BY <3>1, RowsAreTyped
    <3>3. move' = [move EXCEPT ![m].step = "insert", ![m].todo = S]
      BY <1>3, <2>2, <3>1 DEF MoveCapture
    <3>4. move' = [move EXCEPT ![m] = w]
      BY <3>3 DEF MoveTypes
    <3>5. w \in MoveRecord /\ w.step = "insert" /\ w.todo = S
      BY <1>0, <3>2 DEF MoveRecord
    <3> HIDE DEF w
    <3>6. /\ MoveTypes' /\ move'[m] = w
          /\ \A n \in Movers : n # m => move'[n] = move[n]
      BY <2>2, <3>1, <3>4, <3>5, MoveWritten
    <3>7. QED
      BY <1>3, <2>2, <3>1, <3>5, <3>6 DEF MoveCapture, Captures
  <2>3. QED
    BY <2>1, <2>2
<1>4. CASE MoveInsert(m)
  <2>1. PICK row \in v.todo :
          /\ snapshots' = Append(snapshots, row)
          /\ move' = IF v.todo = {row} THEN [move EXCEPT ![m] = Resting]
                     ELSE [move EXCEPT ![m].todo = v.todo \ {row}]
    BY <1>4 DEF MoveInsert
  <2>2. v.step = "insert" /\ UNCHANGED vars
    BY <1>4 DEF MoveInsert
  <2>3. CASE v.todo = {row}
    <3>1. move' = [move EXCEPT ![m] = Resting]
      BY <2>1, <2>3
    <3>2. /\ MoveTypes' /\ move'[m] = Resting
          /\ \A n \in Movers : n # m => move'[n] = move[n]
      BY <1>a, <3>1
    <3>3. Resting.todo = v.todo \ {row} /\ Resting.step = "idle"
      BY <2>3 DEF Resting
    <3>4. QED
      BY <2>1, <2>2, <3>2, <3>3 DEF Inserts
  <2>4. CASE v.todo # {row}
    <3> DEFINE w == [v EXCEPT !.todo = v.todo \ {row}]
    <3>1. move' = [move EXCEPT ![m] = w]
      BY <2>1, <2>4
    <3>2. /\ w \in MoveRecord /\ w.step = "insert"
          /\ w.todo = v.todo \ {row}
      BY <1>0, <2>2 DEF MoveRecord
    <3>3. w.todo # {}
      BY <2>4, <3>2
    <3> HIDE DEF w
    <3>4. /\ MoveTypes' /\ move'[m] = w
          /\ \A n \in Movers : n # m => move'[n] = move[n]
      BY <3>1, <3>2, <3>3, MoveWritten
    <3>5. QED
      BY <2>1, <2>2, <3>2, <3>4 DEF Inserts
  <2>5. QED
    BY <2>3, <2>4
<1>5. CASE MoveFails(m)
  BY <1>5, <1>a DEF MoveFails, StatementFails, Fails
<1>6. QED
  BY <1>1, <1>2, <1>3, <1>4, <1>5 DEF MoveStep
-----------------------------------------------------------------------------
(* The invariant of the settlement tools.                                  *)

\* What Step 2 has checked, and what Step 3 remembers.
LEMMA StepsTaken ==
  ASSUME TypeOK, NEW r \in Handlers, Settles(r)
  PROVE  /\ pc[r] = "preconditions" /\ pc'[r] = "reserve" =>
              /\ Tool(r, "confirm_settlement_output") =>
                   run[r].call.ref \in DOMAIN outputs /\ run[r].state = "LOCKED"
              /\ Tool(r, "generate_settlement_output") =>
                   run[r].call.agent = Owner
         /\ pc[r] = "execute" /\ pc'[r] = "effects"
              /\ Tool(r, "confirm_settlement_output") =>
                run'[r].eff.ref = run[r].call.ref
<1>0. /\ pc \in [Handlers -> Labels] /\ run \in [Handlers -> RunLocals]
      /\ run[r] \in RunLocals
  BY DEF TypeOK
<1>1. CASE IsSettlement(r) /\ SettleEngineOnly(r)
  <2>1. ~(pc[r] = "preconditions" /\ pc'[r] = "reserve")
    BY <1>0, <1>1 DEF SettleEngineOnly, At, Goto, GetCovenant, GetMember,
       IdentityFails, RateLimitGate, CheckAndReserve, GateFails,
       CalculateEffects, WriteAuditLog, AuditLogFails, RecordSpend,
       RecordSpendFails, SettleReservation, ReleaseReservation, LogRejection,
       ApplyStatementFails
  <2>2. pc[r] # "execute"
    BY <1>1 DEF SettleEngineOnly, At, GetCovenant, GetMember,
       IdentityFails, RateLimitGate, CheckAndReserve, GateFails,
       CalculateEffects, WriteAuditLog, AuditLogFails, RecordSpend,
       RecordSpendFails, SettleReservation, ReleaseReservation, LogRejection,
       ApplyStatementFails
  <2>3. QED
    BY <2>1, <2>2
<1>2. ASSUME NEW c, Check(r, c)
      PROVE  pc[r] = "preconditions" /\ (pc'[r] = "reserve" => c)
  BY <1>0, <1>2 DEF Check, PreconditionsPass, PreconditionsFail, At, Goto
<1>3. CASE GenerateStep(r)
  <2>1. Tool(r, "generate_settlement_output")
    BY <1>3 DEF GenerateStep, GenerateCheck, GenerateExecute, GenerateGet,
                GenerateTotal, GenerateSave, AtWork
  <2>2. pc[r] = "preconditions" => GenerateCheck(r)
    BY <1>3 DEF GenerateStep, GenerateExecute, GenerateGet, GenerateTotal,
                GenerateSave, ExecuteSucceeds, ApplySucceeds, ApplyFails, At
  <2>3. ~Tool(r, "confirm_settlement_output")
    BY <2>1 DEF Tool
  <2>4. QED
    BY <1>2, <2>1, <2>2, <2>3 DEF GenerateCheck
<1>4. CASE ConfirmOutputStep(r)
  <2>1. Tool(r, "confirm_settlement_output")
    BY <1>4 DEF ConfirmOutputStep, ConfirmOutputCheck, ConfirmOutputExecute,
       ConfirmOutputMark, ConfirmOutputGet, ConfirmOutputFlip,
       ConfirmOutputRollup, ConfirmOutputAnchor, ConfirmOutputUnanchored, AtWork
  <2>2. pc[r] = "apply" \/ ConfirmOutputCheck(r) \/ ConfirmOutputExecute(r)
    BY <1>4 DEF ConfirmOutputStep, ConfirmOutputMark, ConfirmOutputGet,
       ConfirmOutputFlip, ConfirmOutputRollup, ConfirmOutputAnchor,
       ConfirmOutputUnanchored, ApplySucceeds, ApplyFails, ApplyOverlooks, At
  <2>3. ~Tool(r, "generate_settlement_output")
    BY <2>1 DEF Tool
  <2>4. CASE ConfirmOutputCheck(r)
    BY <1>2, <2>3, <2>4 DEF ConfirmOutputCheck
  <2>5. CASE ConfirmOutputExecute(r)
    <3> DEFINE e == [tokens |-> 0, ref |-> run[r].call.ref, after |-> "SETTLED"]
               M == [run[r] EXCEPT !.eff = e]
    <3>1. run' = [run EXCEPT ![r] = M] /\ pc[r] = "execute"
      BY <2>5 DEF ConfirmOutputExecute, ExecuteSucceeds, At
    <3>2. M.eff = e
      BY <1>0, RunAssigned
    <3>3. e.ref = run[r].call.ref
      OBVIOUS
    <3> HIDE DEF M, e
    <3>4. run'[r] = M
      BY <1>0, <3>1
    <3>5. QED
      BY <3>1, <3>2, <3>3, <3>4
  <2>6. QED
    BY <2>2, <2>4, <2>5
<1>5. QED
  BY <1>1, <1>3, <1>4 DEF Settles

\* What a step does to a handler that is, or will be, inside Run.
LEMMA HandlerMoves ==
  ASSUME SettleInv, [SettleNext]_allVars, NEW q \in Handlers, pc'[q] # "idle"
  PROVE  \/ UNCHANGED <<pc[q], run[q], work[q]>>
         \/ pc[q] = "idle" /\ pc'[q] = "getCovenant" /\ UNCHANGED work[q]
         \/ ~IsSettlement(q) /\ ~IsSettlement(q)' /\ UNCHANGED work[q]
         \/ Settles(q) /\ run'[q].call = run[q].call
<1>0. /\ DraftInv /\ TypeOK /\ SettleTyped /\ pc \in [Handlers -> Labels]
      /\ \A r \in Handlers : WorkOK(r)
  BY DEF SettleInv, DraftInv, TypeOK
<1>1. ASSUME NEW r \in Handlers, Contributes(r)
      PROVE  \/ UNCHANGED <<pc[q], run[q], work[q]>>
             \/ pc[q] = "idle" /\ pc'[q] = "getCovenant" /\ UNCHANGED work[q]
             \/ ~IsSettlement(q) /\ ~IsSettlement(q)' /\ UNCHANGED work[q]
  <2>1. UNCHANGED work
    BY <1>1 DEF Contributes, settleVars
  <2>2. CASE Begin(r)
    BY <1>0, <2>1, <2>2, EngineMoves DEF Begin, At, Goto
  <2>3. CASE Serve(r) /\ ~IsSettlement(r)
    <3>1. EngineStep(r) \/ ToolStep(r) \/ UNCHANGED engineVars
      BY <1>0, <2>3, ServeIsEngine DEF DraftInv
    <3>2. CASE UNCHANGED engineVars
      BY <2>1, <3>2 DEF engineVars
    <3>3. CASE EngineStep(r) \/ ToolStep(r)
      <4>1. q # r => pc'[q] = pc[q] /\ run'[q] = run[q]
        BY <1>0, <3>3, EngineMoves
      <4>2. pc'[r] # "idle" => run'[r].call = run[r].call
        BY <1>0, <3>3, LocalsStep
      <4>3. QED
        BY <2>1, <2>3, <4>1, <4>2 DEF IsSettlement
    <3>4. QED
      BY <3>1, <3>2, <3>3
  <2>4. QED
    BY <1>1, <2>2, <2>3 DEF Contributes
<1>2. ASSUME NEW r \in Handlers, Settles(r)
      PROVE  \/ UNCHANGED <<pc[q], run[q], work[q]>>
             \/ Settles(q) /\ run'[q].call = run[q].call
  <2>1. Written(r)
    BY <1>0, <1>2, SettleKinds
  <2>2. CASE EngineStep(r) \/ ToolStep(r)
    <3>1. q # r => pc'[q] = pc[q] /\ run'[q] = run[q]
      BY <1>0, <2>2, EngineMoves
    <3>2. q = r => run'[q].call = run[q].call
      BY <1>0, <2>2, LocalsStep
    <3>3. QED
      BY <1>2, <2>1, <3>1, <3>2 DEF Written
  <2>3. CASE UNCHANGED engineVars
    BY <1>2, <2>1, <2>3 DEF Written, engineVars
  <2>4. CASE ConfirmOutputFlip(r)
    <3>1. run' = run /\ (q # r => pc'[q] = pc[q])
      BY <1>0, <2>4, FlipsState
    <3>2. QED
      BY <1>2, <2>1, <3>1 DEF Written
  <2>5. QED
    BY <1>2, <2>2, <2>3, <2>4, SettlesInEngine
<1>3. ASSUME NEW m \in Movers, MoveGet(m) \/ MoveStep(m)
      PROVE  UNCHANGED <<pc[q], run[q], work[q]>>
  BY <1>0, <1>3, MoveTables
<1>4. ~ServerDies
  BY <1>0, ServerStops
<1>5. UNCHANGED allVars => UNCHANGED <<pc[q], run[q], work[q]>>
  BY DEF allVars, vars, engineVars, settleVars
<1>6. QED
  BY <1>1, <1>2, <1>3, <1>4, <1>5, SettleCases

\* The tables of the settlement, and who writes them.
LEMMA TablesMove ==
  ASSUME SettleInv, [SettleNext]_allVars
  PROVE  /\ \/ outputs' = outputs
            \/ \E r \in Handlers : GenerateSave(r) \/ ConfirmOutputMark(r)
         /\ anchors' = anchors \/ \E r \in Handlers : ConfirmOutputAnchor(r)
         /\ MoveTypes'
         /\ \/ snapshots' = snapshots
            \/ \E m \in Movers : Inserts(m) /\ UNCHANGED work
<1>0. /\ DraftInv /\ TypeOK /\ DraftTyped /\ SettleTyped /\ MoveTypes
  BY DEF SettleInv, DraftInv, SettleTyped, MoveTypes, MoveRecord
<1>1. ASSUME NEW r \in Handlers, Contributes(r)
      PROVE  UNCHANGED settleVars
  BY <1>1 DEF Contributes
<1>2. ASSUME NEW r \in Handlers, Settles(r)
      PROVE  /\ UNCHANGED <<snapshots, move>>
             /\ outputs' = outputs \/ GenerateSave(r) \/ ConfirmOutputMark(r)
             /\ anchors' = anchors \/ ConfirmOutputAnchor(r)
  BY <1>2, SettlesInEngine, OutputsWrites
<1>3. ASSUME NEW m \in Movers, MoveGet(m) \/ MoveStep(m)
      PROVE  /\ UNCHANGED <<outputs, anchors, work>> /\ MoveTypes'
             /\ snapshots' = snapshots \/ Inserts(m)
  <2>1. UNCHANGED <<outputs, anchors, work>>
    BY <1>0, <1>3, MoveTables
  <2>2. QED
    BY <1>0, <1>3, <2>1, MoveKinds DEF Gets, Flips, Captures, Fails
<1>4. ServerDies =>
        UNCHANGED <<outputs, snapshots, anchors>> /\ MoveTypes'
  <2> SUFFICES ASSUME ServerDies
               PROVE  UNCHANGED <<outputs, snapshots, anchors>> /\ MoveTypes'
    OBVIOUS
  <2>1. /\ UNCHANGED <<outputs, snapshots, anchors>>
        /\ move' = [m \in Movers |-> Resting]
    BY DEF ServerDies
  <2>2. Resting.step = "insert" <=> Resting.todo # {}
    BY DEF Resting
  <2>3. QED
    BY <2>1, <2>2, RestingTyped DEF MoveTypes
<1>5. move' = move => MoveTypes'
  BY <1>0 DEF MoveTypes
<1>6. CASE \E r \in Handlers : Contributes(r) \/ Settles(r)
  BY <1>1, <1>2, <1>5, <1>6 DEF settleVars
<1>7. CASE \E m \in Movers : MoveGet(m) \/ MoveStep(m)
  BY <1>3, <1>7
<1>8. CASE ServerDies \/ UNCHANGED allVars
  BY <1>4, <1>5, <1>8 DEF allVars, settleVars
<1>9. QED
  BY <1>6, <1>7, <1>8, SettleCases

\* An output keeps its place and its row of the log.
LEMMA OutputsGrow ==
  ASSUME SettleInv, [SettleNext]_allVars
  PROVE  /\ outputs' \in Seq(Output) /\ DOMAIN outputs \subseteq DOMAIN outputs'
         /\ \A o \in DOMAIN outputs : outputs'[o].log = outputs[o].log
         /\ \A o \in DOMAIN outputs :
              outputs[o].status = "confirmed" => outputs'[o].status = "confirmed"
<1>1. outputs \in Seq(Output)
  BY DEF SettleInv, SettleTyped
<1>2. ASSUME NEW r \in Handlers, GenerateSave(r)
      PROVE  /\ outputs' \in Seq(Output)
             /\ DOMAIN outputs \subseteq DOMAIN outputs'
             /\ \A o \in DOMAIN outputs : outputs'[o] = outputs[o]
  <2>1. /\ outputs' \in Seq(Output) /\ Len(outputs) \in Nat
        /\ DOMAIN outputs = 1..Len(outputs)
        /\ DOMAIN outputs' = 1..(Len(outputs) + 1)
        /\ \A o \in DOMAIN outputs : outputs'[o] = outputs[o]
    BY <1>2, Saved
  <2>2. QED
    BY <2>1
<1>3. ASSUME NEW r \in Handlers, ConfirmOutputMark(r)
      PROVE  /\ outputs' \in Seq(Output) /\ DOMAIN outputs' = DOMAIN outputs
             /\ \A o \in DOMAIN outputs :
                  /\ outputs'[o].log = outputs[o].log
                  /\ outputs[o].status = "confirmed" =>
                       outputs'[o].status = "confirmed"
  BY <1>3, MarkedOne
<1>4. QED
  BY <1>1, <1>2, <1>3, TablesMove

\* One anchor is added, for the output of the call.
LEMMA Anchored ==
  ASSUME SettleInv, NEW r \in Handlers, ConfirmOutputAnchor(r)
  PROVE  /\ pc[r] = "apply" /\ Tool(r, "confirm_settlement_output")
         /\ work[r].sub = "anchor" /\ UNCHANGED <<tables, outputs>>
         /\ run[r].eff.ref \in DOMAIN outputs
         /\ anchors' \in Seq(Anchor) /\ DOMAIN anchors = 1..Len(anchors)
         /\ Len(anchors) \in Nat
         /\ DOMAIN anchors' = 1..(Len(anchors) + 1)
         /\ \A i \in DOMAIN anchors : anchors'[i] = anchors[i]
         /\ anchors'[Len(anchors) + 1].output = run[r].eff.ref
<1> DEFINE e == [output |-> run[r].eff.ref, rows |-> work[r].rows]
<1>1. /\ pc[r] = "apply" /\ Tool(r, "confirm_settlement_output")
      /\ work[r].sub = "anchor" /\ UNCHANGED <<tables, outputs>>
      /\ anchors' = Append(anchors, e)
  BY DEF ConfirmOutputAnchor, AtWork, ApplySucceeds, At
<1>2. run[r].eff.ref \in DOMAIN outputs
  BY <1>1 DEF SettleInv, ConfirmOK, Passed, Decided
<1>3. /\ anchors \in Seq(Anchor) /\ DOMAIN anchors = 1..Len(anchors)
      /\ Len(anchors) \in Nat
      /\ DOMAIN outputs = 1..Len(outputs) /\ Len(outputs) \in Nat
      /\ work[r].rows \in 0..Len(snapshots) /\ Len(snapshots) \in Nat
  BY LenProperties DEF SettleInv, SettleTyped
<1>4. e \in Anchor /\ e.output = run[r].eff.ref
  BY <1>2, <1>3 DEF Anchor
<1> HIDE DEF e
<1>5. /\ anchors' \in Seq(Anchor) /\ Len(anchors') = Len(anchors) + 1
      /\ \A i \in 1..Len(anchors) : anchors'[i] = anchors[i]
      /\ anchors'[Len(anchors) + 1] = e
  BY <1>1, <1>3, <1>4, Appended
<1>6. DOMAIN anchors' = 1..(Len(anchors) + 1)
  BY <1>5, LenProperties
<1>7. QED
  BY <1>1, <1>2, <1>3, <1>4, <1>5, <1>6

\* One row of the snapshot is added.
LEMMA Inserted ==
  ASSUME snapshots \in Seq(SnapshotRow), NEW row \in SnapshotRow,
         snapshots' = Append(snapshots, row)
  PROVE  /\ snapshots' \in Seq(SnapshotRow) /\ Len(snapshots) \in Nat
         /\ Len(snapshots') = Len(snapshots) + 1
         /\ DOMAIN snapshots = 1..Len(snapshots)
         /\ DOMAIN snapshots' = 1..(Len(snapshots) + 1)
         /\ \A i \in DOMAIN snapshots : snapshots'[i] = snapshots[i]
         /\ snapshots'[Len(snapshots) + 1] = row
<1>1. Len(snapshots) \in Nat /\ DOMAIN snapshots = 1..Len(snapshots)
  BY LenProperties
<1>2. /\ snapshots' \in Seq(SnapshotRow)
      /\ Len(snapshots') = Len(snapshots) + 1
      /\ \A i \in 1..Len(snapshots) : snapshots'[i] = snapshots[i]
      /\ snapshots'[Len(snapshots) + 1] = row
  BY Appended
<1>3. DOMAIN snapshots' = 1..(Len(snapshots) + 1)
  BY <1>2, LenProperties
<1>4. QED
  BY <1>1, <1>2, <1>3

LEMMA SettleTypedStep ==
  ASSUME SettleInv, [SettleNext]_allVars
  PROVE  SettleTyped'
<1>0. /\ DraftInv /\ SettleTyped /\ MoveTypes /\ Len(snapshots) \in Nat
      /\ \A r \in Handlers : WorkOK(r)
      /\ work \in [Handlers -> WorkRecord(Len(snapshots))]
  BY LenProperties DEF SettleInv, SettleTyped, MoveTypes, MoveRecord, WorkRecord
<1>1. outputs' \in Seq(Output) /\ DOMAIN outputs \subseteq DOMAIN outputs'
  BY OutputsGrow
<1>2. MoveTypes'
  BY TablesMove
<1>3. /\ anchors' \in Seq(Anchor)
      /\ \A i \in DOMAIN anchors' : anchors'[i].output \in DOMAIN outputs'
  <2>1. CASE anchors' = anchors
    BY <1>0, <1>1, <2>1 DEF SettleTyped
  <2>2. ASSUME NEW r \in Handlers, ConfirmOutputAnchor(r)
        PROVE  /\ anchors' \in Seq(Anchor)
               /\ \A i \in DOMAIN anchors' : anchors'[i].output \in DOMAIN outputs'
    <3>1. /\ run[r].eff.ref \in DOMAIN outputs
          /\ anchors' \in Seq(Anchor) /\ DOMAIN anchors = 1..Len(anchors)
          /\ Len(anchors) \in Nat
          /\ DOMAIN anchors' = 1..(Len(anchors) + 1)
          /\ \A i \in DOMAIN anchors : anchors'[i] = anchors[i]
          /\ anchors'[Len(anchors) + 1].output = run[r].eff.ref
      BY <2>2, Anchored
    <3>2. \A i \in DOMAIN anchors' : i \in DOMAIN anchors \/ i = Len(anchors) + 1
      BY <3>1
    <3>3. QED
      BY <1>0, <1>1, <3>1, <3>2 DEF SettleTyped
  <2>3. QED
    BY <2>1, <2>2, TablesMove
<1>4. /\ snapshots' \in Seq(SnapshotRow)
      /\ Len(snapshots') \in Nat /\ Len(snapshots) <= Len(snapshots')
  <2>1. CASE snapshots' = snapshots
    BY <1>0, <2>1 DEF SettleTyped
  <2>2. ASSUME NEW m \in Movers, Inserts(m)
        PROVE  /\ snapshots' \in Seq(SnapshotRow)
               /\ Len(snapshots') = Len(snapshots) + 1
    <3>1. PICK row \in move[m].todo : snapshots' = Append(snapshots, row)
      BY <2>2 DEF Inserts
    <3>2. row \in SnapshotRow
      BY <1>0, <3>1 DEF MoveTypes, MoveRecord
    <3>3. QED
      BY <1>0, <3>1, <3>2, Inserted DEF SettleTyped
  <2>3. QED
    BY <1>0, <2>1, <2>2, TablesMove
<1>5. work' \in [Handlers -> WorkRecord(Len(snapshots'))]
  <2>1. work' = work => work' \in [Handlers -> WorkRecord(Len(snapshots'))]
    BY <1>0, <1>4 DEF WorkRecord
  <2>2. ASSUME NEW r \in Handlers, Contributes(r) \/ Settles(r)
        PROVE  work' \in [Handlers -> WorkRecord(Len(snapshots'))]
    <3>1. CASE Contributes(r)
      BY <2>1, <3>1 DEF Contributes, settleVars
    <3>2. CASE Settles(r)
      BY <1>0, <3>2, SettleKinds DEF Written
    <3>3. QED
      BY <2>2, <3>1, <3>2
  <2>3. ASSUME NEW m \in Movers, MoveGet(m) \/ MoveStep(m)
        PROVE  work' = work
    BY <1>0, <2>3, MoveTables DEF DraftInv
  <2>4. ServerDies => work' \in [Handlers -> WorkRecord(Len(snapshots'))]
    BY <1>4, NoWorkTyped DEF ServerDies
  <2>5. UNCHANGED allVars => work' = work
    BY DEF allVars, settleVars
  <2>6. QED
    BY <2>1, <2>2, <2>3, <2>4, <2>5, SettleCases
<1>6. QED
  BY <1>1, <1>2, <1>3, <1>4, <1>5 DEF SettleTyped, MoveTypes, MoveRecord,
                                      WorkRecord

\* What a settlement tool keeps over a step of its own.
LEMMA SettlerGoesOn ==
  ASSUME SettleInv, NEW r \in Handlers, Settles(r), pc'[r] # "idle"
  PROVE  /\ run'[r].call = run[r].call
         /\ pc'[r] \in Passed =>
              \/ pc[r] \in Passed /\ run'[r].state = run[r].state
              \/ /\ pc[r] = "preconditions" /\ pc'[r] = "reserve"
                 /\ run'[r].state = run[r].state
         /\ pc'[r] \in Decided =>
              \/ pc[r] \in Decided /\ run'[r].eff = run[r].eff
              \/ pc[r] = "execute" /\ pc'[r] = "effects"
         /\ pc'[r] = "apply" =>
              \/ pc[r] = "apply" /\ run'[r].log = run[r].log
              \/ run'[r].log = Len(auditLog) + 1 /\ ~GenerateSave(r)
<1>0. TypeOK
  BY DEF SettleInv, DraftInv
<1>1. CASE EngineStep(r) \/ ToolStep(r)
  <2>1. /\ Edge(pc[r], pc'[r]) /\ run'[r].call = run[r].call
        /\ \/ run'[r].state = run[r].state
           \/ pc[r] = "getCovenant" /\ run'[r].state = covState
        /\ run'[r].eff = run[r].eff \/ pc[r] = "execute"
        /\ run'[r].log = run[r].log \/ WriteAuditLog(r)
        /\ WriteAuditLog(r) => run'[r].log = Len(auditLog) + 1
    BY <1>0, <1>1, LocalsStep
  <2>2. pc'[r] = "apply" => WriteAuditLog(r)
    <3>1. pc'[r] = "apply" => pc[r] # "apply"
      BY <2>1 DEF Edge
    <3>2. QED
      BY <1>0, <1>1, <3>1, ToApply DEF Next
  <2>3. GenerateSave(r) => pc'[r] # "apply"
    BY Saved
  <2>4. QED
    BY <2>1, <2>2, <2>3 DEF Edge, Passed, Decided
<1>2. CASE UNCHANGED engineVars
  BY <1>2 DEF engineVars
<1>3. CASE ConfirmOutputFlip(r)
  <2>1. pc[r] = "apply" /\ run' = run
    BY <1>0, <1>3, FlipsState
  <2>2. QED
    BY <2>1 DEF Passed, Decided
<1>4. QED
  BY <1>1, <1>2, <1>3, SettlesInEngine

\* The logs of the outputs there will be.
LEMMA LogsOfOutputs ==
  ASSUME SettleInv, [SettleNext]_allVars
  PROVE  \/ \A o \in DOMAIN outputs' :
              o \in DOMAIN outputs /\ outputs'[o].log = outputs[o].log
         \/ \E r \in Handlers :
              /\ GenerateSave(r) /\ pc[r] = "apply" /\ pc'[r] = "spend"
              /\ UNCHANGED <<run, tables>>
              /\ \A o \in DOMAIN outputs' :
                   \/ o \in DOMAIN outputs /\ outputs'[o].log = outputs[o].log
                   \/ /\ o = Len(outputs) + 1 /\ o \notin DOMAIN outputs
                      /\ outputs'[o].log = run[r].log
<1>1. ASSUME NEW r \in Handlers, GenerateSave(r)
      PROVE  /\ pc[r] = "apply" /\ pc'[r] = "spend" /\ UNCHANGED <<run, tables>>
             /\ \A o \in DOMAIN outputs' :
                   \/ o \in DOMAIN outputs /\ outputs'[o].log = outputs[o].log
                   \/ /\ o = Len(outputs) + 1 /\ o \notin DOMAIN outputs
                      /\ outputs'[o].log = run[r].log
  <2>1. /\ pc[r] = "apply" /\ pc'[r] = "spend" /\ UNCHANGED <<run, tables>>
        /\ Len(outputs) \in Nat /\ DOMAIN outputs = 1..Len(outputs)
        /\ DOMAIN outputs' = 1..(Len(outputs) + 1)
        /\ \A o \in DOMAIN outputs : outputs'[o] = outputs[o]
        /\ outputs'[Len(outputs) + 1].log = run[r].log
    BY <1>1, Saved
  <2>2. \A o \in DOMAIN outputs' :
          \/ o \in DOMAIN outputs
          \/ o = Len(outputs) + 1 /\ o \notin DOMAIN outputs
    BY <2>1
  <2>3. QED
    BY <2>1, <2>2
<1>2. ASSUME NEW r \in Handlers, ConfirmOutputMark(r)
      PROVE  \A o \in DOMAIN outputs' :
               o \in DOMAIN outputs /\ outputs'[o].log = outputs[o].log
  BY <1>2, MarkedOne
<1>3. QED
  BY <1>1, <1>2, TablesMove

LEMMA TriggeredStep ==
  ASSUME SettleInv, [SettleNext]_allVars
  PROVE  Triggered'
<1>0. /\ DraftInv /\ SettleTyped /\ Triggered
      /\ \A r \in Handlers : GenerateOK(r)
  BY DEF SettleInv
<1>1. LogGrows
  BY <1>0, DraftInvSettles
<1>2. CASE \A o \in DOMAIN outputs' :
             o \in DOMAIN outputs /\ outputs'[o].log = outputs[o].log
  BY <1>0, <1>1, <1>2 DEF Triggered, OutputIsTriggered, LogGrows, Success
<1>3. ASSUME NEW r \in Handlers, GenerateSave(r), UNCHANGED <<run, tables>>,
             \A o \in DOMAIN outputs' :
               \/ o \in DOMAIN outputs /\ outputs'[o].log = outputs[o].log
               \/ /\ o = Len(outputs) + 1 /\ o \notin DOMAIN outputs
                  /\ outputs'[o].log = run[r].log
      PROVE  Triggered'
  <2>1. /\ Tool(r, "generate_settlement_output") /\ pc[r] = "apply"
        /\ run[r].log \in DOMAIN auditLog
        /\ auditLog[run[r].log] = SuccessRow(r)
        /\ \A o \in DOMAIN outputs : outputs[o].log # run[r].log
    BY <1>3, Saved
  <2>2. /\ Success(run[r].log, "generate_settlement_output")
        /\ auditLog[run[r].log].agent = Owner
    BY <1>0, <2>1 DEF GenerateOK, SuccessRow, Success, Tool, Passed
  <2>3. auditLog' = auditLog
    BY <1>3 DEF tables
  <2>4. \A o \in DOMAIN outputs' :
          /\ outputs'[o].log \in DOMAIN auditLog
          /\ Success(outputs'[o].log, "generate_settlement_output")
          /\ auditLog[outputs'[o].log].agent = Owner
    BY <1>0, <1>3, <2>1, <2>2 DEF Triggered, OutputIsTriggered
  <2>5. \A o, p \in DOMAIN outputs' :
          outputs'[p].log = outputs'[o].log => p = o
    BY <1>0, <1>3, <2>1 DEF Triggered, OutputIsTriggered
  <2>6. QED
    BY <2>3, <2>4, <2>5 DEF Triggered, OutputIsTriggered, Success
<1>4. QED
  BY <1>2, <1>3, LogsOfOutputs

LEMMA SettlersStep ==
  ASSUME SettleInv, [SettleNext]_allVars, NEW q \in Handlers
  PROVE  ConfirmOK(q)' /\ GenerateOK(q)' /\ WorkOK(q)'
<1>0. /\ DraftInv /\ TypeOK /\ SettleTyped /\ Triggered
      /\ ConfirmOK(q) /\ GenerateOK(q) /\ WorkOK(q) /\ LogOnce
      /\ work[q].sub \in WorkLabels
      /\ Len(auditLog) \in Nat /\ DOMAIN auditLog = 1..Len(auditLog)
  BY LenProperties DEF SettleInv, DraftInv, ChargeInv, SettleTyped, TypeOK
<1>1. /\ DOMAIN outputs \subseteq DOMAIN outputs'
  BY OutputsGrow
<1>2. CASE pc'[q] = "idle"
  <2>1. work'[q].sub = "start"
    <3>1. ASSUME NEW r \in Handlers, Contributes(r)
          PROVE  work'[q].sub = "start"
      <4>1. work' = work
        BY <3>1 DEF Contributes, settleVars
      <4>2. CASE pc[q] # "apply"
        BY <1>0, <4>1, <4>2 DEF WorkOK
      <4>3. CASE pc[q] = "apply"
        <5>1. [Next]_engineVars
          BY <1>0, <3>1, StepIsEngine DEF Contributes, DraftNext
        <5>2. Begin(r) \/ EngineStep(r) \/ ToolStep(r) \/ UNCHANGED engineVars
          BY <1>0, <3>1, ServeIsEngine DEF Contributes
        <5>3. UNCHANGED engineVars => pc' = pc
          BY DEF engineVars
        <5>4. q # r => pc'[q] = pc[q] \/ UNCHANGED engineVars
          BY <1>0, <5>2, EngineMoves
        <5>5. CASE q = r
          <6>1. ~Begin(r)
            BY <4>3, <5>5 DEF Begin, At
          <6>2. ~IsSettlement(r)
            BY <3>1, <6>1 DEF Contributes
          <6>3. work[q].sub = "start"
            BY <1>0, <5>5, <6>2 DEF WorkOK, IsSettlement, Tool, WorkLabels
          <6>4. QED
            BY <4>1, <6>3
        <5>6. QED
          BY <1>2, <4>3, <5>3, <5>4, <5>5
      <4>4. QED
        BY <4>2, <4>3
    <3>2. ASSUME NEW r \in Handlers, Settles(r)
          PROVE  work'[q].sub = "start"
      <4>1. WorkOK(r)
        BY DEF SettleInv
      <4>2. Written(r) /\ (Runs(r) \/ Ends(r) \/ Advances(r))
        BY <1>0, <3>2, <4>1, SettleKinds
      <4>3. CASE Runs(r)
        <5>1. work' = work /\ pc[r] # "apply"
          BY <4>3 DEF Runs, settleVars
        <5>2. q # r => pc'[q] = pc[q]
          BY <1>0, <4>3, EngineMoves DEF Runs
        <5>3. QED
          BY <1>0, <1>2, <5>1, <5>2 DEF WorkOK
      <4>4. CASE Ends(r) \/ Advances(r)
        <5>1. pc'[r] # "idle"
          BY <4>4 DEF Ends, Advances
        <5>2. q # r => pc'[q] = pc[q] /\ work'[q] = work[q]
          <6>1. \/ EngineStep(r) \/ ToolStep(r) \/ UNCHANGED engineVars
                \/ ConfirmOutputFlip(r)
            BY <3>2, SettlesInEngine
          <6>2. UNCHANGED engineVars => pc' = pc
            BY DEF engineVars
          <6>3. ConfirmOutputFlip(r) => \A s \in Handlers : s # r => pc'[s] = pc[s]
            BY <1>0, FlipsState
          <6>4. q # r => pc'[q] = pc[q]
            BY <1>0, <6>1, <6>2, <6>3, EngineMoves
          <6>5. QED
            BY <4>2, <6>4 DEF Written
        <5>3. q # r
          BY <1>2, <5>1
        <5>4. QED
          BY <1>0, <1>2, <5>2, <5>3 DEF WorkOK
      <4>5. QED
        BY <4>2, <4>3, <4>4
    <3>3. ASSUME NEW m \in Movers, MoveGet(m) \/ MoveStep(m)
          PROVE  work'[q].sub = "start"
      BY <1>0, <1>2, <3>3, MoveTables DEF WorkOK
    <3>4. ServerDies => work'[q].sub = "start"
      BY <1>0, ServerStops, NoWorkTyped
    <3>5. UNCHANGED allVars => work'[q].sub = "start"
      BY <1>0, <1>2 DEF allVars, vars, engineVars, settleVars, WorkOK
    <3>6. QED
      BY <3>1, <3>2, <3>3, <3>4, <3>5, SettleCases
  <2>2. QED
    BY <1>2, <2>1 DEF ConfirmOK, GenerateOK, WorkOK, Passed, Decided
<1>3. CASE pc'[q] # "idle"
  <2>0. ASSUME pc[q] = "apply", run'[q].log = run[q].log, ~GenerateSave(q),
               \A o \in DOMAIN outputs : outputs[o].log # run[q].log
        PROVE  \A o \in DOMAIN outputs' : outputs'[o].log # run'[q].log
    <3>1. ASSUME NEW r \in Handlers, pc[r] = "apply", GenerateSave(r)
          PROVE  run[r].log # run[q].log
      BY <1>0, <2>0, <3>1 DEF LogOnce, Logged
    <3>2. QED
      BY <2>0, <3>1, LogsOfOutputs
  <2>1. CASE UNCHANGED <<pc[q], run[q], work[q]>>
    <3>1. ConfirmOK(q)' /\ WorkOK(q)'
      BY <1>0, <1>1, <2>1 DEF ConfirmOK, WorkOK, Tool
    <3>2. GenerateSave(q) => pc'[q] # "apply"
      BY Saved
    <3>3. GenerateOK(q)'
      BY <1>0, <2>0, <2>1, <3>2 DEF GenerateOK, Tool
    <3>4. QED
      BY <3>1, <3>3
  <2>2. CASE pc[q] = "idle" /\ pc'[q] = "getCovenant" /\ UNCHANGED work[q]
    BY <1>0, <2>2 DEF ConfirmOK, GenerateOK, WorkOK, Passed, Decided
  <2>3. CASE ~IsSettlement(q) /\ ~IsSettlement(q)' /\ UNCHANGED work[q]
    <3>1. work'[q].sub = "start"
      BY <1>0, <2>3 DEF WorkOK, IsSettlement, Tool, WorkLabels
    <3>2. QED
      BY <2>3, <3>1 DEF ConfirmOK, GenerateOK, WorkOK, IsSettlement, Tool
  <2>4. CASE Settles(q) /\ run'[q].call = run[q].call
    <3>1. /\ pc'[q] \in Passed =>
               \/ pc[q] \in Passed /\ run'[q].state = run[q].state
               \/ /\ pc[q] = "preconditions" /\ pc'[q] = "reserve"
                  /\ run'[q].state = run[q].state
          /\ pc'[q] \in Decided =>
               \/ pc[q] \in Decided /\ run'[q].eff = run[q].eff
               \/ pc[q] = "execute" /\ pc'[q] = "effects"
          /\ pc'[q] = "apply" =>
               \/ pc[q] = "apply" /\ run'[q].log = run[q].log
               \/ run'[q].log = Len(auditLog) + 1 /\ ~GenerateSave(q)
      BY <1>3, <2>4, SettlerGoesOn
    <3>2. ConfirmOK(q)'
      BY <1>0, <1>1, <2>4, <3>1, StepsTaken DEF ConfirmOK, Tool, Decided, Passed
    <3>3. GenerateOK(q)'
      <4> SUFFICES ASSUME Tool(q, "generate_settlement_output")
                   PROVE  GenerateOK(q)'
        BY <2>4 DEF GenerateOK, Tool
      <4>1. pc'[q] \in Passed => run'[q].call.agent = Owner
        BY <1>0, <2>4, <3>1, StepsTaken DEF GenerateOK
      <4>2. ASSUME pc'[q] = "apply"
            PROVE  \A o \in DOMAIN outputs' : outputs'[o].log # run'[q].log
        <5>1. GenerateSave(q) => pc'[q] # "apply"
          BY Saved
        <5>2. CASE pc[q] = "apply" /\ run'[q].log = run[q].log
          BY <1>0, <2>0, <4>2, <5>1, <5>2 DEF GenerateOK
        <5>3. CASE run'[q].log = Len(auditLog) + 1 /\ ~UNCHANGED run[q].log
          <6>1. ASSUME NEW o \in DOMAIN outputs
                PROVE  outputs[o].log # Len(auditLog) + 1
            BY <1>0 DEF Triggered
          <6>2. ASSUME NEW r \in Handlers, UNCHANGED <<run, tables>>
                PROVE  FALSE
            BY <5>3, <6>2
          <6>3. QED
            BY <5>3, <6>1, <6>2, LogsOfOutputs
        <5>4. CASE run'[q].log = Len(auditLog) + 1 /\ UNCHANGED run[q].log
                     /\ pc[q] # "apply"
          <6>1. WriteAuditLog(q)
            <7>1. EngineStep(q) \/ ToolStep(q)
              <8>1. UNCHANGED engineVars => pc'[q] = pc[q]
                BY DEF engineVars
              <8>2. ConfirmOutputFlip(q) => pc[q] = "apply"
                BY DEF ConfirmOutputFlip, At
              <8>3. QED
                BY <2>4, <4>2, <5>4, <8>1, <8>2, SettlesInEngine
            <7>2. QED
              BY <1>0, <4>2, <5>4, <7>1, ToApply DEF Next
          <6>2. outputs' = outputs
            BY <2>4, <4>2, <5>1, <6>1, OutputsWrites DEF WriteAuditLog, At,
               ConfirmOutputMark
          <6>3. QED
            BY <1>0, <5>4, <6>2 DEF Triggered
        <5>5. QED
          BY <3>1, <4>2, <5>2, <5>3, <5>4
      <4>3. QED
        BY <4>1, <4>2 DEF GenerateOK
    <3>4. WorkOK(q)'
      <4>1. Runs(q) \/ Ends(q) \/ Advances(q)
        BY <1>0, <2>4, SettleKinds
      <4>2. CASE Runs(q)
        BY <1>0, <4>2 DEF Runs, WorkOK, settleVars
      <4>3. CASE Ends(q)
        BY <4>3 DEF Ends, WorkOK
      <4>4. CASE Advances(q)
        BY <2>4, <4>4 DEF Advances, Onward, WorkOK, Tool
      <4>5. QED
        BY <4>1, <4>2, <4>3, <4>4
    <3>5. QED
      BY <3>2, <3>3, <3>4
  <2>5. QED
    BY <1>3, <2>1, <2>2, <2>3, <2>4, HandlerMoves
<1>4. QED
  BY <1>2, <1>3

LEMMA SettleInvInit == SettleInit => SettleInv
<1> SUFFICES ASSUME SettleInit
             PROVE  SettleInv
  OBVIOUS
<1>1. DraftInv
  BY DraftInvInit DEF SettleInit
<1>2. /\ outputs = <<>> /\ snapshots = <<>> /\ anchors = <<>>
      /\ work = [r \in Handlers |-> NoWork]
      /\ move = [m \in Movers |-> Resting]
  BY DEF SettleInit
<1>3. /\ Len(snapshots) = 0 /\ DOMAIN outputs = {} /\ DOMAIN anchors = {}
      /\ outputs \in Seq(Output) /\ snapshots \in Seq(SnapshotRow)
      /\ anchors \in Seq(Anchor)
  BY <1>2
<1>4. /\ NoWork \in WorkRecord(0) /\ NoWork.sub = "start"
      /\ Resting.step # "insert"
  BY NoWorkTyped DEF Resting
<1>5. SettleTyped
  BY <1>2, <1>3, <1>4, RestingTyped DEF SettleTyped, WorkRecord, MoveRecord
<1>6. Triggered
  BY <1>3 DEF Triggered, OutputIsTriggered
<1>7. ASSUME NEW r \in Handlers
      PROVE  ConfirmOK(r) /\ GenerateOK(r) /\ WorkOK(r)
  <2>1. pc[r] = "idle"
    BY DEF SettleInit, DraftInit, Init
  <2>2. work[r].sub = "start"
    BY <1>2, <1>4
  <2>3. QED
    BY <2>1, <2>2 DEF ConfirmOK, GenerateOK, WorkOK, Passed, Decided
<1>8. QED
  BY <1>1, <1>5, <1>6, <1>7 DEF SettleInv

LEMMA SettleInvStep == SettleInv /\ [SettleNext]_allVars => SettleInv'
<1> SUFFICES ASSUME SettleInv, [SettleNext]_allVars
             PROVE  SettleInv'
  OBVIOUS
<1>1. DraftInv'
  BY DraftInvSettles DEF SettleInv
<1>2. SettleTyped' /\ Triggered'
  BY SettleTypedStep, TriggeredStep
<1>3. \A r \in Handlers : ConfirmOK(r)' /\ GenerateOK(r)' /\ WorkOK(r)'
  BY SettlersStep
<1>4. QED
  BY <1>1, <1>2, <1>3 DEF SettleInv

LEMMA SettleInvariant == SettleSpec => []SettleInv
BY SettleInvInit, SettleInvStep, PTL DEF SettleSpec

\* The tables of the settlement and the locals of its tools and requests keep
\* their types beside the contribution tools; an anchor names an output.
THEOREM SettleTypes == SettleSpec => []SettleTypeOK
<1>1. SettleInv => SettleTypeOK
  <2> SUFFICES ASSUME SettleInv
               PROVE  SettleTypeOK
    OBVIOUS
  <2>1. DraftTypeOK
    BY DEF SettleInv, DraftInv, DraftTyped, DraftTypeOK, LocalOK, EntryOK
  <2>2. QED
    BY <2>1 DEF SettleInv, SettleTyped, SettleTypeOK
<1>2. QED
  BY <1>1, SettleInvariant, PTL

\* Whatever else is served, every output is triggered by a logged success of
\* the owner's generate_settlement_output, and no row triggers two.
THEOREM OutputsAlwaysTriggered == SettleSpec => []OutputIsTriggered
<1>1. SettleInv => OutputIsTriggered
  BY DEF SettleInv, Triggered
<1>2. QED
  BY <1>1, SettleInvariant, PTL

\* What the contribution tools promise of the ledger is kept while the owner
\* settles the covenant: every entry was logged before it was booked, its award
\* goes to the agent who proposed the draft, and every charge was logged, once.
THEOREM SettlementKeepsBook ==
  SettleSpec => [](/\ BookIsLogged /\ AwardGoesToProposer
                   /\ SettledIsLogged /\ SettledOnce)
<1>1. SettleInv => /\ BookIsLogged /\ AwardGoesToProposer
                   /\ SettledIsLogged /\ SettledOnce
  BY DEF SettleInv, DraftInv, ChargeInv
<1>2. QED
  BY <1>1, SettleInvariant, PTL

\* Two statements write the ledger, beside whatever else goes on.
LEMMA BooksOnly ==
  ASSUME SettleInv, [SettleNext]_allVars
  PROVE  \/ ledger' = ledger
         \/ \E r \in Handlers : ConfirmInsert(r) \/ RejectUpdate(r)
<1>0. TypeOK /\ SettleTyped
  BY DEF SettleInv, DraftInv
<1>1. ASSUME NEW r \in Handlers, Contributes(r)
      PROVE  ledger' = ledger \/ ConfirmInsert(r) \/ RejectUpdate(r)
  BY <1>1, LedgerKeptBy DEF Contributes
<1>2. ASSUME NEW r \in Handlers, Settles(r)
      PROVE  ledger' = ledger
  BY <1>2, SettlesInEngine DEF draftVars
<1>3. ASSUME NEW m \in Movers, MoveGet(m) \/ MoveStep(m)
      PROVE  ledger' = ledger
  BY <1>0, <1>3, MoveTables DEF draftVars
<1>4. ServerDies \/ UNCHANGED allVars => ledger' = ledger
  BY <1>0, ServerStops DEF allVars, vars, draftVars
<1>5. QED
  BY <1>1, <1>2, <1>3, <1>4, SettleCases

LEMMA SettleLogRoom == SettleInv /\ LogRoom /\ [SettleNext]_allVars => LogRoom'
<1> SUFFICES ASSUME SettleInv, LogRoom, [SettleNext]_allVars
             PROVE  LogRoom'
  OBVIOUS
<1>0. /\ DraftInv /\ TypeOK /\ SettleTyped /\ Loggers \in SUBSET Handlers
      /\ calls \in Nat /\ Len(auditLog) \in Nat
  BY LenProperties DEF SettleInv, DraftInv, TypeOK, Loggers
<1>1. [Next]_engineVars => LogRoom'
  BY <1>0, LogRoomStep
<1>2. ASSUME NEW r \in Handlers, EngineStep(r) \/ ToolStep(r) \/ Begin(r)
      PROVE  LogRoom'
  BY <1>1, <1>2 DEF Next
<1>3. ASSUME calls' = calls, auditLog' = auditLog,
             \A q \in Handlers : q \in Loggers' => q \in Loggers
      PROVE  LogRoom'
  <2>1. IsFiniteSet(Loggers) /\ Loggers' \in SUBSET Loggers
    BY <1>0, <1>3, ConstantsAssumption, FS_Subset DEF Loggers
  <2>2. /\ Cardinality(Loggers') <= Cardinality(Loggers)
        /\ Cardinality(Loggers) \in Nat /\ Cardinality(Loggers') \in Nat
    BY <2>1, FS_Subset, FS_CardinalityType
  <2>3. QED
    BY <1>0, <1>3, <2>2 DEF LogRoom
<1>4. ASSUME NEW r \in Handlers, ConfirmOutputFlip(r)
      PROVE  LogRoom'
  <2>1. /\ pc'[r] \in {"apply", "spend"} /\ calls' = calls
        /\ auditLog' = auditLog
        /\ \A q \in Handlers : q # r => pc'[q] = pc[q]
    BY <1>0, <1>4, FlipsState DEF bounds
  <2>2. \A q \in Handlers : q \in Loggers' => q \in Loggers
    BY <2>1 DEF Loggers, MayLog
  <2>3. QED
    BY <1>3, <2>1, <2>2
<1>5. ASSUME NEW r \in Handlers, Contributes(r) \/ Settles(r)
      PROVE  LogRoom'
  BY <1>0, <1>1, <1>2, <1>4, <1>5, ServeIsEngine, SettlesInEngine
     DEF Contributes
<1>6. ASSUME NEW m \in Movers, MoveGet(m) \/ MoveStep(m)
      PROVE  LogRoom'
  <2>1. pc' = pc /\ auditLog' = auditLog
    BY <1>0, <1>6, MoveTables
  <2>2. calls' = calls
    <3>1. CASE MoveGet(m) \/ MoveCapture(m) \/ MoveInsert(m)
      <4>1. UNCHANGED vars
        <5>1. MoveGet(m) => UNCHANGED vars
          BY DEF MoveGet
        <5>2. MoveCapture(m) => UNCHANGED vars
          BY DEF MoveCapture
        <5>3. MoveInsert(m) => UNCHANGED vars
          BY DEF MoveInsert
        <5>4. QED
          BY <3>1, <5>1, <5>2, <5>3
      <4>2. QED
        BY <4>1 DEF vars, engineVars, bounds
    <3>2. CASE MoveFlip(m)
      BY <3>2 DEF MoveFlip, bounds
    <3>3. CASE MoveFails(m)
      BY <3>3 DEF MoveFails, StatementFails
    <3>4. QED
      BY <1>6, <3>1, <3>2, <3>3 DEF MoveStep
  <2>3. QED
    BY <1>3, <2>1, <2>2 DEF Loggers
<1>7. ServerDies => LogRoom'
  <2>1. ServerDies => /\ calls' = calls /\ auditLog' = auditLog
                      /\ \A r \in Handlers : pc'[r] = "idle"
    BY <1>0, ServerStops DEF ServerDies, tables
  <2>2. QED
    BY <1>3, <2>1 DEF Loggers, MayLog
<1>8. UNCHANGED allVars => LogRoom'
  BY <1>1 DEF allVars, vars
<1>9. QED
  BY <1>5, <1>6, <1>7, <1>8, SettleCases

\* The ledger is the book of ContributionLedger beside the settlement too: no
\* lock, output or snapshot, and no crash of one, rewrites or drops an entry.
THEOREM SettlementIsBook == SettleSpec => ImplementsBook
<1>1. SettleInit => Book!Init /\ LogRoom
  BY LogRoomInit DEF SettleInit, DraftInit, Entries, Book!Init
<1>2. SettleInv /\ LogRoom /\ [SettleNext]_allVars => [Book!Next]_Entries
  BY BookStep, BooksOnly DEF SettleInv
<1>3. QED
  BY <1>1, <1>2, SettleLogRoom, SettleInvariant, PTL
     DEF SettleSpec, ImplementsBook, Book!Spec
-----------------------------------------------------------------------------
(***************************************************************************)
(* The states of the covenant, with one transition request at a time: a    *)
(* request that has read ACTIVE finds it ACTIVE, so the state only goes    *)
(* forward, and whoever has read LOCKED never sees ACTIVE again.           *)
(***************************************************************************)
OneMover == \A m, n \in Movers : m = n

MoveOK(m) ==
  /\ move[m].step = "flip" =>
       \/ move[m].from = "ACTIVE" /\ move[m].to = "LOCKED" /\ covState = "ACTIVE"
       \/ move[m].from = "LOCKED" /\ move[m].to = "SETTLED" /\ covState # "ACTIVE"
  /\ move[m].step \in {"capture", "insert"} => covState # "ACTIVE"

ReadOK(r) ==
  pc[r] \notin {"idle", "getCovenant"} /\ run[r].state = "LOCKED" =>
    covState # "ACTIVE"

MarkOK(r) ==
  /\ work[r].sub \in {"transition", "flip", "rollup", "anchor"} =>
       outputs[run[r].eff.ref].status = "confirmed"
  /\ work[r].sub \in {"rollup", "anchor"} => covState = "SETTLED"

PhaseInv ==
  /\ covState \in {"ACTIVE", "LOCKED", "SETTLED"}
  /\ \A m \in Movers : MoveOK(m)
  /\ \A r \in Handlers : ReadOK(r) /\ MarkOK(r)
  /\ AnchoredIsSettled

\* The covenant's state stays, or is locked by m, or is settled.
Locks(m) ==
  /\ covState = "ACTIVE" /\ covState' = "LOCKED"
  /\ move[m].step = "flip" /\ move'[m].step = "capture"

Forward ==
  \/ covState' = covState
  \/ \E m \in Movers : Locks(m)
  \/ covState # "ACTIVE" /\ covState' = "SETTLED"

\* Who sets the state of the covenant.
LEMMA StateWrites ==
  ASSUME SettleInv, [SettleNext]_allVars
  PROVE  \/ covState' = covState
         \/ \E m \in Movers : Flips(m)
         \/ \E r \in Handlers : Settles(r) /\ ConfirmOutputFlip(r)
<1>0. /\ DraftInv /\ TypeOK /\ DraftTyped /\ SettleTyped /\ MoveTypes
  BY DEF SettleInv, DraftInv, SettleTyped, MoveTypes, MoveRecord
<1>1. ASSUME NEW r \in Handlers, EngineStep(r) \/ ToolStep(r) \/ Begin(r)
      PROVE  covState' = covState
  <2>1. CASE EngineStep(r)
    BY <2>1 DEF EngineStep, GetCovenant, GetMember, IdentityFails,
       RateLimitGate, CheckAndReserve, GateFails, ExecuteStatementFails,
       CalculateEffects, WriteAuditLog, AuditLogFails, ApplyStatementFails,
       RecordSpend, RecordSpendFails, SettleReservation, ReleaseReservation,
       LogRejection, tables
  <2>2. CASE ToolStep(r) \/ Begin(r)
    BY <2>2 DEF ToolStep, PreconditionsPass, PreconditionsFail,
       ExecuteSucceeds, ExecuteOverlooks, ExecuteFails, ApplySucceeds,
       ApplyFails, ApplyOverlooks, ApplyRefund, Begin, tables
  <2>3. QED
    BY <1>1, <2>1, <2>2
<1>2. UNCHANGED engineVars => covState' = covState
  BY DEF engineVars, tables
<1>3. ASSUME NEW r \in Handlers, Contributes(r)
      PROVE  covState' = covState
  BY <1>0, <1>1, <1>2, <1>3, ServeIsEngine DEF Contributes
<1>4. ASSUME NEW r \in Handlers, Settles(r)
      PROVE  covState' = covState \/ ConfirmOutputFlip(r)
  BY <1>1, <1>2, <1>4, SettlesInEngine
<1>5. ASSUME NEW m \in Movers, MoveGet(m) \/ MoveStep(m)
      PROVE  covState' = covState \/ Flips(m)
  <2>1. Gets(m) \/ Flips(m) \/ Captures(m) \/ Inserts(m) \/ Fails(m)
    BY <1>0, <1>5, MoveKinds
  <2>2. QED
    BY <2>1 DEF Gets, Captures, Inserts, Fails, vars, engineVars, tables
<1>6. ServerDies \/ UNCHANGED allVars => covState' = covState
  BY DEF ServerDies, allVars, vars, engineVars, tables
<1>7. QED
  BY <1>3, <1>4, <1>5, <1>6, SettleCases

LEMMA GoesForward ==
  ASSUME SettleInv, PhaseInv, [SettleNext]_allVars
  PROVE  Forward
<1>1. ASSUME NEW m \in Movers, Flips(m)
      PROVE  Forward
  <2>1. MoveOK(m) /\ move[m].step = "flip" /\ covState' = move[m].to
    BY <1>1 DEF PhaseInv, Flips
  <2>2. CASE move[m].from = "ACTIVE" /\ move[m].to = "LOCKED"
    BY <1>1, <2>1, <2>2 DEF MoveOK, Flips, Forward, Locks
  <2>3. CASE move[m].from = "LOCKED" /\ move[m].to = "SETTLED"
    BY <2>1, <2>3 DEF MoveOK, Forward
  <2>4. QED
    BY <2>1, <2>2, <2>3 DEF MoveOK
<1>2. ASSUME NEW r \in Handlers, ConfirmOutputFlip(r)
      PROVE  Forward
  <2>1. /\ pc[r] = "apply" /\ Tool(r, "confirm_settlement_output")
        /\ covState' = "SETTLED"
    BY <1>2 DEF ConfirmOutputFlip, AtWork, At
  <2>2. run[r].state = "LOCKED"
    BY <2>1 DEF SettleInv, ConfirmOK, Passed
  <2>3. covState # "ACTIVE"
    BY <2>1, <2>2 DEF PhaseInv, ReadOK
  <2>4. QED
    BY <2>1, <2>3 DEF Forward
<1>3. QED
  BY <1>1, <1>2, StateWrites DEF Forward

\* A step of the engine reads the covenant's state in Step 1, once.
LEMMA ReadsState ==
  ASSUME TypeOK, NEW r \in Handlers, EngineStep(r) \/ ToolStep(r),
         pc'[r] \notin {"idle", "getCovenant"}
  PROVE  \/ run'[r].state = covState
         \/ /\ pc[r] \notin {"idle", "getCovenant"}
            /\ run'[r].state = run[r].state
<1>0. /\ pc \in [Handlers -> Labels] /\ run \in [Handlers -> RunLocals]
      /\ run[r] \in RunLocals
  BY DEF TypeOK
<1>1. pc[r] # "idle"
  BY Flow
<1>2. CASE pc[r] = "getCovenant"
  <2>1. GetCovenant(r)
    BY <1>0, <1>2 DEF EngineStep, ToolStep, IdentityFails, Return, Goto,
       GetMember, RateLimitGate, CheckAndReserve, GateFails,
       ExecuteStatementFails, CalculateEffects, WriteAuditLog, AuditLogFails,
       ApplyStatementFails, RecordSpend, RecordSpendFails, SettleReservation,
       ReleaseReservation, LogRejection, PreconditionsPass, PreconditionsFail,
       ExecuteSucceeds, ExecuteOverlooks, ExecuteFails, ApplySucceeds,
       ApplyFails, ApplyOverlooks, ApplyRefund, At
  <2> DEFINE M == [run[r] EXCEPT !.state = covState]
  <2>2. run' = [run EXCEPT ![r] = M]
    BY <2>1 DEF GetCovenant
  <2>3. M.state = covState
    BY <1>0, StateAssigned DEF RunLocals
  <2> HIDE DEF M
  <2>4. run'[r] = M
    BY <1>0, <2>2
  <2>5. QED
    BY <2>3, <2>4
<1>3. CASE pc[r] # "getCovenant"
  BY <1>1, <1>3, LocalsStep
<1>4. QED
  BY <1>2, <1>3

\* What a step does to a handler inside Run, whatever its tool is.
LEMMA HandlerRuns ==
  ASSUME SettleInv, [SettleNext]_allVars, NEW q \in Handlers,
         pc'[q] \notin {"idle", "getCovenant"}
  PROVE  \/ run'[q].state = covState
         \/ /\ pc[q] \notin {"idle", "getCovenant"}
            /\ run'[q].state = run[q].state
<1>0. /\ DraftInv /\ TypeOK /\ SettleTyped /\ pc \in [Handlers -> Labels]
  BY DEF SettleInv, DraftInv, TypeOK
<1>1. ASSUME NEW r \in Handlers, EngineStep(r) \/ ToolStep(r)
      PROVE  \/ run'[q].state = covState
             \/ /\ pc[q] \notin {"idle", "getCovenant"}
                /\ run'[q].state = run[q].state
  <2>1. CASE q = r
    BY <1>0, <1>1, <2>1, ReadsState
  <2>2. CASE q # r
    BY <1>0, <1>1, <2>2, EngineMoves
  <2>3. QED
    BY <2>1, <2>2
<1>2. UNCHANGED engineVars => UNCHANGED <<pc, run>>
  BY DEF engineVars
<1>3. ASSUME NEW r \in Handlers, Begin(r)
      PROVE  pc'[q] = pc[q] /\ run'[q] = run[q]
  <2>1. pc'[r] = "getCovenant"
    BY <1>0, <1>3 DEF Begin, Goto
  <2>2. QED
    BY <1>0, <1>3, <2>1, EngineMoves
<1>4. ASSUME NEW r \in Handlers, ConfirmOutputFlip(r)
      PROVE  pc[q] \notin {"idle", "getCovenant"} /\ run'[q] = run[q]
  BY <1>0, <1>4, FlipsState
<1>5. ASSUME NEW m \in Movers, MoveGet(m) \/ MoveStep(m)
      PROVE  UNCHANGED <<pc, run>>
  BY <1>0, <1>5, MoveTables
<1>6. ~ServerDies
  BY <1>0, ServerStops
<1>7. UNCHANGED allVars => UNCHANGED <<pc, run>>
  BY DEF allVars, vars, engineVars
<1>8. CASE \E r \in Handlers : Contributes(r)
  BY <1>0, <1>1, <1>2, <1>3, <1>8, ServeIsEngine DEF Contributes
<1>9. CASE \E r \in Handlers : Settles(r)
  BY <1>1, <1>2, <1>4, <1>9, SettlesInEngine
<1>10. QED
  BY <1>5, <1>6, <1>7, <1>8, <1>9, SettleCases

LEMMA RequestMoves ==
  ASSUME SettleInv, [SettleNext]_allVars, NEW n \in Movers
  PROVE  \/ move'[n] = move[n]
         \/ move'[n] = Resting /\ (Fails(n) \/ ServerDies)
         \/ Gets(n) \/ Flips(n) \/ Captures(n) \/ Inserts(n)
<1>0. /\ DraftInv /\ TypeOK /\ DraftTyped /\ SettleTyped /\ MoveTypes
  BY DEF SettleInv, DraftInv, SettleTyped, MoveTypes, MoveRecord
<1>1. ASSUME NEW r \in Handlers, Contributes(r) \/ Settles(r)
      PROVE  move' = move
  BY <1>1, SettlesInEngine DEF Contributes, settleVars
<1>2. ASSUME NEW m \in Movers, MoveGet(m) \/ MoveStep(m)
      PROVE  \/ move'[n] = move[n]
             \/ move'[n] = Resting /\ Fails(n)
             \/ Gets(n) \/ Flips(n) \/ Captures(n) \/ Inserts(n)
  <2>1. /\ \A k \in Movers : k # m => move'[k] = move[k]
        /\ Gets(m) \/ Flips(m) \/ Captures(m) \/ Inserts(m) \/ Fails(m)
    BY <1>0, <1>2, MoveKinds
  <2>2. Fails(m) => move'[m] = Resting
    BY DEF Fails
  <2>3. QED
    BY <2>1, <2>2
<1>3. ServerDies => move'[n] = Resting
  BY <1>0, ServerStops
<1>4. UNCHANGED allVars => move' = move
  BY DEF allVars, settleVars
<1>5. QED
  BY <1>1, <1>2, <1>3, <1>4, SettleCases

LEMMA PhaseMoves ==
  ASSUME OneMover, SettleInv, PhaseInv, [SettleNext]_allVars, NEW n \in Movers
  PROVE  MoveOK(n)'
<1>0. MoveOK(n) /\ covState \in {"ACTIVE", "LOCKED", "SETTLED"} /\ Forward
  BY GoesForward DEF PhaseInv
<1>1. CASE move'[n] = move[n]
  <2>1. ~Locks(n)
    BY <1>1 DEF Locks
  <2>2. \A m \in Movers : ~Locks(m)
    BY <2>1 DEF OneMover
  <2>3. QED
    BY <1>0, <1>1, <2>2 DEF Forward, MoveOK
<1>2. CASE move'[n] = Resting
  BY <1>2 DEF MoveOK, Resting
<1>3. CASE Gets(n)
  <2>1. /\ move'[n].from = covState /\ Allowed(covState, move'[n].to)
        /\ move'[n].step = "flip" /\ covState' = covState
    BY <1>3 DEF Gets, vars, engineVars, tables
  <2>2. \/ covState = "ACTIVE" /\ move'[n].to = "LOCKED"
        \/ covState = "LOCKED" /\ move'[n].to = "SETTLED"
    BY <1>0, <2>1 DEF Allowed, transitions
  <2>3. QED
    BY <2>1, <2>2 DEF MoveOK
<1>4. CASE Flips(n)
  <2>1. covState' = move[n].to /\ move[n].step = "flip"
    BY <1>4 DEF Flips
  <2>2. CASE move[n].from = "ACTIVE" /\ move[n].to = "LOCKED"
    BY <1>4, <2>1, <2>2 DEF Flips, MoveOK
  <2>3. CASE ~(move[n].from = "ACTIVE" /\ move[n].to = "LOCKED")
    BY <1>4, <2>3 DEF Flips, MoveOK, Resting
  <2>4. QED
    BY <2>2, <2>3
<1>5. CASE Captures(n)
  <2>1. covState' = covState /\ covState # "ACTIVE"
    BY <1>0, <1>5 DEF Captures, MoveOK, vars, engineVars, tables
  <2>2. move'[n].step # "flip"
    BY <1>5 DEF Captures, Resting
  <2>3. QED
    BY <2>1, <2>2 DEF MoveOK
<1>6. CASE Inserts(n)
  <2>1. covState' = covState /\ covState # "ACTIVE"
    BY <1>0, <1>6 DEF Inserts, MoveOK, vars, engineVars, tables
  <2>2. move'[n].step # "flip"
    BY <1>6 DEF Inserts
  <2>3. QED
    BY <2>1, <2>2 DEF MoveOK
<1>7. QED
  BY <1>1, <1>2, <1>3, <1>4, <1>5, <1>6, RequestMoves

LEMMA PhaseReads ==
  ASSUME SettleInv, PhaseInv, [SettleNext]_allVars, NEW q \in Handlers
  PROVE  ReadOK(q)' /\ MarkOK(q)'
<1>0. /\ ReadOK(q) /\ MarkOK(q) /\ Forward /\ DraftInv /\ SettleTyped
      /\ ConfirmOK(q) /\ WorkOK(q) /\ WorkOK(q)'
      /\ covState \in {"ACTIVE", "LOCKED", "SETTLED"}
  BY GoesForward, SettlersStep DEF PhaseInv, SettleInv
<1>1. covState # "ACTIVE" => covState' # "ACTIVE"
  BY <1>0 DEF Forward, Locks
<1>2. covState = "SETTLED" => covState' = "SETTLED"
  BY <1>0 DEF Forward, Locks
<1>3. ReadOK(q)'
  BY <1>0, <1>1, HandlerRuns DEF ReadOK
<1>4. MarkOK(q)'
  <2> SUFFICES ASSUME work'[q].sub \in {"transition", "flip", "rollup", "anchor"}
               PROVE  MarkOK(q)'
    BY DEF MarkOK
  <2>1. pc'[q] = "apply" /\ Tool(q, "confirm_settlement_output")'
    BY <1>0 DEF WorkOK
  <2>2. ASSUME work[q].sub \in {"transition", "flip", "rollup", "anchor"},
               run'[q] = run[q]
        PROVE  outputs'[run'[q].eff.ref].status = "confirmed"
    <3>1. run[q].eff.ref \in DOMAIN outputs
      BY <1>0, <2>2 DEF ConfirmOK, WorkOK, Passed, Decided
    <3>2. QED
      BY <1>0, <2>2, <3>1, OutputsGrow DEF MarkOK
  <2>3. CASE UNCHANGED <<pc[q], run[q], work[q]>>
    BY <1>0, <1>2, <2>2, <2>3 DEF MarkOK
  <2>4. CASE Settles(q)
    <3>1. Runs(q) \/ Ends(q) \/ Advances(q)
      BY <1>0, <2>4, SettleKinds
    <3>2. ~Runs(q)
      BY <1>0 DEF Runs, WorkOK, settleVars
    <3>3. ~Ends(q)
      BY DEF Ends
    <3>4. Advances(q) /\ UNCHANGED run
      BY <3>1, <3>2, <3>3 DEF Advances
    <3>5. CASE Onward(q, "start", "transition") /\ ConfirmOutputMark(q)
      <4>1. outputs'[run[q].eff.ref].status = "confirmed"
        BY <3>5, MarkedOne
      <4>2. QED
        BY <3>4, <3>5, <4>1 DEF MarkOK, Onward
    <3>6. CASE Onward(q, "transition", "flip")
      BY <2>2, <3>4, <3>6 DEF MarkOK, Onward
    <3>7. CASE Onward(q, "flip", "rollup") /\ ConfirmOutputFlip(q)
      <4>1. covState' = "SETTLED"
        BY <3>7 DEF ConfirmOutputFlip
      <4>2. QED
        BY <2>2, <3>4, <3>7, <4>1 DEF MarkOK, Onward
    <3>8. CASE Onward(q, "rollup", "anchor")
      BY <1>0, <1>2, <2>2, <3>4, <3>8 DEF MarkOK, Onward
    <3>9. QED
      BY <3>4, <3>5, <3>6, <3>7, <3>8 DEF Advances, Onward
  <2>5. ~(pc[q] = "idle" /\ pc'[q] = "getCovenant")
    BY <2>1
  <2>6. ~(~IsSettlement(q) /\ ~IsSettlement(q)')
    BY <2>1 DEF IsSettlement, Tool
  <2>7. QED
    BY <2>1, <2>3, <2>4, <2>5, <2>6, HandlerMoves
<1>5. QED
  BY <1>3, <1>4

LEMMA PhaseAnchors ==
  ASSUME SettleInv, PhaseInv, [SettleNext]_allVars
  PROVE  AnchoredIsSettled'
<1>0. /\ AnchoredIsSettled /\ Forward /\ SettleTyped
      /\ \A r \in Handlers : MarkOK(r)
      /\ covState \in {"ACTIVE", "LOCKED", "SETTLED"}
      /\ anchors \in Seq(Anchor)
  BY GoesForward DEF PhaseInv, SettleInv, SettleTyped
<1>1. covState = "SETTLED" => covState' = "SETTLED"
  BY <1>0 DEF Forward, Locks
<1>2. \A i \in DOMAIN anchors :
        outputs'[anchors[i].output].status = "confirmed"
  BY <1>0, OutputsGrow DEF AnchoredIsSettled, SettleTyped
<1>3. CASE anchors' = anchors
  BY <1>0, <1>1, <1>2, <1>3 DEF AnchoredIsSettled
<1>4. ASSUME NEW r \in Handlers, ConfirmOutputAnchor(r)
      PROVE  AnchoredIsSettled'
  <2>1. /\ work[r].sub = "anchor" /\ UNCHANGED <<tables, outputs>>
        /\ DOMAIN anchors = 1..Len(anchors) /\ Len(anchors) \in Nat
        /\ DOMAIN anchors' = 1..(Len(anchors) + 1)
        /\ \A i \in DOMAIN anchors : anchors'[i] = anchors[i]
        /\ anchors'[Len(anchors) + 1].output = run[r].eff.ref
    BY <1>4, Anchored
  <2>2. covState' = "SETTLED"
    BY <1>0, <1>1, <2>1 DEF MarkOK
  <2>3. outputs'[run[r].eff.ref].status = "confirmed"
    BY <1>0, <2>1 DEF MarkOK
  <2>4. \A i \in DOMAIN anchors' : i \in DOMAIN anchors \/ i = Len(anchors) + 1
    BY <2>1
  <2>5. QED
    BY <1>2, <2>1, <2>2, <2>3, <2>4 DEF AnchoredIsSettled
<1>5. QED
  BY <1>3, <1>4, TablesMove

LEMMA PhaseInit == SettleInit => PhaseInv
<1> SUFFICES ASSUME SettleInit
             PROVE  PhaseInv
  OBVIOUS
<1>1. covState = "ACTIVE" /\ anchors = <<>> /\ DOMAIN anchors = {}
  BY DEF SettleInit, DraftInit
<1>2. \A r \in Handlers : pc[r] = "idle" /\ work[r] = NoWork
  BY DEF SettleInit, DraftInit, Init
<1>3. \A m \in Movers : move[m] = Resting
  BY DEF SettleInit
<1>4. QED
  BY <1>1, <1>2, <1>3 DEF PhaseInv, MoveOK, ReadOK, MarkOK, AnchoredIsSettled,
     NoWork, Resting

LEMMA PhaseStep ==
  ASSUME OneMover
  PROVE  SettleInv /\ PhaseInv /\ [SettleNext]_allVars => PhaseInv'
<1> SUFFICES ASSUME SettleInv, PhaseInv, [SettleNext]_allVars
             PROVE  PhaseInv'
  OBVIOUS
<1>1. covState' \in {"ACTIVE", "LOCKED", "SETTLED"}
  BY GoesForward DEF Forward, Locks, PhaseInv
<1>2. QED
  BY <1>1, PhaseMoves, PhaseReads, PhaseAnchors DEF PhaseInv

LEMMA PhaseInvariant ==
  ASSUME OneMover
  PROVE  SettleSpec => [](SettleInv /\ PhaseInv)
BY SettleInvInit, SettleInvStep, PhaseInit, PhaseStep, PTL DEF SettleSpec

\* With one transition request at a time, whatever is confirmed together with
\* it, anchors exist only for confirmed outputs of a covenant that is SETTLED
\* and stays so.
THEOREM AnchoredAlwaysSettled == OneMover /\ SettleSpec => []AnchoredIsSettled
<1> SUFFICES ASSUME OneMover
             PROVE  SettleSpec => []AnchoredIsSettled
  OBVIOUS
<1>1. PhaseInv => AnchoredIsSettled
  BY DEF PhaseInv
<1>2. QED
  BY <1>1, PhaseInvariant, PTL
-----------------------------------------------------------------------------
(***************************************************************************)
(* The snapshot, with one transition request at a time: only the request   *)
(* that locks the covenant captures it, before there is any row, and what  *)
(* it still has to insert is of agents who have none yet.                  *)
(***************************************************************************)
Listed(m) ==
  /\ \A x, y \in move[m].todo : x.agent = y.agent => x = y
  /\ \A x \in move[m].todo, i \in DOMAIN snapshots : snapshots[i].agent # x.agent

SnapshotInv ==
  /\ covState = "ACTIVE" => snapshots = <<>>
  /\ \A m \in Movers : move[m].step = "capture" => snapshots = <<>>
  /\ \A m \in Movers : Listed(m)
  /\ SnapshotOnce

LEMMA RowsOnce ==
  \A x, y \in SnapshotRows : x.agent = y.agent => x = y
BY DEF SnapshotRows

\* What one INSERT of CaptureSnapshot leaves.
LEMMA RowInserted ==
  ASSUME SettleInv, NEW m \in Movers, Inserts(m)
  PROVE  \E row \in move[m].todo :
           /\ move'[m].todo = move[m].todo \ {row}
           /\ snapshots \in Seq(SnapshotRow) /\ row \in SnapshotRow
           /\ snapshots' = Append(snapshots, row)
           /\ Len(snapshots) \in Nat /\ DOMAIN snapshots = 1..Len(snapshots)
           /\ DOMAIN snapshots' = 1..(Len(snapshots) + 1)
           /\ \A i \in DOMAIN snapshots : snapshots'[i] = snapshots[i]
           /\ snapshots'[Len(snapshots) + 1] = row
<1>1. PICK row \in move[m].todo :
        /\ snapshots' = Append(snapshots, row)
        /\ move'[m].todo = move[m].todo \ {row}
  BY DEF Inserts
<1>2. snapshots \in Seq(SnapshotRow) /\ row \in SnapshotRow
  BY <1>1 DEF SettleInv, SettleTyped
<1>3. QED
  BY <1>1, <1>2, Inserted

LEMMA InsertGrows ==
  ASSUME SettleInv, NEW m \in Movers, Inserts(m)
  PROVE  snapshots' # snapshots
<1>1. PICK row \in move[m].todo :
        /\ Len(snapshots) \in Nat /\ DOMAIN snapshots = 1..Len(snapshots)
        /\ DOMAIN snapshots' = 1..(Len(snapshots) + 1)
  BY RowInserted
<1>2. Len(snapshots) + 1 \in DOMAIN snapshots' \ DOMAIN snapshots
  BY <1>1
<1>3. QED
  BY <1>2

LEMMA SnapshotKept ==
  ASSUME OneMover, SettleInv, PhaseInv, SnapshotInv, [SettleNext]_allVars,
         snapshots' = snapshots
  PROVE  SnapshotInv'
<1>0. /\ Forward /\ covState \in {"ACTIVE", "LOCKED", "SETTLED"}
      /\ \A m \in Movers : MoveOK(m) /\ Listed(m)
  BY GoesForward DEF PhaseInv, SnapshotInv
<1>1. covState' = "ACTIVE" => snapshots' = <<>>
  BY <1>0 DEF Forward, Locks, SnapshotInv
<1>2. SnapshotOnce'
  BY DEF SnapshotInv, SnapshotOnce
<1>3. ASSUME NEW n \in Movers
      PROVE  (move'[n].step = "capture" => snapshots' = <<>>) /\ Listed(n)'
  <2>1. CASE move'[n] = move[n]
    BY <1>0, <2>1 DEF SnapshotInv, Listed
  <2>2. CASE move'[n] = Resting
    BY <2>2 DEF Resting, Listed
  <2>3. CASE Gets(n)
    BY <2>3 DEF Gets, Listed
  <2>4. CASE Flips(n)
    <3>1. CASE move[n].from = "ACTIVE" /\ move[n].to = "LOCKED"
      <4>1. move'[n].todo = {} /\ covState = "ACTIVE"
        BY <1>0, <2>4, <3>1 DEF Flips, MoveOK
      <4>2. QED
        BY <4>1 DEF Listed, SnapshotInv
    <3>2. CASE ~(move[n].from = "ACTIVE" /\ move[n].to = "LOCKED")
      BY <2>2, <2>4, <3>2 DEF Flips
    <3>3. QED
      BY <3>1, <3>2
  <2>5. CASE Captures(n)
    <3>1. CASE SnapshotRows = {}
      BY <2>2, <2>5, <3>1 DEF Captures
    <3>2. CASE SnapshotRows # {}
      <4>1. /\ move'[n].step = "insert" /\ move'[n].todo = SnapshotRows
            /\ move[n].step = "capture"
        BY <2>5, <3>2 DEF Captures
      <4>2. snapshots' = <<>>
        BY <4>1 DEF SnapshotInv
      <4>3. QED
        BY <4>1, <4>2, RowsOnce DEF Listed
    <3>3. QED
      BY <3>1, <3>2
  <2>6. ~Inserts(n)
    BY InsertGrows
  <2>7. QED
    BY <2>1, <2>2, <2>3, <2>4, <2>5, <2>6, RequestMoves
<1>4. QED
  BY <1>1, <1>2, <1>3 DEF SnapshotInv

LEMMA SnapshotGrows ==
  ASSUME OneMover, SettleInv, PhaseInv, SnapshotInv, NEW m \in Movers,
         Inserts(m)
  PROVE  SnapshotInv'
<1>0. /\ MoveOK(m) /\ Listed(m) /\ SnapshotOnce /\ move[m].step = "insert"
      /\ covState' = covState /\ move'[m].step # "capture"
  BY DEF PhaseInv, SnapshotInv, Inserts, vars, engineVars, tables
<1>1. PICK row \in move[m].todo :
        /\ move'[m].todo = move[m].todo \ {row}
        /\ Len(snapshots) \in Nat /\ DOMAIN snapshots = 1..Len(snapshots)
        /\ DOMAIN snapshots' = 1..(Len(snapshots) + 1)
        /\ \A i \in DOMAIN snapshots : snapshots'[i] = snapshots[i]
        /\ snapshots'[Len(snapshots) + 1] = row
  BY RowInserted
<1>2. \A i \in DOMAIN snapshots' :
        \/ i \in DOMAIN snapshots /\ snapshots'[i] = snapshots[i]
        \/ i = Len(snapshots) + 1 /\ snapshots'[i] = row
  BY <1>1
<1>3. covState' # "ACTIVE"
  BY <1>0 DEF MoveOK
<1>4. Listed(m)'
  BY <1>0, <1>1, <1>2 DEF Listed
<1>5. SnapshotOnce'
  BY <1>0, <1>1, <1>2 DEF Listed, SnapshotOnce
<1>6. \A n \in Movers : n = m
  BY DEF OneMover
<1>7. QED
  BY <1>0, <1>3, <1>4, <1>5, <1>6 DEF SnapshotInv

LEMMA SnapshotStep ==
  ASSUME OneMover
  PROVE  SettleInv /\ PhaseInv /\ SnapshotInv /\ [SettleNext]_allVars
           => SnapshotInv'
BY SnapshotKept, SnapshotGrows, TablesMove

LEMMA SnapshotInit == SettleInit => SnapshotInv
<1> SUFFICES ASSUME SettleInit
             PROVE  SnapshotInv
  OBVIOUS
<1>1. /\ snapshots = <<>> /\ DOMAIN snapshots = {}
      /\ \A m \in Movers : move[m] = Resting
  BY DEF SettleInit
<1>2. QED
  BY <1>1 DEF SnapshotInv, Listed, SnapshotOnce, Resting

LEMMA SnapshotInvariant ==
  ASSUME OneMover
  PROVE  SettleSpec => [](SettleInv /\ PhaseInv /\ SnapshotInv)
BY SettleInvInit, SettleInvStep, PhaseInit, PhaseStep, SnapshotInit,
   SnapshotStep, PTL DEF SettleSpec

\* With one transition request at a time, the snapshot counts no agent twice,
\* wherever a crash or a failing statement cuts its inserts.
THEOREM SnapshotAlwaysOnce == OneMover /\ SettleSpec => []SnapshotOnce
<1> SUFFICES ASSUME OneMover
             PROVE  SettleSpec => []SnapshotOnce
  OBVIOUS
<1>1. SnapshotInv => SnapshotOnce
  BY DEF SnapshotInv
<1>2. QED
  BY <1>1, SnapshotInvariant, PTL
-----------------------------------------------------------------------------
(***************************************************************************)
(* Confirmations, with one transition request at a time.  Until the        *)
(* covenant is SETTLED, each confirmed output has its handler still before *)
(* the flip, or was cut off from it; from then on only handlers that read  *)
(* LOCKED before can confirm one more each.                                *)
(***************************************************************************)
Marked == {r \in Handlers : work[r].sub \in {"transition", "flip"}}

MayMark ==
  {r \in Handlers : /\ Tool(r, "confirm_settlement_output")
                    /\ run[r].state = "LOCKED" /\ work[r].sub = "start"
                    /\ pc[r] \in {"getMember", "rateLimit", "preconditions"}
                                   \cup Passed}

ConfirmInv ==
  IF covState = "SETTLED"
  THEN Cardinality(ConfirmedOutputs) + Cardinality(MayMark)
         <= Cardinality(Handlers) + Disturbances
  ELSE Cardinality(ConfirmedOutputs) <= Cardinality(Marked) + Disturbances

LEMMA DisturbancesGrow ==
  ASSUME SettleInv, [SettleNext]_allVars
  PROVE  /\ Cardinality(Handlers) \in Nat
         /\ crashes \in Nat /\ faults \in Nat
         /\ crashes <= crashes' /\ faults <= faults'
         /\ Disturbances \in Nat /\ Disturbances' \in Nat
         /\ Disturbances <= Disturbances'
         /\ StatementFails => Disturbances + 1 <= Disturbances'
         /\ ServerDies => Disturbances + Cardinality(Handlers) <= Disturbances'
<1> DEFINE H == Cardinality(Handlers)
<1>0. /\ DraftInv /\ TypeOK /\ TypeOK' /\ SettleTyped
  BY DraftInvSettles DEF SettleInv, DraftInv
<1>1. /\ crashes \in Nat /\ faults \in Nat /\ crashes' \in Nat /\ faults' \in Nat
      /\ H \in Nat
  BY <1>0, ConstantsAssumption, FS_CardinalityType DEF TypeOK
<1>2. ASSUME NEW r \in Handlers, Begin(r) \/ EngineStep(r) \/ ToolStep(r)
      PROVE  crashes <= crashes' /\ faults <= faults'
  <2>1. [Next]_engineVars
    BY <1>2 DEF Next
  <2>2. /\ crashes' = crashes \/ Crash
        /\ faults' = faults \/ faults' = faults + 1
    BY <1>0, <2>1, CountersStep
  <2>3. Crash => crashes' = crashes + 1
    BY DEF Crash
  <2>4. QED
    BY <1>1, <2>2, <2>3
<1>3. UNCHANGED engineVars \/ UNCHANGED bounds =>
        crashes <= crashes' /\ faults <= faults'
  BY <1>1 DEF engineVars, bounds
<1>4. ASSUME NEW r \in Handlers, Contributes(r) \/ Settles(r)
      PROVE  crashes <= crashes' /\ faults <= faults'
  <2>1. CASE Contributes(r)
    BY <1>0, <1>2, <1>3, <2>1, ServeIsEngine DEF Contributes
  <2>2. CASE Settles(r)
    <3>1. ConfirmOutputFlip(r) => UNCHANGED bounds
      BY DEF ConfirmOutputFlip
    <3>2. QED
      BY <1>2, <1>3, <2>2, <3>1, SettlesInEngine
  <2>3. QED
    BY <1>4, <2>1, <2>2
<1>5. ASSUME NEW m \in Movers, MoveGet(m) \/ MoveStep(m)
      PROVE  crashes <= crashes' /\ faults <= faults'
  BY <1>0, <1>1, <1>5, MoveTables DEF MoveFails, StatementFails
<1>6. ServerDies => crashes' = crashes + 1 /\ faults' = faults
  BY <1>0, ServerStops
<1>7. UNCHANGED allVars => UNCHANGED engineVars
  BY DEF allVars, vars
<1>8. crashes <= crashes' /\ faults <= faults'
  BY <1>1, <1>3, <1>4, <1>5, <1>6, <1>7, SettleCases
<1>9. StatementFails => faults' = faults + 1
  BY DEF StatementFails
<1> HIDE DEF H
<1>10. /\ H * crashes \in Nat /\ H * crashes' \in Nat
       /\ H * (crashes + 1) = H * crashes + H
  BY <1>1, Products
<1>11. H * crashes <= H * crashes'
  <2>1. crashes * H <= crashes' * H
    BY <1>1, <1>8, ProductsGrow
  <2>2. \A m, n \in Nat : m * n = n * m
    OBVIOUS
  <2>3. crashes * H = H * crashes /\ crashes' * H = H * crashes'
    BY <1>1, <2>2
  <2>4. QED
    BY <2>1, <2>3
<1>12. Disturbances = H * crashes + faults /\ Disturbances' = H * crashes' + faults'
  BY DEF Disturbances, H
<1>13. ServerDies => H * crashes' = H * crashes + H
  BY <1>6, <1>10
<1>14. ServerDies => Disturbances + H <= Disturbances'
  BY <1>1, <1>6, <1>10, <1>12, <1>13
<1>15. QED
  BY <1>1, <1>8, <1>9, <1>10, <1>11, <1>12, <1>14 DEF H

LEMMA ConfirmedFew ==
  ASSUME NEW s \in Seq(Output)
  PROVE  LET S == {o \in DOMAIN s : s[o].status = "confirmed"}
         IN IsFiniteSet(S) /\ Cardinality(S) \in Nat
<1> DEFINE S == {o \in DOMAIN s : s[o].status = "confirmed"}
<1>1. DOMAIN s = 1..Len(s) /\ Len(s) \in Int /\ 1 \in Int
  BY LenProperties
<1>2. IsFiniteSet(DOMAIN s)
  BY <1>1, FS_Interval
<1>3. S \in SUBSET DOMAIN s
  OBVIOUS
<1>4. IsFiniteSet(S)
  BY <1>2, <1>3, FS_Subset
<1>5. QED
  BY <1>4, FS_CardinalityType

LEMMA ConfirmedCount ==
  ASSUME SettleTyped
  PROVE  IsFiniteSet(ConfirmedOutputs) /\ Cardinality(ConfirmedOutputs) \in Nat
BY ConfirmedFew DEF SettleTyped, ConfirmedOutputs

\* One output is confirmed by a step, at most.
LEMMA OutputsConfirmed ==
  ASSUME SettleInv, [SettleNext]_allVars
  PROVE  \/ Cardinality(ConfirmedOutputs') = Cardinality(ConfirmedOutputs)
         \/ /\ \E r \in Handlers : ConfirmOutputMark(r)
            /\ Cardinality(ConfirmedOutputs') <= Cardinality(ConfirmedOutputs) + 1
<1>1. ASSUME NEW r \in Handlers, GenerateSave(r)
      PROVE  ConfirmedOutputs' = ConfirmedOutputs
  <2>1. /\ Len(outputs) \in Nat /\ DOMAIN outputs = 1..Len(outputs)
        /\ DOMAIN outputs' = 1..(Len(outputs) + 1)
        /\ \A o \in DOMAIN outputs : outputs'[o] = outputs[o]
        /\ outputs'[Len(outputs) + 1].status = "pending_confirmation"
    BY <1>1, Saved
  <2>2. \A o \in DOMAIN outputs' : o \in DOMAIN outputs \/ o = Len(outputs) + 1
    BY <2>1
  <2>3. DOMAIN outputs \subseteq DOMAIN outputs'
    BY <2>1
  <2>4. QED
    BY <2>1, <2>2, <2>3 DEF ConfirmedOutputs
<1>2. ASSUME NEW r \in Handlers, ConfirmOutputMark(r)
      PROVE  Cardinality(ConfirmedOutputs') <= Cardinality(ConfirmedOutputs) + 1
  <2> DEFINE e == run[r].eff.ref
             S == ConfirmedOutputs
  <2>1. /\ e \in DOMAIN outputs /\ DOMAIN outputs' = DOMAIN outputs
        /\ \A o \in DOMAIN outputs :
             outputs'[o].status = IF o = e THEN "confirmed" ELSE outputs[o].status
    BY <1>2, MarkedOne
  <2>2. ConfirmedOutputs' = S \cup {e}
    BY <2>1 DEF ConfirmedOutputs
  <2>3. IsFiniteSet(S) /\ Cardinality(S) \in Nat
    BY ConfirmedCount DEF SettleInv
  <2> HIDE DEF S, e
  <2>4. Cardinality(S \cup {e}) = IF e \in S THEN Cardinality(S)
                                              ELSE Cardinality(S) + 1
    BY <2>3, FS_AddElement
  <2>5. QED
    BY <2>2, <2>3, <2>4 DEF S
<1>3. outputs' = outputs => ConfirmedOutputs' = ConfirmedOutputs
  BY DEF ConfirmedOutputs
<1>4. QED
  BY <1>1, <1>2, <1>3, TablesMove

\* Step 6 of a confirmation leaves its transition by the flip, or it fails.
LEMMA LeavesMark ==
  ASSUME SettleInv, PhaseInv, NEW r \in Handlers, Settles(r),
         r \in Marked, r \notin Marked', covState # "SETTLED"
  PROVE  StatementFails \/ covState' = "SETTLED"
<1>0. /\ work[r].sub \in {"transition", "flip"} /\ WorkOK(r) /\ ReadOK(r)
      /\ work \in [Handlers -> WorkRecord(Len(snapshots))]
      /\ covState \in {"ACTIVE", "LOCKED", "SETTLED"} /\ ConfirmOK(r)
  BY DEF Marked, SettleInv, SettleTyped, WorkRecord, PhaseInv
<1>1. pc[r] = "apply" /\ Tool(r, "confirm_settlement_output")
  BY <1>0 DEF WorkOK
<1>2. covState = "LOCKED"
  BY <1>0, <1>1 DEF ConfirmOK, Passed, ReadOK
<1>3. Allowed(covState, "SETTLED")
  BY <1>2 DEF Allowed, transitions
<1>4. CASE SettleEngineOnly(r)
  BY <1>1, <1>4 DEF SettleEngineOnly, At, GetCovenant, GetMember,
     IdentityFails, RateLimitGate, CheckAndReserve, GateFails,
     CalculateEffects, WriteAuditLog, AuditLogFails, RecordSpend,
     RecordSpendFails, SettleReservation, ReleaseReservation, LogRejection,
     ApplyStatementFails
<1>5. ~GenerateStep(r)
  BY <1>1 DEF GenerateStep, GenerateCheck, GenerateExecute, GenerateGet,
     GenerateTotal, GenerateSave, AtWork, Tool
<1>6. CASE ConfirmOutputStep(r)
  <2>1. ConfirmOutputGet(r) \/ ConfirmOutputFlip(r)
    BY <1>0, <1>1, <1>6 DEF ConfirmOutputStep, ConfirmOutputCheck,
       ConfirmOutputExecute, ConfirmOutputMark, ConfirmOutputRollup,
       ConfirmOutputAnchor, ConfirmOutputUnanchored, AtWork, Check,
       PreconditionsPass, PreconditionsFail, ExecuteSucceeds, At
  <2>2. CASE ConfirmOutputGet(r)
    <3>1. work' = [work EXCEPT ![r].sub = "flip"]
      BY <1>3, <2>2 DEF ConfirmOutputGet, GotoWork
    <3>2. work'[r].sub = "flip"
      BY <1>0, <3>1 DEF WorkRecord
    <3>3. QED
      BY <3>2 DEF Marked
  <2>3. QED
    BY <2>1, <2>2 DEF ConfirmOutputFlip
<1>7. QED
  BY <1>4, <1>5, <1>6 DEF Settles

LEMMA MarkedMoves ==
  ASSUME SettleInv, PhaseInv, [SettleNext]_allVars, covState' # "SETTLED"
  PROVE  /\ Cardinality(Marked) \in Nat /\ Cardinality(Marked') \in Nat
         /\ Cardinality(Marked) + Disturbances
              <= Cardinality(Marked') + Disturbances'
         /\ (\E r \in Handlers : ConfirmOutputMark(r)) =>
              Cardinality(Marked) + Disturbances + 1
                <= Cardinality(Marked') + Disturbances'
<1>0. /\ DraftInv /\ TypeOK /\ SettleTyped /\ covState # "SETTLED"
      /\ work \in [Handlers -> WorkRecord(Len(snapshots))]
      /\ Marked \in SUBSET Handlers /\ Marked' \in SUBSET Handlers
      /\ \A r \in Handlers : WorkOK(r)
  BY GoesForward DEF SettleInv, DraftInv, SettleTyped, WorkRecord, Marked,
     Forward, Locks
<1>1. /\ IsFiniteSet(Marked) /\ IsFiniteSet(Marked')
      /\ Cardinality(Marked) \in Nat /\ Cardinality(Marked') \in Nat
      /\ Cardinality(Marked) <= Cardinality(Handlers)
  BY <1>0, ConstantsAssumption, FS_Subset, FS_CardinalityType
<1>2. /\ Cardinality(Handlers) \in Nat
      /\ Disturbances \in Nat /\ Disturbances' \in Nat
      /\ Disturbances <= Disturbances'
      /\ StatementFails => Disturbances + 1 <= Disturbances'
      /\ ServerDies => Disturbances + Cardinality(Handlers) <= Disturbances'
  BY DisturbancesGrow
<1>3. ASSUME NEW r \in Handlers, ConfirmOutputMark(r)
      PROVE  Cardinality(Marked) + 1 <= Cardinality(Marked')
  <2>1. work[r].sub = "start" /\ work' = [work EXCEPT ![r].sub = "transition"]
    BY <1>3 DEF ConfirmOutputMark, AtWork, GotoWork
  <2>2. /\ work'[r].sub = "transition"
        /\ \A q \in Handlers : q # r => work'[q] = work[q]
    BY <1>0, <2>1 DEF WorkRecord
  <2>3. r \in Marked' /\ r \notin Marked /\ \A q \in Marked : q \in Marked'
    BY <2>1, <2>2 DEF Marked
  <2>4. Cardinality(Marked) <= Cardinality(Marked') - 1
    BY <1>0, <2>3, HandlersCounted
  <2>5. QED
    BY <1>1, <2>4
<1>4. ASSUME work' = work
      PROVE  /\ Marked' = Marked
             /\ ~ \E r \in Handlers : ConfirmOutputMark(r)
  <2>1. ~ \E r \in Handlers : ConfirmOutputMark(r)
    BY <1>1, <1>3, <1>4 DEF Marked
  <2>2. QED
    BY <1>4, <2>1 DEF Marked
<1>5. ASSUME NEW r \in Handlers, Settles(r)
      PROVE  /\ Cardinality(Marked) <= Cardinality(Marked') + 1
             /\ ~StatementFails => Cardinality(Marked) <= Cardinality(Marked')
  <2>1. \A q \in Handlers : q # r => work'[q] = work[q]
    BY <1>0, <1>5, SettleKinds DEF Written
  <2>2. \A q \in Handlers : q # r /\ q \in Marked => q \in Marked'
    BY <2>1 DEF Marked
  <2>3. StatementFails \/ r \in Marked' \/ r \notin Marked
    BY <1>0, <1>5, LeavesMark
  <2>4. QED
    BY <1>0, <2>2, <2>3, HandlersCounted
<1>6. CASE \E r \in Handlers : ConfirmOutputMark(r)
  BY <1>1, <1>2, <1>3, <1>6
<1>7. CASE \E r \in Handlers : Settles(r)
  <2>1. PICK r \in Handlers : Settles(r)
    BY <1>7
  <2>2. CASE StatementFails
    <3>1. Cardinality(Marked) <= Cardinality(Marked') + 1
      BY <1>5, <2>1
    <3>2. Disturbances + 1 <= Disturbances'
      BY <1>2, <2>2
    <3>3. Cardinality(Marked) + Disturbances <= Cardinality(Marked') + Disturbances'
      BY <1>1, <1>2, <3>1, <3>2
    <3>4. QED
      BY <1>1, <1>6, <3>3
  <2>3. CASE ~StatementFails
    BY <1>1, <1>2, <1>5, <1>6, <2>1, <2>3
  <2>4. QED
    BY <2>2, <2>3
<1>8. CASE work' = work
  BY <1>1, <1>2, <1>4, <1>8
<1>9. CASE ServerDies
  <2>1. ~ \E r \in Handlers : ConfirmOutputMark(r)
    <3>1. ASSUME NEW r \in Handlers, ConfirmOutputMark(r)
          PROVE  FALSE
      <4>1. pc[r] = "apply" /\ pc' = pc
        BY <3>1 DEF ConfirmOutputMark, At, engineVars
      <4>2. QED
        BY <1>0, <1>9, <4>1, ServerStops
    <3>2. QED
      BY <3>1
  <2>2. QED
    BY <1>1, <1>2, <1>9, <2>1
<1>10. ASSUME NEW r \in Handlers, Contributes(r)
       PROVE  work' = work
  BY <1>10 DEF Contributes, settleVars
<1>11. ASSUME NEW m \in Movers, MoveGet(m) \/ MoveStep(m)
       PROVE  work' = work
  BY <1>0, <1>11, MoveTables
<1>12. UNCHANGED allVars => work' = work
  BY DEF allVars, settleVars
<1>13. QED
  BY <1>7, <1>8, <1>9, <1>10, <1>11, <1>12, SettleCases

\* Nobody can confirm but who has read LOCKED: once it is past, nobody joins.
LEMMA MayMarkShrinks ==
  ASSUME SettleInv, [SettleNext]_allVars, covState = "SETTLED",
         NEW q \in MayMark'
  PROVE  q \in MayMark /\ ~ConfirmOutputMark(q)
<1>0. /\ q \in Handlers /\ Tool(q, "confirm_settlement_output")'
      /\ run'[q].state = "LOCKED" /\ work'[q].sub = "start"
      /\ pc'[q] \in {"getMember", "rateLimit", "preconditions"} \cup Passed
      /\ DraftInv /\ TypeOK /\ SettleTyped
  BY DEF MayMark, SettleInv, DraftInv
<1>1. WorkOK(q) /\ work \in [Handlers -> WorkRecord(Len(snapshots))]
  BY <1>0 DEF SettleInv, SettleTyped, WorkRecord
<1>2. ~ConfirmOutputMark(q)
  <2>1. ConfirmOutputMark(q) => work' = [work EXCEPT ![q].sub = "transition"]
    BY DEF ConfirmOutputMark, GotoWork
  <2>2. QED
    BY <1>0, <1>1, <2>1 DEF WorkRecord
<1>3. pc[q] \notin {"idle", "getCovenant"} /\ run'[q].state = run[q].state
  BY <1>0, HandlerRuns DEF Passed
<1>4. CASE UNCHANGED <<pc[q], run[q], work[q]>>
  BY <1>0, <1>2, <1>4 DEF MayMark, Tool
<1>5. CASE Settles(q) /\ run'[q].call = run[q].call
  <2>1. Runs(q) \/ Ends(q) \/ Advances(q)
    BY <1>0, <1>1, <1>5, SettleKinds
  <2>2. ~Ends(q)
    BY <1>0 DEF Ends, Passed
  <2>3. ~Advances(q)
    BY <1>0 DEF Advances, Onward
  <2>4. Runs(q)
    BY <2>1, <2>2, <2>3
  <2>5. /\ work' = work /\ Edge(pc[q], pc'[q])
    BY <1>0, <2>4, LocalsStep DEF Runs, settleVars, Passed
  <2>6. pc[q] \in {"getMember", "rateLimit", "preconditions"} \cup Passed
    BY <1>0, <1>3, <2>5 DEF Edge, Passed
  <2>7. QED
    BY <1>0, <1>2, <1>3, <1>5, <2>5, <2>6 DEF MayMark, Tool
<1>6. QED
  BY <1>0, <1>3, <1>4, <1>5, HandlerMoves DEF IsSettlement, Tool, Passed

LEMMA ConfirmStep ==
  ASSUME SettleInv, PhaseInv, ConfirmInv, [SettleNext]_allVars
  PROVE  ConfirmInv'
<1> DEFINE H == Cardinality(Handlers)
           C == Cardinality(ConfirmedOutputs)
           D == Cardinality(ConfirmedOutputs')
<1>0. /\ SettleTyped /\ SettleTyped' /\ Forward
  BY GoesForward, SettleTypedStep DEF SettleInv
<1>1. /\ H \in Nat /\ Disturbances \in Nat /\ Disturbances' \in Nat
      /\ Disturbances <= Disturbances'
      /\ C \in Nat /\ D \in Nat
  BY <1>0, DisturbancesGrow, ConfirmedFew DEF SettleTyped, ConfirmedOutputs
<1>2. \/ D = C
      \/ D <= C + 1 /\ \E r \in Handlers : ConfirmOutputMark(r)
  BY OutputsConfirmed
<1>3. CASE covState' # "SETTLED"
  <2>1. covState # "SETTLED"
    BY <1>0, <1>3 DEF Forward, Locks
  <2>2. C <= Cardinality(Marked) + Disturbances
    BY <2>1 DEF ConfirmInv
  <2>3. /\ Cardinality(Marked) \in Nat /\ Cardinality(Marked') \in Nat
        /\ Cardinality(Marked) + Disturbances
             <= Cardinality(Marked') + Disturbances'
        /\ (\E r \in Handlers : ConfirmOutputMark(r)) =>
             Cardinality(Marked) + Disturbances + 1
               <= Cardinality(Marked') + Disturbances'
    BY <1>3, MarkedMoves
  <2> HIDE DEF C, D
  <2>4. D <= Cardinality(Marked') + Disturbances'
    BY <1>1, <1>2, <2>2, <2>3
  <2>5. QED
    BY <1>3, <2>4 DEF ConfirmInv, D
<1>4. CASE covState # "SETTLED" /\ covState' = "SETTLED"
  <2>1. C <= Cardinality(Marked) + Disturbances
    BY <1>4 DEF ConfirmInv
  <2>2. ~ \E r \in Handlers : ConfirmOutputMark(r)
    BY <1>4 DEF ConfirmOutputMark, engineVars, tables
  <2>3. D = C
    BY <1>2, <2>2
  <2>4. Marked \cap MayMark' = {}
    <3>1. ASSUME NEW q \in Marked, q \in MayMark'
          PROVE  FALSE
      <4>1. /\ q \in Handlers /\ work[q].sub \in {"transition", "flip"}
            /\ WorkOK(q)
            /\ work'[q].sub = "start" /\ Tool(q, "confirm_settlement_output")'
            /\ pc'[q] \in {"getMember", "rateLimit", "preconditions"}
                            \cup Passed
        BY <3>1 DEF Marked, MayMark, SettleInv
      <4>2. pc[q] = "apply"
        BY <4>1 DEF WorkOK
      <4>3. Settles(q)
        BY <4>1, <4>2, HandlerMoves DEF Passed, IsSettlement, Tool
      <4>4. Runs(q) \/ Ends(q) \/ Advances(q)
        BY <4>1, <4>3, SettleKinds DEF SettleInv
      <4>5. QED
        BY <4>1, <4>2, <4>4 DEF Runs, Ends, Advances, Onward, Passed
    <3>2. QED
      BY <3>1
  <2>5. /\ IsFiniteSet(Marked) /\ IsFiniteSet(MayMark')
        /\ Marked \cup MayMark' \in SUBSET Handlers
        /\ Cardinality(Marked) \in Nat /\ Cardinality(MayMark') \in Nat
    BY ConstantsAssumption, FS_Subset, FS_CardinalityType DEF Marked, MayMark
  <2>6. Cardinality(Marked \cup MayMark')
          = Cardinality(Marked) + Cardinality(MayMark')
    <3>1. Cardinality(Marked \cup MayMark')
            = Cardinality(Marked) + Cardinality(MayMark')
                - Cardinality(Marked \cap MayMark')
      BY <2>5, FS_Union
    <3>2. Cardinality(Marked \cap MayMark') = 0
      BY <2>4, FS_EmptySet
    <3>3. QED
      BY <2>5, <3>1, <3>2
  <2>7. Cardinality(Marked \cup MayMark') <= H
    BY <2>5, ConstantsAssumption, FS_Subset
  <2> HIDE DEF C, D, H
  <2>8. D + Cardinality(MayMark') <= H + Disturbances'
    BY <1>1, <2>1, <2>3, <2>5, <2>6, <2>7
  <2>9. QED
    BY <1>4, <2>8 DEF ConfirmInv, D, H
<1>5. CASE covState = "SETTLED"
  <2>1. covState' = "SETTLED"
    BY <1>0, <1>5 DEF Forward, Locks
  <2>2. C + Cardinality(MayMark) <= H + Disturbances
    BY <1>5 DEF ConfirmInv
  <2>3. /\ MayMark \in SUBSET Handlers /\ MayMark' \in SUBSET Handlers
        /\ MayMark' \subseteq MayMark
    BY <1>5, MayMarkShrinks DEF MayMark
  <2>4. /\ IsFiniteSet(MayMark) /\ IsFiniteSet(MayMark')
        /\ Cardinality(MayMark) \in Nat /\ Cardinality(MayMark') \in Nat
        /\ Cardinality(MayMark') <= Cardinality(MayMark)
    <3>1. IsFiniteSet(MayMark)
      BY <2>3, ConstantsAssumption, FS_Subset
    <3>2. QED
      BY <2>3, <3>1, FS_Subset, FS_CardinalityType
  <2>5. ASSUME NEW r \in Handlers, ConfirmOutputMark(r)
        PROVE  Cardinality(MayMark') <= Cardinality(MayMark) - 1
    <3>1. r \in MayMark
      BY <2>5, MarkedOne DEF MayMark, Passed
    <3>2. r \notin MayMark'
      BY <1>5, <2>5, MayMarkShrinks
    <3>3. QED
      BY <2>3, <3>1, <3>2, HandlersCounted
  <2>6. \/ D = C
        \/ D <= C + 1 /\ Cardinality(MayMark') <= Cardinality(MayMark) - 1
    BY <1>2, <2>5
  <2> HIDE DEF C, D, H
  <2>7. D + Cardinality(MayMark') <= H + Disturbances'
    BY <1>1, <2>2, <2>4, <2>6
  <2>8. QED
    BY <2>1, <2>7 DEF ConfirmInv, D, H
<1>6. QED
  BY <1>3, <1>4, <1>5

LEMMA ConfirmInit == SettleInit => ConfirmInv
<1> SUFFICES ASSUME SettleInit
             PROVE  ConfirmInv
  OBVIOUS
<1>1. /\ covState = "ACTIVE" /\ DOMAIN outputs = {} /\ crashes = 0 /\ faults = 0
      /\ \A r \in Handlers : work[r].sub = "start"
  BY DEF SettleInit, DraftInit, Init, NoWork
<1>2. ConfirmedOutputs = {} /\ Marked = {}
  BY <1>1 DEF ConfirmedOutputs, Marked
<1>3. Cardinality(ConfirmedOutputs) = 0 /\ Cardinality(Marked) = 0
  BY <1>2, FS_EmptySet
<1>4. Cardinality(Handlers) * 0 = 0 /\ Disturbances = Cardinality(Handlers) * 0 + 0
  BY <1>1, ConstantsAssumption, FS_CardinalityType DEF Disturbances
<1>5. QED
  BY <1>1, <1>3, <1>4 DEF ConfirmInv

LEMMA ConfirmInvariant ==
  ASSUME OneMover
  PROVE  SettleSpec => [](SettleInv /\ PhaseInv /\ ConfirmInv)
<1>1. SettleInv /\ PhaseInv /\ ConfirmInv /\ [SettleNext]_allVars => ConfirmInv'
  BY ConfirmStep
<1>2. QED
  BY <1>1, SettleInvInit, SettleInvStep, PhaseInit, PhaseStep, ConfirmInit, PTL
     DEF SettleSpec

\* With one transition request at a time, however many confirmations are in
\* flight together, each handler confirms one output at most, and one more for
\* each crash of its call or failed statement.
THEOREM ConfirmedAlwaysBounded == OneMover /\ SettleSpec => []ConfirmedBounded
<1> SUFFICES ASSUME OneMover
             PROVE  SettleSpec => []ConfirmedBounded
  OBVIOUS
<1>1. SettleInv /\ ConfirmInv => ConfirmedBounded
  <2> SUFFICES ASSUME SettleInv, ConfirmInv
               PROVE  ConfirmedBounded
    OBVIOUS
  <2>1. /\ Cardinality(ConfirmedOutputs) \in Nat /\ Cardinality(Handlers) \in Nat
        /\ crashes \in Nat /\ faults \in Nat
    BY ConfirmedCount, ConstantsAssumption, FS_CardinalityType
       DEF SettleInv, DraftInv, TypeOK
  <2>2. Cardinality(Handlers) * crashes \in Nat
    BY <2>1, Products
  <2>3. Disturbances \in Nat
    BY <2>1, <2>2 DEF Disturbances
  <2>4. /\ Marked \in SUBSET Handlers /\ MayMark \in SUBSET Handlers
    BY DEF Marked, MayMark
  <2>5. /\ Cardinality(Marked) \in Nat /\ Cardinality(MayMark) \in Nat
        /\ Cardinality(Marked) <= Cardinality(Handlers)
    BY <2>4, ConstantsAssumption, FS_Subset, FS_CardinalityType
  <2>6. QED
    BY <2>1, <2>3, <2>5 DEF ConfirmInv, ConfirmedBounded
<1>2. QED
  BY <1>1, ConfirmInvariant, PTL
-----------------------------------------------------------------------------
(***************************************************************************)
(* What the snapshot misses, with one transition request at a time, for    *)
(* awards that are natural numbers and have a largest: from the lock on    *)
(* nobody joins the approvals that may still be booked, each of which      *)
(* takes one award of the room that the handlers had.                      *)
(***************************************************************************)
AwardsBounded ==
  /\ \A c \in Calls : c.award \in Nat
  /\ \E d \in Calls : \A c \in Calls : c.award <= d.award

MayBook ==
  {r \in Handlers : /\ Tool(r, "approve_draft")
                    /\ run[r].state = "ACTIVE"
                    /\ pc[r] \in {"getMember", "rateLimit", "preconditions"}
                                   \cup Passed}

AwardOK(r) ==
  Tool(r, "approve_draft") /\ pc[r] \in Decided =>
    run[r].eff.tokens = run[r].call.award

\* The snapshot shows v tokens of a, or will when its rows are inserted.
Shown(a, v) ==
  \/ \E i \in DOMAIN snapshots : snapshots[i].agent = a /\ snapshots[i].tokens = v
  \/ \E m \in Movers : \E row \in move[m].todo : row.agent = a /\ row.tokens = v
  \/ /\ v = 0
     /\ \A i \in DOMAIN snapshots : snapshots[i].agent # a
     /\ \A m \in Movers : \A row \in move[m].todo : row.agent # a

Covers(a, v) ==
  Balance(a) + Cardinality(MayBook) * MaxAward
    <= v + Cardinality(Handlers) * MaxAward

BookOK ==
  /\ \A r \in Handlers : AwardOK(r)
  /\ \A l \in DOMAIN ledger : ledger[l].delta \in Nat

MissInv ==
  crashes = 0 /\ faults = 0 /\ covState # "ACTIVE" =>
    \/ \E m \in Movers : move[m].step = "capture"
    \/ \A a \in Agents : \E v \in Int : Shown(a, v) /\ Covers(a, v)

LEMMA LargestAward ==
  ASSUME AwardsBounded
  PROVE  MaxAward \in Nat /\ \A c \in Calls : c.award <= MaxAward
<1> DEFINE A == {c.award : c \in Calls}
<1>1. \E n \in A : \A c \in Calls : c.award <= n
  BY DEF AwardsBounded
<1>2. MaxAward \in A /\ \A c \in Calls : c.award <= MaxAward
  BY <1>1 DEF MaxAward
<1>3. QED
  BY <1>2 DEF AwardsBounded

\* Step 3 of an approval ends with the award of the call.
LEMMA AwardTaken ==
  ASSUME TypeOK, NEW r \in Handlers, Serve(r), Tool(r, "approve_draft"),
         pc[r] = "execute", pc'[r] = "effects"
  PROVE  run'[r].eff.tokens = run[r].call.award
<1>0. /\ pc \in [Handlers -> Labels] /\ run \in [Handlers -> RunLocals]
      /\ run[r] \in RunLocals
  BY DEF TypeOK
<1>1. ~EngineOnly(r)
  BY <1>0 DEF EngineOnly, At, Goto, GetCovenant, GetMember, IdentityFails,
     RateLimitGate, CheckAndReserve, GateFails, CalculateEffects,
     WriteAuditLog, AuditLogFails, RecordSpend, RecordSpendFails,
     SettleReservation, ReleaseReservation, LogRejection,
     ExecuteStatementFails, ApplyStatementFails
<1>2. ~ProposeStep(r) /\ ~RejectStep(r)
  BY DEF ProposeStep, ProposeCheck, ProposeExecute, ProposeApply, RejectStep,
     RejectCheck, RejectExecute, RejectUpdate, RejectRefund, Tool
<1>3. ~GiveUp(r) /\ ~UNCHANGED engineVars
  BY <1>0 DEF GiveUp, ExecuteFails, Goto, engineVars
<1>4. ApproveDelete(r)
  BY <1>1, <1>2, <1>3 DEF Serve, ApproveStep, ApproveCheck, Check,
     PreconditionsPass, PreconditionsFail, ApproveWithoutUnits,
     ApproveFindDraft, ApproveClaim, ConfirmRead, ConfirmInsert,
     ApplySucceeds, At
<1> DEFINE e == EffectOf(r, run[r].call.award, local[r].draft)
           M == [run[r] EXCEPT !.eff = e]
<1>5. run' = [run EXCEPT ![r] = M]
  BY <1>4 DEF ApproveDelete, ExecuteSucceeds
<1>6. M.eff = e /\ e.tokens = run[r].call.award
  BY <1>0, RunAssigned DEF EffectOf
<1> HIDE DEF M, e
<1>7. run'[r] = M
  BY <1>0, <1>5
<1>8. QED
  BY <1>6, <1>7

\* A handler inside Run keeps its call and stays, or follows an edge.
LEMMA HandlerFollows ==
  ASSUME SettleInv, [SettleNext]_allVars, NEW q \in Handlers,
         pc'[q] \notin {"idle", "getCovenant"}
  PROVE  /\ run'[q].call = run[q].call
         /\ pc'[q] = pc[q] \/ Edge(pc[q], pc'[q])
         /\ \/ run'[q].eff = run[q].eff
            \/ pc[q] = "execute"
         /\ \/ pc'[q] = pc[q] /\ run'[q] = run[q]
            \/ Serve(q) \/ IsSettlement(q)
<1>0. /\ DraftInv /\ TypeOK /\ SettleTyped /\ pc \in [Handlers -> Labels]
  BY DEF SettleInv, DraftInv, TypeOK
<1> DEFINE Goal == /\ run'[q].call = run[q].call
                   /\ pc'[q] = pc[q] \/ Edge(pc[q], pc'[q])
                   /\ \/ run'[q].eff = run[q].eff
                      \/ pc[q] = "execute"
                   /\ \/ pc'[q] = pc[q] /\ run'[q] = run[q]
                      \/ Serve(q) \/ IsSettlement(q)
<1>1. ASSUME NEW r \in Handlers, EngineStep(r) \/ ToolStep(r),
             Serve(r) \/ IsSettlement(r)
      PROVE  Goal
  <2>1. CASE q = r
    BY <1>0, <1>1, <2>1, LocalsStep
  <2>2. CASE q # r
    BY <1>0, <1>1, <2>2, EngineMoves
  <2>3. QED
    BY <2>1, <2>2
<1>2. UNCHANGED <<pc[q], run[q]>> => Goal
  OBVIOUS
<1>3. UNCHANGED engineVars => UNCHANGED <<pc[q], run[q]>>
  BY DEF engineVars
<1>4. ASSUME NEW r \in Handlers, Begin(r)
      PROVE  pc'[q] = pc[q] /\ run'[q] = run[q]
  <2>1. pc'[r] = "getCovenant"
    BY <1>0, <1>4 DEF Begin, Goto
  <2>2. QED
    BY <1>0, <1>4, <2>1, EngineMoves
<1>5. ASSUME NEW r \in Handlers, ConfirmOutputFlip(r)
      PROVE  Goal
  <2>1. /\ pc[r] = "apply" /\ pc'[r] \in {"apply", "spend"} /\ run' = run
        /\ \A s \in Handlers : s # r => pc'[s] = pc[s]
        /\ IsSettlement(r)
    BY <1>0, <1>5, FlipsState DEF ConfirmOutputFlip, AtWork, Tool, IsSettlement
  <2>2. QED
    BY <2>1 DEF Edge
<1>6. ASSUME NEW m \in Movers, MoveGet(m) \/ MoveStep(m)
      PROVE  UNCHANGED <<pc[q], run[q]>>
  BY <1>0, <1>6, MoveTables
<1>7. ~ServerDies
  BY <1>0, ServerStops
<1>8. UNCHANGED allVars => UNCHANGED <<pc[q], run[q]>>
  BY DEF allVars, vars, engineVars
<1> HIDE DEF Goal
<1>9. ASSUME NEW r \in Handlers, Contributes(r)
      PROVE  Goal
  <2>1. Serve(r) => EngineStep(r) \/ ToolStep(r) \/ UNCHANGED engineVars
    BY <1>0, ServeIsEngine
  <2>2. Begin(r) => UNCHANGED <<pc[q], run[q]>>
    BY <1>4
  <2>3. QED
    BY <1>1, <1>2, <1>3, <1>9, <2>1, <2>2 DEF Contributes
<1>10. ASSUME NEW r \in Handlers, Settles(r)
       PROVE  Goal
  BY <1>1, <1>2, <1>3, <1>5, <1>10, SettlesInEngine
<1>11. Goal
  BY <1>2, <1>6, <1>7, <1>8, <1>9, <1>10, SettleCases
<1>12. QED
  BY <1>11 DEF Goal

LEMMA AwardsKept ==
  ASSUME SettleInv, BookOK, [SettleNext]_allVars, NEW q \in Handlers
  PROVE  AwardOK(q)'
<1> SUFFICES ASSUME Tool(q, "approve_draft")', pc'[q] \in Decided
             PROVE  run'[q].eff.tokens = run'[q].call.award
  BY DEF AwardOK
<1>1. /\ run'[q].call = run[q].call
      /\ pc'[q] = pc[q] \/ Edge(pc[q], pc'[q])
      /\ run'[q].eff = run[q].eff \/ pc[q] = "execute"
      /\ \/ pc'[q] = pc[q] /\ run'[q] = run[q]
         \/ Serve(q) \/ IsSettlement(q)
  BY HandlerFollows DEF Decided
<1>2. TypeOK /\ AwardOK(q)
  BY DEF SettleInv, DraftInv, BookOK
<1>3. Tool(q, "approve_draft") /\ ~IsSettlement(q)
  BY <1>1 DEF Tool, IsSettlement
<1>4. CASE pc[q] \in Decided
  BY <1>1, <1>2, <1>3, <1>4 DEF AwardOK, Decided
<1>5. CASE pc[q] \notin Decided
  <2>1. pc[q] = "execute" /\ pc'[q] = "effects"
    BY <1>1, <1>5 DEF Edge, Decided
  <2>2. Serve(q)
    BY <1>1, <1>3, <2>1
  <2>3. QED
    BY <1>1, <1>2, <1>3, <2>1, <2>2, AwardTaken
<1>6. QED
  BY <1>4, <1>5

\* An approval books the award of its call.
LEMMA AwardBooked ==
  ASSUME AwardsBounded, SettleInv, BookOK, NEW r \in Handlers, ConfirmInsert(r)
  PROVE  /\ run[r].eff.tokens \in Nat /\ run[r].eff.tokens <= MaxAward
         /\ run[r].state = "ACTIVE"
<1>1. DraftInv /\ AwardOK(r) /\ TypeOK /\ ApproveOK(r)
  BY DEF SettleInv, DraftInv, BookOK, ToolOK
<1>2. pc[r] = "apply" /\ Tool(r, "approve_draft")
  BY <1>1, Booked
<1>3. run[r].call \in Calls
  BY <1>1 DEF TypeOK, RunLocals
<1>4. run[r].eff.tokens = run[r].call.award
  BY <1>1, <1>2 DEF AwardOK, Decided
<1>5. run[r].call.award \in Nat /\ run[r].call.award <= MaxAward
  BY <1>3, LargestAward DEF AwardsBounded
<1>6. QED
  BY <1>1, <1>2, <1>4, <1>5 DEF ApproveOK, Passed

LEMMA BookStays ==
  ASSUME AwardsBounded, SettleInv, BookOK, [SettleNext]_allVars
  PROVE  BookOK'
<1>0. DraftInv /\ \A l \in DOMAIN ledger : ledger[l].delta \in Nat
  BY DEF SettleInv, BookOK
<1>1. \A r \in Handlers : AwardOK(r)'
  BY AwardsKept
<1>2. ASSUME NEW r \in Handlers, ConfirmInsert(r)
      PROVE  \A l \in DOMAIN ledger' : ledger'[l].delta \in Nat
  <2>1. /\ DOMAIN ledger' = DOMAIN ledger \cup {run[r].log}
        /\ \A l \in DOMAIN ledger' :
             ledger'[l] = IF l = run[r].log THEN LedgerRow(r) ELSE ledger[l]
    BY <1>0, <1>2, Booked
  <2>2. LedgerRow(r).delta \in Nat
    BY <1>2, AwardBooked DEF LedgerRow
  <2>3. QED
    BY <1>0, <2>1, <2>2
<1>3. ASSUME NEW r \in Handlers, RejectUpdate(r)
      PROVE  \A l \in DOMAIN ledger' : ledger'[l].delta \in Nat
  BY <1>0, <1>3, Rejected
<1>4. QED
  BY <1>0, <1>1, <1>2, <1>3, BooksOnly DEF BookOK

\* Rejecting an award of zero or more adds to nobody's balance.
LEMMA RejectedBalance ==
  ASSUME DraftInv, BookOK, NEW r \in Handlers, RejectUpdate(r), NEW a
  PROVE  Balance(a)' \in Int /\ Balance(a)' <= Balance(a)
<1> DEFINE e == run[r].call.ref
           f == [l \in DOMAIN ledger |-> ledger[l].delta]
           g == [l \in DOMAIN ledger' |-> ledger'[l].delta]
           C == Confirmed(a)
<1>1. /\ e \in DOMAIN ledger /\ DOMAIN ledger' = DOMAIN ledger
      /\ \A l \in DOMAIN ledger :
           /\ ledger'[l].agent = ledger[l].agent
           /\ ledger'[l].delta = ledger[l].delta
           /\ ledger'[l].status = IF l = e THEN "rejected" ELSE ledger[l].status
  BY Rejected
<1>2. /\ IsFiniteSet(C) /\ C \subseteq DOMAIN ledger /\ Balance(a) \in Int
  BY ConfirmedFinite DEF DraftInv, Confirmed
<1>3. Confirmed(a)' = C \ {e}
  BY <1>1 DEF Confirmed
<1>4. \A l \in C : g[l] = f[l] /\ f[l] \in Nat
  BY <1>1, <1>2 DEF BookOK
<1>5. IsFiniteSet(C \ {e}) /\ \A l \in C \ {e} : g[l] = f[l]
  BY <1>2, <1>4, FS_RemoveElement
<1>6. /\ Balance(a)' = SumFunctionOnSet(g, C \ {e})
      /\ Balance(a) = SumFunctionOnSet(f, C)
  BY <1>3 DEF Balance, f, g
<1> HIDE DEF e, f, g
<1>7. SumFunctionOnSet(g, C \ {e}) = SumFunctionOnSet(f, C \ {e})
  BY <1>5, SumReads
<1>8. CASE e \in C
  <2>1. SumFunctionOnSet(f, C) = f[e] + SumFunctionOnSet(f, C \ {e})
    BY <1>2, <1>4, <1>8, SumRemoves
  <2>2. SumFunctionOnSet(f, C \ {e}) \in Nat /\ f[e] \in Nat
    BY <1>4, <1>5, <1>8, SumNatural
  <2>3. QED
    BY <1>6, <1>7, <2>1, <2>2
<1>9. CASE e \notin C
  <2>1. C \ {e} = C
    BY <1>9
  <2>2. QED
    BY <1>2, <1>6, <1>7, <2>1
<1>10. QED
  BY <1>8, <1>9

\* Nobody may book but who has read ACTIVE: once it is past, nobody joins.
LEMMA MayBookShrinks ==
  ASSUME SettleInv, [SettleNext]_allVars, covState # "ACTIVE",
         NEW q \in MayBook'
  PROVE  q \in MayBook
<1>1. /\ q \in Handlers /\ Tool(q, "approve_draft")'
      /\ run'[q].state = "ACTIVE"
      /\ pc'[q] \in {"getMember", "rateLimit", "preconditions"} \cup Passed
  BY DEF MayBook
<1>2. pc[q] \notin {"idle", "getCovenant"} /\ run'[q].state = run[q].state
  BY <1>1, HandlerRuns DEF Passed
<1>3. run'[q].call = run[q].call /\ (pc'[q] = pc[q] \/ Edge(pc[q], pc'[q]))
  BY <1>1, HandlerFollows DEF Passed
<1>4. pc[q] \in {"getMember", "rateLimit", "preconditions"} \cup Passed
  BY <1>1, <1>2, <1>3 DEF Edge, Passed
<1>5. QED
  BY <1>1, <1>2, <1>3, <1>4 DEF MayBook, Tool

LEMMA MayBookCounted ==
  /\ MayBook \in SUBSET Handlers
  /\ Cardinality(MayBook) \in Nat /\ Cardinality(Handlers) \in Nat
  /\ Cardinality(MayBook) <= Cardinality(Handlers)
<1>1. MayBook \in SUBSET Handlers
  BY DEF MayBook
<1>2. QED
  BY <1>1, ConstantsAssumption, FS_Subset, FS_CardinalityType

\* What a balance may still gain over the snapshot is paid from the room of
\* the handlers.
LEMMA CoversKept ==
  ASSUME AwardsBounded, SettleInv, BookOK, [SettleNext]_allVars,
         covState # "ACTIVE", NEW a, NEW v \in Int, Covers(a, v)
  PROVE  Covers(a, v)'
<1> DEFINE H == Cardinality(Handlers)
           n == Cardinality(MayBook)
           k == Cardinality(MayBook')
           M == MaxAward
<1>0. DraftInv /\ TypeOK /\ DraftTyped
  BY DEF SettleInv, DraftInv
<1>1. /\ M \in Nat /\ n \in Nat /\ H \in Nat /\ MayBook \in SUBSET Handlers
  BY LargestAward, MayBookCounted
<1>2. MayBook' \in SUBSET Handlers /\ \A q \in MayBook' : q \in MayBook
  BY MayBookShrinks DEF MayBook
<1>3. k \in Nat /\ k <= n
  <2>1. IsFiniteSet(MayBook)
    BY <1>1, ConstantsAssumption, FS_Subset
  <2>2. QED
    BY <1>2, <2>1, FS_Subset, FS_CardinalityType
<1>4. Balance(a) \in Int /\ Balance(a) + n * M <= v + H * M
  BY <1>0, ConfirmedFinite DEF Covers
<1>5. /\ n * M \in Nat /\ k * M \in Nat /\ H * M \in Nat
      /\ k * M <= n * M
  BY <1>1, <1>3, ProductsGrow
<1>6. Covers(a, v)' <=> Balance(a)' + k * M <= v + H * M
  BY DEF Covers, MaxAward
<1>7. ASSUME Balance(a)' \in Int, Balance(a)' <= Balance(a)
      PROVE  Covers(a, v)'
  <2> HIDE DEF H, n, k, M
  <2>1. QED
    BY <1>4, <1>5, <1>6, <1>7
<1>8. CASE ledger' = ledger
  BY <1>4, <1>7, <1>8, BalanceStays
<1>9. ASSUME NEW r \in Handlers, RejectUpdate(r)
      PROVE  Covers(a, v)'
  BY <1>0, <1>7, <1>9, RejectedBalance
<1>10. ASSUME NEW r \in Handlers, ConfirmInsert(r)
       PROVE  Covers(a, v)'
  <2>1. /\ pc[r] = "apply" /\ Tool(r, "approve_draft") /\ pc'[r] = "spend"
        /\ run[r].eff.tokens \in Nat /\ run[r].eff.tokens <= M
        /\ run[r].state = "ACTIVE"
    BY <1>0, <1>10, Booked, AwardBooked
  <2>2. r \in MayBook /\ r \notin MayBook'
    BY <2>1 DEF MayBook, Passed
  <2>3. k + 1 <= n
    <3>1. Cardinality(MayBook') <= Cardinality(MayBook) - 1
      BY <1>1, <1>2, <2>2, HandlersCounted
    <3>2. QED
      BY <1>1, <1>3, <3>1
  <2>4. Balance(a)' \in Int /\ Balance(a)' <= Balance(a) + M
    BY <1>0, <1>1, <1>4, <1>10, <2>1, BookedBalance
  <2> HIDE DEF H, n, k, M
  <2>5. k * M + M <= n * M
    <3>1. k + 1 \in Nat /\ (k + 1) * M <= n * M
      BY <1>1, <1>3, <2>3, ProductsGrow
    <3>2. (k + 1) * M = k * M + M
      BY <1>1, <1>3
    <3>3. QED
      BY <3>1, <3>2
  <2>6. QED
    BY <1>1, <1>4, <1>5, <1>6, <2>4, <2>5
<1>11. QED
  BY <1>8, <1>9, <1>10, BooksOnly

\* A capture shows every balance as it is.
LEMMA CaptureShows ==
  ASSUME OneMover, AwardsBounded, SettleInv, SnapshotInv, NEW m \in Movers,
         Captures(m), NEW a \in Agents
  PROVE  \E v \in Int : Shown(a, v)' /\ Covers(a, v)'
<1>1. PICK v : v = Balance(a)
  OBVIOUS
<1>2. /\ UNCHANGED <<ledger, pc, run>> /\ snapshots' = snapshots
      /\ move[m].step = "capture"
  BY DEF Captures, vars, engineVars, draftVars
<1>3. DOMAIN snapshots' = {}
  BY <1>2 DEF SnapshotInv
<1>4. move'[m].todo = SnapshotRows
  BY DEF Captures, Resting
<1>5. \A n \in Movers : n = m
  BY DEF OneMover
<1>6. \A row \in SnapshotRows : row.agent = a => row.tokens = v
  BY <1>1 DEF SnapshotRows
<1>7. v # 0 => \E row \in SnapshotRows : row.agent = a
  <2> DEFINE row == [agent |-> a, tokens |-> Balance(a), cost |-> LoggedCost(a)]
  <2>1. v # 0 => row \in SnapshotRows
    BY <1>1 DEF SnapshotRows
  <2>2. QED
    BY <2>1
<1>8. Shown(a, v)'
  <2>1. CASE \E row \in SnapshotRows : row.agent = a
    BY <1>4, <1>6, <2>1 DEF Shown
  <2>2. CASE ~ \E row \in SnapshotRows : row.agent = a
    BY <1>3, <1>4, <1>5, <1>7, <2>2 DEF Shown
  <2>3. QED
    BY <2>1, <2>2
<1>9. v \in Int
  BY <1>1, ConfirmedFinite DEF SettleInv, DraftInv
<1>10. Covers(a, v)'
  <2> DEFINE n == Cardinality(MayBook)
             H == Cardinality(Handlers)
             M == MaxAward
  <2>1. Covers(a, v)' <=> v + n * M <= v + H * M
    <3>1. Balance(a)' = v /\ MayBook' = MayBook
      BY <1>1, <1>2, BalanceStays DEF MayBook, Tool
    <3>2. QED
      BY <3>1 DEF Covers, MaxAward
  <2>2. /\ M \in Nat /\ n \in Nat /\ H \in Nat /\ n <= H
    BY LargestAward, MayBookCounted
  <2>3. n * M \in Nat /\ H * M \in Nat /\ n * M <= H * M
    BY <2>2, ProductsGrow
  <2> HIDE DEF n, H, M
  <2>4. QED
    BY <1>9, <2>1, <2>3
<1>11. QED
  BY <1>8, <1>9, <1>10

\* What is shown stays shown, while it is inserted.
LEMMA ShownInserted ==
  ASSUME OneMover, SettleInv, NEW m \in Movers, Inserts(m), NEW a, NEW v,
         Shown(a, v)
  PROVE  Shown(a, v)'
<1>1. PICK row \in move[m].todo :
        /\ move'[m].todo = move[m].todo \ {row}
        /\ Len(snapshots) \in Nat /\ DOMAIN snapshots = 1..Len(snapshots)
        /\ DOMAIN snapshots' = 1..(Len(snapshots) + 1)
        /\ \A i \in DOMAIN snapshots : snapshots'[i] = snapshots[i]
        /\ snapshots'[Len(snapshots) + 1] = row
  BY RowInserted
<1>2. \A n \in Movers : n = m
  BY DEF OneMover
<1>3. /\ Len(snapshots) + 1 \in DOMAIN snapshots'
      /\ \A i \in DOMAIN snapshots : i \in DOMAIN snapshots'
      /\ \A i \in DOMAIN snapshots' :
           \/ i \in DOMAIN snapshots /\ snapshots'[i] = snapshots[i]
           \/ i = Len(snapshots) + 1 /\ snapshots'[i] = row
  BY <1>1
<1>4. CASE \E i \in DOMAIN snapshots : snapshots[i].agent = a /\ snapshots[i].tokens = v
  BY <1>1, <1>3, <1>4 DEF Shown
<1>5. CASE \E x \in move[m].todo : x.agent = a /\ x.tokens = v
  <2>1. PICK x \in move[m].todo : x.agent = a /\ x.tokens = v
    BY <1>5
  <2>2. x \in move'[m].todo \/ snapshots'[Len(snapshots) + 1] = x
    BY <1>1
  <2>3. QED
    BY <1>3, <2>1, <2>2 DEF Shown
<1>6. CASE /\ v = 0
           /\ \A i \in DOMAIN snapshots : snapshots[i].agent # a
           /\ \A n \in Movers : \A x \in move[n].todo : x.agent # a
  BY <1>1, <1>2, <1>3, <1>6 DEF Shown
<1>7. QED
  BY <1>2, <1>4, <1>5, <1>6 DEF Shown

LEMMA ShownKept ==
  ASSUME OneMover, SettleInv, PhaseInv, [SettleNext]_allVars,
         covState # "ACTIVE", faults' = faults, crashes' = crashes,
         \A m \in Movers : move[m].step # "capture",
         NEW a, NEW v, Shown(a, v)
  PROVE  Shown(a, v)'
<1>1. CASE \E m \in Movers : Inserts(m)
  BY <1>1, ShownInserted
<1>2. CASE ~ \E m \in Movers : Inserts(m)
  <2>1. snapshots' = snapshots
    BY <1>2, TablesMove
  <2>2. ASSUME NEW n \in Movers
        PROVE  move'[n].todo = move[n].todo
    <3>0. /\ move[n].step = "insert" <=> move[n].todo # {}
          /\ crashes \in Nat /\ faults \in Nat /\ TypeOK
      BY DEF SettleInv, SettleTyped, DraftInv, TypeOK
    <3>1. ~Fails(n) /\ ~ServerDies
      BY <3>0, ServerStops DEF Fails
    <3>2. ~Captures(n) /\ ~Inserts(n)
      BY <1>2 DEF Captures
    <3>3. Gets(n) => move'[n].todo = move[n].todo
      BY <3>0 DEF Gets
    <3>4. Flips(n) => move'[n].todo = move[n].todo
      <4>1. Flips(n) => move[n].todo = {} /\ move'[n].todo = {}
        BY <3>0, RestingTyped DEF Flips
      <4>2. QED
        BY <4>1
    <3>5. QED
      BY <3>0, <3>1, <3>2, <3>3, <3>4, RequestMoves, RestingTyped
  <2>3. QED
    BY <2>1, <2>2 DEF Shown
<1>3. QED
  BY <1>1, <1>2

LEMMA MissStep ==
  ASSUME OneMover, AwardsBounded
  PROVE  SettleInv /\ PhaseInv /\ SnapshotInv /\ BookOK /\ MissInv
           /\ [SettleNext]_allVars => BookOK' /\ MissInv'
<1> SUFFICES ASSUME SettleInv, PhaseInv, SnapshotInv, BookOK, MissInv,
                    [SettleNext]_allVars
             PROVE  BookOK' /\ MissInv'
  OBVIOUS
<1>1. BookOK'
  BY BookStays
<1> DEFINE Showing ==
             \/ \E m \in Movers : move'[m].step = "capture"
             \/ \A a \in Agents : \E v \in Int : Shown(a, v)' /\ Covers(a, v)'
<1>2. ASSUME crashes' = 0, faults' = 0, covState' # "ACTIVE"
      PROVE  Showing
  <2>1. crashes = 0 /\ faults = 0
    BY <1>2, DisturbancesGrow
  <2>2. CASE covState = "ACTIVE"
    BY <1>2, <2>2, GoesForward DEF Forward, Locks
  <2>3. CASE covState # "ACTIVE" /\ \E m \in Movers : move[m].step = "capture"
    <3>1. PICK m \in Movers : move[m].step = "capture"
      BY <2>3
    <3>2. CASE move'[m] = move[m]
      BY <3>1, <3>2
    <3>3. CASE Captures(m)
      BY <3>3, CaptureShows
    <3>4. ~Gets(m) /\ ~Flips(m) /\ ~Inserts(m)
      BY <3>1 DEF Gets, Flips, Inserts
    <3>5. ~Fails(m) /\ ~ServerDies
      BY <1>2, <2>1, ServerStops DEF Fails, SettleInv, DraftInv
    <3> HIDE DEF Showing
    <3>6. QED
      BY <3>2, <3>3, <3>4, <3>5, RequestMoves
  <2>4. CASE covState # "ACTIVE" /\ \A m \in Movers : move[m].step # "capture"
    <3>1. ASSUME NEW a \in Agents
          PROVE  \E v \in Int : Shown(a, v)' /\ Covers(a, v)'
      <4>1. PICK v \in Int : Shown(a, v) /\ Covers(a, v)
        BY <2>1, <2>4 DEF MissInv
      <4>2. Shown(a, v)'
        BY <1>2, <2>1, <2>4, <4>1, ShownKept
      <4>3. Covers(a, v)'
        BY <2>4, <4>1, CoversKept
      <4>4. QED
        BY <4>2, <4>3
    <3>2. QED
      BY <3>1
  <2>5. QED
    BY <2>2, <2>3, <2>4
<1>3. MissInv'
  BY <1>2 DEF MissInv
<1>4. QED
  BY <1>1, <1>3

LEMMA MissInit == SettleInit => BookOK /\ MissInv
<1> SUFFICES ASSUME SettleInit
             PROVE  BookOK /\ MissInv
  OBVIOUS
<1>1. /\ covState = "ACTIVE" /\ DOMAIN ledger = {}
      /\ \A r \in Handlers : pc[r] = "idle"
  BY DEF SettleInit, DraftInit, Init
<1>2. QED
  BY <1>1 DEF BookOK, AwardOK, Decided, MissInv

LEMMA MissInvariant ==
  ASSUME OneMover, AwardsBounded
  PROVE  SettleSpec =>
           [](SettleInv /\ PhaseInv /\ SnapshotInv /\ BookOK /\ MissInv)
BY SettleInvInit, SettleInvStep, PhaseInit, PhaseStep, SnapshotInit,
   SnapshotStep, MissInit, MissStep, PTL DEF SettleSpec

\* Once the snapshot is taken, each agent has at most one row, of what it shows.
LEMMA SnapshotShows ==
  ASSUME SettleInv, SnapshotInv, \A m \in Movers : move[m].step = "idle",
         NEW a, NEW v \in Int, Shown(a, v)
  PROVE  SnapshotTokens(a) = v
<1> DEFINE f == [i \in DOMAIN snapshots |-> snapshots[i].tokens]
           S == {i \in DOMAIN snapshots : snapshots[i].agent = a}
<1>1. \A m \in Movers : move[m].todo = {}
  BY DEF SettleInv, SettleTyped
<1>2. CASE \E i \in DOMAIN snapshots : /\ snapshots[i].agent = a
                                       /\ snapshots[i].tokens = v
  <2>1. PICK i \in DOMAIN snapshots : /\ snapshots[i].agent = a
                                      /\ snapshots[i].tokens = v
    BY <1>2
  <2>2. S = {} \cup {i}
    BY <2>1 DEF SnapshotInv, SnapshotOnce
  <2>3. f[i] = v /\ \A x \in {} \cup {i} : f[x] \in Int
    BY <2>1
  <2>4. IsFiniteSet({})
    BY FS_EmptySet
  <2> HIDE DEF f, S
  <2>5. /\ SumFunctionOnSet(f, {} \cup {i}) = SumFunctionOnSet(f, {}) + f[i]
        /\ SumFunctionOnSet(f, {}) = 0
    BY <2>3, <2>4, SumAdds, SumEmpty
  <2>6. SumFunctionOnSet(f, S) = v
    BY <2>2, <2>3, <2>5
  <2>7. QED
    BY <2>6 DEF SnapshotTokens, f, S
<1>3. CASE v = 0 /\ \A i \in DOMAIN snapshots : snapshots[i].agent # a
  <2>1. S = {}
    BY <1>3
  <2> HIDE DEF f
  <2>2. SumFunctionOnSet(f, S) = 0
    BY <2>1, SumEmpty
  <2>3. QED
    BY <1>3, <2>2 DEF SnapshotTokens, f
<1>4. QED
  BY <1>1, <1>2, <1>3 DEF Shown

\* With one transition request at a time, and awards that are natural numbers
\* with a largest (the code does not refuse a negative acceptance ratio, whose
\* award would lower the balance after the snapshot), the approvals that run
\* past the lock are all that the snapshot misses: one award of each handler.
THEOREM SnapshotMissesAlwaysBounded ==
  OneMover /\ AwardsBounded /\ SettleSpec => []SnapshotMissesBounded
<1> SUFFICES ASSUME OneMover, AwardsBounded
             PROVE  SettleSpec => []SnapshotMissesBounded
  OBVIOUS
<1>1. SettleInv /\ SnapshotInv /\ MissInv => SnapshotMissesBounded
  <2> SUFFICES ASSUME SettleInv, SnapshotInv, MissInv, Captured, crashes = 0,
                      faults = 0, NEW a \in Agents
               PROVE  Balance(a) - SnapshotTokens(a)
                        <= Cardinality(Handlers) * MaxAward
    BY DEF SnapshotMissesBounded
  <2>1. PICK v \in Int : Shown(a, v) /\ Covers(a, v)
    BY DEF MissInv, Captured
  <2>2. SnapshotTokens(a) = v
    BY <2>1, SnapshotShows DEF Captured
  <2> DEFINE n == Cardinality(MayBook)
             H == Cardinality(Handlers)
             M == MaxAward
  <2>3. Balance(a) \in Int /\ Balance(a) + n * M <= v + H * M
    BY <2>1, ConfirmedFinite DEF Covers, SettleInv, DraftInv
  <2>4. M \in Nat /\ n \in Nat /\ H \in Nat
    BY LargestAward, MayBookCounted
  <2>5. n * M \in Nat /\ H * M \in Nat
    BY <2>4
  <2> HIDE DEF n, H, M
  <2>6. Balance(a) - v <= H * M
    BY <2>3, <2>5
  <2>7. QED
    BY <2>2, <2>6 DEF H, M
<1>2. QED
  BY <1>1, MissInvariant, PTL
=============================================================================
