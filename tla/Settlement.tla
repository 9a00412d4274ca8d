----------------------------- MODULE Settlement -----------------------------
(***************************************************************************)
(* How an ACTIVE covenant is locked, snapshotted and settled: the owner's  *)
(* transition requests (internal/covenant/covenant.go, tokens/snapshot.go),*)
(* which bypass the engine, and the tools generate_settlement_output and   *)
(* confirm_settlement_output, which it runs beside the contribution tools. *)
(*                                                                         *)
(* DRAFT and OPEN come before everything here: no contribution is booked   *)
(* before ACTIVE, and a covenant never returns to them.                    *)
(***************************************************************************)
EXTENDS DraftTools

CONSTANTS
  Movers,     \* request goroutines inside handleTransition
  MaxMoves,   \* bound: transition requests that are let through
  TwinBound   \* covenants.git_twin_url is set

ASSUME SettlementAssumption ==
  /\ {"generate_settlement_output", "confirm_settlement_output"}
       \subseteq Tools \ ClauseTools
  /\ MaxMoves \in Nat /\ TwinBound \in BOOLEAN

VARIABLES
  outputs,    \* settlement_outputs, in the order they were inserted
  snapshots,  \* token_snapshots, in the order they were inserted
  anchors,    \* git_twin_anchors, in the order they were inserted
  work,       \* by handler: the local variables of a settlement tool
  move,       \* by mover: the local variables of Transition
  moves       \* counter of the bound

settleVars == <<outputs, snapshots, anchors, work, move, moves>>
allVars == <<vars, settleVars>>
-----------------------------------------------------------------------------
transitions == [DRAFT |-> "OPEN", OPEN |-> "ACTIVE", ACTIVE |-> "LOCKED",
                LOCKED |-> "SETTLED"]

Allowed(from, to) == from \in DOMAIN transitions /\ transitions[from] = to

WorkLabels == {"start", "total", "save", "transition", "flip", "rollup",
               "anchor"}

NoWork == [sub |-> "start", shares |-> [a \in Agents |-> 0], rows |-> 0]

Resting == [step |-> "idle", from |-> "ACTIVE", to |-> "ACTIVE", todo |-> {}]

SnapshotRow == [agent : Agents, tokens : Int, cost : Nat]

Output == [log : Nat \ {0}, shares : [Agents -> Int],
           status : {"pending_confirmation", "confirmed"}]

\* A roll-up hash commits to the snapshot rows it was computed from; they are
\* only ever added to, so their number stands for it.
Anchor == [output : Nat \ {0}, rows : Nat]

SettleTypeOK ==
  /\ DraftTypeOK
  /\ outputs \in Seq(Output)
  /\ snapshots \in Seq(SnapshotRow)
  /\ anchors \in Seq(Anchor)
  /\ \A i \in DOMAIN anchors : anchors[i].output \in DOMAIN outputs
  /\ work \in [Handlers -> [sub : WorkLabels, shares : [Agents -> Int],
                            rows : 0..Len(snapshots)]]
  /\ \A m \in Movers :
       /\ move[m].step \in {"idle", "flip", "capture", "insert"}
       /\ move[m].from \in States /\ move[m].to \in States
       /\ move[m].todo \subseteq SnapshotRow
       /\ move[m].step = "insert" <=> move[m].todo # {}

SettleInit ==
  /\ DraftInit
  /\ outputs = <<>> /\ snapshots = <<>> /\ anchors = <<>>
  /\ work = [r \in Handlers |-> NoWork]
  /\ move = [m \in Movers |-> Resting]
  /\ moves = 0
-----------------------------------------------------------------------------
(* The tools.                                                              *)

AtWork(r, tool, sub) == Tool(r, tool) /\ work[r].sub = sub
GotoWork(r, sub) == work' = [work EXCEPT ![r].sub = sub]
Clear(r) == work' = [work EXCEPT ![r] = NoWork]

GenerateCheck(r) ==
  /\ Tool(r, "generate_settlement_output")
  /\ Check(r, /\ run[r].call.agent = Owner
              /\ run[r].state \in {"LOCKED", "ACTIVE"})
  /\ UNCHANGED settleVars

GenerateExecute(r) ==
  /\ Tool(r, "generate_settlement_output")
  /\ ExecuteSucceeds(r, EffectOf(r, 0, 0))
  /\ UNCHANGED <<draftVars, settleVars>>

\* Generate asks for the state again, after the call was logged.
GenerateGet(r) ==
  /\ AtWork(r, "generate_settlement_output", "start")
  /\ \/ /\ At(r, "apply")
        /\ covState \in {"LOCKED", "ACTIVE"}
        /\ GotoWork(r, "total")
        /\ UNCHANGED engineVars
     \/ /\ covState \notin {"LOCKED", "ACTIVE"}
        /\ ApplyFails(r)
        /\ UNCHANGED work
  /\ UNCHANGED <<draftVars, outputs, snapshots, anchors, move, moves>>

\* TotalByAgent: what the distributions are computed from.
GenerateTotal(r) ==
  /\ AtWork(r, "generate_settlement_output", "total")
  /\ At(r, "apply")
  /\ work' = [work EXCEPT ![r].sub = "save",
                          ![r].shares = [a \in Agents |-> Balance(a)]]
  /\ UNCHANGED <<engineVars, draftVars, outputs, snapshots, anchors, move,
                 moves>>

\* Mutations of GenerateSave: the trigger is the newest row of the log; the
\* status has another name; the output is confirmed as it is saved.
GenerateSaveLatest(r) ==
  /\ AtWork(r, "generate_settlement_output", "save")
  /\ outputs' = Append(outputs, [log |-> Len(auditLog),
                                 shares |-> work[r].shares,
                                 status |-> "pending_confirmation"])
  /\ ApplySucceeds(r)
  /\ Clear(r)
  /\ UNCHANGED <<draftVars, snapshots, anchors, move, moves>>

GenerateSaveRenamed(r) ==
  /\ AtWork(r, "generate_settlement_output", "save")
  /\ outputs' = Append(outputs, [log |-> run[r].log, shares |-> work[r].shares,
                                 status |-> "pending"])
  /\ ApplySucceeds(r)
  /\ Clear(r)
  /\ UNCHANGED <<draftVars, snapshots, anchors, move, moves>>

GenerateSaveConfirmed(r) ==
  /\ AtWork(r, "generate_settlement_output", "save")
  /\ outputs' = Append(outputs, [log |-> run[r].log, shares |-> work[r].shares,
                                 status |-> "confirmed"])
  /\ ApplySucceeds(r)
  /\ Clear(r)
  /\ UNCHANGED <<draftVars, snapshots, anchors, move, moves>>

GenerateSave(r) ==
  /\ AtWork(r, "generate_settlement_output", "save")
  /\ outputs' = Append(outputs, [log |-> run[r].log, shares |-> work[r].shares,
                                 status |-> "pending_confirmation"])
  /\ ApplySucceeds(r)
  /\ Clear(r)
  /\ UNCHANGED <<draftVars, snapshots, anchors, move, moves>>

ConfirmOutputCheck(r) ==
  LET o == run[r].call.ref IN
  /\ Tool(r, "confirm_settlement_output")
  /\ Check(r, /\ run[r].call.agent = Owner
              /\ run[r].state = "LOCKED"
              /\ o \in DOMAIN outputs
              /\ outputs[o].status = "pending_confirmation")
  /\ UNCHANGED settleVars

ConfirmOutputExecute(r) ==
  /\ Tool(r, "confirm_settlement_output")
  /\ ExecuteSucceeds(r, [tokens |-> 0, ref |-> run[r].call.ref,
                         after |-> "SETTLED"])
  /\ UNCHANGED <<draftVars, settleVars>>

\* The output is confirmed without asking again what its status is.
ConfirmOutputMark(r) ==
  /\ AtWork(r, "confirm_settlement_output", "start")
  /\ At(r, "apply")
  /\ outputs' = [outputs EXCEPT ![run[r].eff.ref].status = "confirmed"]
  /\ GotoWork(r, "transition")
  /\ UNCHANGED <<engineVars, draftVars, snapshots, anchors, move, moves>>

\* Transition(SETTLED), first statement.
ConfirmOutputGet(r) ==
  /\ AtWork(r, "confirm_settlement_output", "transition")
  /\ \/ /\ At(r, "apply")
        /\ Allowed(covState, "SETTLED")
        /\ GotoWork(r, "flip")
        /\ UNCHANGED engineVars
     \/ /\ ~Allowed(covState, "SETTLED")
        /\ ApplyFails(r)
        /\ Clear(r)
  /\ UNCHANGED <<draftVars, outputs, snapshots, anchors, move, moves>>

\* Mutation of ConfirmOutputFlip: the state is written back as it was read.
ConfirmOutputFlipLost(r) ==
  /\ AtWork(r, "confirm_settlement_output", "flip")
  /\ At(r, "apply")
  /\ Goto(r, IF TwinBound THEN "apply" ELSE "spend")
  /\ work' = [work EXCEPT ![r].sub = IF TwinBound THEN "rollup" ELSE "start"]
  /\ UNCHANGED <<tables, run, bounds, draftVars, outputs, snapshots, anchors,
                 move, moves>>

\* Transition(SETTLED), second statement: the state is set unconditionally.
ConfirmOutputFlip(r) ==
  /\ AtWork(r, "confirm_settlement_output", "flip")
  /\ At(r, "apply")
  /\ covState' = "SETTLED"
  /\ Goto(r, IF TwinBound THEN "apply" ELSE "spend")
  /\ work' = [work EXCEPT ![r].sub = IF TwinBound THEN "rollup" ELSE "start"]
  /\ UNCHANGED <<memberStatus, callCount, budget, reservations, auditLog, run,
                 bounds, draftVars, outputs, snapshots, anchors, move, moves>>

\* EnqueueAnchor reads the output, which does not change any more, and rolls
\* the snapshots up.
ConfirmOutputRollup(r) ==
  /\ AtWork(r, "confirm_settlement_output", "rollup")
  /\ At(r, "apply")
  /\ work' = [work EXCEPT ![r].sub = "anchor", ![r].rows = Len(snapshots)]
  /\ UNCHANGED <<engineVars, draftVars, outputs, snapshots, anchors, move,
                 moves>>

ConfirmOutputAnchor(r) ==
  /\ AtWork(r, "confirm_settlement_output", "anchor")
  /\ anchors' = Append(anchors, [output |-> run[r].eff.ref,
                                 rows |-> work[r].rows])
  /\ ApplySucceeds(r)
  /\ Clear(r)
  /\ UNCHANGED <<draftVars, outputs, snapshots, move, moves>>

\* An anchor that cannot be enqueued is a soft error.
ConfirmOutputUnanchored(r) ==
  /\ \/ AtWork(r, "confirm_settlement_output", "rollup")
     \/ AtWork(r, "confirm_settlement_output", "anchor")
  /\ ApplyOverlooks(r)
  /\ Clear(r)
  /\ UNCHANGED <<draftVars, outputs, snapshots, anchors, move, moves>>

\* The engine's steps under a settlement tool, whose ExecuteLogic reads no
\* table; only confirm_settlement_output reads one in Step 2.
SettleEngineOnly(r) ==
  \/ /\ \/ GetCovenant(r) \/ GetMember(r) \/ IdentityFails(r)
        \/ RateLimitGate(r) \/ CheckAndReserve(r)
        \/ /\ GateFails(r)
           /\ At(r, "preconditions") => Tool(r, "confirm_settlement_output")
        \/ CalculateEffects(r) \/ WriteAuditLog(r) \/ AuditLogFails(r)
        \/ RecordSpend(r) \/ RecordSpendFails(r) \/ SettleReservation(r)
        \/ ReleaseReservation(r) \/ LogRejection(r)
     /\ UNCHANGED <<draftVars, settleVars>>
  \/ /\ ApplyStatementFails(r)
     /\ work[r].sub \notin {"rollup", "anchor"}
     /\ Clear(r)
     /\ UNCHANGED <<draftVars, outputs, snapshots, anchors, move, moves>>

IsSettlement(r) ==
  run[r].call.tool \in {"generate_settlement_output",
                        "confirm_settlement_output"}

GenerateStep(r) ==
  \/ GenerateCheck(r) \/ GenerateExecute(r) \/ GenerateGet(r)
  \/ GenerateTotal(r) \/ GenerateSave(r)

ConfirmOutputStep(r) ==
  \/ ConfirmOutputCheck(r) \/ ConfirmOutputExecute(r) \/ ConfirmOutputMark(r)
  \/ ConfirmOutputGet(r) \/ ConfirmOutputFlip(r) \/ ConfirmOutputRollup(r)
  \/ ConfirmOutputAnchor(r) \/ ConfirmOutputUnanchored(r)

ServeAll(r) ==
  \/ ~IsSettlement(r) /\ Serve(r) /\ UNCHANGED settleVars
  \/ IsSettlement(r) /\ SettleEngineOnly(r)
  \/ GenerateStep(r) \/ ConfirmOutputStep(r)
-----------------------------------------------------------------------------
(* The owner's transition requests.                                        *)

\* Transition, first statement; a request it refuses changes nothing.
MoveGet(m) ==
  /\ move[m].step = "idle"
  /\ moves < MaxMoves
  /\ moves' = moves + 1
  /\ \E to \in States :
       /\ Allowed(covState, to)
       /\ move' = [move EXCEPT ![m] = [Resting EXCEPT
                     !.step = "flip", !.from = covState, !.to = to]]
  /\ UNCHANGED <<vars, outputs, snapshots, anchors, work>>

\* Second statement: the state is set, whatever it is by now.
MoveFlip(m) ==
  LET locks == move[m].from = "ACTIVE" /\ move[m].to = "LOCKED" IN
  /\ move[m].step = "flip"
  /\ covState' = move[m].to
  /\ move' = IF locks THEN [move EXCEPT ![m].step = "capture"]
                      ELSE [move EXCEPT ![m] = Resting]
  /\ UNCHANGED <<memberStatus, callCount, budget, reservations, auditLog, pc,
                 run, bounds, draftVars, outputs, snapshots, anchors, work,
                 moves>>

LoggedCost(a) ==
  SumFunctionOnSet(
    [l \in DOMAIN auditLog |-> auditLog[l].cost],
    {l \in DOMAIN auditLog : /\ auditLog[l].agent = a
                             /\ auditLog[l].result = "success"})

\* Mutations of SnapshotRows: a row for each entry, not for each agent; an
\* agent without cost is left out.
SnapshotRowsUngrouped ==
  {[agent |-> ledger[l].agent, tokens |-> ledger[l].delta,
    cost |-> LoggedCost(ledger[l].agent)] : l \in DOMAIN ledger}

SnapshotRowsOfCost ==
  {row \in {[agent |-> a, tokens |-> Balance(a), cost |-> LoggedCost(a)] :
              a \in Agents} : row.cost # 0}

\* One row for each member with confirmed tokens or logged cost.
SnapshotRows ==
  {row \in {[agent |-> a, tokens |-> Balance(a), cost |-> LoggedCost(a)] :
              a \in Agents} : row.tokens # 0 \/ row.cost # 0}

\* CaptureSnapshot, its query.
MoveCapture(m) ==
  /\ move[m].step = "capture"
  /\ move' = IF SnapshotRows = {} THEN [move EXCEPT ![m] = Resting]
             ELSE [move EXCEPT ![m].step = "insert", ![m].todo = SnapshotRows]
  /\ UNCHANGED <<vars, outputs, snapshots, anchors, work, moves>>

\* CaptureSnapshot, one INSERT.
MoveInsert(m) ==
  /\ move[m].step = "insert"
  /\ \E row \in move[m].todo :
       /\ snapshots' = Append(snapshots, row)
       /\ move' = IF move[m].todo = {row} THEN [move EXCEPT ![m] = Resting]
                  ELSE [move EXCEPT ![m].todo = @ \ {row}]
  /\ UNCHANGED <<vars, outputs, anchors, work, moves>>

\* A statement of Transition fails: what is done stays done.
MoveFails(m) ==
  /\ move[m].step # "idle"
  /\ StatementFails
  /\ move' = [move EXCEPT ![m] = Resting]
  /\ UNCHANGED <<tables, pc, run, draftVars, outputs, snapshots, anchors, work,
                 moves>>

MoveStep(m) == MoveFlip(m) \/ MoveCapture(m) \/ MoveInsert(m) \/ MoveFails(m)

\* The server dies: handlers and movers lose their locals.
ServerDies ==
  /\ crashes < MaxCrashes
  /\ \/ \E r \in Handlers : ~At(r, "idle")
     \/ \E m \in Movers : move[m].step # "idle"
  /\ crashes' = crashes + 1
  /\ pc' = [r \in Handlers |-> "idle"]
  /\ run' = [r \in Handlers |-> NoRun]
  /\ local' = [r \in Handlers |-> NoLocal]
  /\ work' = [r \in Handlers |-> NoWork]
  /\ move' = [m \in Movers |-> Resting]
  /\ UNCHANGED <<tables, calls, hours, faults, pending, ledger, outputs,
                 snapshots, anchors, moves>>

SettleNext ==
  \/ \E r \in Handlers :
       \/ Begin(r) /\ UNCHANGED <<draftVars, settleVars>>
       \/ ServeAll(r)
  \/ \E m \in Movers : MoveGet(m) \/ MoveStep(m)
  \/ ServerDies

SettleSpec == SettleInit /\ [][SettleNext]_allVars
-----------------------------------------------------------------------------
(* Properties.                                                             *)

ConfirmedOutputs ==
  {o \in DOMAIN outputs : outputs[o].status = "confirmed"}

Disturbances == Cardinality(Handlers) * crashes + faults

\* An anchor, which the bridge makes public and nothing withdraws, exists only
\* for a confirmed output of a covenant that is SETTLED and stays so.  (With
\* one transition request at a time: see the README.)
AnchoredIsSettled ==
  /\ anchors # <<>> => covState = "SETTLED"
  /\ \A i \in DOMAIN anchors :
       outputs[anchors[i].output].status = "confirmed"

\* Every output was logged first, as a success of generate_settlement_output
\* by the owner, and no row triggers two: trigger_log_id identifies it.
OutputIsTriggered ==
  \A o \in DOMAIN outputs :
    /\ Success(outputs[o].log, "generate_settlement_output")
    /\ auditLog[outputs[o].log].agent = Owner
    /\ \A p \in DOMAIN outputs : outputs[p].log = outputs[o].log => p = o

\* Confirmation marks first and asks for the transition afterwards, so calls
\* in flight together can confirm several outputs; but one for each handler,
\* and one more for each call that was cut off in between.
ConfirmedBounded ==
  Cardinality(ConfirmedOutputs) <= Cardinality(Handlers) + Disturbances

\* However the inserts of CaptureSnapshot fall between other statements, no
\* agent is counted twice.  (With one transition request at a time.)
SnapshotOnce ==
  \A i, j \in DOMAIN snapshots :
    snapshots[i].agent = snapshots[j].agent => i = j

SnapshotTokens(a) ==
  SumFunctionOnSet([i \in DOMAIN snapshots |-> snapshots[i].tokens],
                   {i \in DOMAIN snapshots : snapshots[i].agent = a})

Captured ==
  /\ covState \in {"LOCKED", "SETTLED"}
  /\ \A m \in Movers : move[m].step = "idle"

MaxAward == CHOOSE n \in {c.award : c \in Calls} :
              \A c \in Calls : c.award <= n

\* Approvals decided before the lock may be booked after the snapshot, which
\* then misses them: one award of each handler at most.
SnapshotMissesBounded ==
  Captured /\ crashes = 0 /\ faults = 0 =>
    \A a \in Agents :
      Balance(a) - SnapshotTokens(a) <= Cardinality(Handlers) * MaxAward

\* "ACTIVE -> LOCKED freezes the token ledger into a hashed per-agent
\* snapshot" (covenant.go:244): once it is captured, it agrees with the ledger.
LockFreezesLedger ==
  Captured /\ Quiet => \A a \in Agents : SnapshotTokens(a) = Balance(a)
=============================================================================
