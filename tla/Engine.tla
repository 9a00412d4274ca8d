------------------------------- MODULE Engine -------------------------------
(***************************************************************************)
(* The eight-step execution engine (internal/execution/execution.go) and   *)
(* the tables every call of it reads or writes, for one covenant.          *)
(*                                                                         *)
(* The server opens SQLite with one connection, so a statement, or a       *)
(* transaction, is atomic; the HTTP handlers that call Engine.Run are      *)
(* goroutines, so two calls interleave between any two statements.  A      *)
(* handler is therefore a process with a program counter, and one action   *)
(* is one statement (or one transaction) with the Go code up to the next.  *)
(*                                                                         *)
(* What a tool decides (CheckPreconditions, ExecuteLogic, ApplySideEffects)*)
(* is left open here: the actions that end those steps succeed or fail     *)
(* freely.  The tool modules constrain these actions and so implement this *)
(* specification, from which they inherit what EngineProofs proves.        *)
(***************************************************************************)
EXTENDS Integers, Sequences, FiniteSets

CONSTANTS
  Handlers,        \* request goroutines that may be inside Run together
  Agents,          \* members of the covenant
  States,          \* covenants.state
  Statuses,        \* covenant_members.status
  Tools,           \* tool names
  ClauseTools,     \* the tools whose ToolType() is "clause"
  Calls,           \* the requests clients may send
  Refs,            \* ids a call names or creates: drafts and log ids
  Tokens,          \* token deltas a tool may compute
  MaxCost,         \* largest cost estimate of a call, in minor units
  Limits,          \* budget limits the owner may set; 0 or less is unlimited
  RateLimit,       \* clause calls per agent and hour; 0 is unlimited
  CurrencyMatches, \* covenants.budget_currency is the tools' "USD"
  MaxCalls, MaxHours, MaxCrashes, MaxFaults   \* bounds of the model

CallType == [tool  : Tools,      \* the endpoint
             agent : Agents,     \* X-Agent-ID, or the owner
             cost  : 0..MaxCost, \* EstimateCost
             ref   : Refs,       \* draft_id or log_id parameter
             by    : {"draft", "log"}, \* which of the two it is
             award : Tokens,     \* what unit_count and ratio amount to
             units : BOOLEAN]    \* unit_count > 0

ASSUME ConstantsAssumption ==
  /\ IsFiniteSet(Handlers)
  /\ ClauseTools \subseteq Tools
  /\ Calls # {} /\ Calls \subseteq CallType
  /\ MaxCost \in Nat /\ RateLimit \in Nat /\ Limits \subseteq Int
  /\ 0 \in Tokens /\ Tokens \subseteq Int
  /\ MaxCalls \in Nat /\ 0 \in Refs
  /\ States # {}
  /\ MaxHours \in Nat /\ MaxCrashes \in Nat /\ MaxFaults \in Nat
  /\ CurrencyMatches \in BOOLEAN
  /\ "active" \in Statuses

VARIABLES
  covState,      \* covenants.state
  memberStatus,  \* covenant_members.status, by agent
  callCount,     \* rate_limit_counters.call_count of this hour, by agent
  budget,        \* the budget_counters row, if there is one
  reservations,  \* budget_reservations, in the order they were inserted
  auditLog,      \* audit_logs in sequence order: a row's index is its
                 \* sequence, and stands for its log_id too
  pc,            \* by handler: the step of Run that comes next
  run,           \* by handler: the local variables of Run
  calls, hours, crashes, faults   \* counters of the bounds

tables == <<covState, memberStatus, callCount, budget, reservations, auditLog>>
bounds == <<calls, hours, crashes, faults>>
engineVars == <<tables, pc, run, bounds>>
-----------------------------------------------------------------------------
Labels == {"idle", "getCovenant", "getMember", "rateLimit", "preconditions",
           "reserve", "execute", "effects", "audit", "apply", "spend",
           "settle", "release", "releaseReject", "reject"}

Effects == [tokens : Tokens, ref : Refs, after : States]

AuditRow == [tool : Tools, agent : Agents, result : {"success", "rejected"},
             tokens : Tokens, cost : 0..MaxCost, ref : Refs,
             before : States, after : States]

Reservation == [amount : 1..MaxCost, log : Nat,
                status : {"reserved", "settled", "released"}]

RunLocals == [no : 0..MaxCalls, call : Calls, state : States,
              resv : Nat, log : Nat, eff : Effects]

\* What the locals of a handler outside Run are set to.
NoRun ==
  LET s == CHOOSE s \in States : TRUE
  IN [no |-> 0, call |-> CHOOSE c \in Calls : TRUE, state |-> s, resv |-> 0,
      log |-> 0, eff |-> [tokens |-> 0, ref |-> 0, after |-> s]]

TypeOK ==
  /\ covState \in States
  /\ memberStatus \in [Agents -> Statuses]
  /\ callCount \in [Agents -> Nat]
  /\ budget \in [exists : BOOLEAN, limit : Int, spent : Nat]
  /\ reservations \in Seq(Reservation)
  /\ auditLog \in Seq(AuditRow)
  /\ pc \in [Handlers -> Labels]
  /\ run \in [Handlers -> RunLocals]
  /\ calls \in 0..MaxCalls
  /\ hours \in Nat /\ crashes \in Nat /\ faults \in Nat

\* A covenant with active members, before its first call.
Init ==
  /\ covState \in States
  /\ memberStatus = [a \in Agents |-> "active"]
  /\ callCount = [a \in Agents |-> 0]
  /\ \/ budget = [exists |-> FALSE, limit |-> 0, spent |-> 0]
     \/ \E l \in Limits : budget = [exists |-> TRUE, limit |-> l, spent |-> 0]
  /\ reservations = <<>>
  /\ auditLog = <<>>
  /\ pc = [r \in Handlers |-> "idle"]
  /\ run = [r \in Handlers |-> NoRun]
  /\ calls = 0 /\ hours = 0 /\ crashes = 0 /\ faults = 0
-----------------------------------------------------------------------------
At(r, label) == pc[r] = label
Goto(r, label) == pc' = [pc EXCEPT ![r] = label]

\* Run returns: its locals are gone.
Return(r) ==
  /\ Goto(r, "idle")
  /\ run' = [run EXCEPT ![r] = NoRun]

\* A statement fails (disk full, I/O error, SQLITE_BUSY).
StatementFails ==
  /\ faults < MaxFaults
  /\ faults' = faults + 1
  /\ UNCHANGED <<calls, hours, crashes>>

\* The locals of Run as it begins to serve call c.
RunOf(n, c) ==
  [no |-> n, call |-> c, state |-> NoRun.state, resv |-> 0, log |-> 0,
   eff |-> NoRun.eff]

\* A request arrives, is authenticated and enters Run.
Begin(r) ==
  /\ At(r, "idle")
  /\ calls < MaxCalls
  /\ calls' = calls + 1
  /\ Goto(r, "getCovenant")
  /\ \E c \in Calls : run' = [run EXCEPT ![r] = RunOf(calls + 1, c)]
  /\ UNCHANGED <<tables, hours, crashes, faults>>

\* Step 1: the covenant's state is read once, and used to the end of the call.
GetCovenant(r) ==
  /\ At(r, "getCovenant")
  /\ run' = [run EXCEPT ![r].state = covState]
  /\ Goto(r, "getMember")
  /\ UNCHANGED <<tables, bounds>>

\* Step 1: the caller's membership; a refusal here leaves no audit row.
GetMember(r) ==
  /\ At(r, "getMember")
  /\ IF memberStatus[run[r].call.agent] = "active"
     THEN Goto(r, "rateLimit") /\ UNCHANGED run
     ELSE Return(r)
  /\ UNCHANGED <<tables, bounds>>

\* A read of Step 1 fails: Run returns, and nothing is logged.
IdentityFails(r) ==
  /\ At(r, "getCovenant") \/ At(r, "getMember")
  /\ StatementFails
  /\ Return(r)
  /\ UNCHANGED tables

\* A statement of Step 1.5, 2 or 2.5 fails, which is logged as a rejection.
\* Only clause tools and charged calls have one in Steps 1.5 and 2.5.
GateFails(r) ==
  /\ \/ At(r, "rateLimit") /\ run[r].call.tool \in ClauseTools
     \/ At(r, "preconditions")
     \/ At(r, "reserve") /\ run[r].call.cost > 0
  /\ StatementFails
  /\ Goto(r, "reject")
  /\ UNCHANGED <<tables, run>>

RateLimited(c) == c.tool \in ClauseTools /\ RateLimit > 0

\* Mutation of RateLimitGate: the limit itself still passes.
RateLimitGateOffByOne(r) ==
  LET a == run[r].call.agent IN
  /\ At(r, "rateLimit")
  /\ IF RateLimited(run[r].call) /\ callCount[a] > RateLimit
     THEN Goto(r, "reject") /\ UNCHANGED callCount
     ELSE /\ Goto(r, "preconditions")
          /\ callCount' = [callCount EXCEPT ![a] = @ + 1]
  /\ UNCHANGED <<covState, memberStatus, budget, reservations, auditLog, run,
                 bounds>>

\* Step 1.5: CheckAndIncrement, one upsert that increments below the limit.
RateLimitGate(r) ==
  LET a == run[r].call.agent IN
  /\ At(r, "rateLimit")
  /\ \/ /\ ~RateLimited(run[r].call)
        /\ Goto(r, "preconditions")
        /\ UNCHANGED callCount
     \/ /\ RateLimited(run[r].call)
        /\ callCount[a] < RateLimit
        /\ callCount' = [callCount EXCEPT ![a] = @ + 1]
        /\ Goto(r, "preconditions")
     \/ /\ RateLimited(run[r].call)
        /\ callCount[a] >= RateLimit
        /\ Goto(r, "reject")
        /\ UNCHANGED callCount
  /\ UNCHANGED <<covState, memberStatus, budget, reservations, auditLog, run,
                 bounds>>

\* Step 2: the tool's CheckPreconditions.
PreconditionsPass(r) ==
  /\ At(r, "preconditions")
  /\ Goto(r, "reserve")
  /\ UNCHANGED <<tables, run, bounds>>

PreconditionsFail(r) ==
  /\ At(r, "preconditions")
  /\ Goto(r, "reject")
  /\ UNCHANGED <<tables, run, bounds>>

Exhausted(cost) == budget.limit > 0 /\ budget.limit - budget.spent < cost

\* Mutation of CheckAndReserve: the reservation is made without the comparison.
CheckAndReserveUnchecked(r) ==
  /\ At(r, "reserve")
  /\ reservations' = Append(reservations,
       [amount |-> run[r].call.cost, log |-> 0, status |-> "reserved"])
  /\ run' = [run EXCEPT ![r].resv = Len(reservations) + 1]
  /\ Goto(r, "execute")
  /\ UNCHANGED <<covState, memberStatus, callCount, budget, auditLog, bounds>>

\* Step 2.5: CheckAndReserve compares with the counter and inserts a
\* reservation row; it does not deduct, and never looks at other reservations.
CheckAndReserve(r) ==
  LET cost == run[r].call.cost IN
  /\ At(r, "reserve")
  /\ \/ /\ cost = 0 \/ ~budget.exists
        /\ Goto(r, "execute")
        /\ UNCHANGED <<reservations, run>>
     \/ /\ cost > 0 /\ budget.exists /\ Exhausted(cost)
        /\ Goto(r, "reject")
        /\ UNCHANGED <<reservations, run>>
     \/ /\ cost > 0 /\ budget.exists /\ ~Exhausted(cost)
        /\ reservations' = Append(reservations,
             [amount |-> cost, log |-> 0, status |-> "reserved"])
        /\ run' = [run EXCEPT ![r].resv = Len(reservations) + 1]
        /\ Goto(r, "execute")
  /\ UNCHANGED <<covState, memberStatus, callCount, budget, auditLog, bounds>>

\* Step 3: the tool's ExecuteLogic, and what Step 4 will derive from it.
ExecuteSucceeds(r, eff) ==
  /\ At(r, "execute")
  /\ eff \in Effects
  /\ run' = [run EXCEPT ![r].eff = eff]
  /\ Goto(r, "effects")
  /\ UNCHANGED <<tables, bounds>>

\* ExecuteLogic drops the error of a read and goes on without its answer.
ExecuteOverlooks(r, eff) ==
  /\ At(r, "execute")
  /\ eff \in Effects
  /\ StatementFails
  /\ run' = [run EXCEPT ![r].eff = eff]
  /\ Goto(r, "effects")
  /\ UNCHANGED tables

\* Mutation of ExecuteFails: the reservation is not released.
ExecuteFailsUnreleased(r) ==
  /\ At(r, "execute")
  /\ Goto(r, "reject")
  /\ UNCHANGED <<tables, run, bounds>>

ExecuteFails(r) ==
  /\ At(r, "execute")
  /\ Goto(r, "releaseReject")
  /\ UNCHANGED <<tables, run, bounds>>

\* A statement of ExecuteLogic fails.
ExecuteStatementFails(r) ==
  /\ At(r, "execute")
  /\ StatementFails
  /\ Goto(r, "releaseReject")
  /\ UNCHANGED <<tables, run>>

\* Step 4: the charge of the call is its estimate; no tool sets a currency of
\* its own, so a covenant whose currency is not USD refuses every charge.
CalculateEffects(r) ==
  /\ At(r, "effects")
  /\ Goto(r, IF run[r].call.cost > 0 /\ ~CurrencyMatches
             THEN "releaseReject" ELSE "audit")
  /\ UNCHANGED <<tables, run, bounds>>

\* Mutation of SuccessRow: the row is logged without its cost.
SuccessRowUncosted(r) ==
  [tool |-> run[r].call.tool, agent |-> run[r].call.agent,
   result |-> "success", tokens |-> run[r].eff.tokens,
   cost |-> 0, ref |-> run[r].eff.ref,
   before |-> run[r].state, after |-> run[r].eff.after]

SuccessRow(r) ==
  [tool |-> run[r].call.tool, agent |-> run[r].call.agent,
   result |-> "success", tokens |-> run[r].eff.tokens,
   cost |-> run[r].call.cost, ref |-> run[r].eff.ref,
   before |-> run[r].state, after |-> run[r].eff.after]

RejectedRow(r) ==
  [tool |-> run[r].call.tool, agent |-> run[r].call.agent,
   result |-> "rejected", tokens |-> 0, cost |-> 0, ref |-> run[r].call.ref,
   before |-> run[r].state, after |-> run[r].state]

\* Step 5: LogEvent, one transaction that appends the next row of the chain.
WriteAuditLog(r) ==
  /\ At(r, "audit")
  /\ auditLog' = Append(auditLog, SuccessRow(r))
  /\ run' = [run EXCEPT ![r].log = Len(auditLog) + 1]
  /\ Goto(r, "apply")
  /\ UNCHANGED <<covState, memberStatus, callCount, budget, reservations,
                 bounds>>

AuditLogFails(r) ==
  /\ At(r, "audit")
  /\ StatementFails
  /\ Goto(r, "release")
  /\ UNCHANGED <<tables, run>>

\* Step 6: the tool's ApplySideEffects, of which the engine sees the end.
ApplySucceeds(r) ==
  /\ At(r, "apply")
  /\ Goto(r, "spend")
  /\ UNCHANGED <<tables, run, bounds>>

\* Mutation of ApplyRefund: the counter is not kept from falling below zero.
ApplyRefundUnclamped(r, amount) ==
  /\ At(r, "apply")
  /\ budget' = [budget EXCEPT !.spent = IF budget.exists THEN @ - amount ELSE @]
  /\ Goto(r, "spend")
  /\ UNCHANGED <<covState, memberStatus, callCount, reservations, auditLog,
                 run, bounds>>

\* Step 6 of reject_draft ends with budget.Release.
ApplyRefund(r, amount) ==
  /\ At(r, "apply")
  /\ budget' = [budget EXCEPT
                  !.spent = IF ~budget.exists THEN @
                            ELSE IF @ < amount THEN 0 ELSE @ - amount]
  /\ Goto(r, "spend")
  /\ UNCHANGED <<covState, memberStatus, callCount, reservations, auditLog,
                 run, bounds>>

\* ApplySideEffects returns an error: the charge is dropped, the row stays.
ApplyFails(r) ==
  /\ At(r, "apply")
  /\ Goto(r, "release")
  /\ UNCHANGED <<tables, run, bounds>>

\* A statement of ApplySideEffects fails.
ApplyStatementFails(r) ==
  /\ At(r, "apply")
  /\ StatementFails
  /\ Goto(r, "release")
  /\ UNCHANGED <<tables, run>>

\* ApplySideEffects logs the error of a best-effort statement and succeeds.
ApplyOverlooks(r) ==
  /\ At(r, "apply")
  /\ StatementFails
  /\ Goto(r, "spend")
  /\ UNCHANGED <<tables, run>>

\* Mutation of RecordSpend: what was reserved is deducted besides the cost.
RecordSpendAndReservation(r) ==
  LET cost == run[r].call.cost IN
  /\ At(r, "spend")
  /\ budget' = IF budget.exists
                THEN [budget EXCEPT !.spent =
                        @ + cost + (IF run[r].resv = 0 THEN 0 ELSE cost)]
                ELSE budget
  /\ IF cost > 0 /\ run[r].resv # 0
     THEN Goto(r, "settle") /\ UNCHANGED run
     ELSE Return(r)
  /\ UNCHANGED <<covState, memberStatus, callCount, reservations, auditLog,
                 bounds>>

\* Step 7: RecordSpend, first statement: the deduction, unconditional.
RecordSpend(r) ==
  LET cost == run[r].call.cost IN
  /\ At(r, "spend")
  /\ budget' = IF budget.exists THEN [budget EXCEPT !.spent = @ + cost]
                                ELSE budget
  /\ IF cost > 0 /\ run[r].resv # 0
     THEN Goto(r, "settle") /\ UNCHANGED run
     ELSE Return(r)
  /\ UNCHANGED <<covState, memberStatus, callCount, reservations, auditLog,
                 bounds>>

RecordSpendFails(r) ==
  /\ At(r, "spend")
  /\ run[r].call.cost > 0
  /\ StatementFails
  /\ Return(r)
  /\ UNCHANGED tables

\* Mutation of SettleReservation: every open reservation of the covenant is
\* settled, not the call's own.
SettleReservationAll(r) ==
  /\ At(r, "settle")
  /\ reservations' = [i \in DOMAIN reservations |->
       IF reservations[i].status = "reserved"
       THEN [reservations[i] EXCEPT !.status = "settled", !.log = run[r].log]
       ELSE reservations[i]]
  /\ Return(r)
  /\ UNCHANGED <<covState, memberStatus, callCount, budget, auditLog, bounds>>

\* Step 7: RecordSpend, second statement; its error is dropped.
SettleReservation(r) ==
  /\ At(r, "settle")
  /\ \/ /\ reservations' = [reservations EXCEPT ![run[r].resv] =
             [amount |-> @.amount, log |-> run[r].log, status |-> "settled"]]
        /\ UNCHANGED bounds
     \/ StatementFails /\ UNCHANGED reservations
  /\ Return(r)
  /\ UNCHANGED <<covState, memberStatus, callCount, budget, auditLog>>

\* ReleaseReservation on the failure paths; its error is dropped too.  After a
\* failure of Step 3 or 4 a rejection is logged, after one of Step 5 or 6 not.
ReleaseReservation(r) ==
  /\ \/ /\ run[r].resv = 0
        /\ UNCHANGED <<reservations, bounds>>
     \/ /\ run[r].resv # 0
        /\ reservations' = [reservations EXCEPT
                              ![run[r].resv].status = "released"]
        /\ UNCHANGED bounds
     \/ run[r].resv # 0 /\ StatementFails /\ UNCHANGED reservations
  /\ \/ At(r, "release") /\ Return(r)
     \/ /\ At(r, "releaseReject")
        /\ Goto(r, "reject")
        /\ run' = [run EXCEPT ![r].resv = 0]
  /\ UNCHANGED <<covState, memberStatus, callCount, budget, auditLog>>

\* logRejection: one transaction, its error dropped; then Run returns.
LogRejection(r) ==
  /\ At(r, "reject")
  /\ \/ auditLog' = Append(auditLog, RejectedRow(r)) /\ UNCHANGED bounds
     \/ StatementFails /\ UNCHANGED auditLog
  /\ Return(r)
  /\ UNCHANGED <<covState, memberStatus, callCount, budget, reservations>>
-----------------------------------------------------------------------------
\* handleSetBudget: INSERT OR IGNORE, so only the first one has an effect.
SetBudget ==
  /\ ~budget.exists
  /\ \E l \in Limits : budget' = [exists |-> TRUE, limit |-> l, spent |-> 0]
  /\ UNCHANGED <<covState, memberStatus, callCount, reservations, auditLog,
                 pc, run, bounds>>

\* The fixed window of currentWindow() moves on: every bucket is a new row.
HourPasses ==
  /\ hours < MaxHours
  /\ hours' = hours + 1
  /\ callCount' = [a \in Agents |-> 0]
  /\ UNCHANGED <<covState, memberStatus, budget, reservations, auditLog, pc,
                 run, calls, crashes, faults>>

\* The server dies and restarts: the calls in flight are gone, the tables stay.
Crash ==
  /\ crashes < MaxCrashes
  /\ \E r \in Handlers : ~At(r, "idle")
  /\ crashes' = crashes + 1
  /\ pc' = [r \in Handlers |-> "idle"]
  /\ run' = [r \in Handlers |-> NoRun]
  /\ UNCHANGED <<tables, calls, hours, faults>>

\* What other handlers do to the two columns Step 1 reads.
CovenantChanges ==
  /\ covState' \in States
  /\ UNCHANGED <<memberStatus, callCount, budget, reservations, auditLog, pc,
                 run, bounds>>

MemberChanges ==
  /\ \E a \in Agents, s \in Statuses :
       memberStatus' = [memberStatus EXCEPT ![a] = s]
  /\ UNCHANGED <<covState, callCount, budget, reservations, auditLog, pc, run,
                 bounds>>

\* The steps that are the engine's own, whatever the tool.
EngineStep(r) ==
  \/ GetCovenant(r) \/ GetMember(r) \/ IdentityFails(r) \/ RateLimitGate(r)
  \/ GateFails(r) \/ CheckAndReserve(r) \/ ExecuteStatementFails(r)
  \/ CalculateEffects(r) \/ WriteAuditLog(r)
  \/ AuditLogFails(r) \/ ApplyStatementFails(r) \/ RecordSpend(r)
  \/ RecordSpendFails(r) \/ SettleReservation(r) \/ ReleaseReservation(r)
  \/ LogRejection(r)

\* The steps whose outcome the tool decides.
ToolStep(r) ==
  \/ PreconditionsPass(r) \/ PreconditionsFail(r)
  \/ \E eff \in Effects : ExecuteSucceeds(r, eff) \/ ExecuteOverlooks(r, eff)
  \/ ExecuteFails(r)
  \/ ApplySucceeds(r) \/ ApplyFails(r) \/ ApplyOverlooks(r)
  \/ \E amount \in 1..MaxCost : ApplyRefund(r, amount)

Environment == SetBudget \/ HourPasses \/ Crash

Next ==
  \/ \E r \in Handlers : Begin(r) \/ EngineStep(r) \/ ToolStep(r)
  \/ Environment \/ CovenantChanges \/ MemberChanges

Spec == Init /\ [][Next]_engineVars

\* A goroutine that has begun runs on: net/http never abandons a handler.
Fairness == \A r \in Handlers : WF_engineVars(EngineStep(r) \/ ToolStep(r))
FairSpec == Spec /\ Fairness
-----------------------------------------------------------------------------
(* Properties.                                                             *)

\* Handlers that hold reservation i.
Holders(i) == {r \in Handlers : run[r].resv = i}

Orphans == {i \in DOMAIN reservations :
              reservations[i].status = "reserved" /\ Holders(i) = {}}

\* Handlers past the gate of Step 2.5 whose spend may still be recorded.
Unsettled == {r \in Handlers :
                pc[r] \in {"execute", "effects", "audit", "apply", "spend"}}

\* A settled reservation names the audit row of the charge it was made for: a
\* success of the same amount (authorize, log, settle; never in another order).
SettledIsLogged ==
  \A i \in DOMAIN reservations :
    reservations[i].status = "settled" =>
      LET l == reservations[i].log IN
        /\ l \in DOMAIN auditLog
        /\ auditLog[l].result = "success"
        /\ auditLog[l].cost = reservations[i].amount

\* Two reservations are never settled by one audit row: no charge is taken
\* twice, however the calls interleave and wherever the server dies.
SettledOnce ==
  \A i, j \in DOMAIN reservations :
    /\ reservations[i].status = "settled"
    /\ reservations[j].status = "settled"
    /\ reservations[i].log = reservations[j].log
    => i = j

\* The gate of CheckAndReserve does not deduct, so concurrent calls overshoot
\* the limit; but by no more than a call of each handler but one, and one
\* call alone never does.  (Calls that began before there was a limit may
\* reach it together, and a limit that is lowered may be passed already.)
OvershootBounded ==
  budget.exists /\ budget.limit >= MaxCost =>
    budget.spent <= budget.limit + (Cardinality(Handlers) - 1) * MaxCost

\* A reservation stays "reserved" without a call that will resolve it only
\* where the server died or a statement whose error is dropped failed.
OrphansExplained ==
  Cardinality(Orphans) <= Cardinality(Handlers) * crashes + faults

ClauseRows(a) ==
  {l \in DOMAIN auditLog : /\ auditLog[l].agent = a
                           /\ auditLog[l].tool \in ClauseTools
                           /\ auditLog[l].result = "success"}

Admitted(a) ==
  {r \in Handlers : /\ run[r].call.agent = a
                    /\ run[r].call.tool \in ClauseTools
                    /\ pc[r] \in {"preconditions", "reserve", "execute",
                                  "effects", "audit"}}

\* The hourly quota holds under concurrency: what an agent's clause calls have
\* logged, and may still log, fits in the hours that have begun.
QuotaRespected ==
  RateLimit > 0 =>
    \A a \in Agents :
      Cardinality(ClauseRows(a)) + Cardinality(Admitted(a))
        <= RateLimit * (hours + 1)

\* No step waits for another call: every call that has begun returns.
CallsReturn == \A r \in Handlers : (pc[r] # "idle") ~> (pc[r] = "idle")
=============================================================================
