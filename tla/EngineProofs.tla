---------------------------- MODULE EngineProofs ----------------------------
(***************************************************************************)
(* What holds of the engine for every set of handlers, agents and calls    *)
(* and every bound: its types and quota, the charge of a call, and what    *)
(* concurrent calls can add up to.                                         *)
(***************************************************************************)
EXTENDS Engine, FiniteSetTheorems, SequenceTheorems, TLAPS

LEMMA NoRunType == NoRun \in RunLocals
<1> DEFINE s == CHOOSE s \in States : TRUE
           c == CHOOSE c \in Calls : TRUE
<1>1. s \in States /\ c \in Calls
  BY ConstantsAssumption
<1>2. 0 \in 0..MaxCalls /\ 0 \in Tokens /\ 0 \in Refs
  BY ConstantsAssumption
<1>3. QED
  BY <1>1, <1>2 DEF NoRun, RunLocals, Effects

\* A call is what CallType says.
LEMMA CallTyped ==
  ASSUME NEW c \in Calls
  PROVE  /\ c.tool \in Tools /\ c.agent \in Agents /\ c.cost \in 0..MaxCost
         /\ c.ref \in Refs /\ c.award \in Tokens
BY ConstantsAssumption DEF CallType

\* The rows that the engine writes are typed.
LEMMA RowsTyped ==
  ASSUME TypeOK, NEW r \in Handlers
  PROVE  SuccessRow(r) \in AuditRow /\ RejectedRow(r) \in AuditRow
<1>1. run[r] \in RunLocals
  BY DEF TypeOK
<1>2. /\ run[r].call \in Calls /\ run[r].state \in States
      /\ run[r].eff.tokens \in Tokens /\ run[r].eff.ref \in Refs
      /\ run[r].eff.after \in States
  BY <1>1 DEF RunLocals, Effects
<1>3. 0 \in Tokens /\ 0 \in 0..MaxCost
  BY ConstantsAssumption
<1>4. QED
  BY <1>2, <1>3, CallTyped DEF SuccessRow, RejectedRow, AuditRow

\* Resolving a reservation changes that row, and no other.
LEMMA ReservationSettled ==
  ASSUME NEW s \in Seq(Reservation), NEW i \in 1..Len(s), NEW l \in Nat, NEW t,
         t = [s EXCEPT ![i] =
               [amount |-> @.amount, log |-> l, status |-> "settled"]]
  PROVE  /\ t \in Seq(Reservation) /\ Len(t) = Len(s)
         /\ \A j \in 1..Len(s) :
              /\ t[j].amount = s[j].amount
              /\ t[j].log = IF j = i THEN l ELSE s[j].log
              /\ t[j].status = IF j = i THEN "settled" ELSE s[j].status
<1> DEFINE e == [amount |-> s[i].amount, log |-> l, status |-> "settled"]
<1>1. s[i] \in Reservation
  BY LenProperties
<1>2. /\ e \in Reservation /\ e.amount = s[i].amount /\ e.log = l
      /\ e.status = "settled"
  BY <1>1 DEF Reservation
<1>3. t = [s EXCEPT ![i] = e]
  BY LenProperties
<1> HIDE DEF e
<1>4. /\ t \in Seq(Reservation) /\ Len(t) = Len(s)
      /\ \A j \in 1..Len(s) : t[j] = IF j = i THEN e ELSE s[j]
  BY <1>2, <1>3, ExceptSeq
<1>5. QED
  BY <1>2, <1>4

LEMMA ReservationReleased ==
  ASSUME NEW s \in Seq(Reservation), NEW i \in 1..Len(s),
         NEW t, t = [s EXCEPT ![i].status = "released"]
  PROVE  /\ t \in Seq(Reservation) /\ Len(t) = Len(s)
         /\ \A j \in 1..Len(s) :
              /\ t[j].amount = s[j].amount /\ t[j].log = s[j].log
              /\ t[j].status = IF j = i THEN "released" ELSE s[j].status
<1> DEFINE e == [s[i] EXCEPT !.status = "released"]
<1>1. s[i] \in Reservation
  BY LenProperties
<1>2. /\ e \in Reservation /\ e.amount = s[i].amount /\ e.log = s[i].log
      /\ e.status = "released"
  BY <1>1 DEF Reservation
<1>3. t = [s EXCEPT ![i] = e]
  BY LenProperties
<1> HIDE DEF e
<1>4. /\ t \in Seq(Reservation) /\ Len(t) = Len(s)
      /\ \A j \in 1..Len(s) : t[j] = IF j = i THEN e ELSE s[j]
  BY <1>2, <1>3, ExceptSeq
<1>5. QED
  BY <1>2, <1>4

\* An assignment of its type to one local of Run leaves the others alone.
LEMMA StateAssigned ==
  ASSUME NEW L \in RunLocals, NEW s \in States
  PROVE  [L EXCEPT !.state = s] \in RunLocals
BY DEF RunLocals

LEMMA ResvAssigned ==
  ASSUME NEW L \in RunLocals, NEW n \in Nat
  PROVE  [L EXCEPT !.resv = n] \in RunLocals
BY DEF RunLocals

LEMMA LogAssigned ==
  ASSUME NEW L \in RunLocals, NEW n \in Nat
  PROVE  [L EXCEPT !.log = n] \in RunLocals
BY DEF RunLocals

LEMMA EffAssigned ==
  ASSUME NEW L \in RunLocals, NEW e \in Effects
  PROVE  [L EXCEPT !.eff = e] \in RunLocals
BY DEF RunLocals

\* The budget_counters row, as the statements that write it leave it.
LEMMA CounterType ==
  ASSUME NEW e \in BOOLEAN, NEW l \in Int, NEW n \in Nat
  PROVE  [exists |-> e, limit |-> l, spent |-> n]
           \in [exists : BOOLEAN, limit : Int, spent : Nat]
OBVIOUS

LEMMA SpentAssigned ==
  ASSUME NEW b \in [exists : BOOLEAN, limit : Int, spent : Nat], NEW n \in Nat
  PROVE  [b EXCEPT !.spent = n] \in [exists : BOOLEAN, limit : Int, spent : Nat]
OBVIOUS

LEMMA RunOfType ==
  ASSUME NEW n \in 0..MaxCalls, NEW c \in Calls
  PROVE  RunOf(n, c) \in RunLocals
BY NoRunType DEF RunLocals, RunOf

LEMMA TypeInit == Init => TypeOK
<1> SUFFICES ASSUME Init PROVE TypeOK
  OBVIOUS
<1>1. "active" \in Statuses /\ MaxCalls \in Nat /\ Limits \subseteq Int
  BY ConstantsAssumption
<1>2. budget \in [exists : BOOLEAN, limit : Int, spent : Nat]
  <2>1. CASE budget = [exists |-> FALSE, limit |-> 0, spent |-> 0]
    BY <2>1
  <2>2. CASE \E l \in Limits :
               budget = [exists |-> TRUE, limit |-> l, spent |-> 0]
    <3>1. PICK l \in Limits :
            budget = [exists |-> TRUE, limit |-> l, spent |-> 0]
      BY <2>2
    <3>2. l \in Int
      BY <1>1, <3>1
    <3>3. QED
      BY <3>1, <3>2, CounterType
  <2>3. QED
    BY <2>1, <2>2 DEF Init
<1>3. run \in [Handlers -> RunLocals]
  BY NoRunType DEF Init
<1>4. QED
  BY <1>1, <1>2, <1>3 DEF Init, TypeOK, Labels

LEMMA TypeStep == TypeOK /\ [Next]_engineVars => TypeOK'
<1> SUFFICES ASSUME TypeOK, [Next]_engineVars PROVE TypeOK'
  OBVIOUS
<1> USE DEF At, Goto, Return, tables, bounds
<1>a. /\ run \in [Handlers -> RunLocals]
      /\ \A r \in Handlers : /\ run[r] \in RunLocals
                             /\ run[r].call \in Calls
                             /\ run[r].resv \in Nat /\ run[r].log \in Nat
  BY DEF TypeOK, RunLocals
<1>b. reservations \in Seq(Reservation) /\ auditLog \in Seq(AuditRow)
  BY DEF TypeOK
<1>1. ASSUME NEW r \in Handlers, Begin(r) PROVE TypeOK'
  <2>1. calls + 1 \in 0..MaxCalls
    BY <1>1, ConstantsAssumption DEF Begin, TypeOK
  <2>2. run' \in [Handlers -> RunLocals]
    BY <1>1, <1>a, <2>1, RunOfType DEF Begin
  <2>3. QED
    BY <1>1, <2>1, <2>2 DEF Begin, TypeOK, Labels
<1>2. ASSUME NEW r \in Handlers, GetCovenant(r) PROVE TypeOK'
  <2>1. run' = [run EXCEPT ![r] = [run[r] EXCEPT !.state = covState]]
    BY <1>2 DEF GetCovenant
  <2>2. run' \in [Handlers -> RunLocals]
    BY <1>a, <2>1, StateAssigned DEF TypeOK
  <2>3. QED
    BY <1>2, <2>2 DEF GetCovenant, TypeOK, Labels
<1>3. ASSUME NEW r \in Handlers, GetMember(r) PROVE TypeOK'
  BY <1>3, NoRunType DEF GetMember, TypeOK, Labels
<1>4. ASSUME NEW r \in Handlers, IdentityFails(r) PROVE TypeOK'
  BY <1>4, NoRunType DEF IdentityFails, StatementFails, TypeOK, Labels
<1>5. ASSUME NEW r \in Handlers, GateFails(r) PROVE TypeOK'
  BY <1>5 DEF GateFails, StatementFails, TypeOK, Labels
<1>6. ASSUME NEW r \in Handlers, RateLimitGate(r) PROVE TypeOK'
  <2>1. run[r].call.agent \in Agents
    BY <1>a, CallTyped
  <2>2. pc' \in [Handlers -> Labels]
    BY <1>6 DEF RateLimitGate, TypeOK, Labels
  <2>3. \/ callCount' = callCount
        \/ callCount' = [callCount EXCEPT
                           ![run[r].call.agent] = callCount[run[r].call.agent] + 1]
    BY <1>6 DEF RateLimitGate
  <2>4. callCount' \in [Agents -> Nat]
    <3>1. callCount \in [Agents -> Nat]
      BY DEF TypeOK
    <3> HIDE DEF At
    <3>2. QED
      BY <2>1, <2>3, <3>1
  <2>5. QED
    BY <1>6, <2>2, <2>4 DEF RateLimitGate, TypeOK
<1>7. ASSUME NEW r \in Handlers, PreconditionsPass(r) \/ PreconditionsFail(r)
      PROVE TypeOK'
  BY <1>7 DEF PreconditionsPass, PreconditionsFail, TypeOK, Labels
<1>8. ASSUME NEW r \in Handlers, CheckAndReserve(r) PROVE TypeOK'
  <2>1. run[r].call.cost \in 0..MaxCost
    BY <1>a, CallTyped
  <2>2. CASE reservations' = reservations /\ run' = run
    BY <1>8, <2>2 DEF CheckAndReserve, TypeOK, Labels
  <2>3. CASE ~(reservations' = reservations /\ run' = run)
    <3> DEFINE row == [amount |-> run[r].call.cost, log |-> 0,
                       status |-> "reserved"]
    <3>1. /\ run[r].call.cost > 0
          /\ reservations' = Append(reservations, row)
          /\ run' = [run EXCEPT ![r].resv = Len(reservations) + 1]
          /\ pc' = [pc EXCEPT ![r] = "execute"]
      BY <1>8, <2>3 DEF CheckAndReserve
    <3>2. row \in Reservation
      BY <2>1, <3>1, ConstantsAssumption DEF Reservation
    <3>3. reservations' \in Seq(Reservation) /\ Len(reservations) \in Nat
      BY <3>1, <3>2, AppendProperties, LenProperties DEF TypeOK
    <3>4. run' \in [Handlers -> RunLocals]
      <4>1. [run[r] EXCEPT !.resv = Len(reservations) + 1] \in RunLocals
        BY <1>a, <3>3, ResvAssigned
      <4>2. run' = [run EXCEPT
                     ![r] = [run[r] EXCEPT !.resv = Len(reservations) + 1]]
        BY <3>1
      <4>3. QED
        BY <1>a, <4>1, <4>2
    <3>5. QED
      BY <1>8, <3>1, <3>3, <3>4 DEF CheckAndReserve, TypeOK, Labels
  <2>4. QED
    BY <2>2, <2>3
<1>9. ASSUME NEW r \in Handlers, NEW eff \in Effects,
             ExecuteSucceeds(r, eff) \/ ExecuteOverlooks(r, eff)
      PROVE TypeOK'
  <2>a. [run[r] EXCEPT !.eff = eff] \in RunLocals
    BY <1>a, EffAssigned
  <2>b. /\ run' = [run EXCEPT ![r] = [run[r] EXCEPT !.eff = eff]]
        /\ pc' = [pc EXCEPT ![r] = "effects"]
    BY <1>9 DEF ExecuteSucceeds, ExecuteOverlooks
  <2>1. /\ run' \in [Handlers -> RunLocals]
        /\ pc' \in [Handlers -> Labels]
    BY <1>a, <2>a, <2>b DEF TypeOK, Labels
  <2>2. UNCHANGED <<tables, calls, hours, crashes>> /\ faults' \in Nat
    BY <1>9 DEF ExecuteSucceeds, ExecuteOverlooks, StatementFails, TypeOK
  <2>3. QED
    BY <2>1, <2>2 DEF TypeOK
<1>10. ASSUME NEW r \in Handlers, ExecuteFails(r) \/ ExecuteStatementFails(r)
       PROVE TypeOK'
  <2>1. pc' \in [Handlers -> Labels]
    BY <1>10 DEF ExecuteFails, ExecuteStatementFails, TypeOK, Labels
  <2>2. UNCHANGED <<tables, run, calls, hours, crashes>> /\ faults' \in Nat
    BY <1>10 DEF ExecuteFails, ExecuteStatementFails, StatementFails, TypeOK
  <2>3. QED
    BY <2>1, <2>2 DEF TypeOK
<1>11. ASSUME NEW r \in Handlers, CalculateEffects(r) PROVE TypeOK'
  BY <1>11 DEF CalculateEffects, TypeOK, Labels
<1>12. ASSUME NEW r \in Handlers, WriteAuditLog(r) PROVE TypeOK'
  <2>1. auditLog' \in Seq(AuditRow) /\ Len(auditLog) \in Nat
    BY <1>12, RowsTyped, AppendProperties, LenProperties
       DEF WriteAuditLog, TypeOK
  <2>2. run' \in [Handlers -> RunLocals]
    <3>0. Len(auditLog) + 1 \in Nat
      BY <2>1
    <3>1. [run[r] EXCEPT !.log = Len(auditLog) + 1] \in RunLocals
      BY <1>a, <3>0, LogAssigned
    <3>2. run' = [run EXCEPT ![r] = [run[r] EXCEPT !.log = Len(auditLog) + 1]]
      BY <1>12 DEF WriteAuditLog
    <3>3. QED
      BY <1>a, <3>1, <3>2
  <2>3. QED
    BY <1>12, <2>1, <2>2 DEF WriteAuditLog, TypeOK, Labels
<1>13. ASSUME NEW r \in Handlers, AuditLogFails(r) \/ ApplyStatementFails(r)
                                   \/ ApplyOverlooks(r)
       PROVE TypeOK'
  <2>1. pc' \in [Handlers -> Labels]
    BY <1>13 DEF AuditLogFails, ApplyStatementFails, ApplyOverlooks, TypeOK,
       Labels
  <2>2. UNCHANGED <<tables, run, calls, hours, crashes>> /\ faults' \in Nat
    BY <1>13 DEF AuditLogFails, ApplyStatementFails, ApplyOverlooks,
       StatementFails, TypeOK
  <2>3. QED
    BY <2>1, <2>2 DEF TypeOK
<1>14. ASSUME NEW r \in Handlers, ApplySucceeds(r) \/ ApplyFails(r)
       PROVE TypeOK'
  BY <1>14 DEF ApplySucceeds, ApplyFails, TypeOK, Labels
<1>15. ASSUME NEW r \in Handlers, NEW amount \in 1..MaxCost,
              ApplyRefund(r, amount)
       PROVE TypeOK'
  <2>1. budget' \in [exists : BOOLEAN, limit : Int, spent : Nat]
    <3>1. /\ budget \in [exists : BOOLEAN, limit : Int, spent : Nat]
          /\ budget.spent \in Nat /\ amount \in Nat
      BY ConstantsAssumption DEF TypeOK
    <3> DEFINE n == IF ~budget.exists THEN budget.spent
                    ELSE IF budget.spent < amount THEN 0
                    ELSE budget.spent - amount
    <3>2. n \in Nat
      BY <3>1
    <3>3. budget' = [budget EXCEPT !.spent = n]
      BY <1>15, <3>1 DEF ApplyRefund
    <3> HIDE DEF n
    <3>4. QED
      BY <3>1, <3>2, <3>3, SpentAssigned
  <2>2. QED
    BY <1>15, <2>1 DEF ApplyRefund, TypeOK, Labels
<1>16. ASSUME NEW r \in Handlers, RecordSpend(r) PROVE TypeOK'
  <2>1. run[r].call.cost \in Nat
    BY <1>a, CallTyped, ConstantsAssumption
  <2>2. budget' \in [exists : BOOLEAN, limit : Int, spent : Nat]
    <3>1. /\ budget \in [exists : BOOLEAN, limit : Int, spent : Nat]
          /\ budget.spent + run[r].call.cost \in Nat
      BY <2>1 DEF TypeOK
    <3>2. \/ budget' = budget
          \/ budget' = [budget EXCEPT
                          !.spent = budget.spent + run[r].call.cost]
      BY <1>16 DEF RecordSpend
    <3>3. QED
      BY <3>1, <3>2, SpentAssigned
  <2>3. run' \in [Handlers -> RunLocals] /\ pc' \in [Handlers -> Labels]
    BY <1>16, NoRunType DEF RecordSpend, TypeOK, Labels
  <2>4. QED
    BY <1>16, <2>2, <2>3 DEF RecordSpend, TypeOK
<1>17. ASSUME NEW r \in Handlers, RecordSpendFails(r) PROVE TypeOK'
  BY <1>17, NoRunType DEF RecordSpendFails, StatementFails, TypeOK, Labels
<1>18. ASSUME NEW r \in Handlers, SettleReservation(r) PROVE TypeOK'
  <2>1. run' \in [Handlers -> RunLocals] /\ pc' \in [Handlers -> Labels]
    BY <1>18, NoRunType DEF SettleReservation, TypeOK, Labels
  <2>4. reservations' \in Seq(Reservation)
    <3>1. CASE run[r].resv \in 1..Len(reservations)
      BY <1>18, <1>a, <1>b, <3>1, ReservationSettled DEF SettleReservation
    <3>2. CASE run[r].resv \notin 1..Len(reservations)
      BY <1>18, <1>a, <1>b, <3>2, LenProperties DEF SettleReservation
    <3>3. QED
      BY <3>1, <3>2
  <2>3. QED
    BY <1>18, <2>1, <2>4 DEF SettleReservation, StatementFails, TypeOK
<1>19. ASSUME NEW r \in Handlers, ReleaseReservation(r) PROVE TypeOK'
  <2>1. run' \in [Handlers -> RunLocals]
    <3>1. [run[r] EXCEPT !.resv = 0] \in RunLocals
      BY <1>a, ResvAssigned
    <3>2. \/ run' = [run EXCEPT ![r] = NoRun]
          \/ run' = [run EXCEPT ![r] = [run[r] EXCEPT !.resv = 0]]
      BY <1>19 DEF ReleaseReservation
    <3>3. QED
      BY <1>a, <3>1, <3>2, NoRunType
  <2>2. pc' \in [Handlers -> Labels]
    BY <1>19 DEF ReleaseReservation, TypeOK, Labels
  <2>4. reservations' \in Seq(Reservation)
    <3>1. CASE run[r].resv \in 1..Len(reservations)
      <4>1. \/ reservations' = reservations
            \/ reservations' = [reservations EXCEPT
                                  ![run[r].resv].status = "released"]
        BY <1>19 DEF ReleaseReservation
      <4>2. reservations \in Seq(Reservation)
        BY <1>b
      <4>3. QED
        BY <3>1, <4>1, <4>2, ReservationReleased
    <3>2. CASE run[r].resv \notin 1..Len(reservations)
      BY <1>19, <1>a, <1>b, <3>2, LenProperties DEF ReleaseReservation
    <3>3. QED
      BY <3>1, <3>2
  <2>3. QED
    BY <1>19, <2>1, <2>2, <2>4 DEF ReleaseReservation, StatementFails, TypeOK
<1>20. ASSUME NEW r \in Handlers, LogRejection(r) PROVE TypeOK'
  <2>1. auditLog' \in Seq(AuditRow)
    <3>1. auditLog' = auditLog \/ auditLog' = Append(auditLog, RejectedRow(r))
      BY <1>20 DEF LogRejection
    <3>2. RejectedRow(r) \in AuditRow
      BY RowsTyped
    <3>3. Append(auditLog, RejectedRow(r)) \in Seq(AuditRow)
      BY <1>b, <3>2, AppendProperties
    <3>4. QED
      BY <1>b, <3>1, <3>3
  <2>2. UNCHANGED faults \/ faults' \in Nat
    BY <1>20 DEF LogRejection, StatementFails, TypeOK
  <2>3. QED
    BY <1>20, <2>1, <2>2, NoRunType DEF LogRejection, StatementFails, TypeOK, Labels
<1>21. CASE SetBudget
  BY <1>21, ConstantsAssumption DEF SetBudget, TypeOK
<1>22. CASE HourPasses
  BY <1>22 DEF HourPasses, TypeOK
<1>23. CASE Crash
  BY <1>23, NoRunType DEF Crash, TypeOK, Labels
<1>24. CASE CovenantChanges \/ MemberChanges
  BY <1>24 DEF CovenantChanges, MemberChanges, TypeOK
<1>25. CASE UNCHANGED engineVars
  BY <1>25 DEF engineVars, TypeOK
<1>26. QED
  BY <1>1, <1>2, <1>3, <1>4, <1>5, <1>6, <1>7, <1>8, <1>9, <1>10, <1>11, <1>12,
     <1>13, <1>14, <1>15, <1>16, <1>17, <1>18, <1>19, <1>20, <1>21, <1>22,
     <1>23, <1>24, <1>25
     DEF Next, EngineStep, ToolStep, Environment

\* Type correctness, for any number of handlers, agents, calls and faults.
THEOREM TypeCorrect == Spec => []TypeOK
BY TypeInit, TypeStep, PTL DEF Spec
-----------------------------------------------------------------------------
(***************************************************************************)
(* The charge of a call, proved: a settled reservation is logged           *)
(* (SettledIsLogged) and no audit row settles two (SettledOnce), for every *)
(* number of handlers, whatever the tools do, and wherever the server dies.*)
(***************************************************************************)

\* The steps between the audit row and the settlement that names it.
Logged == {"apply", "spend", "settle"}

\* A reservation that a call holds is open, and for the cost of that call.
HeldIsOpen ==
  \A r \in Handlers : run[r].resv # 0 =>
    /\ run[r].resv \in 1..Len(reservations)
    /\ reservations[run[r].resv].status = "reserved"
    /\ reservations[run[r].resv].amount = run[r].call.cost

\* No two calls hold one reservation.
HeldOnce ==
  \A r, q \in Handlers :
    run[r].resv # 0 /\ run[r].resv = run[q].resv => r = q

\* From Step 5 on a call names the row of its own success.
LogIsOwn ==
  \A r \in Handlers : pc[r] \in Logged =>
    /\ run[r].log \in 1..Len(auditLog)
    /\ auditLog[run[r].log].result = "success"
    /\ auditLog[run[r].log].cost = run[r].call.cost

LogOnce ==
  \A r, q \in Handlers :
    pc[r] \in Logged /\ pc[q] \in Logged /\ run[r].log = run[q].log => r = q

\* The row of a call that has not settled settles nothing yet.
LogUnused ==
  \A r \in Handlers, i \in 1..Len(reservations) :
    pc[r] \in Logged /\ reservations[i].status = "settled" =>
      reservations[i].log # run[r].log

SettlerHolds == \A r \in Handlers : pc[r] = "settle" => run[r].resv # 0

\* The inductive invariant: what a call still holds, and what it will write,
\* is tied to the two tables at every step in between.
ChargeInv ==
  /\ HeldIsOpen /\ HeldOnce /\ LogIsOwn /\ LogOnce /\ LogUnused /\ SettlerHolds
  /\ SettledIsLogged /\ SettledOnce

-----------------------------------------------------------------------------
\* What a step may do to handler q without touching the charge: let go of the
\* reservation, or leave the steps between the log and the settlement.
Keeps(q) ==
  /\ run'[q].resv # 0 => /\ run'[q].resv = run[q].resv
                         /\ run'[q].call = run[q].call
  /\ pc'[q] \in Logged => /\ pc[q] \in Logged
                          /\ run'[q].log = run[q].log
                          /\ run'[q].call = run[q].call
  /\ pc'[q] = "settle" => run'[q].resv # 0

LEMMA NoRunHoldsNothing == NoRun.resv = 0
BY DEF NoRun

\* What the assignments to the locals of Run leave alone.
LEMMA LocalsKept ==
  ASSUME NEW L \in RunLocals, NEW x
  PROVE  /\ [L EXCEPT !.eff = x].resv = L.resv
         /\ [L EXCEPT !.eff = x].call = L.call
         /\ [L EXCEPT !.state = x].resv = L.resv
         /\ [L EXCEPT !.state = x].call = L.call
         /\ [L EXCEPT !.resv = x].call = L.call
         /\ [L EXCEPT !.resv = x].log = L.log
         /\ [L EXCEPT !.resv = x].resv = x
         /\ [L EXCEPT !.log = x].call = L.call
         /\ [L EXCEPT !.log = x].resv = L.resv
         /\ [L EXCEPT !.log = x].log = x
BY DEF RunLocals

\* Appending keeps the rows there are.
LEMMA Appended ==
  ASSUME NEW S, NEW s \in Seq(S), NEW e \in S
  PROVE  /\ Append(s, e) \in Seq(S) /\ Len(s) \in Nat
         /\ Len(Append(s, e)) = Len(s) + 1
         /\ \A i \in 1..Len(s) : Append(s, e)[i] = s[i]
         /\ Append(s, e)[Len(s) + 1] = e
BY AppendProperties, LenProperties

\* A step that keeps every handler's charge, and only appends to the log.
LEMMA QuietStep ==
  ASSUME TypeOK, ChargeInv, \A q \in Handlers : Keeps(q),
         reservations' = reservations,
         auditLog' = auditLog \/ \E row \in AuditRow : auditLog' = Append(auditLog, row)
  PROVE  ChargeInv'
<1>1. /\ reservations \in Seq(Reservation) /\ auditLog \in Seq(AuditRow)
      /\ DOMAIN reservations = 1..Len(reservations)
      /\ DOMAIN auditLog = 1..Len(auditLog) /\ Len(auditLog) \in Nat
  BY LenProperties DEF TypeOK
<1>2. /\ DOMAIN auditLog' = 1..Len(auditLog')
      /\ 1..Len(auditLog) \subseteq 1..Len(auditLog')
      /\ \A l \in 1..Len(auditLog) : auditLog'[l] = auditLog[l]
  <2>1. CASE auditLog' = auditLog
    BY <1>1, <2>1
  <2>2. CASE \E row \in AuditRow : auditLog' = Append(auditLog, row)
    <3>1. PICK row \in AuditRow : auditLog' = Append(auditLog, row)
      BY <2>2
    <3>2. /\ auditLog' \in Seq(AuditRow) /\ Len(auditLog') = Len(auditLog) + 1
          /\ \A i \in 1..Len(auditLog) : auditLog'[i] = auditLog[i]
      <4>1. /\ Append(auditLog, row) \in Seq(AuditRow)
            /\ Len(Append(auditLog, row)) = Len(auditLog) + 1
            /\ \A i \in 1..Len(auditLog) :
                 Append(auditLog, row)[i] = auditLog[i]
        BY <1>1, Appended
      <4>2. QED
        BY <3>1, <4>1
    <3>3. DOMAIN auditLog' = 1..Len(auditLog')
      BY <3>2, LenProperties
    <3>4. QED
      BY <1>1, <3>2, <3>3
  <2>3. QED
    BY <2>1, <2>2
<1>3. HeldIsOpen'
  <2>1. ASSUME NEW q \in Handlers, run'[q].resv # 0
        PROVE  /\ run'[q].resv \in 1..Len(reservations)
               /\ reservations[run'[q].resv].status = "reserved"
               /\ reservations[run'[q].resv].amount = run'[q].call.cost
    <3>1. run'[q].resv = run[q].resv /\ run'[q].call = run[q].call
      BY <2>1 DEF Keeps
    <3>2. QED
      BY <2>1, <3>1 DEF ChargeInv, HeldIsOpen
  <2>2. QED
    BY <2>1 DEF HeldIsOpen
<1>4. HeldOnce'
  BY DEF ChargeInv, HeldOnce, Keeps
<1>5. LogIsOwn'
  <2>1. ASSUME NEW q \in Handlers, pc'[q] \in Logged
        PROVE  /\ run'[q].log \in 1..Len(auditLog')
               /\ auditLog'[run'[q].log].result = "success"
               /\ auditLog'[run'[q].log].cost = run'[q].call.cost
    <3>1. /\ pc[q] \in Logged /\ run'[q].log = run[q].log
          /\ run'[q].call = run[q].call
      BY <2>1 DEF Keeps
    <3>2. /\ run[q].log \in 1..Len(auditLog)
          /\ auditLog[run[q].log].result = "success"
          /\ auditLog[run[q].log].cost = run[q].call.cost
      BY <3>1 DEF ChargeInv, LogIsOwn
    <3>3. /\ run[q].log \in 1..Len(auditLog')
          /\ auditLog'[run[q].log] = auditLog[run[q].log]
      BY <1>2, <3>2, Zenon
    <3>4. QED
      BY <3>1, <3>2, <3>3, Zenon
  <2>2. QED
    BY <2>1 DEF LogIsOwn
<1>6. LogOnce'
  BY DEF ChargeInv, LogOnce, Keeps
<1>7. LogUnused'
  <2>1. ASSUME NEW q \in Handlers, NEW i \in 1..Len(reservations),
               pc'[q] \in Logged, reservations[i].status = "settled"
        PROVE  reservations[i].log # run'[q].log
    <3>1. pc[q] \in Logged /\ run'[q].log = run[q].log
      BY <2>1 DEF Keeps
    <3>2. QED
      BY <2>1, <3>1 DEF ChargeInv, LogUnused
  <2>2. QED
    BY <2>1 DEF LogUnused
<1>8. SettlerHolds'
  BY DEF SettlerHolds, Keeps
<1>9. SettledIsLogged'
  <2>1. ASSUME NEW i \in DOMAIN reservations, reservations[i].status = "settled"
        PROVE  /\ reservations[i].log \in DOMAIN auditLog'
               /\ auditLog'[reservations[i].log].result = "success"
               /\ auditLog'[reservations[i].log].cost = reservations[i].amount
    <3> DEFINE l == reservations[i].log
    <3>1. /\ l \in DOMAIN auditLog /\ auditLog[l].result = "success"
          /\ auditLog[l].cost = reservations[i].amount
      BY <2>1 DEF ChargeInv, SettledIsLogged
    <3> HIDE DEF l
    <3>2. l \in DOMAIN auditLog' /\ auditLog'[l] = auditLog[l]
      BY <1>1, <1>2, <3>1, Zenon
    <3>3. QED
      BY <3>1, <3>2, Zenon DEF l
  <2>2. QED
    BY <2>1 DEF SettledIsLogged
<1>10. SettledOnce'
  BY DEF ChargeInv, SettledOnce
<1>11. QED
  BY <1>3, <1>4, <1>5, <1>6, <1>7, <1>8, <1>9, <1>10 DEF ChargeInv

\* A step of one handler.
LEMMA OneMoves ==
  ASSUME TypeOK, SettlerHolds, NEW r \in Handlers, Keeps(r),
         NEW l, pc' = [pc EXCEPT ![r] = l],
         NEW L, run' = run \/ run' = [run EXCEPT ![r] = L]
  PROVE  \A q \in Handlers : Keeps(q)
<1>1. \A q \in Handlers \ {r} : run'[q] = run[q] /\ pc'[q] = pc[q]
  BY DEF TypeOK
<1>2. QED
  BY <1>1 DEF SettlerHolds, Keeps

\* The steps of a call that leave reservations alone and log no success.
QuietSteps(r) ==
  \/ Begin(r) \/ GetCovenant(r) \/ GetMember(r) \/ IdentityFails(r)
  \/ RateLimitGate(r) \/ GateFails(r)
  \/ PreconditionsPass(r) \/ PreconditionsFail(r)
  \/ \E eff \in Effects : ExecuteSucceeds(r, eff) \/ ExecuteOverlooks(r, eff)
  \/ ExecuteFails(r) \/ ExecuteStatementFails(r) \/ CalculateEffects(r)
  \/ AuditLogFails(r) \/ ApplySucceeds(r) \/ ApplyFails(r)
  \/ ApplyStatementFails(r) \/ ApplyOverlooks(r)
  \/ \E amount \in 1..MaxCost : ApplyRefund(r, amount)
  \/ RecordSpend(r) \/ RecordSpendFails(r) \/ LogRejection(r)

LEMMA QuietKeeps ==
  ASSUME TypeOK, ChargeInv, NEW r \in Handlers, QuietSteps(r)
  PROVE  \A q \in Handlers : Keeps(q)
<1> USE DEF At, Goto, Return
<1>0. /\ run \in [Handlers -> RunLocals] /\ run[r] \in RunLocals
      /\ pc \in [Handlers -> Labels] /\ pc[r] \in Labels
      /\ SettlerHolds
  BY DEF TypeOK, ChargeInv
\* A call that returns holds nothing, and is past nothing.
<1>a. ASSUME pc' = [pc EXCEPT ![r] = "idle"], run' = [run EXCEPT ![r] = NoRun]
      PROVE  \A q \in Handlers : Keeps(q)
  <2>1. run'[r] = NoRun /\ pc'[r] = "idle"
    BY <1>0, <1>a
  <2>2. Keeps(r)
    BY <2>1, NoRunHoldsNothing DEF Keeps, Logged
  <2>3. QED
    BY <1>0, <1>a, <2>2, OneMoves
\* A call that moves on, with the locals it has.
<1>b. ASSUME NEW l, pc' = [pc EXCEPT ![r] = l], run' = run,
             l \in Logged => pc[r] \in Logged,
             l = "settle" => run[r].resv # 0
      PROVE  \A q \in Handlers : Keeps(q)
  <2>1. pc'[r] = l
    BY <1>0, <1>b
  <2>2. Keeps(r)
    BY <1>b, <2>1 DEF Keeps
  <2>3. QED
    BY <1>0, <1>b, <2>2, OneMoves
\* A call that sets a local other than its reservation, before the log.
<1>c. ASSUME NEW l, pc' = [pc EXCEPT ![r] = l], l \notin Logged,
             NEW L, run' = [run EXCEPT ![r] = L],
             L.resv # 0 => L.resv = run[r].resv /\ L.call = run[r].call
      PROVE  \A q \in Handlers : Keeps(q)
  <2>1. pc'[r] = l /\ run'[r] = L
    BY <1>0, <1>c
  <2>2. Keeps(r)
    BY <1>c, <2>1 DEF Keeps, Logged
  <2>3. QED
    BY <1>0, <1>c, <2>2, OneMoves
<1>1. CASE Begin(r)
  <2>1. PICK c \in Calls : run' = [run EXCEPT ![r] = RunOf(calls + 1, c)]
    BY <1>1 DEF Begin
  <2>2. RunOf(calls + 1, c).resv = 0
    BY DEF RunOf
  <2>3. QED
    BY <1>1, <1>c, <2>1, <2>2 DEF Begin, Logged
<1>2. CASE GetCovenant(r)
  <2>1. run' = [run EXCEPT ![r] = [run[r] EXCEPT !.state = covState]]
    BY <1>2 DEF GetCovenant
  <2> DEFINE L == [run[r] EXCEPT !.state = covState]
  <2>2. L.resv = run[r].resv /\ L.call = run[r].call
    BY <1>0, LocalsKept
  <2>3. pc' = [pc EXCEPT ![r] = "getMember"] /\ "getMember" \notin Logged
    BY <1>2 DEF GetCovenant, Logged
  <2> HIDE DEF L
  <2>4. run' = [run EXCEPT ![r] = L]
    BY <2>1 DEF L
  <2>5. QED
    BY <1>c, <2>2, <2>3, <2>4
<1>3. CASE GetMember(r)
  BY <1>3, <1>a, <1>b DEF GetMember, Logged
<1>4. CASE IdentityFails(r) \/ RecordSpendFails(r) \/ LogRejection(r)
  BY <1>4, <1>a DEF IdentityFails, RecordSpendFails, LogRejection
<1>5. CASE RateLimitGate(r) \/ GateFails(r)
  BY <1>5, <1>b DEF RateLimitGate, GateFails, Logged
<1>6. CASE PreconditionsPass(r) \/ PreconditionsFail(r) \/ ExecuteFails(r)
           \/ ExecuteStatementFails(r) \/ CalculateEffects(r)
           \/ AuditLogFails(r) \/ ApplyFails(r) \/ ApplyStatementFails(r)
  BY <1>6, <1>b DEF PreconditionsPass, PreconditionsFail, ExecuteFails,
     ExecuteStatementFails, CalculateEffects, AuditLogFails, ApplyFails,
     ApplyStatementFails, Logged
<1>7. CASE \E eff \in Effects :
             ExecuteSucceeds(r, eff) \/ ExecuteOverlooks(r, eff)
  <2>1. PICK eff \in Effects :
          ExecuteSucceeds(r, eff) \/ ExecuteOverlooks(r, eff)
    BY <1>7
  <2>2. /\ run' = [run EXCEPT ![r] = [run[r] EXCEPT !.eff = eff]]
        /\ pc' = [pc EXCEPT ![r] = "effects"]
    BY <2>1 DEF ExecuteSucceeds, ExecuteOverlooks
  <2> DEFINE L == [run[r] EXCEPT !.eff = eff]
  <2>3. L.resv = run[r].resv /\ L.call = run[r].call
    BY <1>0, LocalsKept
  <2> HIDE DEF L
  <2>4. run' = [run EXCEPT ![r] = L]
    BY <2>2 DEF L
  <2>5. QED
    BY <1>c, <2>2, <2>3, <2>4 DEF Logged
<1>8. CASE ApplySucceeds(r) \/ ApplyOverlooks(r)
           \/ \E amount \in 1..MaxCost : ApplyRefund(r, amount)
  <2>1. /\ pc[r] = "apply" /\ pc' = [pc EXCEPT ![r] = "spend"] /\ run' = run
    BY <1>8 DEF ApplySucceeds, ApplyOverlooks, ApplyRefund
  <2>2. QED
    BY <1>b, <2>1 DEF Logged
<1>9. CASE RecordSpend(r)
  BY <1>9, <1>a, <1>b DEF RecordSpend, Logged
<1>10. QED
  BY <1>1, <1>2, <1>3, <1>4, <1>5, <1>6, <1>7, <1>8, <1>9 DEF QuietSteps

\* Step 2.5 adds a reservation, which its call holds and no other.
LEMMA ReserveStep ==
  ASSUME TypeOK, ChargeInv, NEW r \in Handlers, CheckAndReserve(r)
  PROVE  ChargeInv'
<1> USE DEF At, Goto
<1>0. /\ run \in [Handlers -> RunLocals] /\ run[r] \in RunLocals
      /\ pc \in [Handlers -> Labels]
      /\ SettlerHolds /\ reservations \in Seq(Reservation)
      /\ Len(reservations) \in Nat
      /\ \A q \in Handlers : run[q].resv \in Nat
      /\ auditLog' = auditLog
  BY LenProperties DEF TypeOK, ChargeInv, RunLocals, CheckAndReserve
<1>1. CASE reservations' = reservations /\ run' = run
  <2>1. /\ pc' = [pc EXCEPT ![r] = "execute"] \/ pc' = [pc EXCEPT ![r] = "reject"]
        /\ pc'[r] \notin Logged
    BY <1>0, <1>1 DEF CheckAndReserve, Logged
  <2>2. Keeps(r)
    BY <1>1, <2>1 DEF Keeps, Logged
  <2>3. \A q \in Handlers : Keeps(q)
    BY <1>0, <1>1, <2>1, <2>2, OneMoves
  <2>4. QED
    BY <1>0, <1>1, <2>3, QuietStep
<1>2. CASE ~(reservations' = reservations /\ run' = run)
  <2> DEFINE row == [amount |-> run[r].call.cost, log |-> 0,
                     status |-> "reserved"]
             n == Len(reservations) + 1
  <2>1. /\ run[r].call.cost > 0
        /\ reservations' = Append(reservations, row)
        /\ run' = [run EXCEPT ![r].resv = n]
        /\ pc' = [pc EXCEPT ![r] = "execute"]
    BY <1>2 DEF CheckAndReserve
  <2>2. row \in Reservation
    <3>1. run[r].call.cost \in 0..MaxCost
      BY <1>0, CallTyped DEF RunLocals
    <3>2. QED
      BY <2>1, <3>1, ConstantsAssumption DEF Reservation
  <2>3. /\ row.amount = run[r].call.cost /\ row.log = 0
        /\ row.status = "reserved"
    OBVIOUS
  <2> HIDE DEF row
  <2>4. /\ Append(reservations, row) \in Seq(Reservation)
        /\ Len(Append(reservations, row)) = n
        /\ \A i \in 1..Len(reservations) :
             Append(reservations, row)[i] = reservations[i]
        /\ Append(reservations, row)[n] = row
    BY <1>0, <2>2, Appended
  <2>5. /\ reservations' \in Seq(Reservation) /\ Len(reservations') = n
        /\ \A i \in 1..Len(reservations) : reservations'[i] = reservations[i]
        /\ reservations'[n] = row
    BY <2>1, <2>4
  <2>6. /\ DOMAIN reservations = 1..Len(reservations)
        /\ DOMAIN reservations' = 1..n
        /\ \A i \in 1..n : i = n \/ i \in 1..Len(reservations)
    BY <1>0, <2>5, LenProperties
  <2>7. /\ run' = [run EXCEPT ![r] = [run[r] EXCEPT !.resv = n]]
        /\ \A q \in Handlers : q # r => run'[q] = run[q] /\ pc'[q] = pc[q]
        /\ pc'[r] = "execute"
    BY <1>0, <2>1
  <2>8. run'[r].resv = n /\ run'[r].call = run[r].call
    BY <1>0, <2>7, LocalsKept
  <2>9. n # 0 /\ \A q \in Handlers : run[q].resv # 0 => run[q].resv # n
    BY <1>0 DEF ChargeInv, HeldIsOpen
  <2>10. HeldIsOpen'
    <3>1. \A q \in Handlers \ {r} : run[q].resv # 0 =>
             /\ run[q].resv \in 1..Len(reservations)
             /\ reservations[run[q].resv].status = "reserved"
             /\ reservations[run[q].resv].amount = run[q].call.cost
      BY DEF ChargeInv, HeldIsOpen
    <3>2. QED
      BY <1>0, <2>3, <2>5, <2>7, <2>8, <3>1 DEF HeldIsOpen
  <2>11. HeldOnce'
    BY <2>7, <2>8, <2>9 DEF ChargeInv, HeldOnce
  <2>12. LogIsOwn'
    BY <1>0, <2>7 DEF ChargeInv, LogIsOwn, Logged
  <2>13. LogOnce'
    BY <2>7 DEF ChargeInv, LogOnce, Logged
  <2>14. LogUnused'
    BY <2>3, <2>5, <2>6, <2>7 DEF ChargeInv, LogUnused, Logged
  <2>15. SettlerHolds'
    BY <1>0, <2>7 DEF SettlerHolds
  <2>16. SettledIsLogged'
    BY <1>0, <2>3, <2>5, <2>6 DEF ChargeInv, SettledIsLogged
  <2>17. SettledOnce'
    BY <2>3, <2>5, <2>6 DEF ChargeInv, SettledOnce
  <2>18. QED
    BY <2>10, <2>11, <2>12, <2>13, <2>14, <2>15, <2>16, <2>17 DEF ChargeInv
<1>3. QED
  BY <1>1, <1>2

\* Step 5 logs a row that no call and no reservation names yet.
LEMMA AuditStep ==
  ASSUME TypeOK, ChargeInv, NEW r \in Handlers, WriteAuditLog(r)
  PROVE  ChargeInv'
<1> DEFINE n == Len(auditLog) + 1
<1>0. /\ run \in [Handlers -> RunLocals] /\ run[r] \in RunLocals
      /\ pc \in [Handlers -> Labels]
      /\ auditLog \in Seq(AuditRow) /\ Len(auditLog) \in Nat
      /\ DOMAIN reservations = 1..Len(reservations)
      /\ DOMAIN auditLog = 1..Len(auditLog)
      /\ SuccessRow(r) \in AuditRow
  BY RowsTyped, LenProperties DEF TypeOK
<1>1. /\ auditLog' = Append(auditLog, SuccessRow(r))
      /\ reservations' = reservations
      /\ pc[r] = "audit" /\ pc' = [pc EXCEPT ![r] = "apply"]
      /\ run' = [run EXCEPT ![r] = [run[r] EXCEPT !.log = n]]
  BY DEF WriteAuditLog, At, Goto
<1>2. /\ SuccessRow(r).result = "success"
      /\ SuccessRow(r).cost = run[r].call.cost
  BY DEF SuccessRow
<1>3. /\ Append(auditLog, SuccessRow(r)) \in Seq(AuditRow)
      /\ Len(Append(auditLog, SuccessRow(r))) = n
      /\ \A i \in 1..Len(auditLog) :
           Append(auditLog, SuccessRow(r))[i] = auditLog[i]
      /\ Append(auditLog, SuccessRow(r))[n] = SuccessRow(r)
  BY <1>0, Appended
<1>4. /\ auditLog' \in Seq(AuditRow) /\ Len(auditLog') = n
      /\ \A i \in 1..Len(auditLog) : auditLog'[i] = auditLog[i]
      /\ auditLog'[n].result = "success"
      /\ auditLog'[n].cost = run[r].call.cost
  BY <1>1, <1>2, <1>3
<1>5. DOMAIN auditLog' = 1..n
  BY <1>4, LenProperties
<1>6. \A q \in Handlers : q # r => run'[q] = run[q] /\ pc'[q] = pc[q]
  BY <1>0, <1>1
<1>7. /\ run'[r].log = n /\ run'[r].resv = run[r].resv
      /\ run'[r].call = run[r].call /\ pc'[r] = "apply"
  BY <1>0, <1>1, LocalsKept
<1>8. /\ \A q \in Handlers : pc[q] \in Logged => run[q].log # n
      /\ \A i \in 1..Len(reservations) :
           reservations[i].status = "settled" => reservations[i].log # n
  BY <1>0 DEF ChargeInv, LogIsOwn, SettledIsLogged
<1> HIDE DEF n
<1>9. n \in Nat /\ n = Len(auditLog) + 1
  BY <1>0 DEF n
<1>10. HeldIsOpen' /\ HeldOnce'
  BY <1>1, <1>6, <1>7 DEF ChargeInv, HeldIsOpen, HeldOnce
<1>11. LogIsOwn'
  <2>1. \A q \in Handlers \ {r} : pc[q] \in Logged =>
           /\ run[q].log \in 1..Len(auditLog)
           /\ auditLog[run[q].log].result = "success"
           /\ auditLog[run[q].log].cost = run[q].call.cost
    BY DEF ChargeInv, LogIsOwn
  <2>2. QED
    BY <1>0, <1>4, <1>6, <1>7, <1>9, <2>1 DEF LogIsOwn
<1>12. LogOnce'
  BY <1>6, <1>7, <1>8 DEF ChargeInv, LogOnce
<1>13. LogUnused'
  BY <1>1, <1>6, <1>7, <1>8 DEF ChargeInv, LogUnused
<1>14. SettlerHolds'
  BY <1>6, <1>7 DEF ChargeInv, SettlerHolds
<1>15. SettledIsLogged'
  BY <1>0, <1>1, <1>4, <1>5, <1>9 DEF ChargeInv, SettledIsLogged
<1>16. SettledOnce'
  BY <1>1 DEF ChargeInv, SettledOnce
<1>17. QED
  BY <1>10, <1>11, <1>12, <1>13, <1>14, <1>15, <1>16 DEF ChargeInv

\* What resolving a reservation, one way or the other, leaves of the invariant:
\* the call lets go of row i, whose amount stays.
LEMMA ResolveStep ==
  ASSUME TypeOK, ChargeInv, NEW r \in Handlers, run[r].resv # 0,
         auditLog' = auditLog,
         reservations' \in Seq(Reservation),
         Len(reservations') = Len(reservations),
         \A j \in 1..Len(reservations) :
           /\ reservations'[j].amount = reservations[j].amount
           /\ j # run[r].resv => /\ reservations'[j].log = reservations[j].log
                                 /\ reservations'[j].status = reservations[j].status,
         \A q \in Handlers : q # r => run'[q] = run[q] /\ pc'[q] = pc[q],
         run'[r].resv = 0, pc'[r] \notin Logged
  PROVE  /\ HeldIsOpen' /\ HeldOnce' /\ LogIsOwn' /\ LogOnce' /\ SettlerHolds'
         /\ DOMAIN reservations = 1..Len(reservations)
         /\ DOMAIN reservations' = 1..Len(reservations)
         /\ run[r].resv \in 1..Len(reservations)
<1>1. /\ DOMAIN reservations = 1..Len(reservations)
      /\ DOMAIN reservations' = 1..Len(reservations)
  BY LenProperties DEF TypeOK
<1>2. run[r].resv \in 1..Len(reservations)
  BY DEF ChargeInv, HeldIsOpen
<1>3. \A q \in Handlers : q # r /\ run[q].resv # 0 => run[q].resv # run[r].resv
  BY DEF ChargeInv, HeldOnce
<1>4. HeldIsOpen'
  <2>1. \A q \in Handlers : q # r /\ run[q].resv # 0 =>
          /\ run[q].resv \in 1..Len(reservations)
          /\ reservations'[run[q].resv].status = "reserved"
          /\ reservations'[run[q].resv].amount = run[q].call.cost
    BY <1>3 DEF ChargeInv, HeldIsOpen
  <2>2. QED
    BY <2>1 DEF HeldIsOpen
<1>5. HeldOnce'
  BY DEF ChargeInv, HeldOnce
<1>6. LogIsOwn'
  BY DEF ChargeInv, LogIsOwn
<1>7. LogOnce'
  BY DEF ChargeInv, LogOnce
<1>8. SettlerHolds'
  BY DEF ChargeInv, SettlerHolds, Logged
<1>9. QED
  BY <1>1, <1>2, <1>4, <1>5, <1>6, <1>7, <1>8

\* Step 7 settles the reservation of the call with the row of the call.
LEMMA SettleStep ==
  ASSUME TypeOK, ChargeInv, NEW r \in Handlers, SettleReservation(r)
  PROVE  ChargeInv'
<1> USE DEF At, Goto, Return
<1>0. /\ run \in [Handlers -> RunLocals] /\ run[r] \in RunLocals
      /\ pc \in [Handlers -> Labels] /\ reservations \in Seq(Reservation)
      /\ run[r].log \in Nat /\ SettlerHolds /\ auditLog' = auditLog
  BY DEF TypeOK, RunLocals, ChargeInv, SettleReservation
<1>1. /\ pc[r] = "settle"
      /\ pc' = [pc EXCEPT ![r] = "idle"] /\ run' = [run EXCEPT ![r] = NoRun]
  BY DEF SettleReservation
<1>2. /\ \A q \in Handlers : q # r => run'[q] = run[q] /\ pc'[q] = pc[q]
      /\ run'[r].resv = 0 /\ pc'[r] = "idle"
  BY <1>0, <1>1, NoRunHoldsNothing
<1>3. CASE reservations' = reservations
  <2>1. Keeps(r)
    BY <1>2 DEF Keeps, Logged
  <2>2. \A q \in Handlers : Keeps(q)
    BY <1>0, <1>1, <2>1, OneMoves
  <2>3. QED
    BY <1>0, <1>3, <2>2, QuietStep
<1>4. CASE ~(reservations' = reservations)
  <2> DEFINE i == run[r].resv
             l == run[r].log
  <2>1. i # 0 /\ i \in 1..Len(reservations)
    BY <1>0, <1>1 DEF ChargeInv, HeldIsOpen, SettlerHolds
  <2>2. reservations' = [reservations EXCEPT ![i] =
           [amount |-> @.amount, log |-> l, status |-> "settled"]]
    BY <1>4 DEF SettleReservation
  <2>3. /\ reservations' \in Seq(Reservation)
        /\ Len(reservations') = Len(reservations)
        /\ \A j \in 1..Len(reservations) :
             /\ reservations'[j].amount = reservations[j].amount
             /\ reservations'[j].log = IF j = i THEN l ELSE reservations[j].log
             /\ reservations'[j].status = IF j = i THEN "settled"
                                          ELSE reservations[j].status
    <3> HIDE DEF i, l
    <3>1. l \in Nat
      BY <1>0 DEF l
    <3>2. QED
      BY <1>0, <2>1, <2>2, <3>1, ReservationSettled
  <2>4. /\ HeldIsOpen' /\ HeldOnce' /\ LogIsOwn' /\ LogOnce' /\ SettlerHolds'
        /\ DOMAIN reservations = 1..Len(reservations)
        /\ DOMAIN reservations' = 1..Len(reservations)
    <3>1. run[r].resv # 0 /\ pc'[r] \notin Logged
      BY <1>2, <2>1 DEF Logged
    <3>2. \A j \in 1..Len(reservations) :
            /\ reservations'[j].amount = reservations[j].amount
            /\ j # run[r].resv =>
                 /\ reservations'[j].log = reservations[j].log
                 /\ reservations'[j].status = reservations[j].status
      BY <2>3
    <3>3. QED
      BY <1>0, <1>2, <2>3, <3>1, <3>2, ResolveStep
  <2>5. /\ pc[r] \in Logged
        /\ l \in 1..Len(auditLog) /\ auditLog[l].result = "success"
        /\ auditLog[l].cost = run[r].call.cost
        /\ reservations[i].amount = run[r].call.cost
    BY <1>1, <2>1 DEF ChargeInv, LogIsOwn, HeldIsOpen, Logged
  <2>6. \A j \in 1..Len(reservations) :
          reservations[j].status = "settled" => reservations[j].log # l
    BY <2>5 DEF ChargeInv, LogUnused
  <2>7. \A q \in Handlers : q # r /\ pc[q] \in Logged => run[q].log # l
    BY <2>5 DEF ChargeInv, LogOnce
  <2>8. DOMAIN auditLog = 1..Len(auditLog)
    BY LenProperties DEF TypeOK
  <2> HIDE DEF i, l
  <2>9. LogUnused'
    <3>1. \A q \in Handlers, j \in 1..Len(reservations) :
            q # r /\ pc[q] \in Logged /\ reservations'[j].status = "settled"
              => reservations'[j].log # run[q].log
      BY <2>3, <2>7 DEF ChargeInv, LogUnused
    <3>2. pc'[r] \notin Logged
      BY <1>2 DEF Logged
    <3>3. QED
      BY <1>2, <2>3, <3>1, <3>2 DEF LogUnused
  <2>10. SettledIsLogged'
    <3>1. \A j \in 1..Len(reservations) :
            reservations'[j].status = "settled" =>
              /\ reservations'[j].log \in 1..Len(auditLog)
              /\ auditLog[reservations'[j].log].result = "success"
              /\ auditLog[reservations'[j].log].cost = reservations'[j].amount
      BY <2>3, <2>4, <2>5, <2>8 DEF ChargeInv, SettledIsLogged
    <3>2. QED
      BY <1>0, <2>4, <2>8, <3>1 DEF SettledIsLogged
  <2>11. SettledOnce'
    <3>1. \A j, k \in 1..Len(reservations) :
            /\ reservations'[j].status = "settled"
            /\ reservations'[k].status = "settled"
            /\ reservations'[j].log = reservations'[k].log
            => j = k
      BY <2>3, <2>4, <2>6 DEF ChargeInv, SettledOnce
    <3>2. QED
      BY <2>4, <3>1 DEF SettledOnce
  <2>12. QED
    BY <2>4, <2>9, <2>10, <2>11 DEF ChargeInv
<1>5. QED
  BY <1>3, <1>4

\* A release settles nothing, and the call names its reservation no more.
LEMMA ReleaseStep ==
  ASSUME TypeOK, ChargeInv, NEW r \in Handlers, ReleaseReservation(r)
  PROVE  ChargeInv'
<1> USE DEF At, Goto, Return
<1>0. /\ run \in [Handlers -> RunLocals] /\ run[r] \in RunLocals
      /\ pc \in [Handlers -> Labels] /\ reservations \in Seq(Reservation)
      /\ SettlerHolds /\ auditLog' = auditLog
  BY DEF TypeOK, ChargeInv, ReleaseReservation
<1>1. PICK l \in {"idle", "reject"}, L \in {NoRun, [run[r] EXCEPT !.resv = 0]} :
        pc' = [pc EXCEPT ![r] = l] /\ run' = [run EXCEPT ![r] = L]
  <2>1. CASE pc[r] = "release"
    <3>1. /\ pc' = [pc EXCEPT ![r] = "idle"]
          /\ run' = [run EXCEPT ![r] = NoRun]
      BY <2>1 DEF ReleaseReservation
    <3>2. QED
      BY <3>1
  <2>2. CASE pc[r] = "releaseReject"
    <3>1. /\ pc' = [pc EXCEPT ![r] = "reject"]
          /\ run' = [run EXCEPT ![r] = [run[r] EXCEPT !.resv = 0]]
      BY <2>2 DEF ReleaseReservation
    <3> DEFINE L == [run[r] EXCEPT !.resv = 0]
    <3> HIDE DEF L
    <3>2. run' = [run EXCEPT ![r] = L]
      BY <3>1 DEF L
    <3>3. QED
      BY <3>1, <3>2 DEF L
  <2>3. QED
    BY <2>1, <2>2 DEF ReleaseReservation
<1>2. L.resv = 0
  <2>1. [run[r] EXCEPT !.resv = 0].resv = 0
    BY <1>0, LocalsKept
  <2>2. L = NoRun \/ L = [run[r] EXCEPT !.resv = 0]
    BY <1>1
  <2>3. QED
    BY <2>1, <2>2, NoRunHoldsNothing
<1>3. /\ \A q \in Handlers : q # r => run'[q] = run[q] /\ pc'[q] = pc[q]
      /\ run'[r].resv = 0 /\ pc'[r] \notin Logged
  BY <1>0, <1>1, <1>2 DEF Logged
<1>4. CASE reservations' = reservations
  <2>1. Keeps(r)
    BY <1>3 DEF Keeps, Logged
  <2>2. \A q \in Handlers : Keeps(q)
    BY <1>0, <1>1, <2>1, OneMoves
  <2>3. QED
    BY <1>0, <1>4, <2>2, QuietStep
<1>5. CASE ~(reservations' = reservations)
  <2> DEFINE i == run[r].resv
  <2>1. /\ i # 0
        /\ reservations' = [reservations EXCEPT ![i].status = "released"]
    BY <1>5 DEF ReleaseReservation
  <2>2. i \in 1..Len(reservations)
    BY <2>1 DEF ChargeInv, HeldIsOpen
  <2>3. /\ reservations' \in Seq(Reservation)
        /\ Len(reservations') = Len(reservations)
        /\ \A j \in 1..Len(reservations) :
             /\ reservations'[j].amount = reservations[j].amount
             /\ reservations'[j].log = reservations[j].log
             /\ reservations'[j].status = IF j = i THEN "released"
                                          ELSE reservations[j].status
    <3>1. /\ reservations \in Seq(Reservation)
          /\ run[r].resv \in 1..Len(reservations)
          /\ reservations' = [reservations EXCEPT
                                ![run[r].resv].status = "released"]
      BY <1>0, <2>1, <2>2
    <3>2. QED
      BY <3>1, ReservationReleased
  <2>4. /\ HeldIsOpen' /\ HeldOnce' /\ LogIsOwn' /\ LogOnce' /\ SettlerHolds'
        /\ DOMAIN reservations = 1..Len(reservations)
        /\ DOMAIN reservations' = 1..Len(reservations)
    <3>1. run[r].resv # 0
      BY <2>1
    <3>2. \A j \in 1..Len(reservations) :
            /\ reservations'[j].amount = reservations[j].amount
            /\ j # run[r].resv =>
                 /\ reservations'[j].log = reservations[j].log
                 /\ reservations'[j].status = reservations[j].status
      BY <2>3
    <3>3. QED
      BY <1>0, <1>3, <2>3, <3>1, <3>2, ResolveStep
  <2>5. \A j \in 1..Len(reservations) :
          reservations'[j].status = "settled" => reservations[j].status = "settled"
    BY <2>3
  <2> HIDE DEF i
  <2>6. LogUnused'
    BY <1>3, <2>3, <2>5 DEF ChargeInv, LogUnused
  <2>7. SettledIsLogged'
    BY <1>0, <2>3, <2>4, <2>5 DEF ChargeInv, SettledIsLogged
  <2>8. SettledOnce'
    BY <2>3, <2>4, <2>5 DEF ChargeInv, SettledOnce
  <2>9. QED
    BY <2>4, <2>6, <2>7, <2>8 DEF ChargeInv
<1>6. QED
  BY <1>4, <1>5
-----------------------------------------------------------------------------
LEMMA ChargeInit == Init => ChargeInv
<1> SUFFICES ASSUME Init PROVE ChargeInv
  OBVIOUS
<1>1. /\ reservations = <<>> /\ DOMAIN reservations = {}
      /\ \A r \in Handlers : run[r].resv = 0 /\ pc[r] = "idle"
  BY NoRunHoldsNothing DEF Init
<1>2. Len(reservations) = 0
  BY <1>1
<1>3. QED
  BY <1>1, <1>2 DEF ChargeInv, HeldIsOpen, HeldOnce, LogIsOwn, LogOnce,
     LogUnused, SettlerHolds, SettledIsLogged, SettledOnce, Logged

LEMMA ChargeStep == TypeOK /\ ChargeInv /\ [Next]_engineVars => ChargeInv'
<1> SUFFICES ASSUME TypeOK, ChargeInv, [Next]_engineVars PROVE ChargeInv'
  OBVIOUS
<1>0. SettlerHolds
  BY DEF ChargeInv
<1>1. ASSUME NEW r \in Handlers, QuietSteps(r) PROVE ChargeInv'
  <2>1. \A q \in Handlers : Keeps(q)
    BY <1>1, QuietKeeps
  <2>2. reservations' = reservations
    BY <1>1 DEF QuietSteps, tables, Begin, GetCovenant, GetMember,
       IdentityFails, RateLimitGate, GateFails, PreconditionsPass,
       PreconditionsFail, ExecuteSucceeds, ExecuteOverlooks, ExecuteFails,
       ExecuteStatementFails, CalculateEffects, AuditLogFails, ApplySucceeds,
       ApplyFails, ApplyStatementFails, ApplyOverlooks, ApplyRefund,
       RecordSpend, RecordSpendFails, LogRejection
  <2>3. auditLog' = auditLog \/ auditLog' = Append(auditLog, RejectedRow(r))
    BY <1>1 DEF QuietSteps, tables, Begin, GetCovenant, GetMember,
       IdentityFails, RateLimitGate, GateFails, PreconditionsPass,
       PreconditionsFail, ExecuteSucceeds, ExecuteOverlooks, ExecuteFails,
       ExecuteStatementFails, CalculateEffects, AuditLogFails, ApplySucceeds,
       ApplyFails, ApplyStatementFails, ApplyOverlooks, ApplyRefund,
       RecordSpend, RecordSpendFails, LogRejection
  <2>4. RejectedRow(r) \in AuditRow
    BY RowsTyped
  <2>5. QED
    BY <2>1, <2>2, <2>3, <2>4, QuietStep
<1>2. ASSUME \A q \in Handlers : Keeps(q), UNCHANGED <<reservations, auditLog>>
      PROVE  ChargeInv'
  BY <1>2, QuietStep
<1>3. CASE Crash
  <2>1. \A q \in Handlers : run'[q] = NoRun /\ pc'[q] = "idle"
    BY <1>3 DEF Crash
  <2>2. \A q \in Handlers : Keeps(q)
    BY <2>1, NoRunHoldsNothing DEF Keeps, Logged
  <2>3. QED
    BY <1>2, <1>3, <2>2 DEF Crash, tables
<1>4. CASE SetBudget \/ HourPasses \/ CovenantChanges \/ MemberChanges
           \/ UNCHANGED engineVars
  <2>1. UNCHANGED <<reservations, auditLog, pc, run>>
    BY <1>4 DEF SetBudget, HourPasses, CovenantChanges, MemberChanges,
       engineVars, tables
  <2>2. \A q \in Handlers : Keeps(q)
    BY <1>0, <2>1 DEF Keeps, SettlerHolds
  <2>3. QED
    BY <1>2, <2>1, <2>2
<1>5. ASSUME NEW r \in Handlers, Begin(r) \/ EngineStep(r) \/ ToolStep(r)
      PROVE  ChargeInv'
  <2>1. \/ QuietSteps(r) \/ CheckAndReserve(r) \/ WriteAuditLog(r)
        \/ SettleReservation(r) \/ ReleaseReservation(r)
    BY <1>5 DEF QuietSteps, EngineStep, ToolStep
  <2>2. QED
    BY <1>1, <2>1, ReserveStep, AuditStep, SettleStep, ReleaseStep
<1>6. QED
  BY <1>3, <1>4, <1>5 DEF Next, Environment

LEMMA ChargeInvariant == Spec => [](TypeOK /\ ChargeInv)
BY TypeInit, TypeStep, ChargeInit, ChargeStep, PTL DEF Spec

\* Every settled reservation names the success row of a charge of its amount:
\* the order authorize, log, settle of Run survives every interleaving.
THEOREM SettledReservationsAreLogged == Spec => []SettledIsLogged
<1>1. ChargeInv => SettledIsLogged
  BY DEF ChargeInv
<1>2. QED
  BY <1>1, ChargeInvariant, PTL

\* No audit row settles two reservations.
THEOREM NoChargeSettlesTwice == Spec => []SettledOnce
<1>1. ChargeInv => SettledOnce
  BY DEF ChargeInv
<1>2. QED
  BY <1>1, ChargeInvariant, PTL
-----------------------------------------------------------------------------
(***************************************************************************)
(* What concurrent calls of the engine can add up to, proved for every     *)
(* number of handlers: the rows of the audit log, the hourly quota, the    *)
(* reservations that nobody will resolve, and the overshoot of the budget. *)
(* Each is an invariant that counts what has been done together with what  *)
(* the calls under way may still do.                                       *)
(***************************************************************************)

\* The audit log only grows.
LogGrows ==
  /\ Len(auditLog) \in Nat /\ Len(auditLog') \in Nat
  /\ Len(auditLog) <= Len(auditLog')
  /\ DOMAIN auditLog = 1..Len(auditLog)
  /\ DOMAIN auditLog' = 1..Len(auditLog')
  /\ \A l \in DOMAIN auditLog : l \in DOMAIN auditLog' /\ auditLog'[l] = auditLog[l]

LEMMA LogStep ==
  ASSUME TypeOK, [Next]_engineVars
  PROVE  /\ LogGrows
         /\ \/ auditLog' = auditLog
            \/ \E r \in Handlers, row \in AuditRow :
                 /\ WriteAuditLog(r) \/ LogRejection(r)
                 /\ auditLog' = Append(auditLog, row)
<1>1. /\ auditLog \in Seq(AuditRow) /\ Len(auditLog) \in Nat
      /\ DOMAIN auditLog = 1..Len(auditLog)
  BY LenProperties DEF TypeOK
<1>2. ASSUME NEW r \in Handlers, Begin(r) \/ EngineStep(r),
             ~WriteAuditLog(r), ~LogRejection(r)
      PROVE  auditLog' = auditLog
  BY <1>2 DEF EngineStep, Begin, GetCovenant, GetMember, IdentityFails,
     RateLimitGate, GateFails, CheckAndReserve, ExecuteStatementFails,
     CalculateEffects, AuditLogFails, ApplyStatementFails, RecordSpend,
     RecordSpendFails, SettleReservation, ReleaseReservation, tables
<1>3. ASSUME NEW r \in Handlers, ToolStep(r)
      PROVE  auditLog' = auditLog
  BY <1>3 DEF ToolStep, PreconditionsPass, PreconditionsFail,
     ExecuteSucceeds, ExecuteOverlooks, ExecuteFails, ApplySucceeds, ApplyFails,
     ApplyOverlooks, ApplyRefund, tables
<1>4. ASSUME NEW r \in Handlers, WriteAuditLog(r) \/ LogRejection(r)
      PROVE  \/ auditLog' = auditLog
             \/ \E row \in AuditRow : auditLog' = Append(auditLog, row)
  <2>1. \/ auditLog' = auditLog
        \/ auditLog' = Append(auditLog, SuccessRow(r))
        \/ auditLog' = Append(auditLog, RejectedRow(r))
    BY <1>4 DEF WriteAuditLog, LogRejection
  <2>2. QED
    BY <2>1, RowsTyped
<1>5. ASSUME Environment \/ CovenantChanges \/ MemberChanges
             \/ UNCHANGED engineVars
      PROVE  auditLog' = auditLog
  BY <1>5 DEF Environment, SetBudget, HourPasses, Crash, CovenantChanges,
              MemberChanges, engineVars, tables
<1>6. \/ auditLog' = auditLog
      \/ \E r \in Handlers, row \in AuditRow :
           /\ WriteAuditLog(r) \/ LogRejection(r)
           /\ auditLog' = Append(auditLog, row)
  BY <1>2, <1>3, <1>4, <1>5 DEF Next
<1>7. LogGrows
  <2>1. CASE auditLog' = auditLog
    BY <1>1, <2>1 DEF LogGrows
  <2>2. ASSUME NEW row \in AuditRow, auditLog' = Append(auditLog, row)
        PROVE  LogGrows
    <3>1. /\ auditLog' \in Seq(AuditRow) /\ Len(auditLog') = Len(auditLog) + 1
          /\ \A i \in 1..Len(auditLog) : auditLog'[i] = auditLog[i]
      BY <1>1, <2>2, Appended
    <3>2. DOMAIN auditLog' = 1..Len(auditLog')
      BY <3>1, LenProperties
    <3>3. QED
      BY <1>1, <3>1, <3>2 DEF LogGrows
  <2>3. QED
    BY <1>6, <2>1, <2>2
<1>8. QED
  BY <1>6, <1>7

\* What an assignment to one local of Run leaves alone.
LEMMA RunAssigned ==
  ASSUME NEW L \in RunLocals, NEW x
  PROVE  /\ LET M == [L EXCEPT !.state = x]
            IN /\ M.no = L.no /\ M.call = L.call /\ M.resv = L.resv
               /\ M.log = L.log /\ M.eff = L.eff
         /\ LET M == [L EXCEPT !.resv = x]
            IN /\ M.no = L.no /\ M.call = L.call /\ M.state = L.state
               /\ M.log = L.log /\ M.eff = L.eff
         /\ LET M == [L EXCEPT !.log = x]
            IN /\ M.no = L.no /\ M.call = L.call /\ M.state = L.state
               /\ M.log = x /\ M.eff = L.eff /\ M.resv = L.resv
         /\ LET M == [L EXCEPT !.eff = x]
            IN /\ M.no = L.no /\ M.call = L.call /\ M.state = L.state
               /\ M.log = L.log /\ M.eff = x /\ M.resv = L.resv
BY DEF RunLocals

\* A step of the engine for handler r moves r alone.
LEMMA EngineMoves ==
  ASSUME TypeOK, NEW r \in Handlers, Begin(r) \/ EngineStep(r) \/ ToolStep(r)
  PROVE  \A q \in Handlers : q # r => pc'[q] = pc[q] /\ run'[q] = run[q]
<1> DEFINE Moved == /\ \E l : pc' = [pc EXCEPT ![r] = l]
                    /\ run' = run \/ \E L : run' = [run EXCEPT ![r] = L]
<1>1. ASSUME Moved
      PROVE  \A q \in Handlers : q # r => pc'[q] = pc[q] /\ run'[q] = run[q]
  BY <1>1 DEF TypeOK
<1>2. ASSUME NEW l, Goto(r, l), run' = run \/ \E L : run' = [run EXCEPT ![r] = L]
      PROVE  Moved
  BY <1>2 DEF Goto
<1>3. Return(r) => Moved
  BY <1>2 DEF Return
<1> HIDE DEF Moved
<1>4. CASE Begin(r)
  <2>1. PICK c \in Calls : run' = [run EXCEPT ![r] = RunOf(calls + 1, c)]
    BY <1>4 DEF Begin
  <2>2. QED
    BY <1>1, <1>2, <1>4, <2>1, Zenon DEF Begin
<1>5. ASSUME NEW l, Goto(r, l), run' = run
      PROVE  Moved
  BY <1>2, <1>5
<1>6. GetCovenant(r) => Moved
  <2>1. GetCovenant(r) =>
          run' = [run EXCEPT ![r] = [run[r] EXCEPT !.state = covState]]
    BY DEF GetCovenant
  <2>2. QED
    BY <1>2, <2>1, Zenon DEF GetCovenant
<1>7. \/ GetMember(r) \/ IdentityFails(r) \/ RateLimitGate(r) \/ GateFails(r)
      \/ ExecuteStatementFails(r) \/ CalculateEffects(r) \/ AuditLogFails(r)
      \/ ApplyStatementFails(r) \/ RecordSpendFails(r) \/ SettleReservation(r)
      \/ LogRejection(r)
      => Moved
  BY <1>3, <1>5, Zenon DEF GetMember, IdentityFails, RateLimitGate, GateFails,
     ExecuteStatementFails, CalculateEffects, AuditLogFails,
     ApplyStatementFails, RecordSpendFails, SettleReservation, LogRejection
<1>8. RecordSpend(r) => Moved
  BY <1>3, <1>5 DEF RecordSpend
<1>9. CheckAndReserve(r) => Moved
  <2>1. CheckAndReserve(r) =>
          \/ run' = run
          \/ run' = [run EXCEPT
                       ![r] = [run[r] EXCEPT !.resv = Len(reservations) + 1]]
    BY DEF CheckAndReserve
  <2>2. CheckAndReserve(r) => \E l : Goto(r, l)
    BY DEF CheckAndReserve
  <2>3. QED
    BY <1>2, <2>1, <2>2, Zenon
<1>10. WriteAuditLog(r) => Moved
  <2>1. WriteAuditLog(r) =>
          run' = [run EXCEPT ![r] = [run[r] EXCEPT !.log = Len(auditLog) + 1]]
    BY DEF WriteAuditLog
  <2>2. QED
    BY <1>2, <2>1, Zenon DEF WriteAuditLog
<1>11. ReleaseReservation(r) => Moved
  <2>1. ReleaseReservation(r) =>
          \/ Return(r)
          \/ /\ Goto(r, "reject")
             /\ run' = [run EXCEPT ![r] = [run[r] EXCEPT !.resv = 0]]
    BY DEF ReleaseReservation
  <2>2. QED
    BY <1>2, <1>3, <2>1, Zenon
<1>12. CASE ToolStep(r)
  <2>1. ASSUME NEW eff \in Effects,
               ExecuteSucceeds(r, eff) \/ ExecuteOverlooks(r, eff)
        PROVE  Moved
    <3>1. /\ run' = [run EXCEPT ![r] = [run[r] EXCEPT !.eff = eff]]
          /\ Goto(r, "effects")
      BY <2>1 DEF ExecuteSucceeds, ExecuteOverlooks
    <3>2. QED
      BY <1>2, <3>1, Zenon
  <2>2. \/ PreconditionsPass(r) \/ PreconditionsFail(r) \/ ExecuteFails(r)
        \/ ApplySucceeds(r) \/ ApplyFails(r) \/ ApplyOverlooks(r)
        \/ \E amount \in 1..MaxCost : ApplyRefund(r, amount)
        => Moved
    BY <1>5, Zenon DEF PreconditionsPass, PreconditionsFail, ExecuteFails,
       ApplySucceeds, ApplyFails, ApplyOverlooks, ApplyRefund
  <2>3. QED
    BY <1>1, <1>12, <2>1, <2>2 DEF ToolStep
<1>13. QED
  BY <1>1, <1>4, <1>6, <1>7, <1>8, <1>9, <1>10, <1>11, <1>12 DEF EngineStep
-----------------------------------------------------------------------------
(* Where a call goes next, and which statement writes which table.         *)

\* The steps of Run in order, and its two failure paths.
Edge(l, m) ==
  \/ l = "getCovenant" /\ m = "getMember"
  \/ l = "getMember" /\ m = "rateLimit"
  \/ l = "rateLimit" /\ m \in {"preconditions", "reject"}
  \/ l = "preconditions" /\ m \in {"reserve", "reject"}
  \/ l = "reserve" /\ m \in {"execute", "reject"}
  \/ l = "execute" /\ m \in {"effects", "releaseReject"}
  \/ l = "effects" /\ m \in {"audit", "releaseReject"}
  \/ l = "audit" /\ m \in {"apply", "release"}
  \/ l = "apply" /\ m \in {"spend", "release"}
  \/ l = "spend" /\ m = "settle"
  \/ l = "releaseReject" /\ m = "reject"

\* Step r keeps its call, and follows an edge or returns.
Follows(r) ==
  \/ pc'[r] = "idle" /\ run'[r] = NoRun
  \/ /\ Edge(pc[r], pc'[r])
     /\ run'[r].call = run[r].call /\ run'[r].no = run[r].no
     /\ \/ run'[r].resv = run[r].resv
        \/ CheckAndReserve(r) \/ ReleaseReservation(r)

LEMMA Flow ==
  ASSUME TypeOK, NEW r \in Handlers, EngineStep(r) \/ ToolStep(r)
  PROVE  Follows(r) /\ pc[r] # "idle"
<1>0. /\ pc \in [Handlers -> Labels] /\ run \in [Handlers -> RunLocals]
      /\ run[r] \in RunLocals
  BY DEF TypeOK
<1>a. ASSUME Return(r)
      PROVE  Follows(r)
  BY <1>0, <1>a DEF Return, Goto, Follows
<1>b. ASSUME NEW l, Goto(r, l), Edge(pc[r], l), run' = run
      PROVE  Follows(r)
  BY <1>0, <1>b DEF Goto, Follows
<1>c. ASSUME NEW l, Goto(r, l), Edge(pc[r], l), NEW M,
             M.call = run[r].call, M.no = run[r].no,
             \/ M.resv = run[r].resv
             \/ CheckAndReserve(r) \/ ReleaseReservation(r),
             run' = [run EXCEPT ![r] = M]
      PROVE  Follows(r)
  <2>1. run'[r] = M /\ pc'[r] = l
    BY <1>0, <1>c DEF Goto
  <2>2. QED
    BY <1>c, <2>1 DEF Follows
<1>1. GetCovenant(r) => Follows(r)
  <2> DEFINE M == [run[r] EXCEPT !.state = covState]
  <2>1. GetCovenant(r) => /\ run' = [run EXCEPT ![r] = M]
                          /\ Goto(r, "getMember") /\ Edge(pc[r], "getMember")
    BY DEF GetCovenant, At, Edge
  <2>2. /\ M.call = run[r].call /\ M.no = run[r].no
        /\ M.resv = run[r].resv
    BY <1>0, RunAssigned
  <2> HIDE DEF M
  <2>3. QED
    BY <1>c, <2>1, <2>2
<1>2. /\ GetMember(r) => Follows(r)
      /\ IdentityFails(r) => Follows(r)
      /\ RateLimitGate(r) => Follows(r)
  BY <1>a, <1>b DEF GetMember, IdentityFails, RateLimitGate, At, Edge
<1>3. /\ GateFails(r) => Follows(r)
      /\ ExecuteStatementFails(r) => Follows(r)
      /\ CalculateEffects(r) => Follows(r)
  BY <1>b DEF GateFails, ExecuteStatementFails, CalculateEffects, At, Edge
<1>4. /\ AuditLogFails(r) => Follows(r)
      /\ ApplyStatementFails(r) => Follows(r)
      /\ RecordSpend(r) => Follows(r)
  BY <1>a, <1>b DEF AuditLogFails, ApplyStatementFails, RecordSpend, At, Edge
<1>5. /\ RecordSpendFails(r) => Follows(r)
      /\ SettleReservation(r) => Follows(r)
      /\ LogRejection(r) => Follows(r)
  BY <1>a DEF RecordSpendFails, SettleReservation, LogRejection
<1>6. CheckAndReserve(r) => Follows(r)
  <2> DEFINE M == [run[r] EXCEPT !.resv = Len(reservations) + 1]
  <2>1. CheckAndReserve(r) =>
          /\ run' = run \/ run' = [run EXCEPT ![r] = M]
          /\ \E l : Goto(r, l) /\ Edge(pc[r], l)
    BY DEF CheckAndReserve, At, Edge
  <2>2. M.call = run[r].call /\ M.no = run[r].no
    BY <1>0, RunAssigned
  <2> HIDE DEF M
  <2>3. QED
    BY <1>b, <1>c, <2>1, <2>2
<1>7. WriteAuditLog(r) => Follows(r)
  <2> DEFINE M == [run[r] EXCEPT !.log = Len(auditLog) + 1]
  <2>1. WriteAuditLog(r) =>
          /\ run' = [run EXCEPT ![r] = M]
          /\ Goto(r, "apply") /\ Edge(pc[r], "apply")
    BY DEF WriteAuditLog, At, Edge
  <2>2. /\ M.call = run[r].call /\ M.no = run[r].no
        /\ M.resv = run[r].resv
    BY <1>0, RunAssigned
  <2> HIDE DEF M
  <2>3. QED
    BY <1>c, <2>1, <2>2
<1>8. ReleaseReservation(r) => Follows(r)
  <2> DEFINE M == [run[r] EXCEPT !.resv = 0]
  <2>1. ReleaseReservation(r) =>
          \/ Return(r)
          \/ /\ run' = [run EXCEPT ![r] = M]
             /\ Goto(r, "reject") /\ Edge(pc[r], "reject")
    BY DEF ReleaseReservation, At, Edge
  <2>2. M.call = run[r].call /\ M.no = run[r].no
    BY <1>0, RunAssigned
  <2> HIDE DEF M
  <2>3. QED
    BY <1>a, <1>c, <2>1, <2>2
<1>9. ASSUME NEW eff, ExecuteSucceeds(r, eff) \/ ExecuteOverlooks(r, eff)
      PROVE  Follows(r)
  <2> DEFINE M == [run[r] EXCEPT !.eff = eff]
  <2>1. /\ run' = [run EXCEPT ![r] = M]
        /\ Goto(r, "effects") /\ Edge(pc[r], "effects")
    BY <1>9 DEF ExecuteSucceeds, ExecuteOverlooks, At, Edge
  <2>2. /\ M.call = run[r].call /\ M.no = run[r].no
        /\ M.resv = run[r].resv
    BY <1>0, RunAssigned
  <2> HIDE DEF M
  <2>3. QED
    BY <1>c, <2>1, <2>2
<1>10. CASE ToolStep(r)
  <2>1. /\ PreconditionsPass(r) => Follows(r)
        /\ PreconditionsFail(r) => Follows(r)
        /\ ExecuteFails(r) => Follows(r)
        /\ ApplySucceeds(r) => Follows(r)
        /\ ApplyFails(r) => Follows(r)
        /\ ApplyOverlooks(r) => Follows(r)
        /\ \A amount : ApplyRefund(r, amount) => Follows(r)
    BY <1>b DEF PreconditionsPass, PreconditionsFail, ExecuteFails,
       ApplySucceeds, ApplyFails, ApplyOverlooks, ApplyRefund, At, Edge
  <2>2. pc[r] # "idle"
    BY <1>10 DEF ToolStep, PreconditionsPass, PreconditionsFail, ExecuteFails,
       ExecuteSucceeds, ExecuteOverlooks, ApplySucceeds, ApplyFails,
       ApplyOverlooks, ApplyRefund, At
  <2>3. QED
    BY <1>9, <1>10, <2>1, <2>2 DEF ToolStep
<1>11. CASE EngineStep(r)
  <2>1. pc[r] # "idle"
    BY <1>11 DEF EngineStep, GetCovenant, GetMember, IdentityFails,
       RateLimitGate, GateFails, CheckAndReserve, ExecuteStatementFails,
       CalculateEffects, WriteAuditLog, AuditLogFails, ApplyStatementFails,
       RecordSpend, RecordSpendFails, SettleReservation, ReleaseReservation,
       LogRejection, At
  <2>2. QED
    BY <1>1, <1>2, <1>3, <1>4, <1>5, <1>6, <1>7, <1>8, <1>11, <2>1 DEF EngineStep
<1>12. QED
  BY <1>10, <1>11
-----------------------------------------------------------------------------
(* The rows of the audit log.                                              *)

\* Calls that have a row still to write, if only that of their rejection.
MayLog == Labels \ {"idle", "apply", "spend", "settle", "release"}

Loggers == {r \in Handlers : pc[r] \in MayLog}

\* A call is logged once at most.
LogRoom == Len(auditLog) + Cardinality(Loggers) <= calls

\* A set of handlers that step r changes by r alone.
LEMMA HandlersCounted ==
  ASSUME NEW S \in SUBSET Handlers, NEW T \in SUBSET Handlers, NEW r \in Handlers,
         \A q \in Handlers : q # r /\ q \in T => q \in S
  PROVE  /\ Cardinality(S) \in Nat /\ Cardinality(T) \in Nat
         /\ Cardinality(T) <= Cardinality(S) + 1
         /\ r \in S \/ r \notin T => Cardinality(T) <= Cardinality(S)
         /\ r \in S /\ r \notin T => Cardinality(T) <= Cardinality(S) - 1
<1>1. IsFiniteSet(S) /\ IsFiniteSet(T)
  BY ConstantsAssumption, FS_Subset
<1>2. Cardinality(S) \in Nat /\ Cardinality(T) \in Nat
  BY <1>1, FS_CardinalityType
<1>3. /\ IsFiniteSet(S \cup {r})
      /\ Cardinality(S \cup {r}) =
           IF r \in S THEN Cardinality(S) ELSE Cardinality(S) + 1
  BY <1>1, FS_AddElement
<1>4. T \in SUBSET (S \cup {r})
  OBVIOUS
<1>5. Cardinality(T) <= Cardinality(S \cup {r})
  BY <1>3, <1>4, FS_Subset
<1>6. Cardinality(T) <= Cardinality(S) + 1
  BY <1>2, <1>3, <1>5
<1>7. ASSUME r \in S \/ r \notin T
      PROVE  Cardinality(T) <= Cardinality(S)
  BY <1>1, <1>7, FS_Subset
<1>8. ASSUME r \in S, r \notin T
      PROVE  Cardinality(T) <= Cardinality(S) - 1
  <2>1. /\ IsFiniteSet(S \ {r})
        /\ Cardinality(S \ {r}) = Cardinality(S) - 1
    BY <1>1, <1>8, FS_RemoveElement
  <2>2. T \in SUBSET (S \ {r})
    BY <1>8
  <2>3. QED
    BY <2>1, <2>2, FS_Subset
<1>9. QED
  BY <1>2, <1>6, <1>7, <1>8


\* The counters of the bounds.
LEMMA CountersStep ==
  ASSUME TypeOK, [Next]_engineVars
  PROVE  /\ calls' = calls \/ (calls' = calls + 1 /\ \E r \in Handlers : Begin(r))
         /\ hours' = hours \/ HourPasses
         /\ crashes' = crashes \/ Crash
         /\ faults' = faults \/ faults' = faults + 1
<1>1. ASSUME NEW r \in Handlers, Begin(r)
      PROVE  /\ calls' = calls + 1 /\ UNCHANGED <<hours, crashes, faults>>
  BY <1>1 DEF Begin
<1>2. ASSUME NEW r \in Handlers, EngineStep(r) \/ ToolStep(r)
      PROVE  /\ UNCHANGED <<calls, hours, crashes>>
             /\ faults' = faults \/ faults' = faults + 1
  <2>1. \/ EngineStep(r) /\ ~WriteAuditLog(r)
        \/ WriteAuditLog(r) \/ ToolStep(r)
    BY <1>2
  <2>2. EngineStep(r) => UNCHANGED bounds \/ StatementFails
    BY DEF EngineStep, GetCovenant, GetMember, IdentityFails, RateLimitGate,
       GateFails, CheckAndReserve, ExecuteStatementFails, CalculateEffects,
       WriteAuditLog, AuditLogFails, ApplyStatementFails, RecordSpend,
       RecordSpendFails, SettleReservation, ReleaseReservation, LogRejection
  <2>3. ToolStep(r) => UNCHANGED bounds \/ StatementFails
    BY DEF ToolStep, PreconditionsPass, PreconditionsFail, ExecuteFails,
       ExecuteSucceeds, ExecuteOverlooks, ApplySucceeds, ApplyFails,
       ApplyOverlooks, ApplyRefund
  <2>4. QED
    BY <1>2, <2>2, <2>3 DEF bounds, StatementFails
<1>3. ASSUME Environment \/ CovenantChanges \/ MemberChanges
             \/ UNCHANGED engineVars
      PROVE  /\ UNCHANGED <<calls, faults>>
             /\ hours' = hours \/ HourPasses
             /\ crashes' = crashes \/ Crash
  BY <1>3 DEF Environment, SetBudget, HourPasses, Crash, CovenantChanges,
              MemberChanges, engineVars, bounds
<1>4. QED
  BY <1>1, <1>2, <1>3 DEF Next

\* Steps that no call takes leave the calls where they are, or end them all.
LEMMA NoCallMoves ==
  ASSUME Environment \/ CovenantChanges \/ MemberChanges \/ UNCHANGED engineVars
  PROVE  \/ UNCHANGED <<pc, run>> /\ ~Crash
         \/ /\ Crash
            /\ \A r \in Handlers : pc'[r] = "idle" /\ run'[r] = NoRun
<1>1. CASE Crash
  BY <1>1 DEF Crash
<1>2. CASE ~Crash
  BY <1>2 DEF Environment, SetBudget, HourPasses, CovenantChanges,
              MemberChanges, engineVars
<1>3. QED
  BY <1>1, <1>2

LEMMA LogRoomStep == TypeOK /\ LogRoom /\ [Next]_engineVars => LogRoom'
<1> SUFFICES ASSUME TypeOK, LogRoom, [Next]_engineVars
             PROVE  LogRoom'
  OBVIOUS
<1>0. /\ pc \in [Handlers -> Labels] /\ calls \in Nat /\ TypeOK'
      /\ Len(auditLog) \in Nat /\ Len(auditLog') \in Nat
      /\ Loggers \in SUBSET Handlers /\ Loggers' \in SUBSET Handlers
  <2>1. TypeOK'
    BY TypeStep
  <2>2. Len(auditLog) \in Nat /\ Len(auditLog') \in Nat
    BY <2>1, LenProperties DEF TypeOK
  <2>3. QED
    BY <2>1, <2>2 DEF TypeOK, Loggers
<1>1. ASSUME NEW r \in Handlers, Begin(r)
      PROVE  LogRoom'
  <2>1. /\ calls' = calls + 1 /\ auditLog' = auditLog
    BY <1>1 DEF Begin, tables
  <2>2. \A q \in Handlers : q # r => pc'[q] = pc[q]
    BY <1>1, EngineMoves
  <2>3. \A q \in Handlers : q # r /\ q \in Loggers' => q \in Loggers
    BY <2>2 DEF Loggers
  <2>4. /\ Cardinality(Loggers) \in Nat /\ Cardinality(Loggers') \in Nat
        /\ Cardinality(Loggers') <= Cardinality(Loggers) + 1
    BY <1>0, <2>3, HandlersCounted
  <2>5. QED
    BY <1>0, <2>1, <2>4 DEF LogRoom
<1>2. ASSUME NEW r \in Handlers, EngineStep(r) \/ ToolStep(r)
      PROVE  LogRoom'
  <2>1. /\ calls' = calls
        /\ auditLog' # auditLog => WriteAuditLog(r) \/ LogRejection(r)
    <3>1. EngineStep(r) /\ ~WriteAuditLog(r) /\ ~LogRejection(r) =>
            auditLog' = auditLog /\ calls' = calls
      BY DEF EngineStep, GetCovenant, GetMember, IdentityFails,
       RateLimitGate, GateFails, CheckAndReserve, ExecuteStatementFails,
       CalculateEffects, AuditLogFails, ApplyStatementFails, RecordSpend,
       RecordSpendFails, SettleReservation, ReleaseReservation, tables,
       StatementFails, bounds
    <3>2. WriteAuditLog(r) \/ LogRejection(r) => calls' = calls
      BY DEF WriteAuditLog, LogRejection, StatementFails, bounds
    <3>3. ToolStep(r) => auditLog' = auditLog /\ calls' = calls
      BY DEF ToolStep, PreconditionsPass, PreconditionsFail,
       ExecuteSucceeds, ExecuteOverlooks, ExecuteFails, ApplySucceeds,
       ApplyFails, ApplyOverlooks, ApplyRefund, tables, StatementFails, bounds
    <3>4. QED
      BY <1>2, <3>1, <3>2, <3>3
  <2>2. \A q \in Handlers : q # r => pc'[q] = pc[q]
    BY <1>2, EngineMoves
  <2>3. \A q \in Handlers : q # r /\ q \in Loggers' => q \in Loggers
    BY <2>2 DEF Loggers
  <2>4. /\ Cardinality(Loggers) \in Nat /\ Cardinality(Loggers') \in Nat
        /\ r \in Loggers \/ r \notin Loggers' =>
             Cardinality(Loggers') <= Cardinality(Loggers)
        /\ r \in Loggers /\ r \notin Loggers' =>
             Cardinality(Loggers') <= Cardinality(Loggers) - 1
    BY <1>0, <2>3, HandlersCounted
  <2>5. r \in Loggers \/ r \notin Loggers'
    <3>1. Follows(r)
      BY <1>2, Flow
    <3>2. pc[r] \in Labels
      BY <1>0
    <3>3. QED
      BY <3>1, <3>2 DEF Follows, Edge, Loggers, MayLog, Labels
  <2>6. CASE auditLog' = auditLog
    BY <1>0, <2>1, <2>4, <2>5, <2>6 DEF LogRoom
  <2>7. CASE WriteAuditLog(r) \/ LogRejection(r)
    <3>1. r \in Loggers /\ r \notin Loggers'
      BY <1>0, <2>7 DEF WriteAuditLog, LogRejection, At, Return, Goto, Loggers,
                        MayLog, Labels
    <3>2. \/ auditLog' = auditLog
          \/ auditLog' = Append(auditLog, SuccessRow(r))
          \/ auditLog' = Append(auditLog, RejectedRow(r))
      BY <2>7 DEF WriteAuditLog, LogRejection
    <3>3. Len(auditLog') <= Len(auditLog) + 1
      BY <1>0, <3>2, RowsTyped, Appended DEF TypeOK
    <3>4. QED
      BY <1>0, <2>1, <2>4, <3>1, <3>3 DEF LogRoom
  <2>8. QED
    BY <2>1, <2>6, <2>7
<1>3. ASSUME Environment \/ CovenantChanges \/ MemberChanges
             \/ UNCHANGED engineVars
      PROVE  LogRoom'
  <2>1. calls' = calls /\ auditLog' = auditLog
    BY <1>3 DEF Environment, SetBudget, HourPasses, Crash, CovenantChanges,
                MemberChanges, engineVars, tables, bounds
  <2>2. \A r \in Handlers : r \in Loggers' => r \in Loggers
    BY <1>3, NoCallMoves DEF Loggers, MayLog
  <2>3. IsFiniteSet(Loggers) /\ Loggers' \in SUBSET Loggers
    BY <1>0, <2>2, ConstantsAssumption, FS_Subset
  <2>4. /\ Cardinality(Loggers') <= Cardinality(Loggers)
        /\ Cardinality(Loggers) \in Nat /\ Cardinality(Loggers') \in Nat
    BY <2>3, FS_Subset, FS_CardinalityType
  <2>5. QED
    BY <1>0, <2>1, <2>4 DEF LogRoom
<1>4. QED
  BY <1>1, <1>2, <1>3 DEF Next

LEMMA LogRoomInit == Init => LogRoom
<1> SUFFICES ASSUME Init
             PROVE  LogRoom
  OBVIOUS
<1>1. auditLog = <<>> /\ calls = 0 /\ Loggers = {}
  BY DEF Init, Loggers, MayLog
<1>2. QED
  BY <1>1, FS_EmptySet DEF LogRoom

LEMMA LogRoomAlways == Spec => []LogRoom
BY TypeCorrect, LogRoomInit, LogRoomStep, PTL DEF Spec
-----------------------------------------------------------------------------
(* Orphaned reservations.                                                  *)

\* A call holds a reservation from Step 2.5 until it is resolved.
HeldLate ==
  \A r \in Handlers : run[r].resv # 0 =>
    pc[r] \in {"execute", "effects", "audit", "apply", "spend", "settle",
               "release", "releaseReject"}

LEMMA Releases ==
  ASSUME TypeOK, NEW r \in Handlers
  PROVE  /\ ReleaseReservation(r) => run'[r].resv = 0
         /\ (EngineStep(r) \/ ToolStep(r)) /\ pc[r] = "releaseReject" =>
              ReleaseReservation(r)
<1>0. run \in [Handlers -> RunLocals] /\ run[r] \in RunLocals
  BY DEF TypeOK
<1>1. ASSUME ReleaseReservation(r)
      PROVE  run'[r].resv = 0
  <2> DEFINE M == [run[r] EXCEPT !.resv = 0]
  <2>1. run' = [run EXCEPT ![r] = NoRun] \/ run' = [run EXCEPT ![r] = M]
    BY <1>1 DEF ReleaseReservation, Return
  <2>2. M.resv = 0
    BY <1>0 DEF RunLocals
  <2> HIDE DEF M
  <2>3. run'[r] = NoRun \/ run'[r] = M
    BY <1>0, <2>1
  <2>4. QED
    BY <2>2, <2>3, NoRunHoldsNothing
<1>2. ASSUME EngineStep(r), pc[r] = "releaseReject"
      PROVE  ReleaseReservation(r)
  BY <1>2 DEF EngineStep, GetCovenant, GetMember, IdentityFails, RateLimitGate,
     GateFails, CheckAndReserve, ExecuteStatementFails, CalculateEffects,
     WriteAuditLog, AuditLogFails, ApplyStatementFails, RecordSpend,
     RecordSpendFails, SettleReservation, LogRejection, At
<1>3. ToolStep(r) => pc[r] # "releaseReject"
  BY DEF ToolStep, PreconditionsPass, PreconditionsFail, ExecuteFails,
     ExecuteSucceeds, ExecuteOverlooks, ApplySucceeds, ApplyFails,
     ApplyOverlooks, ApplyRefund, At
<1>4. QED
  BY <1>1, <1>2, <1>3

LEMMA HeldLateStep == TypeOK /\ HeldLate /\ [Next]_engineVars => HeldLate'
<1> SUFFICES ASSUME TypeOK, HeldLate, [Next]_engineVars
             PROVE  HeldLate'
  OBVIOUS
<1>0. pc \in [Handlers -> Labels] /\ run \in [Handlers -> RunLocals]
  BY DEF TypeOK
<1>1. ASSUME NEW r \in Handlers, Begin(r)
      PROVE  HeldLate'
  <2>1. \A q \in Handlers : q # r => pc'[q] = pc[q] /\ run'[q] = run[q]
    BY <1>1, EngineMoves
  <2>2. run'[r].resv = 0
    BY <1>0, <1>1 DEF Begin, RunOf
  <2>3. QED
    BY <2>1, <2>2 DEF HeldLate
<1>2. ASSUME NEW r \in Handlers, EngineStep(r) \/ ToolStep(r)
      PROVE  HeldLate'
  <2>1. \A q \in Handlers : q # r => pc'[q] = pc[q] /\ run'[q] = run[q]
    BY <1>2, EngineMoves
  <2>2. Follows(r)
    BY <1>2, Flow
  <2>3. CASE CheckAndReserve(r)
    <3>1. /\ pc[r] = "reserve"
          /\ pc' = [pc EXCEPT ![r] = "execute"] \/ run' = run
      BY <2>3 DEF CheckAndReserve, At, Goto
    <3>2. pc'[r] = "execute" \/ run'[r].resv = 0
      BY <1>0, <3>1 DEF HeldLate
    <3>3. QED
      BY <2>1, <3>2 DEF HeldLate
  <2>4. CASE ~CheckAndReserve(r) /\ run'[r].resv # 0
    <3>1. run'[r].resv = run[r].resv /\ Edge(pc[r], pc'[r])
      BY <2>2, <2>4, Releases, NoRunHoldsNothing DEF Follows
    <3>2. pc[r] # "releaseReject"
      BY <1>2, <2>4, Releases
    <3>3. pc'[r] \in {"execute", "effects", "audit", "apply", "spend",
                      "settle", "release", "releaseReject"}
      BY <2>4, <3>1, <3>2 DEF HeldLate, Edge
    <3>4. QED
      BY <2>1, <3>3 DEF HeldLate
  <2>5. CASE run'[r].resv = 0
    BY <2>1, <2>5 DEF HeldLate
  <2>6. QED
    BY <2>3, <2>4, <2>5
<1>3. ASSUME Environment \/ CovenantChanges \/ MemberChanges
             \/ UNCHANGED engineVars
      PROVE  HeldLate'
  BY <1>3, NoCallMoves, NoRunHoldsNothing DEF HeldLate
<1>4. QED
  BY <1>1, <1>2, <1>3 DEF Next

\* Nobody makes a reservation open but the call that will hold it.
LEMMA OpenedByHolder ==
  ASSUME TypeOK, NEW r \in Handlers, EngineStep(r) \/ ToolStep(r) \/ Begin(r),
         ChargeInv, NEW i \in DOMAIN reservations',
         reservations'[i].status = "reserved"
  PROVE  \/ i \in DOMAIN reservations /\ reservations[i].status = "reserved"
         \/ run'[r].resv = i
<1>0. /\ reservations \in Seq(Reservation) /\ Len(reservations) \in Nat
      /\ DOMAIN reservations = 1..Len(reservations)
      /\ run \in [Handlers -> RunLocals] /\ run[r] \in RunLocals
  BY LenProperties DEF TypeOK
<1>s. reservations \in Seq(Reservation)
  BY <1>0
<1>1. CASE reservations' = reservations
  BY <1>1
<1>2. CASE CheckAndReserve(r) /\ reservations' # reservations
  <2> DEFINE e == [amount |-> run[r].call.cost, log |-> 0, status |-> "reserved"]
             n == Len(reservations) + 1
             M == [run[r] EXCEPT !.resv = n]
  <2>1. /\ reservations' = Append(reservations, e) /\ run[r].call.cost > 0
        /\ run' = [run EXCEPT ![r] = M]
    BY <1>2 DEF CheckAndReserve
  <2>2. e \in Reservation
    BY <1>0, <2>1, CallTyped, ConstantsAssumption DEF RunLocals, Reservation
  <2>3. M.resv = n
    BY <1>0 DEF RunLocals
  <2> HIDE DEF e, M
  <2>4. /\ reservations' \in Seq(Reservation) /\ Len(reservations') = n
        /\ \A j \in 1..Len(reservations) : reservations'[j] = reservations[j]
    BY <1>0, <2>1, <2>2, Appended
  <2>5. i \in 1..n
    BY <2>4, LenProperties
  <2>6. run'[r].resv = n
    BY <1>0, <2>1, <2>3
  <2>7. QED
    BY <1>0, <2>4, <2>5, <2>6
<1>3. CASE SettleReservation(r) /\ reservations' # reservations
  <2> DEFINE x == run[r].resv
             n == run[r].log
  <2>1. /\ pc[r] = "settle"
        /\ reservations' = [reservations EXCEPT ![x] =
             [amount |-> @.amount, log |-> n, status |-> "settled"]]
    BY <1>3 DEF SettleReservation, At
  <2>2. x \in 1..Len(reservations) /\ n \in Nat
    BY <1>0, <2>1 DEF ChargeInv, SettlerHolds, HeldIsOpen, RunLocals
  <2> HIDE DEF x, n
  <2>3. /\ Len(reservations') = Len(reservations)
        /\ reservations' \in Seq(Reservation)
        /\ \A j \in 1..Len(reservations) :
             /\ reservations'[j].amount = reservations[j].amount
             /\ reservations'[j].log = IF j = x THEN n ELSE reservations[j].log
             /\ reservations'[j].status =
                  IF j = x THEN "settled" ELSE reservations[j].status
    BY <1>s, <2>1, <2>2, ReservationSettled
  <2>4. DOMAIN reservations' = 1..Len(reservations')
    BY <2>3, LenProperties
  <2>5. i \in 1..Len(reservations)
    BY <2>3, <2>4
  <2>6. QED
    BY <1>0, <2>3, <2>5
<1>4. CASE ReleaseReservation(r) /\ reservations' # reservations
  <2> DEFINE x == run[r].resv
  <2>1. x # 0 /\ reservations' = [reservations EXCEPT ![x].status = "released"]
    BY <1>4 DEF ReleaseReservation
  <2>2. x \in 1..Len(reservations)
    BY <2>1 DEF ChargeInv, HeldIsOpen
  <2> HIDE DEF x
  <2>3. /\ Len(reservations') = Len(reservations)
        /\ reservations' \in Seq(Reservation)
        /\ \A j \in 1..Len(reservations) :
             /\ reservations'[j].amount = reservations[j].amount
             /\ reservations'[j].log = reservations[j].log
             /\ reservations'[j].status =
                  IF j = x THEN "released" ELSE reservations[j].status
    BY SMTT(20), <1>s, <2>1, <2>2, ReservationReleased
  <2>4. DOMAIN reservations' = 1..Len(reservations')
    BY <2>3, LenProperties
  <2>5. i \in 1..Len(reservations)
    BY <2>3, <2>4
  <2>6. QED
    BY <1>0, <2>3, <2>5
<1>5. reservations' = reservations \/ CheckAndReserve(r) \/ SettleReservation(r)
      \/ ReleaseReservation(r)
  <2>1. Begin(r) => reservations' = reservations
    BY DEF Begin, tables
  <2>2. ToolStep(r) => reservations' = reservations
    BY DEF ToolStep, PreconditionsPass, PreconditionsFail, ExecuteSucceeds,
       ExecuteOverlooks, ExecuteFails, ApplySucceeds, ApplyFails,
       ApplyOverlooks, ApplyRefund, tables
  <2>3. EngineStep(r) /\ ~CheckAndReserve(r) /\ ~SettleReservation(r)
          /\ ~ReleaseReservation(r) => reservations' = reservations
    BY DEF EngineStep, GetCovenant, GetMember, IdentityFails, RateLimitGate,
       GateFails, ExecuteStatementFails, CalculateEffects, WriteAuditLog,
       AuditLogFails, ApplyStatementFails, RecordSpend, RecordSpendFails,
       LogRejection, tables
  <2>4. QED
    BY <2>1, <2>2, <2>3
<1>6. QED
  BY <1>1, <1>2, <1>3, <1>4, <1>5

\* A call lets go of its reservation by resolving it, or a statement failed.
LEMMA LetsGo ==
  ASSUME TypeOK, ChargeInv, HeldLate, NEW r \in Handlers,
         Begin(r) \/ EngineStep(r) \/ ToolStep(r),
         run[r].resv # 0, run'[r].resv # run[r].resv, ~StatementFails
  PROVE  reservations'[run[r].resv].status # "reserved"
<1>0. /\ reservations \in Seq(Reservation)
      /\ run \in [Handlers -> RunLocals] /\ run[r] \in RunLocals
      /\ run[r].resv \in 1..Len(reservations)
      /\ reservations[run[r].resv].amount = run[r].call.cost
  BY DEF TypeOK, ChargeInv, HeldIsOpen
<1>1. pc[r] \in {"execute", "effects", "audit", "apply", "spend", "settle",
                 "release", "releaseReject"}
  BY DEF HeldLate
<1>2. run[r].call.cost > 0
  <2>1. reservations[run[r].resv] \in Reservation
    BY <1>0, LenProperties
  <2>2. QED
    BY <1>0, <2>1, ConstantsAssumption DEF Reservation
<1>3. /\ ~CheckAndReserve(r) /\ ~Begin(r)
  BY <1>1 DEF CheckAndReserve, Begin, At
<1>4. CASE SettleReservation(r)
  <2>1. reservations' = [reservations EXCEPT ![run[r].resv] =
             [amount |-> @.amount, log |-> run[r].log, status |-> "settled"]]
    BY <1>4 DEF SettleReservation
  <2>2. run[r].log \in Nat
    BY <1>0 DEF RunLocals
  <2>3. QED
    BY <1>0, <2>1, <2>2, ReservationSettled
<1>5. CASE ReleaseReservation(r)
  <2>1. reservations' = [reservations EXCEPT ![run[r].resv].status = "released"]
    BY <1>5 DEF ReleaseReservation
  <2>2. QED
    BY <1>0, <2>1, ReservationReleased
<1>6. CASE ~SettleReservation(r) /\ ~ReleaseReservation(r)
  <2>1. Follows(r)
    BY <1>3, Flow
  <2>2. pc'[r] = "idle"
    BY <1>3, <1>6, <2>1 DEF Follows
  <2>3. pc \in [Handlers -> Labels]
    BY DEF TypeOK
  <2>4. ~ToolStep(r)
    BY <2>2, <2>3 DEF ToolStep, PreconditionsPass, PreconditionsFail,
       ExecuteSucceeds, ExecuteOverlooks, ExecuteFails, ApplySucceeds,
       ApplyFails, ApplyOverlooks, ApplyRefund, Goto
  <2>5. /\ ~GetCovenant(r) /\ ~GetMember(r) /\ ~IdentityFails(r)
        /\ ~RateLimitGate(r) /\ ~GateFails(r) /\ ~LogRejection(r)
    BY <1>1 DEF GetCovenant, GetMember, IdentityFails, RateLimitGate,
       GateFails, LogRejection, At
  <2>6. /\ ~ExecuteStatementFails(r) /\ ~CalculateEffects(r)
        /\ ~WriteAuditLog(r) /\ ~AuditLogFails(r) /\ ~ApplyStatementFails(r)
        /\ ~RecordSpendFails(r)
    BY <2>2, <2>3 DEF ExecuteStatementFails, CalculateEffects, WriteAuditLog,
       AuditLogFails, ApplyStatementFails, RecordSpendFails, Goto
  <2>7. ~RecordSpend(r)
    BY <1>2, <2>2, <2>3 DEF RecordSpend, Goto
  <2>8. QED
    BY <1>3, <1>6, <2>4, <2>5, <2>6, <2>7 DEF EngineStep
<1>7. QED
  BY <1>4, <1>5, <1>6

\* Products of counts.
LEMMA Products ==
  ASSUME NEW m \in Nat, NEW n \in Nat
  PROVE  m * n \in Nat /\ m * (n + 1) = m * n + m
OBVIOUS

LEMMA OrphansFinite ==
  ASSUME TypeOK
  PROVE  /\ DOMAIN reservations = 1..Len(reservations)
         /\ IsFiniteSet(DOMAIN reservations)
         /\ IsFiniteSet(Orphans) /\ Cardinality(Orphans) \in Nat
         /\ Cardinality(Handlers) \in Nat
<1>1. /\ DOMAIN reservations = 1..Len(reservations)
      /\ Len(reservations) \in Int /\ 1 \in Int
  BY LenProperties DEF TypeOK
<1>2. IsFiniteSet(DOMAIN reservations)
  BY <1>1, FS_Interval
<1>3. Orphans \in SUBSET DOMAIN reservations
  BY DEF Orphans
<1>4. IsFiniteSet(Orphans)
  BY <1>2, <1>3, FS_Subset
<1>5. QED
  BY <1>1, <1>2, <1>4, ConstantsAssumption, FS_CardinalityType

\* A handler's step orphans its own reservation at most, and no reservation
\* unless a statement failed.
LEMMA OrphansByCall ==
  ASSUME TypeOK, TypeOK', ChargeInv, HeldLate, OrphansExplained, NEW r \in Handlers,
         Begin(r) \/ EngineStep(r) \/ ToolStep(r)
  PROVE  Cardinality(Orphans') <=
           IF StatementFails THEN Cardinality(Orphans) + 1 ELSE Cardinality(Orphans)
<1>1. \A q \in Handlers : q # r => run'[q] = run[q]
  BY EngineMoves
<1>2. ASSUME NEW i \in Orphans', i \notin Orphans
      PROVE  i = run[r].resv /\ i # 0 /\ run'[r].resv # i
  <2>1. /\ i \in DOMAIN reservations' /\ reservations'[i].status = "reserved"
        /\ \A q \in Handlers : run'[q].resv # i
    BY <1>2 DEF Orphans, Holders
  <2>2. i \in DOMAIN reservations /\ reservations[i].status = "reserved"
    BY <2>1, OpenedByHolder
  <2>3. PICK q \in Handlers : run[q].resv = i
    BY <1>2, <2>2 DEF Orphans, Holders
  <2>4. q = r
    BY <1>1, <2>1, <2>3
  <2>5. i # 0
    BY <2>2, OrphansFinite
  <2>6. QED
    BY <2>1, <2>3, <2>4, <2>5
<1>3. CASE StatementFails
  <2> DEFINE x == run[r].resv
  <2>1. Orphans' \in SUBSET (Orphans \cup {x})
    BY <1>2
  <2> HIDE DEF x
  <2>2. /\ IsFiniteSet(Orphans \cup {x}) /\ Cardinality(Orphans) \in Nat
        /\ Cardinality(Orphans \cup {x}) =
             IF x \in Orphans THEN Cardinality(Orphans)
                              ELSE Cardinality(Orphans) + 1
    BY OrphansFinite, FS_AddElement
  <2>3. Cardinality(Orphans') <= Cardinality(Orphans \cup {x})
    BY <2>1, <2>2, FS_Subset
  <2>4. Cardinality(Orphans') \in Nat
    <3>1. IsFiniteSet(Orphans')
      BY <2>1, <2>2, FS_Subset
    <3>2. QED
      BY <3>1, FS_CardinalityType
  <2>5. Cardinality(Orphans') <= Cardinality(Orphans) + 1
    BY <2>2, <2>3, <2>4
  <2>6. QED
    BY <1>3, <2>5
<1>4. CASE ~StatementFails
  <2>1. ASSUME NEW i \in Orphans'
        PROVE  i \in Orphans
    <3>1. reservations'[i].status = "reserved"
      BY DEF Orphans
    <3>2. QED
      BY <1>2, <1>4, <3>1, LetsGo
  <2>2. Orphans' \in SUBSET Orphans
    BY <2>1
  <2>3. QED
    BY <1>4, <2>2, OrphansFinite, FS_Subset
<1>5. QED
  BY <1>3, <1>4

\* A crash orphans what the handlers held, one reservation each at most.
LEMMA OrphansByCrash ==
  ASSUME TypeOK, Crash
  PROVE  Cardinality(Orphans') <= Cardinality(Orphans) + Cardinality(Handlers)
<1> DEFINE N == {i \in DOMAIN reservations : Holders(i) # {}}
           f == [i \in N |-> CHOOSE r \in Handlers : run[r].resv = i]
<1>1. Orphans' \in SUBSET (Orphans \cup N)
  BY DEF Orphans, Crash, tables
<1>2. f \in Injection(N, Handlers)
  <2>1. \A i \in N : f[i] \in Handlers /\ run[f[i]].resv = i
    BY DEF Holders
  <2>2. f \in [N -> Handlers]
    BY <2>1
  <2> HIDE DEF f, N
  <2>3. \A i, j \in N : f[i] = f[j] => i = j
    BY <2>1
  <2>4. QED
    BY <2>2, <2>3 DEF Injection, IsInjective
<1> HIDE DEF f, N
<1>3. IsFiniteSet(N) /\ Cardinality(N) <= Cardinality(Handlers)
  BY <1>2, ConstantsAssumption, FS_Injection
<1>4. /\ IsFiniteSet(Orphans \cup N)
      /\ Cardinality(Orphans \cup N) =
           Cardinality(Orphans) + Cardinality(N) - Cardinality(Orphans \cap N)
  BY <1>3, OrphansFinite, FS_Union
<1>5. Cardinality(Orphans') <= Cardinality(Orphans \cup N)
  BY <1>1, <1>4, FS_Subset
<1>6. Cardinality(Orphans') \in Nat
  <2>1. IsFiniteSet(Orphans')
    BY <1>1, <1>4, FS_Subset
  <2>2. QED
    BY <2>1, FS_CardinalityType
<1>7. Cardinality(N) \in Nat /\ Cardinality(Orphans \cap N) \in Nat
  <2>1. Orphans \cap N \in SUBSET N
    OBVIOUS
  <2>2. IsFiniteSet(Orphans \cap N)
    BY <1>3, <2>1, FS_Subset
  <2>3. QED
    BY <1>3, <2>2, FS_CardinalityType
<1>8. QED
  BY <1>3, <1>4, <1>5, <1>6, <1>7, OrphansFinite

LEMMA OrphansStep ==
  TypeOK /\ ChargeInv /\ HeldLate /\ OrphansExplained /\ [Next]_engineVars
    => OrphansExplained'
<1> SUFFICES ASSUME TypeOK, ChargeInv, HeldLate, OrphansExplained,
                    [Next]_engineVars
             PROVE  OrphansExplained'
  OBVIOUS
<1> DEFINE H == Cardinality(Handlers)
<1>0. TypeOK'
  BY TypeStep
<1>1. /\ crashes \in Nat /\ faults \in Nat /\ crashes' \in Nat /\ faults' \in Nat
      /\ H \in Nat /\ Cardinality(Orphans) \in Nat
      /\ Cardinality(Orphans') \in Nat
  <2>1. IsFiniteSet(Orphans')
    <3>1. /\ DOMAIN reservations' = 1..Len(reservations')
          /\ Len(reservations') \in Int /\ 1 \in Int
      BY <1>0, LenProperties DEF TypeOK
    <3>2. IsFiniteSet(DOMAIN reservations')
      BY <3>1, FS_Interval
    <3>3. Orphans' \in SUBSET DOMAIN reservations'
      BY DEF Orphans
    <3>4. QED
      BY <3>2, <3>3, FS_Subset
  <2>2. QED
    BY <1>0, <2>1, OrphansFinite, FS_CardinalityType DEF TypeOK
<1>2. Cardinality(Orphans) <= H * crashes + faults
  BY DEF OrphansExplained
<1>3. /\ faults' >= faults /\ crashes' >= crashes
      /\ StatementFails => faults' = faults + 1
  BY <1>1, CountersStep DEF StatementFails, Crash
<1> HIDE DEF H
<1>4. /\ H * crashes \in Nat /\ H * crashes' \in Nat
      /\ H * (crashes + 1) = H * crashes + H
  BY <1>1, Products
<1>5. CASE Crash
  <2>1. Cardinality(Orphans') <= Cardinality(Orphans) + H
    BY <1>5, OrphansByCrash DEF H
  <2>2. crashes' = crashes + 1
    BY <1>5 DEF Crash
  <2>3. Cardinality(Orphans') <= H * crashes' + faults'
    BY <1>1, <1>2, <1>3, <1>4, <2>1, <2>2
  <2>4. QED
    BY <2>3 DEF OrphansExplained, H
<1>6. ASSUME crashes' = crashes,
             Cardinality(Orphans') <= IF StatementFails
                                      THEN Cardinality(Orphans) + 1
                                      ELSE Cardinality(Orphans)
      PROVE  OrphansExplained'
  <2>1. Cardinality(Orphans') <= H * crashes' + faults'
    BY <1>1, <1>2, <1>3, <1>4, <1>6
  <2>2. QED
    BY <2>1 DEF OrphansExplained, H
<1>7. ASSUME NEW r \in Handlers, Begin(r) \/ EngineStep(r) \/ ToolStep(r)
      PROVE  OrphansExplained'
  <2>1. crashes' = crashes \/ Crash
    BY CountersStep
  <2>2. QED
    BY <1>0, <1>5, <1>6, <1>7, <2>1, OrphansByCall
<1>8. ASSUME Environment \/ CovenantChanges \/ MemberChanges
             \/ UNCHANGED engineVars, ~Crash
      PROVE  OrphansExplained'
  <2>1. UNCHANGED <<run, reservations, crashes>>
    BY <1>8 DEF Environment, SetBudget, HourPasses, CovenantChanges,
                MemberChanges, engineVars, tables, bounds
  <2>2. Orphans' = Orphans
    BY <2>1 DEF Orphans, Holders
  <2>3. QED
    BY <1>1, <1>6, <2>1, <2>2
<1>9. QED
  BY <1>5, <1>7, <1>8 DEF Next, Environment

LEMMA OrphansInit == Init => HeldLate /\ OrphansExplained
<1> SUFFICES ASSUME Init
             PROVE  HeldLate /\ OrphansExplained
  OBVIOUS
<1>1. /\ reservations = <<>> /\ crashes = 0 /\ faults = 0
      /\ \A r \in Handlers : run[r] = NoRun
  BY DEF Init
<1>2. HeldLate
  BY <1>1, NoRunHoldsNothing DEF HeldLate
<1>3. Orphans = {} /\ Cardinality({}) = 0 /\ Cardinality(Handlers) \in Nat
  BY <1>1, FS_EmptySet, FS_CardinalityType, ConstantsAssumption DEF Orphans
<1>4. Cardinality(Orphans) <= Cardinality(Handlers) * crashes + faults
  BY <1>1, <1>3
<1>5. QED
  BY <1>2, <1>4 DEF OrphansExplained

\* However the calls interleave, a reservation stays open without a call that
\* will resolve it only where the server died, for what each handler held, or
\* where a statement whose error is dropped failed, once for each.
THEOREM OrphansAlwaysExplained == Spec => []OrphansExplained
<1>1. /\ TypeOK /\ ChargeInv /\ HeldLate /\ OrphansExplained /\ [Next]_engineVars
         => OrphansExplained'
      /\ TypeOK /\ HeldLate /\ [Next]_engineVars => HeldLate'
  BY OrphansStep, HeldLateStep
<1>2. QED
  BY <1>1, OrphansInit, ChargeInvariant, PTL DEF Spec
-----------------------------------------------------------------------------
(* The hourly quota.                                                       *)

\* What agent a's clause calls have logged and may still log fits in the hours
\* that are over and what this hour has counted.
QuotaOf(a) ==
  /\ callCount[a] <= RateLimit
  /\ Cardinality(ClauseRows(a)) + Cardinality(Admitted(a))
       <= RateLimit * hours + callCount[a]

QuotaInv == RateLimit > 0 => \A a \in Agents : QuotaOf(a)

LEMMA QuotaFinite ==
  ASSUME TypeOK, NEW a \in Agents
  PROVE  /\ IsFiniteSet(ClauseRows(a)) /\ Cardinality(ClauseRows(a)) \in Nat
         /\ IsFiniteSet(Admitted(a)) /\ Cardinality(Admitted(a)) \in Nat
         /\ Admitted(a) \in SUBSET Handlers
         /\ callCount[a] \in Nat /\ hours \in Nat
         /\ RateLimit \in Nat /\ RateLimit * hours \in Nat
<1>1. /\ DOMAIN auditLog = 1..Len(auditLog)
      /\ Len(auditLog) \in Int /\ 1 \in Int
  BY LenProperties DEF TypeOK
<1>2. IsFiniteSet(DOMAIN auditLog)
  BY <1>1, FS_Interval
<1>3. ClauseRows(a) \in SUBSET DOMAIN auditLog /\ Admitted(a) \in SUBSET Handlers
  BY DEF ClauseRows, Admitted
<1>4. IsFiniteSet(ClauseRows(a)) /\ IsFiniteSet(Admitted(a))
  BY <1>2, <1>3, ConstantsAssumption, FS_Subset
<1>5. /\ Cardinality(ClauseRows(a)) \in Nat /\ Cardinality(Admitted(a)) \in Nat
  BY <1>4, FS_CardinalityType
<1>6. RateLimit \in Nat /\ hours \in Nat /\ callCount[a] \in Nat
  BY ConstantsAssumption DEF TypeOK
<1>7. QED
  BY <1>3, <1>4, <1>5, <1>6, Products

\* A step that adds neither a row nor an admitted call of agent a.
LEMMA QuotaKept ==
  ASSUME TypeOK, NEW a \in Agents, QuotaOf(a),
         ClauseRows(a)' \in SUBSET ClauseRows(a),
         Admitted(a)' \in SUBSET Admitted(a),
         callCount'[a] = callCount[a], hours' = hours
  PROVE  QuotaOf(a)'
<1>1. /\ Cardinality(ClauseRows(a)') <= Cardinality(ClauseRows(a))
      /\ Cardinality(Admitted(a)') <= Cardinality(Admitted(a))
      /\ IsFiniteSet(ClauseRows(a)') /\ IsFiniteSet(Admitted(a)')
  BY QuotaFinite, FS_Subset
<1>2. Cardinality(ClauseRows(a)') \in Nat /\ Cardinality(Admitted(a)') \in Nat
  BY <1>1, FS_CardinalityType
<1>3. QED
  BY <1>1, <1>2, QuotaFinite DEF QuotaOf

\* A row logged by a call that leaves the gate behind takes its place.
LEMMA QuotaShift ==
  ASSUME TypeOK, NEW a \in Agents, QuotaOf(a), NEW m \in Nat, NEW n \in Nat,
         Cardinality(ClauseRows(a)') = m, Cardinality(Admitted(a)') = n,
         m + n <= Cardinality(ClauseRows(a)) + Cardinality(Admitted(a)),
         callCount'[a] = callCount[a], hours' = hours
  PROVE  QuotaOf(a)'
<1>1. /\ callCount[a] <= RateLimit
      /\ Cardinality(ClauseRows(a)) + Cardinality(Admitted(a))
           <= RateLimit * hours + callCount[a]
      /\ Cardinality(ClauseRows(a)) \in Nat /\ Cardinality(Admitted(a)) \in Nat
      /\ RateLimit * hours \in Nat /\ callCount[a] \in Nat
  BY QuotaFinite DEF QuotaOf
<1>2. m + n <= RateLimit * hours + callCount[a]
  BY <1>1
<1>3. QED
  BY <1>1, <1>2 DEF QuotaOf

\* Only the gate of Step 1.5 counts a call, and only it admits one.
LEMMA GateCounts ==
  ASSUME TypeOK, NEW r \in Handlers, EngineStep(r) \/ ToolStep(r)
  PROVE  /\ hours' = hours
         /\ \/ callCount' = callCount
            \/ /\ RateLimitGate(r) /\ RateLimited(run[r].call)
               /\ callCount[run[r].call.agent] < RateLimit
               /\ callCount' = [callCount EXCEPT ![run[r].call.agent] = @ + 1]
         /\ RateLimited(run[r].call) /\ pc[r] = "rateLimit"
              /\ pc'[r] = "preconditions" => callCount' # callCount
<1>0. pc \in [Handlers -> Labels] /\ callCount \in [Agents -> Nat]
      /\ run[r].call.agent \in Agents
  BY CallTyped DEF TypeOK, RunLocals
<1>1. hours' = hours
  <2>1. hours' = hours \/ HourPasses
    BY CountersStep DEF Next
  <2>2. CASE HourPasses
    <3>1. pc' = pc /\ pc[r] # "idle"
      BY <2>2, Flow DEF HourPasses
    <3>2. Edge(pc[r], pc'[r]) \/ pc'[r] = "idle"
      BY Flow DEF Follows
    <3>3. QED
      BY <3>1, <3>2 DEF Edge
  <2>3. QED
    BY <2>1, <2>2
<1>2. ToolStep(r) => callCount' = callCount /\ pc[r] # "rateLimit"
  BY DEF ToolStep, PreconditionsPass, PreconditionsFail, ExecuteSucceeds,
     ExecuteOverlooks, ExecuteFails, ApplySucceeds, ApplyFails, ApplyOverlooks,
     ApplyRefund, At, tables
<1>3. EngineStep(r) /\ ~RateLimitGate(r) =>
        /\ callCount' = callCount
        /\ pc[r] = "rateLimit" => GateFails(r)
  BY DEF EngineStep, GetCovenant, GetMember, IdentityFails, GateFails,
     CheckAndReserve, ExecuteStatementFails, CalculateEffects, WriteAuditLog,
     AuditLogFails, ApplyStatementFails, RecordSpend, RecordSpendFails,
     SettleReservation, ReleaseReservation, LogRejection, At, tables
<1>4. GateFails(r) => pc'[r] = "reject"
  BY <1>0 DEF GateFails, Goto
<1>5. CASE RateLimitGate(r)
  <2>1. \/ ~RateLimited(run[r].call) /\ callCount' = callCount
        \/ /\ RateLimited(run[r].call)
           /\ callCount[run[r].call.agent] < RateLimit
           /\ callCount' = [callCount EXCEPT ![run[r].call.agent] = @ + 1]
        \/ callCount' = callCount /\ pc' = [pc EXCEPT ![r] = "reject"]
    BY <1>5 DEF RateLimitGate, Goto
  <2>2. callCount' = [callCount EXCEPT ![run[r].call.agent] = @ + 1]
          => callCount' # callCount
    BY <1>0
  <2>3. QED
    BY <1>0, <1>1, <1>5, <2>1, <2>2
<1>6. QED
  BY <1>1, <1>2, <1>3, <1>4, <1>5

LEMMA QuotaCall ==
  ASSUME TypeOK, NEW r \in Handlers, EngineStep(r) \/ ToolStep(r),
         NEW a \in Agents, QuotaOf(a), RateLimit > 0
  PROVE  QuotaOf(a)'
<1>0. /\ pc \in [Handlers -> Labels] /\ callCount \in [Agents -> Nat]
      /\ run[r].call.agent \in Agents
      /\ auditLog \in Seq(AuditRow) /\ Len(auditLog) \in Nat
      /\ DOMAIN auditLog = 1..Len(auditLog)
      /\ [Next]_engineVars
  BY CallTyped, LenProperties DEF TypeOK, RunLocals, Next
<1>1. \A q \in Handlers : q # r => pc'[q] = pc[q] /\ run'[q] = run[q]
  BY EngineMoves
<1>2. Follows(r)
  BY Flow
<1>3. \A q \in Handlers : q # r /\ q \in Admitted(a)' => q \in Admitted(a)
  BY <1>1 DEF Admitted
<1>4. r \in Admitted(a)' /\ r \notin Admitted(a) =>
        /\ pc[r] = "rateLimit" /\ pc'[r] = "preconditions"
        /\ RateLimited(run[r].call) /\ run[r].call.agent = a
  BY <1>2 DEF Admitted, Follows, Edge, RateLimited
<1>5. /\ Admitted(a) \in SUBSET Handlers /\ Admitted(a)' \in SUBSET Handlers
  BY DEF Admitted
<1>6. /\ Cardinality(Admitted(a)) \in Nat /\ Cardinality(Admitted(a)') \in Nat
      /\ Cardinality(Admitted(a)') <= Cardinality(Admitted(a)) + 1
      /\ r \in Admitted(a) \/ r \notin Admitted(a)' =>
           Cardinality(Admitted(a)') <= Cardinality(Admitted(a))
      /\ r \in Admitted(a) /\ r \notin Admitted(a)' =>
           Cardinality(Admitted(a)') <= Cardinality(Admitted(a)) - 1
  BY <1>3, <1>5, HandlersCounted
<1>7. /\ hours' = hours
      /\ \/ callCount' = callCount
         \/ /\ RateLimitGate(r) /\ RateLimited(run[r].call)
            /\ callCount[run[r].call.agent] < RateLimit
            /\ callCount' = [callCount EXCEPT ![run[r].call.agent] = @ + 1]
      /\ RateLimited(run[r].call) /\ pc[r] = "rateLimit"
           /\ pc'[r] = "preconditions" => callCount' # callCount
  BY GateCounts
<1>8. CASE auditLog' = auditLog
  <2>1. ClauseRows(a)' = ClauseRows(a)
    BY <1>8 DEF ClauseRows
  <2>2. CASE callCount' = callCount
    <3>1. Admitted(a)' \in SUBSET Admitted(a)
      BY <1>3, <1>4, <1>5, <1>7, <2>2
    <3>2. QED
      BY <1>7, <2>1, <2>2, <3>1, QuotaKept
  <2>3. CASE callCount' # callCount /\ run[r].call.agent = a
    <3>1. callCount'[a] = callCount[a] + 1 /\ callCount[a] < RateLimit
      BY <1>0, <1>7, <2>3
    <3>2. QED
      BY <1>6, <1>7, <2>1, <3>1, QuotaFinite DEF QuotaOf
  <2>4. CASE callCount' # callCount /\ run[r].call.agent # a
    <3>1. callCount'[a] = callCount[a]
      BY <1>0, <1>7, <2>4
    <3>2. Admitted(a)' \in SUBSET Admitted(a)
      BY <1>3, <1>4, <1>5, <2>4
    <3>3. QED
      BY <1>7, <2>1, <3>1, <3>2, QuotaKept
  <2>5. QED
    BY <2>2, <2>3, <2>4
<1>9. ASSUME NEW row \in AuditRow, auditLog' = Append(auditLog, row)
      PROVE  /\ row.result # "success" => ClauseRows(a)' = ClauseRows(a)
             /\ row.agent # a => ClauseRows(a)' = ClauseRows(a)
             /\ row.tool \notin ClauseTools => ClauseRows(a)' = ClauseRows(a)
             /\ Cardinality(ClauseRows(a)') \in Nat
             /\ Cardinality(ClauseRows(a)') <= Cardinality(ClauseRows(a)) + 1
  <2> DEFINE n == Len(auditLog) + 1
  <2>1. /\ auditLog' \in Seq(AuditRow) /\ Len(auditLog') = n
        /\ \A i \in 1..Len(auditLog) : auditLog'[i] = auditLog[i]
        /\ auditLog'[n] = row
    BY <1>0, <1>9, Appended
  <2>2. DOMAIN auditLog' = 1..n
    BY <2>1, LenProperties
  <2>3. DOMAIN auditLog' = DOMAIN auditLog \cup {n} /\ n \notin DOMAIN auditLog
    BY <1>0, <2>2
  <2> HIDE DEF n
  <2>4. \A i \in DOMAIN auditLog : auditLog'[i] = auditLog[i]
    BY <1>0, <2>1
  <2>5. ClauseRows(a)' \in SUBSET (ClauseRows(a) \cup {n})
    BY <2>3, <2>4 DEF ClauseRows
  <2>6. row.result # "success" \/ row.agent # a \/ row.tool \notin ClauseTools
          => ClauseRows(a)' = ClauseRows(a)
    BY <2>1, <2>3, <2>4 DEF ClauseRows
  <2>7. /\ IsFiniteSet(ClauseRows(a) \cup {n})
        /\ Cardinality(ClauseRows(a) \cup {n}) <= Cardinality(ClauseRows(a)) + 1
    <3>1. n \notin ClauseRows(a)
      BY <2>3 DEF ClauseRows
    <3>2. IsFiniteSet(ClauseRows(a)) /\ Cardinality(ClauseRows(a)) \in Nat
      BY QuotaFinite
    <3>3. /\ IsFiniteSet(ClauseRows(a) \cup {n})
          /\ Cardinality(ClauseRows(a) \cup {n}) = Cardinality(ClauseRows(a)) + 1
      BY <3>1, <3>2, FS_AddElement
    <3>4. QED
      BY <3>2, <3>3
  <2>8. /\ IsFiniteSet(ClauseRows(a)')
        /\ Cardinality(ClauseRows(a)') <= Cardinality(ClauseRows(a) \cup {n})
    BY <2>5, <2>7, FS_Subset
  <2>9. /\ Cardinality(ClauseRows(a)') \in Nat
        /\ Cardinality(ClauseRows(a) \cup {n}) \in Nat
    BY <2>7, <2>8, FS_CardinalityType
  <2>10. QED
    BY <2>6, <2>7, <2>8, <2>9, QuotaFinite
<1>10. CASE WriteAuditLog(r)
  <2>1. /\ auditLog' = Append(auditLog, SuccessRow(r)) /\ pc[r] = "audit"
        /\ pc'[r] = "apply" /\ callCount' = callCount
    BY <1>0, <1>10 DEF WriteAuditLog, At, Goto
  <2>2. SuccessRow(r) \in AuditRow
    BY RowsTyped
  <2>3. CASE run[r].call.agent = a /\ run[r].call.tool \in ClauseTools
    <3>1. r \in Admitted(a) /\ r \notin Admitted(a)'
      BY <2>1, <2>3 DEF Admitted
    <3>2. Cardinality(ClauseRows(a)') \in Nat
          /\ Cardinality(ClauseRows(a)') <= Cardinality(ClauseRows(a)) + 1
      BY <1>9, <2>1, <2>2
    <3>3. Cardinality(ClauseRows(a)') + Cardinality(Admitted(a)')
            <= Cardinality(ClauseRows(a)) + Cardinality(Admitted(a))
      BY <1>6, <3>1, <3>2, QuotaFinite
    <3>4. QED
      BY <1>6, <1>7, <2>1, <3>2, <3>3, QuotaShift
  <2>4. CASE run[r].call.agent # a \/ run[r].call.tool \notin ClauseTools
    <3>1. SuccessRow(r).agent # a \/ SuccessRow(r).tool \notin ClauseTools
      BY <2>4 DEF SuccessRow
    <3>2. ClauseRows(a)' = ClauseRows(a)
      BY <1>9, <2>1, <2>2, <3>1
    <3>3. Admitted(a)' \in SUBSET Admitted(a)
      BY <1>3, <1>4, <1>5, <2>1
    <3>4. QED
      BY <1>7, <2>1, <3>2, <3>3, QuotaKept
  <2>5. QED
    BY <2>3, <2>4
<1>11. CASE LogRejection(r) /\ auditLog' # auditLog
  <2>1. /\ auditLog' = Append(auditLog, RejectedRow(r)) /\ pc[r] = "reject"
        /\ callCount' = callCount
    BY <1>11 DEF LogRejection, At
  <2>2. RejectedRow(r) \in AuditRow /\ RejectedRow(r).result # "success"
    BY RowsTyped DEF RejectedRow
  <2>3. ClauseRows(a)' = ClauseRows(a)
    BY <1>9, <2>1, <2>2
  <2>4. Admitted(a)' \in SUBSET Admitted(a)
    BY <1>3, <1>4, <1>5, <2>1
  <2>5. QED
    BY <1>7, <2>1, <2>3, <2>4, QuotaKept
<1>12. auditLog' = auditLog \/ WriteAuditLog(r) \/ LogRejection(r)
  <2>1. ToolStep(r) => auditLog' = auditLog
    BY DEF ToolStep, PreconditionsPass, PreconditionsFail, ExecuteSucceeds,
       ExecuteOverlooks, ExecuteFails, ApplySucceeds, ApplyFails,
       ApplyOverlooks, ApplyRefund, tables
  <2>2. EngineStep(r) /\ ~WriteAuditLog(r) /\ ~LogRejection(r) =>
          auditLog' = auditLog
    BY DEF EngineStep, GetCovenant, GetMember, IdentityFails, RateLimitGate,
       GateFails, CheckAndReserve, ExecuteStatementFails, CalculateEffects,
       AuditLogFails, ApplyStatementFails, RecordSpend, RecordSpendFails,
       SettleReservation, ReleaseReservation, tables
  <2>3. QED
    BY <2>1, <2>2
<1>13. QED
  BY <1>8, <1>10, <1>11, <1>12

LEMMA QuotaStep == TypeOK /\ QuotaInv /\ [Next]_engineVars => QuotaInv'
<1> SUFFICES ASSUME TypeOK, QuotaInv, [Next]_engineVars, RateLimit > 0,
                    NEW a \in Agents
             PROVE  QuotaOf(a)'
  BY DEF QuotaInv
<1>0. QuotaOf(a)
  BY DEF QuotaInv
<1>1. ASSUME NEW r \in Handlers, Begin(r)
      PROVE  QuotaOf(a)'
  <2>1. UNCHANGED <<auditLog, callCount, hours>>
    BY <1>1 DEF Begin, tables
  <2>2. /\ \A q \in Handlers : q # r => pc'[q] = pc[q] /\ run'[q] = run[q]
        /\ pc'[r] = "getCovenant"
    BY <1>1, EngineMoves DEF Begin, Goto, TypeOK
  <2>3. Admitted(a)' \in SUBSET Admitted(a)
    BY <2>2 DEF Admitted
  <2>4. ClauseRows(a)' = ClauseRows(a)
    BY <2>1 DEF ClauseRows
  <2>5. QED
    BY <1>0, <2>1, <2>3, <2>4, QuotaKept
<1>2. ASSUME NEW r \in Handlers, EngineStep(r) \/ ToolStep(r)
      PROVE  QuotaOf(a)'
  BY <1>0, <1>2, QuotaCall
<1>3. ASSUME Environment \/ CovenantChanges \/ MemberChanges
             \/ UNCHANGED engineVars
      PROVE  QuotaOf(a)'
  <2>1. auditLog' = auditLog
    BY <1>3 DEF Environment, SetBudget, HourPasses, Crash, CovenantChanges,
                MemberChanges, engineVars, tables
  <2>2. ClauseRows(a)' = ClauseRows(a)
    BY <2>1 DEF ClauseRows
  <2>3. Admitted(a)' \in SUBSET Admitted(a)
    BY <1>3, NoCallMoves DEF Admitted
  <2>4. CASE ~HourPasses
    <3>1. callCount' = callCount /\ hours' = hours
      BY <1>3, <2>4 DEF Environment, SetBudget, Crash, CovenantChanges,
                        MemberChanges, engineVars, tables, bounds
    <3>2. QED
      BY <1>0, <2>2, <2>3, <3>1, QuotaKept
  <2>5. CASE HourPasses
    <3>1. callCount'[a] = 0 /\ hours' = hours + 1
      BY <2>5 DEF HourPasses
    <3>2. RateLimit * (hours + 1) = RateLimit * hours + RateLimit
      BY QuotaFinite, Products
    <3>3. /\ Cardinality(Admitted(a)') <= Cardinality(Admitted(a))
          /\ Cardinality(Admitted(a)') \in Nat
      <4>1. /\ IsFiniteSet(Admitted(a)')
            /\ Cardinality(Admitted(a)') <= Cardinality(Admitted(a))
        BY <2>3, QuotaFinite, FS_Subset
      <4>2. QED
        BY <4>1, FS_CardinalityType
    <3>4. Cardinality(ClauseRows(a)) + Cardinality(Admitted(a)')
            <= RateLimit * (hours + 1) + 0
      BY <1>0, <3>2, <3>3, QuotaFinite DEF QuotaOf
    <3>5. 0 <= RateLimit
      BY QuotaFinite
    <3>6. QED
      BY <2>2, <3>1, <3>4, <3>5 DEF QuotaOf
  <2>6. QED
    BY <2>4, <2>5
<1>4. QED
  BY <1>1, <1>2, <1>3 DEF Next

LEMMA QuotaInit == Init => QuotaInv
<1> SUFFICES ASSUME Init, NEW a \in Agents
             PROVE  QuotaOf(a)
  BY DEF QuotaInv
<1>1. ClauseRows(a) = {} /\ Admitted(a) = {}
  BY DEF Init, ClauseRows, Admitted
<1>2. Cardinality(ClauseRows(a)) = 0 /\ Cardinality(Admitted(a)) = 0
  BY <1>1, FS_EmptySet
<1>3. callCount[a] = 0 /\ hours = 0 /\ RateLimit \in Nat
  BY ConstantsAssumption DEF Init
<1>4. QED
  BY <1>2, <1>3 DEF QuotaOf

\* The hourly quota holds under concurrency: what an agent's clause calls have
\* logged, and may still log, fits in the hours that have begun, because the
\* gate compares and counts in one statement.
THEOREM QuotaAlwaysRespected == Spec => []QuotaRespected
<1>1. TypeOK /\ QuotaInv => QuotaRespected
  <2> SUFFICES ASSUME TypeOK, QuotaInv, RateLimit > 0, NEW a \in Agents
               PROVE  Cardinality(ClauseRows(a)) + Cardinality(Admitted(a))
                        <= RateLimit * (hours + 1)
    BY DEF QuotaRespected
  <2>1. RateLimit * (hours + 1) = RateLimit * hours + RateLimit
    BY QuotaFinite, Products
  <2>2. QED
    BY <2>1, QuotaFinite DEF QuotaInv, QuotaOf
<1>2. QED
  BY <1>1, QuotaInit, QuotaStep, TypeCorrect, PTL DEF Spec
-----------------------------------------------------------------------------
(* The overshoot of the budget.                                            *)

\* Calls past the gate of Step 2.5 that will be charged, unless they fail.
Chargers == {r \in Handlers : r \in Unsettled /\ run[r].call.cost > 0}

Room == budget.limit + Cardinality(Handlers) * MaxCost

\* With one of the calls under way charged what it costs and the others as
\* much as any call may cost, the counter stays in its room.
ChargeRoom(r) ==
  budget.spent + run[r].call.cost + Cardinality(Chargers) * MaxCost <= Room

SpentInv ==
  budget.exists /\ budget.limit >= MaxCost =>
    /\ Chargers = {} => budget.spent + MaxCost <= Room
    /\ Chargers # {} => \E r \in Chargers : ChargeRoom(r)

LEMMA ProductsGrow ==
  ASSUME NEW k \in Nat, NEW m \in Nat, NEW n \in Nat, m <= n
  PROVE  m * k <= n * k
<1>1. n * k = m * k + (n - m) * k
  OBVIOUS
<1>2. (n - m) * k >= 0
  <2>1. n - m \in Nat
    OBVIOUS
  <2>2. QED
    BY <2>1, Products
<1>3. m * k \in Int /\ (n - m) * k \in Int
  OBVIOUS
<1>4. QED
  BY <1>1, <1>2, <1>3

LEMMA ChargersFinite ==
  ASSUME TypeOK
  PROVE  /\ Chargers \in SUBSET Handlers /\ IsFiniteSet(Chargers)
         /\ Cardinality(Chargers) \in Nat
         /\ Cardinality(Chargers) <= Cardinality(Handlers)
         /\ Cardinality(Handlers) \in Nat /\ MaxCost \in Nat
         /\ Cardinality(Chargers) * MaxCost \in Nat
         /\ Cardinality(Handlers) * MaxCost \in Nat
         /\ Cardinality(Chargers) * MaxCost <= Cardinality(Handlers) * MaxCost
         /\ Chargers # {} => /\ Cardinality(Chargers) > 0
                             /\ MaxCost <= Cardinality(Chargers) * MaxCost
         /\ budget.limit \in Int /\ budget.spent \in Nat
         /\ \A r \in Handlers : /\ run[r].call.cost \in Nat
                                /\ run[r].call.cost <= MaxCost
<1>1. Chargers \in SUBSET Handlers
  BY DEF Chargers
<1>2. IsFiniteSet(Chargers) /\ Cardinality(Chargers) <= Cardinality(Handlers)
  BY <1>1, ConstantsAssumption, FS_Subset
<1>3. /\ Cardinality(Chargers) \in Nat /\ Cardinality(Handlers) \in Nat
      /\ MaxCost \in Nat
      /\ Chargers # {} => Cardinality(Chargers) # 0
  BY <1>2, ConstantsAssumption, FS_CardinalityType, FS_EmptySet
<1>4. /\ Cardinality(Chargers) * MaxCost \in Nat
      /\ Cardinality(Handlers) * MaxCost \in Nat
      /\ Cardinality(Chargers) * MaxCost <= Cardinality(Handlers) * MaxCost
  BY <1>2, <1>3, Products, ProductsGrow
<1>5. ASSUME Chargers # {}
      PROVE  Cardinality(Chargers) > 0
             /\ MaxCost <= Cardinality(Chargers) * MaxCost
  <2>1. Cardinality(Chargers) > 0
    BY <1>3, <1>5
  <2>2. 1 * MaxCost <= Cardinality(Chargers) * MaxCost
    BY <1>3, <2>1, ProductsGrow
  <2>3. QED
    BY <1>3, <2>1, <2>2
<1>6. \A r \in Handlers : run[r].call.cost \in 0..MaxCost
  BY CallTyped DEF TypeOK, RunLocals
<1>7. budget.limit \in Int /\ budget.spent \in Nat
  BY DEF TypeOK
<1>8. QED
  BY <1>1, <1>2, <1>3, <1>4, <1>5, <1>6, <1>7

\* Nobody passes the gate, and the counter grows at most by the cost of a call
\* that is charged now.
LEMMA SpentKept ==
  ASSUME TypeOK, TypeOK', SpentInv,
         budget'.exists = budget.exists, budget'.limit = budget.limit,
         Chargers' \in SUBSET Chargers,
         \A q \in Chargers' : run'[q].call = run[q].call,
         \/ budget'.spent <= budget.spent
         \/ \E r \in Chargers : /\ r \notin Chargers'
                               /\ budget'.spent = budget.spent + run[r].call.cost
  PROVE  SpentInv'
<1> DEFINE C == Cardinality(Chargers)
           D == Cardinality(Chargers')
           cost(q) == run[q].call.cost
<1> SUFFICES ASSUME budget.exists, budget.limit >= MaxCost
             PROVE  /\ Chargers' = {} => budget'.spent + MaxCost <= Room
                    /\ Chargers' # {} =>
                         \E q \in Chargers' :
                           budget'.spent + cost(q) + D * MaxCost <= Room
  BY DEF SpentInv, ChargeRoom, Room
<1>0. /\ Chargers \in SUBSET Handlers /\ IsFiniteSet(Chargers) /\ C \in Nat
      /\ MaxCost \in Nat /\ C * MaxCost \in Nat
      /\ Chargers # {} => MaxCost <= C * MaxCost
      /\ budget.spent \in Nat /\ Room \in Int
      /\ \A q \in Handlers : cost(q) \in Nat /\ cost(q) <= MaxCost
  BY ChargersFinite DEF Room
<1>1. /\ D \in Nat /\ D <= C /\ budget'.spent \in Nat
      /\ D * MaxCost \in Nat /\ D * MaxCost <= C * MaxCost
  <2>1. IsFiniteSet(Chargers') /\ D <= C
    BY <1>0, FS_Subset
  <2>2. D \in Nat /\ budget'.spent \in Nat
    BY <2>1, FS_CardinalityType DEF TypeOK
  <2>3. QED
    BY <1>0, <2>1, <2>2, Products, ProductsGrow
<1>2. ASSUME NEW q \in Chargers, q \notin Chargers'
      PROVE  D * MaxCost + MaxCost <= C * MaxCost
  <2>1. Chargers' \in SUBSET (Chargers \ {q})
    BY <1>2
  <2>2. /\ IsFiniteSet(Chargers \ {q}) /\ Cardinality(Chargers \ {q}) = C - 1
    BY <1>0, FS_RemoveElement
  <2>3. D <= C - 1
    BY <2>1, <2>2, FS_Subset
  <2>4. D + 1 <= C
    BY <1>0, <1>1, <2>3
  <2>5. (D + 1) * MaxCost <= C * MaxCost
    BY <1>0, <1>1, <2>4, ProductsGrow
  <2>6. (D + 1) * MaxCost = D * MaxCost + MaxCost
    BY <1>0, <1>1
  <2>7. QED
    BY <2>5, <2>6
<1>3. CASE Chargers = {}
  BY <1>0, <1>1, <1>3 DEF SpentInv
<1>4. CASE Chargers # {}
  <2>1. PICK q \in Chargers : budget.spent + cost(q) + C * MaxCost <= Room
    BY <1>4 DEF SpentInv, ChargeRoom
  <2>2. cost(q) \in Nat /\ cost(q) <= MaxCost
    BY <1>0, <2>1
  <2>3. ASSUME NEW w \in Chargers'
        PROVE  cost(w) \in Nat /\ cost(w) <= MaxCost
    BY <1>0
  <2> HIDE DEF C, D, cost
  <2>4. CASE budget'.spent <= budget.spent
    <3>1. CASE q \in Chargers'
      BY <1>0, <1>1, <2>1, <2>2, <2>4, <3>1
    <3>2. CASE q \notin Chargers'
      <4>1. D * MaxCost + MaxCost <= C * MaxCost
        BY <1>2, <3>2
      <4>2. \A w \in Chargers' :
              budget'.spent + cost(w) + D * MaxCost <= Room
        BY <1>0, <1>1, <2>1, <2>2, <2>3, <2>4, <4>1
      <4>3. budget'.spent + MaxCost <= Room
        BY <1>0, <1>1, <2>1, <2>2, <2>4, <4>1
      <4>4. QED
        BY <4>2, <4>3
    <3>3. QED
      BY <3>1, <3>2
  <2>5. ASSUME NEW r \in Chargers, r \notin Chargers',
               budget'.spent = budget.spent + cost(r)
        PROVE  /\ Chargers' = {} => budget'.spent + MaxCost <= Room
               /\ Chargers' # {} =>
                    \E x \in Chargers' :
                      budget'.spent + cost(x) + D * MaxCost <= Room
    <3>0. cost(r) \in Nat /\ cost(r) <= MaxCost
      BY <1>0
    <3>1. D * MaxCost + MaxCost <= C * MaxCost
      BY <1>2, <2>5
    <3>2. CASE q = r
      <4>1. \A w \in Chargers' :
              budget'.spent + cost(w) + D * MaxCost <= Room
        BY <1>0, <1>1, <2>1, <2>2, <2>3, <2>5, <3>0, <3>1, <3>2
      <4>2. budget'.spent + MaxCost <= Room
        BY <1>0, <1>1, <2>1, <2>2, <2>5, <3>0, <3>1, <3>2
      <4>3. QED
        BY <4>1, <4>2
    <3>3. CASE q \in Chargers'
      BY <1>0, <1>1, <2>1, <2>2, <2>5, <3>0, <3>1, <3>3
    <3>4. CASE q # r /\ q \notin Chargers'
      <4>1. Chargers' \in SUBSET ((Chargers \ {q}) \ {r})
        BY <2>5, <3>4
      <4>2. /\ IsFiniteSet(Chargers \ {q})
            /\ Cardinality(Chargers \ {q}) = C - 1
        BY <1>0, FS_RemoveElement DEF C
      <4>3. /\ IsFiniteSet((Chargers \ {q}) \ {r})
            /\ Cardinality((Chargers \ {q}) \ {r}) = C - 2
        <5>1. r \in Chargers \ {q}
          BY <2>5, <3>4
        <5>2. /\ IsFiniteSet((Chargers \ {q}) \ {r})
              /\ Cardinality((Chargers \ {q}) \ {r}) =
                   Cardinality(Chargers \ {q}) - 1
          BY <4>2, <5>1, FS_RemoveElement
        <5>3. QED
          BY <1>0, <4>2, <5>2
      <4>4. D <= C - 2
        BY <4>1, <4>3, FS_Subset DEF D
      <4>5. D + 2 <= C
        BY <1>0, <1>1, <4>4
      <4>6. (D + 2) * MaxCost <= C * MaxCost
        BY <1>0, <1>1, <4>5, ProductsGrow
      <4>7. (D + 2) * MaxCost = D * MaxCost + MaxCost + MaxCost
        BY <1>0, <1>1
      <4>8. \A w \in Chargers' :
              budget'.spent + cost(w) + D * MaxCost <= Room
        BY <1>0, <1>1, <2>1, <2>2, <2>3, <2>5, <3>0, <4>6, <4>7
      <4>9. budget'.spent + MaxCost <= Room
        BY <1>0, <1>1, <2>1, <2>2, <2>5, <3>0, <4>6, <4>7
      <4>10. QED
        BY <4>8, <4>9
    <3>5. QED
      BY <3>2, <3>3, <3>4
  <2>6. QED
    BY <2>4, <2>5 DEF cost
<1>5. QED
  BY <1>3, <1>4

\* A call that passes the gate of a covenant with a limit.
LEMMA GatePassed ==
  ASSUME TypeOK, TypeOK', NEW r \in Handlers, CheckAndReserve(r),
         Chargers' \in SUBSET (Chargers \cup {r}), r \in Chargers',
         run'[r].call = run[r].call
  PROVE  SpentInv'
<1> DEFINE D == Cardinality(Chargers')
           c == run[r].call.cost
<1>0. /\ budget' = budget /\ run[r].call.cost > 0
  BY DEF CheckAndReserve, Chargers
<1> SUFFICES ASSUME budget.exists, budget.limit >= MaxCost
             PROVE  budget.spent + c + D * MaxCost <= Room
  BY <1>0 DEF SpentInv, ChargeRoom, Room
<1>1. /\ c \in Nat /\ c <= MaxCost /\ MaxCost \in Nat
      /\ budget.limit \in Int /\ budget.spent \in Nat
      /\ Cardinality(Handlers) * MaxCost \in Nat
      /\ Cardinality(Handlers) \in Nat
  BY ChargersFinite
<1>2. D * MaxCost \in Nat /\ D * MaxCost <= Cardinality(Handlers) * MaxCost
  <2>1. Chargers' \in SUBSET Handlers
    BY ChargersFinite
  <2>2. IsFiniteSet(Chargers') /\ D <= Cardinality(Handlers)
    BY <2>1, ConstantsAssumption, FS_Subset
  <2>3. D \in Nat
    BY <2>2, FS_CardinalityType
  <2>4. QED
    BY <1>1, <2>2, <2>3, Products, ProductsGrow
<1>3. budget.limit - budget.spent >= c
  <2>1. pc' # [pc EXCEPT ![r] = "reject"]
    BY DEF Chargers, Unsettled, TypeOK
  <2>2. ~Exhausted(c)
    BY <1>0, <2>1 DEF CheckAndReserve, Goto
  <2>3. QED
    BY <1>0, <1>1, <2>2 DEF Exhausted
<1> HIDE DEF c, D
<1>4. QED
  BY <1>1, <1>2, <1>3 DEF Room

\* The statement that charges, and those that may lower or leave the counter.
LEMMA CounterWrites ==
  ASSUME TypeOK, NEW r \in Handlers, Begin(r) \/ EngineStep(r) \/ ToolStep(r)
  PROVE  /\ budget'.exists = budget.exists /\ budget'.limit = budget.limit
         /\ \/ budget'.spent <= budget.spent
            \/ /\ RecordSpend(r) /\ run[r].call.cost > 0
               /\ budget'.spent = budget.spent + run[r].call.cost
<1> DEFINE b == budget
<1>0. /\ b \in [exists : BOOLEAN, limit : Int, spent : Nat]
      /\ run[r].call.cost \in Nat
  BY ChargersFinite DEF TypeOK
<1>1. CASE budget' = budget
  BY <1>0, <1>1
<1>2. ASSUME NEW n \in Nat, budget' = [b EXCEPT !.spent = n]
      PROVE  /\ budget'.exists = b.exists /\ budget'.limit = b.limit
             /\ budget'.spent = n
  BY <1>0, <1>2
<1>3. CASE RecordSpend(r) /\ budget' # budget
  <2>1. budget' = [b EXCEPT !.spent = b.spent + run[r].call.cost]
    BY <1>3 DEF RecordSpend
  <2>2. b.spent + run[r].call.cost \in Nat
    BY <1>0
  <2>3. /\ budget'.exists = b.exists /\ budget'.limit = b.limit
        /\ budget'.spent = b.spent + run[r].call.cost
    BY <1>2, <2>1, <2>2
  <2>4. run[r].call.cost = 0 => budget'.spent <= budget.spent
    BY <1>0, <2>3
  <2>5. QED
    BY <1>0, <1>3, <2>3, <2>4
<1>4. ASSUME NEW amount \in 1..MaxCost, ApplyRefund(r, amount)
      PROVE  /\ budget'.exists = b.exists /\ budget'.limit = b.limit
             /\ budget'.spent <= b.spent
  <2> DEFINE n == IF ~b.exists THEN b.spent
                  ELSE IF b.spent < amount THEN 0 ELSE b.spent - amount
  <2>1. budget' = [b EXCEPT !.spent = n]
    BY <1>4 DEF ApplyRefund
  <2>2. n \in Nat /\ n <= b.spent
    BY <1>0, ConstantsAssumption
  <2> HIDE DEF n
  <2>3. QED
    BY <1>2, <2>1, <2>2
<1>5. \/ budget' = budget \/ RecordSpend(r)
      \/ \E amount \in 1..MaxCost : ApplyRefund(r, amount)
  <2>1. Begin(r) => budget' = budget
    BY DEF Begin, tables
  <2>2. ToolStep(r) => \/ budget' = budget
                       \/ \E amount \in 1..MaxCost : ApplyRefund(r, amount)
    BY DEF ToolStep, PreconditionsPass, PreconditionsFail, ExecuteSucceeds,
       ExecuteOverlooks, ExecuteFails, ApplySucceeds, ApplyFails,
       ApplyOverlooks, tables
  <2>3. EngineStep(r) /\ ~RecordSpend(r) => budget' = budget
    BY DEF EngineStep, GetCovenant, GetMember, IdentityFails, RateLimitGate,
       GateFails, CheckAndReserve, ExecuteStatementFails, CalculateEffects,
       WriteAuditLog, AuditLogFails, ApplyStatementFails, RecordSpendFails,
       SettleReservation, ReleaseReservation, LogRejection, tables
  <2>4. QED
    BY <2>1, <2>2, <2>3
<1>6. QED
  BY <1>1, <1>3, <1>4, <1>5

\* A call joins those that will be charged at the gate.
LEMMA ChargerCalls ==
  ASSUME TypeOK, NEW r \in Handlers, Begin(r) \/ EngineStep(r) \/ ToolStep(r),
         r \in Chargers'
  PROVE  /\ run'[r].call = run[r].call
         /\ r \in Chargers \/ CheckAndReserve(r)
<1>0. pc \in [Handlers -> Labels]
  BY DEF TypeOK
<1>1. ~Begin(r)
  BY <1>0 DEF Begin, Goto, Chargers, Unsettled
<1>2. Edge(pc[r], pc'[r]) /\ run'[r].call = run[r].call
  BY <1>1, Flow DEF Follows, Chargers, Unsettled
<1>3. pc[r] = "reserve" \/ r \in Chargers
  BY <1>2 DEF Edge, Chargers, Unsettled
<1>4. ASSUME pc[r] = "reserve"
      PROVE  CheckAndReserve(r)
  <2>1. ~ToolStep(r)
    BY <1>4 DEF ToolStep, PreconditionsPass, PreconditionsFail,
       ExecuteSucceeds, ExecuteOverlooks, ExecuteFails, ApplySucceeds,
       ApplyFails, ApplyOverlooks, ApplyRefund, At
  <2>2. EngineStep(r) => CheckAndReserve(r) \/ GateFails(r)
    BY <1>4 DEF EngineStep, GetCovenant, GetMember, IdentityFails,
       RateLimitGate, ExecuteStatementFails, CalculateEffects, WriteAuditLog,
       AuditLogFails, ApplyStatementFails, RecordSpend, RecordSpendFails,
       SettleReservation, ReleaseReservation, LogRejection, At
  <2>3. ~GateFails(r)
    BY <1>0 DEF GateFails, Goto, Chargers, Unsettled
  <2>4. QED
    BY <1>1, <2>1, <2>2, <2>3
<1>5. QED
  BY <1>2, <1>3, <1>4

LEMMA SpentCall ==
  ASSUME TypeOK, TypeOK', SpentInv, NEW r \in Handlers,
         Begin(r) \/ EngineStep(r) \/ ToolStep(r)
  PROVE  SpentInv'
<1>0. pc \in [Handlers -> Labels]
  BY DEF TypeOK
<1>1. \A q \in Handlers : q # r => pc'[q] = pc[q] /\ run'[q] = run[q]
  BY EngineMoves
<1>2. \A q \in Handlers : q # r /\ q \in Chargers' =>
        q \in Chargers /\ run'[q].call = run[q].call
  BY <1>1 DEF Chargers, Unsettled
<1>3. r \in Chargers' => /\ run'[r].call = run[r].call
                         /\ r \in Chargers \/ CheckAndReserve(r)
  BY ChargerCalls
<1>4. CASE r \in Chargers' /\ CheckAndReserve(r)
  <2>1. Chargers' \in SUBSET (Chargers \cup {r})
    BY <1>2 DEF Chargers
  <2>2. QED
    BY <1>3, <1>4, <2>1, GatePassed
<1>5. CASE ~(r \in Chargers' /\ CheckAndReserve(r))
  <2>1. Chargers' \in SUBSET Chargers
    BY <1>2, <1>3, <1>5 DEF Chargers
  <2>2. \A q \in Chargers' : run'[q].call = run[q].call
    BY <1>2, <1>3 DEF Chargers
  <2>3. RecordSpend(r) /\ run[r].call.cost > 0 => r \in Chargers /\ r \notin Chargers'
    BY <1>0 DEF RecordSpend, At, Goto, Return, Chargers, Unsettled
  <2>4. QED
    BY <2>1, <2>2, <2>3, CounterWrites, SpentKept
<1>6. QED
  BY <1>4, <1>5

LEMMA SpentStep == TypeOK /\ SpentInv /\ [Next]_engineVars => SpentInv'
<1> SUFFICES ASSUME TypeOK, SpentInv, [Next]_engineVars
             PROVE  SpentInv'
  OBVIOUS
<1>0. TypeOK'
  BY TypeStep
<1>1. CASE SetBudget
  <2>1. /\ budget'.exists => budget'.spent = 0
        /\ Chargers' = Chargers /\ run' = run
    BY <1>1 DEF SetBudget, Chargers, Unsettled
  <2>2. /\ Cardinality(Chargers) * MaxCost \in Nat
        /\ Cardinality(Handlers) * MaxCost \in Nat
        /\ Cardinality(Chargers) * MaxCost <= Cardinality(Handlers) * MaxCost
        /\ MaxCost \in Nat /\ budget'.limit \in Int
        /\ \A q \in Handlers : run[q].call.cost \in Nat
                               /\ run[q].call.cost <= MaxCost
        /\ Chargers \in SUBSET Handlers
    BY <1>0, ChargersFinite DEF TypeOK
  <2>3. budget'.exists /\ budget'.limit >= MaxCost =>
          /\ budget'.spent + MaxCost
               <= budget'.limit + Cardinality(Handlers) * MaxCost
          /\ \A q \in Chargers :
               budget'.spent + run[q].call.cost + Cardinality(Chargers) * MaxCost
                 <= budget'.limit + Cardinality(Handlers) * MaxCost
    BY <2>1, <2>2
  <2>4. QED
    BY <2>1, <2>3 DEF SpentInv, ChargeRoom, Room
<1>2. ASSUME Environment \/ CovenantChanges \/ MemberChanges
             \/ UNCHANGED engineVars, ~SetBudget
      PROVE  SpentInv'
  <2>1. budget' = budget
    BY <1>2 DEF Environment, HourPasses, Crash, CovenantChanges,
                MemberChanges, engineVars, tables
  <2>2. /\ Chargers' \in SUBSET Chargers
        /\ \A q \in Chargers' : run'[q].call = run[q].call
    BY <1>2, NoCallMoves DEF Chargers, Unsettled
  <2>3. budget'.spent <= budget.spent
    BY <2>1, ChargersFinite
  <2>4. QED
    BY <1>0, <2>1, <2>2, <2>3, SpentKept
<1>3. ASSUME NEW r \in Handlers, Begin(r) \/ EngineStep(r) \/ ToolStep(r)
      PROVE  SpentInv'
  BY <1>0, <1>3, SpentCall
<1>4. QED
  BY <1>1, <1>2, <1>3 DEF Next, Environment

LEMMA SpentInit == Init => SpentInv
<1> SUFFICES ASSUME Init, budget.exists, budget.limit >= MaxCost
             PROVE  Chargers = {} /\ budget.spent + MaxCost <= Room
  BY DEF SpentInv
<1>1. Chargers = {} /\ budget.spent = 0
  BY DEF Init, Chargers, Unsettled
<1>2. /\ Cardinality(Handlers) * MaxCost \in Nat /\ MaxCost \in Nat
      /\ budget.limit \in Int
  BY TypeInit, ChargersFinite
<1>3. QED
  BY <1>1, <1>2 DEF Room

\* The gate compares and does not deduct, so concurrent calls overshoot the
\* limit; but never by more than the cost of a call of each handler but one.
THEOREM OvershootAlwaysBounded == Spec => []OvershootBounded
<1>1. TypeOK /\ SpentInv => OvershootBounded
  <2> SUFFICES ASSUME TypeOK, SpentInv, budget.exists, budget.limit >= MaxCost
               PROVE  budget.spent
                        <= budget.limit + (Cardinality(Handlers) - 1) * MaxCost
    BY DEF OvershootBounded
  <2> DEFINE H == Cardinality(Handlers)
             C == Cardinality(Chargers)
  <2>1. /\ H \in Nat /\ MaxCost \in Nat /\ H * MaxCost \in Nat
        /\ budget.spent \in Nat /\ budget.limit \in Int
        /\ C * MaxCost \in Nat
        /\ Chargers # {} => MaxCost <= C * MaxCost
        /\ \A q \in Chargers : run[q].call.cost \in Nat
    BY ChargersFinite
  <2>2. budget.spent + MaxCost <= budget.limit + H * MaxCost
    <3>1. CASE Chargers = {}
      BY <3>1 DEF SpentInv, Room
    <3>2. CASE Chargers # {}
      <4>1. PICK q \in Chargers :
              budget.spent + run[q].call.cost + C * MaxCost
                <= budget.limit + H * MaxCost
        BY <3>2 DEF SpentInv, ChargeRoom, Room
      <4> DEFINE c == run[q].call.cost
      <4>2. c \in Nat
        BY <2>1
      <4> HIDE DEF C, H, c
      <4>3. budget.spent + c + C * MaxCost <= budget.limit + H * MaxCost
        BY <4>1 DEF C, H, c
      <4>4. QED
        BY <2>1, <3>2, <4>2, <4>3
    <3>3. QED
      BY <3>1, <3>2
  <2> HIDE DEF H, C
  <2>3. (H - 1) * MaxCost = H * MaxCost - MaxCost
    BY <2>1
  <2>4. budget.spent <= budget.limit + (H - 1) * MaxCost
    BY <2>1, <2>2, <2>3
  <2>5. QED
    BY <2>4 DEF H
<1>2. QED
  BY <1>1, SpentInit, SpentStep, TypeCorrect, PTL DEF Spec
=============================================================================
