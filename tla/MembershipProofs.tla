-------------------------- MODULE MembershipProofs --------------------------
(***************************************************************************)
(* What a request in flight knows, for every number of handlers, people,   *)
(* tiers and calls: the types of Membership, and HandlersOK, what each     *)
(* handler's locals say of the tables at each of its statements.           *)
(***************************************************************************)
EXTENDS Membership, FiniteSetTheorems, SequenceTheorems, TLAPS

\* A logged approval of member a, or its admission by an access request.
Approved(a) == members[a].request # 0 \/ Logged("approve_agent", a) # {}

Decisions == AgentTools \cup AccessTools
EntryLabels == {"tier", "identity", "insert"}
DecisionLabels == {"check", "log", "apply", "resolve"}

\* Locals of a request to set up the covenant, or to get into it.
EntryOK(h) ==
  /\ pc[h] # "idle" => covState # "none"
  /\ pc[h] = "state" => Kind(h) \in SetupKinds \cup EntryKinds
  /\ pc[h] \in EntryLabels => Kind(h) \in EntryKinds
  /\ pc[h] = "count" => Kind(h) \in {"transition", "join"}
  /\ pc[h] = "update" => Kind(h) \in SetupKinds
  /\ pc[h] \in {"count", "update"} /\ Kind(h) = "transition" =>
       req[h].state \in DOMAIN NextPhase
  /\ pc[h] \in {"identity", "insert"} => req[h].tier \in DOMAIN tiers
  /\ pc[h] = "count" /\ Kind(h) = "join" => req[h].tier \in DOMAIN tiers

\* Locals of a call of a tool: the row it decides on, and the log that says so.
DecisionOK(h) ==
  pc[h] \in DecisionLabels =>
    /\ Kind(h) \in Decisions
    /\ Kind(h) \in AgentTools => req[h].ref \in DOMAIN members
    /\ Kind(h) \in AccessTools => req[h].ref \in DOMAIN accessRequests
    /\ pc[h] = "resolve" => Kind(h) \in AccessTools
    /\ pc[h] # "check" /\ Kind(h) \in AgentTools => ~members[req[h].ref].owner
    /\ Kind(h) = "leave_covenant" => Approved(req[h].ref)
    /\ pc[h] \in {"apply", "resolve"} =>
         /\ req[h].log \in DOMAIN auditLog
         /\ auditLog[req[h].log] = [tool |-> Kind(h), ref |-> req[h].ref]

HandlersOK == \A h \in Handlers : EntryOK(h) /\ DecisionOK(h)

\* Who got in is approved: what a member who leaves relies on.
ActiveIsApproved ==
  \A a \in DOMAIN members :
    ~members[a].owner /\ members[a].status = "active" => Approved(a)

\* The tier of a row is one there is.
TiersKnown ==
  /\ \A a \in DOMAIN members : ~members[a].owner => members[a].tier \in DOMAIN tiers
  /\ \A n \in DOMAIN accessRequests : accessRequests[n].tier \in DOMAIN tiers

\* A covenant there are members or requests of exists; so it does while
\* anything can be decided on.
CovenantFirst ==
  covState = "none" => DOMAIN members = {} /\ DOMAIN accessRequests = {}

\* The owner's row is never pending, so no decision passes the check on it.
OwnerActive ==
  \A a \in DOMAIN members : members[a].owner => members[a].status = "active"

RowsInv == ActiveIsApproved /\ TiersKnown /\ CovenantFirst /\ OwnerActive

\* The inductive invariant of this module.
BaseInv == MembershipTypeOK /\ HandlersOK /\ RowsInv
-----------------------------------------------------------------------------
(* Types.                                                                  *)

LEMMA NoReqType == NoReq \in Locals
<1>1. SomeTier \in Tiers
  BY MembershipAssumption DEF SomeTier
<1>2. Founder \in Platforms
  BY MembershipAssumption
<1>3. QED
  BY <1>1, <1>2 DEF NoReq, Locals, Kinds, EntryKinds, Phases

LEMMA NextPhaseType ==
  /\ DOMAIN NextPhase = {"DRAFT", "OPEN"}
  /\ \A s \in DOMAIN NextPhase : NextPhase[s] \in Phases
<1>1. DOMAIN NextPhase = {"DRAFT", "OPEN"}
  BY DEF NextPhase
<1>2. NextPhase["DRAFT"] = "OPEN" /\ NextPhase["OPEN"] = "ACTIVE"
  BY DEF NextPhase
<1>3. QED
  BY <1>1, <1>2 DEF Phases

LEMMA StatusOfType ==
  /\ StatusOf["approve_agent"] = "active"
  /\ StatusOf["reject_agent"] = "rejected"
  /\ StatusOf["leave_covenant"] = "left"
BY DEF StatusOf

\* Domains and rows of the tables.
LEMMA Tables ==
  ASSUME MembershipTypeOK
  PROVE  /\ Len(members) \in Nat /\ DOMAIN members = 1..Len(members)
         /\ \A a \in DOMAIN members : members[a] \in Member
         /\ Len(accessRequests) \in Nat
         /\ DOMAIN accessRequests = 1..Len(accessRequests)
         /\ \A n \in DOMAIN accessRequests : accessRequests[n] \in AccessRequest
         /\ Len(ledger) \in Nat /\ DOMAIN ledger = 1..Len(ledger)
         /\ \A i \in DOMAIN ledger : ledger[i] \in FeeRow
         /\ Len(auditLog) \in Nat /\ DOMAIN auditLog = 1..Len(auditLog)
         /\ \A h \in Handlers : req[h] \in Locals /\ pc[h] \in Labels
<1>1. members \in Seq(Member) /\ accessRequests \in Seq(AccessRequest)
      /\ ledger \in Seq(FeeRow) /\ auditLog \in Seq(LogRow)
  BY DEF MembershipTypeOK
<1>2. /\ \A h \in Handlers : req[h] \in Locals /\ pc[h] \in Labels
  BY DEF MembershipTypeOK
<1>3. /\ Len(members) \in Nat /\ DOMAIN members = 1..Len(members)
      /\ \A a \in DOMAIN members : members[a] \in Member
  BY <1>1, LenProperties, ElementOfSeq
<1>4. /\ Len(accessRequests) \in Nat
      /\ DOMAIN accessRequests = 1..Len(accessRequests)
      /\ \A n \in DOMAIN accessRequests : accessRequests[n] \in AccessRequest
  BY <1>1, LenProperties, ElementOfSeq
<1>5. /\ Len(ledger) \in Nat /\ DOMAIN ledger = 1..Len(ledger)
      /\ \A i \in DOMAIN ledger : ledger[i] \in FeeRow
  BY <1>1, LenProperties, ElementOfSeq
<1>6. Len(auditLog) \in Nat /\ DOMAIN auditLog = 1..Len(auditLog)
  BY <1>1, LenProperties
<1>7. QED
  BY <1>2, <1>3, <1>4, <1>5, <1>6

\* A row appended to a table.
LEMMA Appended ==
  ASSUME NEW S, NEW s \in Seq(S), NEW e \in S
  PROVE  /\ Append(s, e) \in Seq(S) /\ Len(Append(s, e)) = Len(s) + 1
         /\ Len(s) \in Nat
         /\ DOMAIN Append(s, e) = 1..(Len(s) + 1) /\ DOMAIN s = 1..Len(s)
         /\ DOMAIN Append(s, e) = DOMAIN s \cup {Len(s) + 1}
         /\ \A i \in DOMAIN s : Append(s, e)[i] = s[i]
         /\ Append(s, e)[Len(s) + 1] = e
<1>1. Len(s) \in Nat /\ DOMAIN s = 1..Len(s)
  BY LenProperties
<1>2. /\ Append(s, e) \in Seq(S) /\ Len(Append(s, e)) = Len(s) + 1
      /\ \A i \in 1..Len(s) : Append(s, e)[i] = s[i]
      /\ Append(s, e)[Len(s) + 1] = e
  BY AppendProperties
<1>3. DOMAIN Append(s, e) = 1..Len(Append(s, e))
  BY <1>2, LenProperties
<1>4. 1..(Len(s) + 1) = (1..Len(s)) \cup {Len(s) + 1}
  BY <1>1
<1>5. QED
  BY <1>1, <1>2, <1>3, <1>4
-----------------------------------------------------------------------------
(* What a step does to the requests in flight.                             *)

\* The tables only grow, and their rows keep what requests rely on.
Grows ==
  /\ covState # "none" => covState' # "none"
  /\ DOMAIN tiers \subseteq DOMAIN tiers'
  /\ \A t \in DOMAIN tiers : tiers'[t] = tiers[t]
  /\ DOMAIN members \subseteq DOMAIN members'
  /\ \A a \in DOMAIN members : /\ members'[a].owner = members[a].owner
                              /\ members'[a].request = members[a].request
                              /\ members'[a].platform = members[a].platform
                              /\ members'[a].tier = members[a].tier
  /\ DOMAIN accessRequests \subseteq DOMAIN accessRequests'
  /\ \A n \in DOMAIN accessRequests :
       /\ accessRequests'[n].tier = accessRequests[n].tier
       /\ accessRequests'[n].platform = accessRequests[n].platform
  /\ DOMAIN auditLog \subseteq DOMAIN auditLog'
  /\ \A l \in DOMAIN auditLog : auditLog'[l] = auditLog[l]

\* Handler h moves on, or ends, and the others stay where they are.
Moves(h) ==
  /\ pc' \in [Handlers -> Labels] /\ req' \in [Handlers -> Locals]
  /\ \A g \in Handlers : g # h => pc'[g] = pc[g] /\ req'[g] = req[g]

LEMMA SameTablesGrow == UNCHANGED tables => Grows
BY DEF tables, people, Grows

\* Decisions once logged remain.
LEMMA LoggedStays ==
  ASSUME Grows, NEW t, NEW a, Logged(t, a) # {}
  PROVE  Logged(t, a)' # {}
<1>1. PICK l \in DOMAIN auditLog : auditLog[l] = [tool |-> t, ref |-> a]
  BY DEF Logged
<1>2. l \in DOMAIN auditLog' /\ auditLog'[l] = [tool |-> t, ref |-> a]
  BY <1>1 DEF Grows
<1>3. l \in Logged(t, a)'
  BY <1>2 DEF Logged
<1>4. QED
  BY <1>3

LEMMA ApprovedStays ==
  ASSUME Grows, NEW a \in DOMAIN members, Approved(a)
  PROVE  Approved(a)'
<1>1. CASE members[a].request # 0
  BY <1>1 DEF Grows, Approved
<1>2. CASE Logged("approve_agent", a) # {}
  BY <1>2, LoggedStays DEF Approved
<1>3. QED
  BY <1>1, <1>2 DEF Approved

\* What a request knows stays true while others step.
LEMMA OthersStay ==
  ASSUME NEW g \in Handlers, EntryOK(g), DecisionOK(g), Grows,
         pc'[g] = pc[g], req'[g] = req[g]
  PROVE  EntryOK(g)' /\ DecisionOK(g)'
<1>1. Kind(g)' = Kind(g)
  BY DEF Kind
<1>2. EntryOK(g)'
  BY <1>1 DEF EntryOK, Grows
<1>3. DecisionOK(g)'
  <2>1. SUFFICES ASSUME pc[g] \in DecisionLabels PROVE DecisionOK(g)'
    BY DEF DecisionOK, DecisionLabels
  <2>2. /\ Kind(g) \in Decisions
        /\ Kind(g) \in AgentTools => req[g].ref \in DOMAIN members
        /\ Kind(g) = "leave_covenant" => Approved(req[g].ref)
    BY <2>1 DEF DecisionOK
  <2>3. Kind(g) = "leave_covenant" => Approved(req[g].ref)'
    BY <2>2, ApprovedStays DEF AgentTools
  <2>4. QED
    BY <1>1, <2>1, <2>2, <2>3 DEF DecisionOK, Grows
<1>4. QED
  BY <1>2, <1>3

LEMMA IdleIsOK ==
  ASSUME NEW h \in Handlers, pc'[h] = "idle"
  PROVE  EntryOK(h)' /\ DecisionOK(h)'
BY DEF EntryOK, DecisionOK, EntryLabels, DecisionLabels

\* So after a step it is enough to look at the handler that took it.
LEMMA AllOK ==
  ASSUME HandlersOK, Grows, NEW h \in Handlers, Moves(h),
         EntryOK(h)', DecisionOK(h)'
  PROVE  HandlersOK'
BY OthersStay DEF HandlersOK, Moves

LEMMA ReturnMoves ==
  ASSUME MembershipTypeOK, NEW h \in Handlers, Return(h)
  PROVE  /\ Moves(h) /\ pc'[h] = "idle" /\ EntryOK(h)' /\ DecisionOK(h)'
<1>1. Moves(h) /\ pc'[h] = "idle"
  BY NoReqType DEF Return, Goto, Moves, MembershipTypeOK, Labels
<1>2. QED
  BY <1>1, IdleIsOK

LEMMA GotoMoves ==
  ASSUME MembershipTypeOK, NEW h \in Handlers, NEW label \in Labels,
         Goto(h, label), NEW L \in Locals, req' = [req EXCEPT ![h] = L]
  PROVE  Moves(h) /\ pc'[h] = label /\ req'[h] = L
BY DEF Goto, Moves, MembershipTypeOK

LEMMA GotoOnlyMoves ==
  ASSUME MembershipTypeOK, NEW h \in Handlers, NEW label \in Labels,
         Goto(h, label), UNCHANGED req
  PROVE  Moves(h) /\ pc'[h] = label /\ req'[h] = req[h]
BY DEF Goto, Moves, MembershipTypeOK

\* The locals that a joining or applying request starts with.
LEMMA EntrySet ==
  ASSUME NEW k \in EntryKinds, NEW p \in Platforms, NEW t \in Tiers
  PROVE  /\ [NoReq EXCEPT !.kind = k, !.platform = p, !.tier = t] \in Locals
         /\ [NoReq EXCEPT !.kind = k, !.platform = p, !.tier = t].kind = k
BY NoReqType DEF NoReq, Locals, Kinds
-----------------------------------------------------------------------------
(* The steps that read: no table changes.                                  *)

LEMMA TablesSame ==
  ASSUME UNCHANGED tables
  PROVE  /\ covState' = covState /\ tiers' = tiers /\ members' = members
         /\ accessRequests' = accessRequests /\ auditLog' = auditLog
         /\ ledger' = ledger /\ identities' = identities
         /\ gitTwin' = gitTwin /\ late' = late
         /\ \A a : Approved(a)' = Approved(a)
BY DEF tables, people, Approved, Logged

\* A request at one of the statements of setting up and of joining.
LEMMA EntryReached ==
  ASSUME UNCHANGED tables, NEW h \in Handlers, Moves(h), covState # "none",
         pc'[h] \in {"state", "tier", "count", "identity", "insert", "update"},
         pc'[h] = "state" => req'[h].kind \in SetupKinds \cup EntryKinds,
         pc'[h] \in EntryLabels => req'[h].kind \in EntryKinds,
         pc'[h] = "count" => req'[h].kind \in {"transition", "join"},
         pc'[h] = "update" => req'[h].kind \in SetupKinds,
         pc'[h] \in {"count", "update"} /\ req'[h].kind = "transition" =>
           req'[h].state \in DOMAIN NextPhase,
         \/ pc'[h] \in {"identity", "insert"}
         \/ pc'[h] = "count" /\ req'[h].kind = "join" =>
              req'[h].tier \in DOMAIN tiers,
         pc'[h] \in {"identity", "insert"} => req'[h].tier \in DOMAIN tiers
  PROVE  EntryOK(h)' /\ DecisionOK(h)'
<1>1. EntryOK(h)'
  BY TablesSame DEF EntryOK, Kind
<1>2. DecisionOK(h)'
  BY DEF DecisionOK, DecisionLabels
<1>3. QED
  BY <1>1, <1>2

LEMMA BeginSetupMoves ==
  ASSUME BaseInv, NEW h \in Handlers, BeginSetup(h)
  PROVE  Moves(h) /\ EntryOK(h)' /\ DecisionOK(h)'
<1>1. req[h] \in Locals
  BY Tables DEF BaseInv
<1>2. PICK k \in SetupKinds : req' = [req EXCEPT ![h].kind = k]
  BY DEF BeginSetup
<1>3. k \in Kinds
  BY DEF Kinds
<1> DEFINE L == [req[h] EXCEPT !.kind = k]
<1>4. L \in Locals /\ L.kind = k
  BY <1>1, <1>3 DEF Locals
<1>5. req' = [req EXCEPT ![h] = L]
  BY <1>2
<1> HIDE DEF L
<1>6. Moves(h) /\ pc'[h] = "state" /\ req'[h] = L
  BY <1>4, <1>5, GotoMoves DEF BaseInv, BeginSetup, Labels
<1>7. QED
  BY <1>4, <1>6, EntryReached DEF BeginSetup, EntryLabels

LEMMA BeginEntryMoves ==
  ASSUME BaseInv, NEW h \in Handlers, BeginEntry(h)
  PROVE  Moves(h) /\ EntryOK(h)' /\ DecisionOK(h)'
<1>1. PICK k \in EntryKinds, p \in Platforms, t \in Tiers :
        req' = [req EXCEPT ![h] = [NoReq EXCEPT !.kind = k, !.platform = p,
                                                !.tier = t]]
  BY DEF BeginEntry
<1> DEFINE L == [NoReq EXCEPT !.kind = k, !.platform = p, !.tier = t]
<1>2. L \in Locals /\ L.kind = k
  BY EntrySet
<1>3. req' = [req EXCEPT ![h] = L]
  BY <1>1
<1> HIDE DEF L
<1>4. Moves(h) /\ pc'[h] = "state" /\ req'[h] = L
  BY <1>2, <1>3, GotoMoves DEF BaseInv, BeginEntry, Labels
<1>5. QED
  BY <1>2, <1>4, EntryReached DEF BeginEntry, EntryLabels

LEMMA AdmitsType ==
  \A k \in Kinds : /\ Admits(k, covState) => covState \in Phases
                   /\ Admits(k, covState) /\ k = "transition" =>
                        covState \in DOMAIN NextPhase
BY NextPhaseType DEF Admits, Phases

LEMMA ReadStateMoves ==
  ASSUME BaseInv, NEW h \in Handlers, ReadState(h)
  PROVE  Moves(h) /\ EntryOK(h)' /\ DecisionOK(h)'
<1>1. /\ req[h] \in Locals /\ Kind(h) \in Kinds /\ covState # "none"
  BY Tables DEF BaseInv, HandlersOK, EntryOK, ReadState, At, Locals, Kind
<1>2. CASE Return(h)
  BY <1>2, ReturnMoves DEF BaseInv
<1>3. CASE Admits(Kind(h), covState) /\ ~Return(h)
  <2> DEFINE L == [req[h] EXCEPT !.state = covState]
  <2>1. covState \in Phases
    BY <1>1, <1>3, AdmitsType
  <2>2. L \in Locals /\ L.state = covState /\ L.kind = Kind(h)
    BY <1>1, <2>1 DEF Locals, Kind
  <2>3. req' = [req EXCEPT ![h] = L]
    BY <1>3 DEF ReadState
  <2> HIDE DEF L
  <2>4. \/ Goto(h, "tier") /\ Kind(h) \in EntryKinds
        \/ Goto(h, "update") /\ Kind(h) \in SetupKinds
        \/ Goto(h, "count") /\ Kind(h) = "transition"
    BY <1>3 DEF ReadState, SetupKinds
  <2>5. Kind(h) = "transition" => covState \in DOMAIN NextPhase
    BY <1>1, <1>3, AdmitsType
  <2>6. UNCHANGED tables
    BY DEF ReadState
  <2>7. ASSUME NEW label \in {"tier", "update", "count"}, Goto(h, label)
        PROVE  Moves(h) /\ pc'[h] = label /\ req'[h] = L
    <3>1. label \in Labels /\ MembershipTypeOK
      BY <2>7 DEF BaseInv, Labels
    <3>2. QED
      BY <2>2, <2>3, <2>7, <3>1, GotoMoves
  <2>8. CASE Goto(h, "tier") /\ Kind(h) \in EntryKinds
    BY <1>1, <2>2, <2>6, <2>7, <2>8, EntryReached DEF EntryLabels
  <2>9. CASE Goto(h, "update") /\ Kind(h) \in SetupKinds
    BY <1>1, <2>2, <2>5, <2>6, <2>7, <2>9, EntryReached DEF EntryLabels
  <2>10. CASE Goto(h, "count") /\ Kind(h) = "transition"
    BY <1>1, <2>2, <2>5, <2>6, <2>7, <2>10, EntryReached DEF EntryLabels
  <2>11. QED
    BY <2>4, <2>8, <2>9, <2>10
<1>4. QED
  BY <1>2, <1>3 DEF ReadState

LEMMA CountTiersMoves ==
  ASSUME BaseInv, NEW h \in Handlers, CountTiers(h)
  PROVE  Moves(h) /\ EntryOK(h)' /\ DecisionOK(h)'
<1>1. CASE Return(h)
  BY <1>1, ReturnMoves DEF BaseInv
<1>2. CASE Goto(h, "update") /\ UNCHANGED req
  <2>1. /\ covState # "none" /\ Kind(h) = "transition"
        /\ req[h].state \in DOMAIN NextPhase
    BY DEF BaseInv, HandlersOK, EntryOK, CountTiers, At
  <2>2. Moves(h) /\ pc'[h] = "update" /\ req'[h] = req[h]
    BY <1>2, GotoOnlyMoves DEF BaseInv, Labels
  <2>3. UNCHANGED tables
    BY DEF CountTiers
  <2>4. QED
    BY <2>1, <2>2, <2>3, EntryReached DEF Kind, SetupKinds, EntryLabels
<1>3. QED
  BY <1>1, <1>2 DEF CountTiers, Test

LEMMA ReadTierMoves ==
  ASSUME BaseInv, NEW h \in Handlers, ReadTier(h)
  PROVE  Moves(h) /\ EntryOK(h)' /\ DecisionOK(h)'
<1>1. CASE Return(h)
  BY <1>1, ReturnMoves DEF BaseInv
<1>2. CASE ~Return(h)
  <2>1. /\ req[h].tier \in DOMAIN tiers
        /\ UNCHANGED req /\ UNCHANGED tables
        /\ \/ Goto(h, "count") /\ Kind(h) = "join"
           \/ Goto(h, "identity")
    BY <1>2 DEF ReadTier
  <2>2. covState # "none" /\ Kind(h) \in EntryKinds
    BY DEF BaseInv, HandlersOK, EntryOK, EntryLabels, ReadTier, At
  <2>3. ASSUME NEW label \in {"count", "identity"}, Goto(h, label)
        PROVE  Moves(h) /\ pc'[h] = label /\ req'[h] = req[h]
    BY <2>1, <2>3, GotoOnlyMoves DEF BaseInv, Labels
  <2>4. CASE Goto(h, "count") /\ Kind(h) = "join"
    BY <2>1, <2>2, <2>3, <2>4, EntryReached DEF Kind, EntryLabels
  <2>5. CASE Goto(h, "identity")
    BY <2>1, <2>2, <2>3, <2>5, EntryReached DEF Kind, EntryLabels
  <2>6. QED
    BY <2>1, <2>4, <2>5
<1>3. QED
  BY <1>1, <1>2

LEMMA CountSlotsMoves ==
  ASSUME BaseInv, NEW h \in Handlers, CountSlots(h)
  PROVE  Moves(h) /\ EntryOK(h)' /\ DecisionOK(h)'
<1>1. CASE Return(h)
  BY <1>1, ReturnMoves DEF BaseInv
<1>2. CASE Goto(h, "identity") /\ UNCHANGED req
  <2>1. /\ covState # "none" /\ Kind(h) = "join" /\ req[h].tier \in DOMAIN tiers
    BY DEF BaseInv, HandlersOK, EntryOK, CountSlots, At
  <2>2. Moves(h) /\ pc'[h] = "identity" /\ req'[h] = req[h]
    BY <1>2, GotoOnlyMoves DEF BaseInv, Labels
  <2>3. UNCHANGED tables
    BY DEF CountSlots
  <2>4. QED
    BY <2>1, <2>2, <2>3, EntryReached DEF Kind, EntryKinds, EntryLabels
<1>3. QED
  BY <1>1, <1>2 DEF CountSlots, Test

\* A call of a tool at one of its statements.
LEMMA DecisionReached ==
  ASSUME NEW h \in Handlers, Moves(h), covState' # "none",
         pc'[h] \in DecisionLabels, req'[h].kind \in Decisions,
         req'[h].kind \in AgentTools => req'[h].ref \in DOMAIN members',
         req'[h].kind \in AccessTools => req'[h].ref \in DOMAIN accessRequests',
         pc'[h] = "resolve" => req'[h].kind \in AccessTools,
         pc'[h] # "check" /\ req'[h].kind \in AgentTools =>
           ~members'[req'[h].ref].owner,
         req'[h].kind = "leave_covenant" => Approved(req[h].ref)',
         pc'[h] \in {"apply", "resolve"} =>
           /\ req'[h].log \in DOMAIN auditLog'
           /\ auditLog'[req'[h].log] =
                [tool |-> req'[h].kind, ref |-> req'[h].ref]
  PROVE  EntryOK(h)' /\ DecisionOK(h)'
<1>1. EntryOK(h)'
  BY DEF EntryOK, EntryLabels, DecisionLabels
<1>2. DecisionOK(h)'
  BY DEF DecisionOK, Kind
<1>3. QED
  BY <1>1, <1>2

LEMMA BeginDecisionMoves ==
  ASSUME BaseInv, NEW h \in Handlers, BeginDecision(h)
  PROVE  Moves(h) /\ EntryOK(h)' /\ DecisionOK(h)'
<1>1. req[h] \in Locals /\ DOMAIN members \subseteq Nat
      /\ DOMAIN accessRequests \subseteq Nat
  BY Tables DEF BaseInv
<1>2. PICK k \in Decisions, n \in Nat :
        /\ req' = [req EXCEPT ![h].kind = k, ![h].ref = n]
        /\ k # "leave_covenant"
        /\ k \in AgentTools => n \in DOMAIN members
        /\ k \in AccessTools => n \in DOMAIN accessRequests
  <2>1. CASE \E k \in AgentTools \ {"leave_covenant"}, a \in DOMAIN members :
               req' = [req EXCEPT ![h].kind = k, ![h].ref = a]
    BY <1>1, <2>1 DEF Decisions, AgentTools, AccessTools
  <2>2. CASE \E k \in AccessTools, n \in DOMAIN accessRequests :
               req' = [req EXCEPT ![h].kind = k, ![h].ref = n]
    BY <1>1, <2>2 DEF Decisions, AgentTools, AccessTools
  <2>3. QED
    BY <2>1, <2>2 DEF BeginDecision
<1> DEFINE q == req[h]
           L == [[q EXCEPT !.kind = k] EXCEPT !.ref = n]
<1>3. k \in Kinds /\ q \in Locals
  BY <1>1 DEF Decisions, Kinds
<1> HIDE DEF q
<1>4. L \in Locals /\ L.kind = k /\ L.ref = n
  BY <1>3 DEF Locals
<1>5. req' = [req EXCEPT ![h] = L]
  BY <1>2 DEF q
<1> HIDE DEF L
<1>6. Moves(h) /\ pc'[h] = "check" /\ req'[h] = L
  BY <1>4, <1>5, GotoMoves DEF BaseInv, BeginDecision, Labels
<1>7. UNCHANGED tables
  BY DEF BeginDecision
<1>8. covState # "none"
  BY <1>2 DEF BaseInv, RowsInv, CovenantFirst, Decisions
<1>9. QED
  BY <1>2, <1>4, <1>6, <1>7, <1>8, TablesSame, DecisionReached
     DEF DecisionLabels

LEMMA BeginLeaveMoves ==
  ASSUME BaseInv, NEW h \in Handlers, BeginLeave(h)
  PROVE  Moves(h) /\ EntryOK(h)' /\ DecisionOK(h)'
<1>1. req[h] \in Locals /\ DOMAIN members \subseteq Nat
  BY Tables DEF BaseInv
<1>2. PICK n \in DOMAIN members :
        /\ members[n].status = "active" /\ ~members[n].owner
        /\ req' = [req EXCEPT ![h].kind = "leave_covenant", ![h].ref = n]
  BY DEF BeginLeave
<1> DEFINE q == req[h]
           L == [[q EXCEPT !.kind = "leave_covenant"] EXCEPT !.ref = n]
<1>3. "leave_covenant" \in Kinds /\ n \in Nat /\ q \in Locals
  BY <1>1 DEF Kinds, AgentTools
<1> HIDE DEF q
<1>4. L \in Locals /\ L.kind = "leave_covenant" /\ L.ref = n
  BY <1>3 DEF Locals
<1>5. req' = [req EXCEPT ![h] = L]
  BY <1>2 DEF q
<1> HIDE DEF L
<1>6. Moves(h) /\ pc'[h] = "log" /\ req'[h] = L
  BY <1>4, <1>5, GotoMoves DEF BaseInv, BeginLeave, Labels
<1>7. UNCHANGED tables
  BY DEF BeginLeave
<1>8. covState # "none" /\ Approved(n)
  BY <1>2 DEF CovenantFirst, BaseInv, RowsInv, ActiveIsApproved
<1>9. EntryOK(h)'
  BY <1>6, <1>7, <1>8, TablesSame DEF EntryOK, EntryLabels
<1>10. DecisionOK(h)'
  <2>1. Kind(h)' = "leave_covenant" /\ req'[h].ref = n
    BY <1>4, <1>6 DEF Kind
  <2>2. Approved(req[h].ref)'
    BY <1>7, <1>8, <2>1, TablesSame DEF Approved, Logged
  <2>3. QED
    BY <1>2, <1>6, <1>7, <2>1, <2>2, TablesSame
       DEF DecisionOK, Decisions, AgentTools, AccessTools
<1>11. QED
  BY <1>6, <1>9, <1>10

\* A decision goes on about the row it checked.
LEMMA DecisionGoesOn ==
  ASSUME BaseInv, NEW h \in Handlers, Moves(h), UNCHANGED tables,
         req'[h] = req[h], pc[h] \in DecisionLabels,
         \/ /\ pc[h] = "check" /\ pc'[h] = "log"
            /\ Kind(h) \in AgentTools => ~members[req[h].ref].owner
         \/ pc[h] = "apply" /\ pc'[h] = "resolve" /\ Kind(h) \in AccessTools
  PROVE  EntryOK(h)' /\ DecisionOK(h)'
<1>1. covState # "none" /\ DecisionOK(h)
  BY DEF BaseInv, HandlersOK, EntryOK, DecisionLabels
<1>2. EntryOK(h)'
  BY <1>1, TablesSame DEF EntryOK, EntryLabels
<1>3. Kind(h)' = Kind(h) /\ Approved(req[h].ref)' = Approved(req[h].ref)
  BY TablesSame DEF Kind, Approved, Logged
<1>4. DecisionOK(h)'
  BY <1>1, <1>3, TablesSame DEF DecisionOK, DecisionLabels
<1>5. QED
  BY <1>2, <1>4

LEMMA CheckPendingMoves ==
  ASSUME BaseInv, NEW h \in Handlers, CheckPending(h)
  PROVE  Moves(h) /\ EntryOK(h)' /\ DecisionOK(h)'
<1>1. CASE Return(h)
  BY <1>1, ReturnMoves DEF BaseInv
<1>2. CASE /\ Goto(h, "log") /\ UNCHANGED req
           /\ \/ Kind(h) \in AccessTools
              \/ members[req[h].ref].status = "pending"
  <2>1. Moves(h) /\ pc'[h] = "log" /\ req'[h] = req[h]
    BY <1>2, GotoOnlyMoves DEF BaseInv, Labels
  <2>2. pc[h] = "check" /\ pc[h] \in DecisionLabels /\ UNCHANGED tables
    BY DEF CheckPending, At, DecisionLabels
  <2>3. Kind(h) \in AgentTools => ~members[req[h].ref].owner
    BY <1>2, <2>2
       DEF BaseInv, RowsInv, HandlersOK, DecisionOK, OwnerActive, AgentTools,
           AccessTools
  <2>4. QED
    BY <2>1, <2>2, <2>3, DecisionGoesOn
<1>3. QED
  BY <1>1, <1>2 DEF CheckPending, Test

LEMMA ReadRequestMoves ==
  ASSUME BaseInv, NEW h \in Handlers, ReadRequest(h)
  PROVE  Moves(h) /\ EntryOK(h)' /\ DecisionOK(h)'
<1>1. CASE Return(h)
  BY <1>1, ReturnMoves DEF BaseInv
<1>2. CASE Goto(h, "resolve") /\ UNCHANGED req
  <2>1. Moves(h) /\ pc'[h] = "resolve" /\ req'[h] = req[h]
    BY <1>2, GotoOnlyMoves DEF BaseInv, Labels
  <2>2. /\ pc[h] = "apply" /\ pc[h] \in DecisionLabels /\ UNCHANGED tables
        /\ Kind(h) \in AccessTools
    BY DEF ReadRequest, At, DecisionLabels
  <2>3. QED
    BY <2>1, <2>2, DecisionGoesOn
<1>3. QED
  BY <1>1, <1>2 DEF ReadRequest, Test
-----------------------------------------------------------------------------
(* The steps that write.                                                   *)

\* The tables' part of the type invariant.
TablesTyped ==
  /\ covState \in Phases \cup {"none"}
  /\ gitTwin \in BOOLEAN
  /\ DOMAIN tiers \subseteq Tiers /\ \A t \in DOMAIN tiers : tiers[t] \in Tier
  /\ identities \subseteq Platforms
  /\ members \in Seq(Member)
  /\ accessRequests \in Seq(AccessRequest)
  /\ ledger \in Seq(FeeRow)
  /\ auditLog \in Seq(LogRow)

\* A step that writes no table but late and the counters.
LEMMA SameTables ==
  ASSUME BaseInv, UNCHANGED <<covState, gitTwin, tiers, people, auditLog>>
  PROVE  TablesTyped' /\ RowsInv' /\ Grows
<1>1. TablesTyped'
  BY DEF BaseInv, MembershipTypeOK, TablesTyped, people
<1>2. RowsInv'
  BY DEF BaseInv, RowsInv, ActiveIsApproved, TiersKnown, CovenantFirst,
         OwnerActive, Approved, Logged, people
<1>3. Grows
  BY DEF Grows, people
<1>4. QED
  BY <1>1, <1>2, <1>3

\* A member is added, pending, owning or with the request that admits it.
LEMMA MemberAdded ==
  ASSUME BaseInv, NEW m \in Member, members' = Append(members, m),
         UNCHANGED <<tiers, auditLog>>,
         m.owner => m.status = "active",
         ~m.owner => m.tier \in DOMAIN tiers,
         ~m.owner /\ m.status = "active" => m.request # 0
  PROVE  /\ members' \in Seq(Member)
         /\ Len(members') = Len(members) + 1
         /\ DOMAIN members' = DOMAIN members \cup {Len(members) + 1}
         /\ \A a \in DOMAIN members : members'[a] = members[a]
         /\ members'[Len(members) + 1] = m
         /\ ActiveIsApproved' /\ OwnerActive'
         /\ \A a \in DOMAIN members' :
              ~members'[a].owner => members'[a].tier \in DOMAIN tiers'
<1> DEFINE n == Len(members) + 1
<1>1. members \in Seq(Member) /\ Len(members) \in Nat
      /\ DOMAIN members = 1..Len(members)
  BY Tables DEF BaseInv, MembershipTypeOK
<1>2. /\ members' \in Seq(Member) /\ Len(members') = n
      /\ DOMAIN members' = 1..n
      /\ \A a \in DOMAIN members : members'[a] = members[a]
      /\ members'[n] = m
  BY <1>1, Appended
<1>3. DOMAIN members' = DOMAIN members \cup {n}
  BY <1>1, <1>2
<1> HIDE DEF n
<1>4. ActiveIsApproved'
  BY <1>2, <1>3
     DEF BaseInv, RowsInv, ActiveIsApproved, Approved, Logged
<1>5. OwnerActive'
  BY <1>2, <1>3 DEF BaseInv, RowsInv, OwnerActive
<1>6. \A a \in DOMAIN members' :
        ~members'[a].owner => members'[a].tier \in DOMAIN tiers'
  BY <1>2, <1>3 DEF BaseInv, RowsInv, TiersKnown
<1>7. QED
  BY <1>2, <1>3, <1>4, <1>5, <1>6 DEF n

LEMMA CreateWrites ==
  ASSUME BaseInv, Create
  PROVE  TablesTyped' /\ RowsInv' /\ Grows
<1> DEFINE m == [platform |-> Founder, tier |-> SomeTier, owner |-> TRUE,
                 request |-> 0, status |-> "active"]
<1>1. m \in Member /\ m.owner /\ m.status = "active"
  <2>1. SomeTier \in Tiers /\ Founder \in Platforms
    BY MembershipAssumption DEF SomeTier
  <2>2. QED
    BY <2>1 DEF Member
<1>2. members' = Append(members, m)
  BY DEF Create
<1> HIDE DEF m
<1>3. /\ UNCHANGED <<gitTwin, tiers, accessRequests, ledger, auditLog>>
      /\ covState = "none" /\ covState' = "DRAFT"
      /\ identities' = identities \cup {Founder}
  BY DEF Create
<1>4. /\ members' \in Seq(Member) /\ DOMAIN members \subseteq DOMAIN members'
      /\ \A a \in DOMAIN members : members'[a] = members[a]
      /\ ActiveIsApproved' /\ OwnerActive'
      /\ \A a \in DOMAIN members' :
           ~members'[a].owner => members'[a].tier \in DOMAIN tiers'
  BY <1>1, <1>2, <1>3, MemberAdded
<1>5. TablesTyped'
  BY <1>3, <1>4, MembershipAssumption
     DEF BaseInv, MembershipTypeOK, TablesTyped, Phases
<1>6. RowsInv'
  BY <1>3, <1>4 DEF BaseInv, RowsInv, TiersKnown, CovenantFirst
<1>7. QED
  BY <1>3, <1>4, <1>5, <1>6 DEF Grows

LEMMA AddTierWrites ==
  ASSUME BaseInv, AddTier
  PROVE  TablesTyped' /\ RowsInv' /\ Grows
<1>1. PICK t \in Tiers \ DOMAIN tiers, row \in Tier :
        tiers' = [u \in DOMAIN tiers \cup {t} |-> IF u = t THEN row ELSE tiers[u]]
  BY DEF AddTier
<1>2. /\ DOMAIN tiers' = DOMAIN tiers \cup {t}
      /\ tiers'[t] = row
      /\ \A u \in DOMAIN tiers : tiers'[u] = tiers[u]
  BY <1>1
<1>3. UNCHANGED <<covState, gitTwin, people, auditLog>>
  BY DEF AddTier
<1>4. TablesTyped'
  BY <1>2, <1>3 DEF BaseInv, MembershipTypeOK, TablesTyped, people
<1>5. RowsInv'
  BY <1>2, <1>3
     DEF BaseInv, RowsInv, ActiveIsApproved, TiersKnown, CovenantFirst,
         OwnerActive, Approved, Logged, people
<1>6. Grows
  BY <1>2, <1>3 DEF Grows, people
<1>7. QED
  BY <1>4, <1>5, <1>6

LEMMA UpdateStateWrites ==
  ASSUME BaseInv, NEW h \in Handlers, UpdateState(h)
  PROVE  TablesTyped' /\ RowsInv' /\ Grows
<1>1. covState' \in Phases
  BY NextPhaseType DEF UpdateState, At, BaseInv, HandlersOK, EntryOK
<1>2. /\ UNCHANGED <<gitTwin, tiers, people, auditLog>>
      /\ covState' # "none"
  BY <1>1 DEF UpdateState, Phases
<1>3. TablesTyped'
  BY <1>1, <1>2 DEF BaseInv, MembershipTypeOK, TablesTyped, people
<1>4. RowsInv'
  BY <1>2
     DEF BaseInv, RowsInv, ActiveIsApproved, TiersKnown, CovenantFirst,
         OwnerActive, Approved, Logged, people
<1>5. Grows
  BY <1>2 DEF Grows, people
<1>6. QED
  BY <1>3, <1>4, <1>5

LEMMA UpdateGitTwinWrites ==
  ASSUME BaseInv, NEW h \in Handlers, UpdateGitTwin(h)
  PROVE  TablesTyped' /\ RowsInv' /\ Grows
<1>1. UNCHANGED <<covState, tiers, people, auditLog>> /\ gitTwin' \in BOOLEAN
  BY DEF UpdateGitTwin
<1>2. TablesTyped'
  BY <1>1 DEF BaseInv, MembershipTypeOK, TablesTyped, people
<1>3. RowsInv'
  BY <1>1
     DEF BaseInv, RowsInv, ActiveIsApproved, TiersKnown, CovenantFirst,
         OwnerActive, Approved, Logged, people
<1>4. Grows
  BY <1>1 DEF Grows, people
<1>5. QED
  BY <1>2, <1>3, <1>4

LEMMA UpsertIdentityWrites ==
  ASSUME BaseInv, NEW h \in Handlers, UpsertIdentity(h)
  PROVE  TablesTyped' /\ RowsInv' /\ Grows
<1>1. /\ UNCHANGED <<covState, gitTwin, tiers, members, accessRequests, ledger,
                     auditLog>>
      /\ identities' = identities \cup {req[h].platform}
  BY DEF UpsertIdentity
<1>2. req[h].platform \in Platforms
  BY Tables DEF BaseInv, Locals
<1>3. TablesTyped'
  BY <1>1, <1>2 DEF BaseInv, MembershipTypeOK, TablesTyped
<1>4. RowsInv'
  BY <1>1
     DEF BaseInv, RowsInv, ActiveIsApproved, TiersKnown, CovenantFirst,
         OwnerActive, Approved, Logged
<1>5. Grows
  BY <1>1 DEF Grows
<1>6. QED
  BY <1>3, <1>4, <1>5

LEMMA InsertMemberWrites ==
  ASSUME BaseInv, NEW h \in Handlers, InsertMember(h)
  PROVE  TablesTyped' /\ RowsInv' /\ Grows
<1>1. CASE members' = members
  BY <1>1, SameTables DEF InsertMember, people
<1>2. CASE members' # members
  <2> DEFINE m == [platform |-> req[h].platform, tier |-> req[h].tier,
                   owner |-> FALSE, request |-> 0, status |-> "pending"]
  <2>1. /\ req[h].platform \in Platforms /\ req[h].tier \in Tiers
        /\ req[h].tier \in DOMAIN tiers /\ covState # "none"
    BY Tables DEF BaseInv, HandlersOK, EntryOK, Locals, InsertMember, At
  <2>2. /\ m \in Member /\ ~m.owner /\ m.status = "pending"
        /\ m.tier \in DOMAIN tiers
    BY <2>1 DEF Member
  <2>3. /\ members' = Append(members, m)
        /\ UNCHANGED <<covState, gitTwin, tiers, identities, accessRequests,
                       ledger, auditLog>>
    BY <1>2 DEF InsertMember
  <2> HIDE DEF m
  <2>4. /\ members' \in Seq(Member) /\ DOMAIN members \subseteq DOMAIN members'
        /\ \A a \in DOMAIN members : members'[a] = members[a]
        /\ ActiveIsApproved' /\ OwnerActive'
        /\ \A a \in DOMAIN members' :
             ~members'[a].owner => members'[a].tier \in DOMAIN tiers'
    BY <2>2, <2>3, MemberAdded
  <2>5. TablesTyped'
    BY <2>3, <2>4 DEF BaseInv, MembershipTypeOK, TablesTyped
  <2>6. RowsInv'
    BY <2>1, <2>3, <2>4 DEF BaseInv, RowsInv, TiersKnown, CovenantFirst
  <2>7. QED
    BY <2>3, <2>4, <2>5, <2>6 DEF Grows
<1>3. QED
  BY <1>1, <1>2

LEMMA InsertRequestWrites ==
  ASSUME BaseInv, NEW h \in Handlers, InsertRequest(h)
  PROVE  TablesTyped' /\ RowsInv' /\ Grows
<1> DEFINE r == [platform |-> req[h].platform, tier |-> req[h].tier,
                 status |-> "pending", approveLog |-> 0, rejectLog |-> 0]
           n == Len(accessRequests) + 1
<1>1. /\ req[h].platform \in Platforms /\ req[h].tier \in Tiers
      /\ req[h].tier \in DOMAIN tiers /\ covState # "none"
  BY Tables DEF BaseInv, HandlersOK, EntryOK, Locals, InsertRequest, At
<1>2. r \in AccessRequest /\ r.tier \in DOMAIN tiers
  BY <1>1 DEF AccessRequest
<1>3. /\ accessRequests' = Append(accessRequests, r)
      /\ UNCHANGED <<covState, gitTwin, tiers, identities, members, ledger,
                     auditLog>>
  BY DEF InsertRequest
<1> HIDE DEF r
<1>4. /\ accessRequests' \in Seq(AccessRequest)
      /\ DOMAIN accessRequests' = DOMAIN accessRequests \cup {n}
      /\ \A i \in DOMAIN accessRequests : accessRequests'[i] = accessRequests[i]
      /\ accessRequests'[n] = r
  <2>1. accessRequests \in Seq(AccessRequest)
    BY DEF BaseInv, MembershipTypeOK
  <2>2. /\ accessRequests' \in Seq(AccessRequest)
        /\ DOMAIN accessRequests' = DOMAIN accessRequests \cup {n}
        /\ \A i \in DOMAIN accessRequests : accessRequests'[i] = accessRequests[i]
        /\ accessRequests'[n] = r
    BY <1>2, <1>3, <2>1, Appended
  <2>3. QED
    BY <2>2
<1> HIDE DEF n
<1>5. TablesTyped'
  BY <1>3, <1>4 DEF BaseInv, MembershipTypeOK, TablesTyped
<1>6. RowsInv'
  BY <1>1, <1>2, <1>3, <1>4
     DEF BaseInv, RowsInv, ActiveIsApproved, TiersKnown, CovenantFirst,
         OwnerActive, Approved, Logged
<1>7. Grows
  BY <1>3, <1>4 DEF Grows
<1>8. QED
  BY <1>5, <1>6, <1>7

\* The row that Step 5 writes.
LEMMA LogAdded ==
  ASSUME BaseInv, NEW h \in Handlers, WriteAuditLog(h)
  PROVE  /\ auditLog' \in Seq(LogRow)
         /\ Len(auditLog) + 1 \in Nat
         /\ DOMAIN auditLog' = DOMAIN auditLog \cup {Len(auditLog) + 1}
         /\ \A l \in DOMAIN auditLog : auditLog'[l] = auditLog[l]
         /\ auditLog'[Len(auditLog) + 1] = [tool |-> Kind(h), ref |-> req[h].ref]
<1> DEFINE row == [tool |-> Kind(h), ref |-> req[h].ref]
           n == Len(auditLog) + 1
<1>1. Kind(h) \in Decisions /\ req[h].ref \in Nat
  BY Tables DEF BaseInv, HandlersOK, DecisionOK, DecisionLabels, Locals,
                WriteAuditLog, At
<1>2. row \in LogRow
  BY <1>1 DEF LogRow, Decisions
<1>3. auditLog' = Append(auditLog, row) /\ auditLog \in Seq(LogRow)
  BY DEF WriteAuditLog, BaseInv, MembershipTypeOK
<1> HIDE DEF row
<1>4. /\ auditLog' \in Seq(LogRow)
      /\ DOMAIN auditLog' = DOMAIN auditLog \cup {n}
      /\ \A l \in DOMAIN auditLog : auditLog'[l] = auditLog[l]
      /\ auditLog'[n] = row
  BY <1>2, <1>3, Appended
<1>5. Len(auditLog) \in Nat
  BY Tables DEF BaseInv
<1>6. QED
  BY <1>4, <1>5 DEF row

LEMMA WriteAuditLogWrites ==
  ASSUME BaseInv, NEW h \in Handlers, WriteAuditLog(h)
  PROVE  TablesTyped' /\ RowsInv' /\ Grows
<1>1. UNCHANGED <<covState, gitTwin, tiers, people>>
  BY DEF WriteAuditLog
<1>2. TablesTyped'
  BY <1>1, LogAdded DEF BaseInv, MembershipTypeOK, TablesTyped, people
<1>3. Grows
  BY <1>1, LogAdded DEF Grows, people
<1>4. \A a \in DOMAIN members : Approved(a) => Approved(a)'
  BY <1>3, ApprovedStays
<1>5. RowsInv'
  BY <1>1, <1>4
     DEF BaseInv, RowsInv, ActiveIsApproved, TiersKnown, CovenantFirst,
         OwnerActive, people
<1>6. QED
  BY <1>2, <1>3, <1>5

\* The row that Step 6 of the agent tools writes: that of a member who is not
\* the owner, to the status the logged decision says.
LEMMA MemberDecided ==
  ASSUME BaseInv, NEW h \in Handlers, UpdateMember(h)
  PROVE  LET i == req[h].ref IN
         /\ i \in DOMAIN members /\ ~members[i].owner
         /\ members' \in Seq(Member) /\ DOMAIN members' = DOMAIN members
         /\ \A a \in DOMAIN members :
              /\ members'[a].platform = members[a].platform
              /\ members'[a].tier = members[a].tier
              /\ members'[a].owner = members[a].owner
              /\ members'[a].request = members[a].request
              /\ a # i => members'[a] = members[a]
         /\ \/ members'[i].status = "active" /\ Logged("approve_agent", i) # {}
            \/ members'[i].status = "rejected" /\ Logged("reject_agent", i) # {}
            \/ /\ members'[i].status = "left" /\ Approved(i)
               /\ Logged("leave_covenant", i) # {}
<1> DEFINE i == req[h].ref  v == StatusOf[Kind(h)]
<1>1. /\ i \in DOMAIN members /\ ~members[i].owner
      /\ Kind(h) \in AgentTools
      /\ Kind(h) = "leave_covenant" => Approved(i)
      /\ req[h].log \in DOMAIN auditLog
      /\ auditLog[req[h].log] = [tool |-> Kind(h), ref |-> i]
  BY DEF BaseInv, HandlersOK, DecisionOK, DecisionLabels, UpdateMember, At
<1>2. /\ Kind(h) = "approve_agent" => v = "active"
      /\ Kind(h) = "reject_agent" => v = "rejected"
      /\ Kind(h) = "leave_covenant" => v = "left"
      /\ Kind(h) \in {"approve_agent", "reject_agent", "leave_covenant"}
  BY <1>1, StatusOfType DEF AgentTools
<1>3. members' = [members EXCEPT ![i].status = v] /\ members \in Seq(Member)
  BY DEF UpdateMember, BaseInv, MembershipTypeOK
<1> HIDE DEF v
<1>4. v \in {"pending", "active", "rejected", "left"}
  BY <1>2
<1>5. Logged(Kind(h), i) # {}
  BY <1>1 DEF Logged
<1> HIDE DEF i
<1> DEFINE e == [members[i] EXCEPT !.status = v]
<1>6. /\ members' \in Seq(Member) /\ DOMAIN members' = DOMAIN members
      /\ \A a \in DOMAIN members :
           /\ members'[a].platform = members[a].platform
           /\ members'[a].tier = members[a].tier
           /\ members'[a].owner = members[a].owner
           /\ members'[a].request = members[a].request
           /\ members'[a].status = IF a = i THEN v ELSE members[a].status
           /\ a # i => members'[a] = members[a]
  <2>1. DOMAIN members = 1..Len(members) /\ members[i] \in Member
    BY <1>1, Tables DEF BaseInv
  <2>2. /\ e \in Member /\ e.status = v /\ e.platform = members[i].platform
        /\ e.tier = members[i].tier /\ e.owner = members[i].owner
        /\ e.request = members[i].request
    BY <1>4, <2>1 DEF Member
  <2>3. members' = [members EXCEPT ![i] = e]
    BY <1>3
  <2> HIDE DEF e
  <2>4. /\ members' \in Seq(Member) /\ Len(members') = Len(members)
        /\ \A j \in 1..Len(members) :
             members'[j] = IF j = i THEN e ELSE members[j]
    BY <1>1, <1>3, <2>1, <2>2, <2>3, ExceptSeq
  <2>5. DOMAIN members' = DOMAIN members
    BY <2>3
  <2>6. QED
    BY <1>1, <2>1, <2>2, <2>4, <2>5
<1>7. members'[i].status = v
  BY <1>1, <1>6
<1>8. QED
  BY <1>1, <1>2, <1>5, <1>6, <1>7 DEF i

LEMMA UpdateMemberWrites ==
  ASSUME BaseInv, NEW h \in Handlers, UpdateMember(h)
  PROVE  TablesTyped' /\ RowsInv' /\ Grows
<1> DEFINE i == req[h].ref
<1>1. /\ UNCHANGED <<covState, gitTwin, tiers, identities, accessRequests,
                     ledger, auditLog>>
  BY DEF UpdateMember
<1>2. /\ i \in DOMAIN members /\ ~members[i].owner
      /\ members' \in Seq(Member) /\ DOMAIN members' = DOMAIN members
      /\ \A a \in DOMAIN members :
           /\ members'[a].platform = members[a].platform
           /\ members'[a].tier = members[a].tier
           /\ members'[a].owner = members[a].owner
           /\ members'[a].request = members[a].request
           /\ a # i => members'[a] = members[a]
      /\ members'[i].status = "active" => Logged("approve_agent", i) # {}
  BY MemberDecided
<1> HIDE DEF i
<1>3. TablesTyped'
  BY <1>1, <1>2 DEF BaseInv, MembershipTypeOK, TablesTyped
<1>4. Grows
  BY <1>1, <1>2 DEF Grows
<1>5. ActiveIsApproved'
  BY <1>1, <1>2 DEF BaseInv, RowsInv, ActiveIsApproved, Approved, Logged
<1>6. OwnerActive'
  BY <1>2 DEF BaseInv, RowsInv, OwnerActive
<1>7. TiersKnown' /\ CovenantFirst'
  BY <1>1, <1>2 DEF BaseInv, RowsInv, TiersKnown, CovenantFirst
<1>8. QED
  BY <1>3, <1>4, <1>5, <1>6, <1>7 DEF RowsInv

\* What a call of an access tool knows when it comes to write.
LEMMA Resolving ==
  ASSUME BaseInv, NEW h \in Handlers, pc[h] = "resolve"
  PROVE  LET n == req[h].ref IN
         /\ n \in DOMAIN accessRequests /\ n \in Nat /\ n # 0
         /\ accessRequests[n] \in AccessRequest
         /\ accessRequests[n].tier \in DOMAIN tiers
         /\ Kind(h) \in AccessTools /\ covState # "none"
         /\ req[h].log \in DOMAIN auditLog
         /\ req[h].log \in Nat /\ req[h].log # 0
         /\ auditLog[req[h].log] = [tool |-> Kind(h), ref |-> n]
<1>1. /\ req[h].ref \in DOMAIN accessRequests
      /\ Kind(h) \in AccessTools /\ covState # "none"
      /\ req[h].log \in DOMAIN auditLog
      /\ auditLog[req[h].log] = [tool |-> Kind(h), ref |-> req[h].ref]
  BY DEF BaseInv, HandlersOK, EntryOK, DecisionOK, DecisionLabels
<1>2. /\ DOMAIN accessRequests = 1..Len(accessRequests)
      /\ Len(accessRequests) \in Nat
      /\ DOMAIN auditLog = 1..Len(auditLog) /\ Len(auditLog) \in Nat
      /\ accessRequests[req[h].ref] \in AccessRequest
      /\ accessRequests[req[h].ref].tier \in DOMAIN tiers
  BY <1>1, Tables DEF BaseInv, RowsInv, TiersKnown
<1>3. QED
  BY <1>1, <1>2

\* The two ways to decide an access request.
LEMMA RequestWritten ==
  ASSUME BaseInv, NEW h \in Handlers, pc[h] = "resolve",
         NEW e \in AccessRequest,
         accessRequests' = [accessRequests EXCEPT ![req[h].ref] = e]
  PROVE  /\ accessRequests' \in Seq(AccessRequest)
         /\ DOMAIN accessRequests' = DOMAIN accessRequests
         /\ \A n \in DOMAIN accessRequests :
              accessRequests'[n] = IF n = req[h].ref THEN e ELSE accessRequests[n]
<1>1. req[h].ref \in DOMAIN accessRequests
  BY Resolving
<1>2. /\ accessRequests \in Seq(AccessRequest)
      /\ DOMAIN accessRequests = 1..Len(accessRequests)
  BY Tables DEF BaseInv, MembershipTypeOK
<1>3. /\ accessRequests' \in Seq(AccessRequest)
      /\ \A n \in 1..Len(accessRequests) :
           accessRequests'[n] = IF n = req[h].ref THEN e ELSE accessRequests[n]
  BY <1>1, <1>2, ExceptSeq
<1>4. DOMAIN accessRequests' = DOMAIN accessRequests
  OBVIOUS
<1>5. QED
  BY <1>2, <1>3, <1>4

LEMMA RequestGranted ==
  ASSUME BaseInv, NEW h \in Handlers, pc[h] = "resolve",
         accessRequests' = Granted(req[h].ref, req[h].log)
  PROVE  /\ accessRequests' \in Seq(AccessRequest)
         /\ DOMAIN accessRequests' = DOMAIN accessRequests
         /\ \A n \in DOMAIN accessRequests :
              /\ accessRequests'[n].platform = accessRequests[n].platform
              /\ accessRequests'[n].tier = accessRequests[n].tier
              /\ accessRequests'[n].approveLog =
                   IF n = req[h].ref THEN req[h].log
                   ELSE accessRequests[n].approveLog
              /\ n # req[h].ref => accessRequests'[n] = accessRequests[n]
<1> DEFINE i == req[h].ref  l == req[h].log  r == accessRequests[i]
           e == [[r EXCEPT !.status = "approved"] EXCEPT !.approveLog = l]
<1>1. i \in DOMAIN accessRequests /\ r \in AccessRequest /\ l \in Nat
  BY Resolving
<1>2. accessRequests' = [accessRequests EXCEPT ![i] = e]
  BY DEF Granted
<1> HIDE DEF r, l
<1>3. /\ e \in AccessRequest /\ e.platform = r.platform /\ e.tier = r.tier
      /\ e.approveLog = l
  BY <1>1 DEF AccessRequest
<1> HIDE DEF e
<1>4. /\ accessRequests' \in Seq(AccessRequest)
      /\ DOMAIN accessRequests' = DOMAIN accessRequests
      /\ \A n \in DOMAIN accessRequests :
           accessRequests'[n] = IF n = req[h].ref THEN e ELSE accessRequests[n]
  BY <1>2, <1>3, RequestWritten
<1>5. QED
  BY <1>1, <1>3, <1>4 DEF r, l

LEMMA RequestRejected ==
  ASSUME BaseInv, NEW h \in Handlers, RejectAccess(h)
  PROVE  /\ accessRequests' \in Seq(AccessRequest)
         /\ DOMAIN accessRequests' = DOMAIN accessRequests
         /\ \A n \in DOMAIN accessRequests :
              /\ accessRequests'[n].platform = accessRequests[n].platform
              /\ accessRequests'[n].tier = accessRequests[n].tier
              /\ accessRequests'[n].approveLog = accessRequests[n].approveLog
              /\ n # req[h].ref => accessRequests'[n] = accessRequests[n]
<1> DEFINE i == req[h].ref  l == req[h].log  r == accessRequests[i]
           e == [[r EXCEPT !.status = "rejected"] EXCEPT !.rejectLog = l]
<1>1. /\ i \in DOMAIN accessRequests /\ r \in AccessRequest /\ l \in Nat
      /\ pc[h] = "resolve"
  BY Resolving DEF RejectAccess, At
<1>2. accessRequests' = [accessRequests EXCEPT ![i] = e]
  BY DEF RejectAccess
<1> HIDE DEF r, l
<1>3. /\ e \in AccessRequest /\ e.platform = r.platform /\ e.tier = r.tier
      /\ e.approveLog = r.approveLog
  BY <1>1 DEF AccessRequest
<1> HIDE DEF e
<1>4. /\ accessRequests' \in Seq(AccessRequest)
      /\ DOMAIN accessRequests' = DOMAIN accessRequests
      /\ \A n \in DOMAIN accessRequests :
           accessRequests'[n] = IF n = req[h].ref THEN e ELSE accessRequests[n]
  BY <1>1, <1>2, <1>3, RequestWritten
<1>5. QED
  BY <1>1, <1>3, <1>4 DEF r

LEMMA RejectAccessWrites ==
  ASSUME BaseInv, NEW h \in Handlers, RejectAccess(h)
  PROVE  TablesTyped' /\ RowsInv' /\ Grows
<1>1. UNCHANGED <<covState, gitTwin, tiers, identities, members, ledger,
                  auditLog>>
  BY DEF RejectAccess
<1>2. TablesTyped'
  BY <1>1, RequestRejected DEF BaseInv, MembershipTypeOK, TablesTyped
<1>3. RowsInv'
  BY <1>1, RequestRejected
     DEF BaseInv, RowsInv, ActiveIsApproved, TiersKnown, CovenantFirst,
         OwnerActive, Approved, Logged
<1>4. Grows
  BY <1>1, RequestRejected DEF Grows
<1>5. QED
  BY <1>2, <1>3, <1>4

\* What an approval that admits a member writes, all in one transaction.
LEMMA Admitted ==
  ASSUME BaseInv, NEW h \in Handlers, ApproveAccess(h),
         ~IsMember(accessRequests[req[h].ref].platform)
  PROVE  LET n == req[h].ref
             a == Len(members) + 1
             fee == tiers[accessRequests[n].tier].fee
             i == Len(ledger) + 1
         IN /\ pc[h] = "resolve" /\ accessRequests' = Granted(n, req[h].log)
            /\ members' \in Seq(Member) /\ a \in Nat
            /\ DOMAIN members' = DOMAIN members \cup {a} /\ a \notin DOMAIN members
            /\ \A b \in DOMAIN members : members'[b] = members[b]
            /\ members'[a].platform = accessRequests[n].platform
            /\ members'[a].tier = accessRequests[n].tier
            /\ members'[a].request = n /\ ~members'[a].owner
            /\ members'[a].status = "active"
            /\ ActiveIsApproved' /\ OwnerActive'
            /\ \A b \in DOMAIN members' :
                 ~members'[b].owner => members'[b].tier \in DOMAIN tiers'
            /\ ledger' \in Seq(FeeRow)
            /\ fee \in Nat
            /\ fee = 0 => ledger' = ledger
            /\ fee # 0 =>
                 /\ DOMAIN ledger' = DOMAIN ledger \cup {i}
                 /\ i \notin DOMAIN ledger
                 /\ \A j \in DOMAIN ledger : ledger'[j] = ledger[j]
                 /\ ledger'[i].agent = a /\ ledger'[i].delta = -fee
                 /\ ledger'[i].request = n /\ ledger'[i].log = req[h].log
<1> DEFINE n == req[h].ref  r == accessRequests[n]
           a == Len(members) + 1  i == Len(ledger) + 1
           fee == tiers[r.tier].fee
           m == [platform |-> r.platform, tier |-> r.tier, owner |-> FALSE,
                 request |-> n, status |-> "active"]
           row == [agent |-> a, delta |-> -fee, request |-> n,
                   log |-> req[h].log]
<1>1. /\ pc[h] = "resolve"
      /\ n \in Nat /\ n # 0 /\ r \in AccessRequest /\ r.tier \in DOMAIN tiers
      /\ req[h].log \in Nat
  BY Resolving DEF ApproveAccess, At
<1>2. /\ accessRequests' = Granted(n, req[h].log)
      /\ members' = Append(members, m)
      /\ ledger' = IF fee > 0 THEN Append(ledger, row) ELSE ledger
      /\ UNCHANGED <<tiers, auditLog>>
  BY DEF ApproveAccess, FeeRows
<1>3. /\ members \in Seq(Member) /\ Len(members) \in Nat
      /\ DOMAIN members = 1..Len(members)
      /\ ledger \in Seq(FeeRow) /\ Len(ledger) \in Nat
      /\ DOMAIN ledger = 1..Len(ledger)
  BY Tables DEF BaseInv, MembershipTypeOK
<1>4. tiers[r.tier] \in Tier
  BY <1>1 DEF BaseInv, MembershipTypeOK
<1>5. fee \in Nat
  BY <1>4, MembershipAssumption DEF Tier
<1>6. /\ m \in Member /\ m.platform = r.platform /\ m.tier = r.tier
      /\ m.request = n /\ ~m.owner /\ m.status = "active"
  BY <1>1 DEF Member, AccessRequest
<1> HIDE DEF m, r, fee
<1>7. a \in Nat /\ i \in Nat /\ a \notin DOMAIN members /\ i \notin DOMAIN ledger
  BY <1>3
<1>8. /\ row \in FeeRow /\ row.agent = a /\ row.delta = -fee
      /\ row.request = n /\ row.log = req[h].log
  BY <1>1, <1>5, <1>7 DEF FeeRow
<1>9. /\ members' \in Seq(Member)
      /\ DOMAIN members' = DOMAIN members \cup {a}
      /\ \A b \in DOMAIN members : members'[b] = members[b]
      /\ members'[a] = m
      /\ ActiveIsApproved' /\ OwnerActive'
      /\ \A b \in DOMAIN members' :
           ~members'[b].owner => members'[b].tier \in DOMAIN tiers'
  BY <1>1, <1>2, <1>6, MemberAdded
<1> HIDE DEF row
<1>10. /\ ledger' \in Seq(FeeRow)
       /\ fee = 0 => ledger' = ledger
       /\ fee # 0 => /\ DOMAIN ledger' = DOMAIN ledger \cup {i}
                     /\ \A j \in DOMAIN ledger : ledger'[j] = ledger[j]
                     /\ ledger'[i] = row
  <2>1. CASE fee > 0
    <3>1. ledger' = Append(ledger, row)
      BY <1>2, <2>1
    <3>2. /\ ledger' \in Seq(FeeRow)
          /\ DOMAIN ledger' = DOMAIN ledger \cup {i}
          /\ \A j \in DOMAIN ledger : ledger'[j] = ledger[j]
          /\ ledger'[i] = row
      BY <1>3, <1>8, <3>1, Appended
    <3>3. QED
      BY <1>5, <2>1, <3>2
  <2>2. CASE ~(fee > 0)
    BY <1>2, <1>3, <1>5, <2>2
  <2>3. QED
    BY <2>1, <2>2
<1>11. QED
  BY <1>1, <1>2, <1>5, <1>6, <1>7, <1>8, <1>9, <1>10 DEF r, fee

LEMMA ApproveAccessWrites ==
  ASSUME BaseInv, NEW h \in Handlers, ApproveAccess(h)
  PROVE  TablesTyped' /\ RowsInv' /\ Grows
<1>1. UNCHANGED <<covState, gitTwin, tiers, identities, auditLog>>
  BY DEF ApproveAccess
<1>2. CASE IsMember(accessRequests[req[h].ref].platform)
  BY <1>1, <1>2, SameTables DEF ApproveAccess, people
<1>3. CASE ~IsMember(accessRequests[req[h].ref].platform)
  <2>1. /\ members' \in Seq(Member) /\ DOMAIN members \subseteq DOMAIN members'
        /\ \A b \in DOMAIN members : members'[b] = members[b]
        /\ ActiveIsApproved' /\ OwnerActive'
        /\ \A b \in DOMAIN members' :
             ~members'[b].owner => members'[b].tier \in DOMAIN tiers'
        /\ ledger' \in Seq(FeeRow)
        /\ pc[h] = "resolve"
        /\ accessRequests' = Granted(req[h].ref, req[h].log)
    BY <1>3, Admitted
  <2>2. /\ accessRequests' \in Seq(AccessRequest)
        /\ DOMAIN accessRequests' = DOMAIN accessRequests
        /\ \A n \in DOMAIN accessRequests :
             /\ accessRequests'[n].platform = accessRequests[n].platform
             /\ accessRequests'[n].tier = accessRequests[n].tier
    BY <2>1, RequestGranted
  <2>3. covState # "none"
    BY <2>1, Resolving
  <2>4. TablesTyped'
    BY <1>1, <2>1, <2>2 DEF BaseInv, MembershipTypeOK, TablesTyped
  <2>5. RowsInv'
    BY <1>1, <2>1, <2>2, <2>3
       DEF BaseInv, RowsInv, TiersKnown, CovenantFirst
  <2>6. Grows
    BY <1>1, <2>1, <2>2 DEF Grows
  <2>7. QED
    BY <2>4, <2>5, <2>6
<1>4. QED
  BY <1>2, <1>3
-----------------------------------------------------------------------------
(* The invariant.                                                          *)

LEMMA UpsertIdentityMoves ==
  ASSUME BaseInv, NEW h \in Handlers, UpsertIdentity(h)
  PROVE  Moves(h) /\ EntryOK(h)' /\ DecisionOK(h)'
<1>1. Moves(h) /\ pc'[h] = "insert" /\ req'[h] = req[h]
  BY GotoOnlyMoves DEF BaseInv, UpsertIdentity, Labels
<1>2. EntryOK(h)'
  BY <1>1 DEF BaseInv, HandlersOK, EntryOK, EntryLabels, UpsertIdentity, At, Kind
<1>3. DecisionOK(h)'
  BY <1>1 DEF DecisionOK, DecisionLabels
<1>4. QED
  BY <1>1, <1>2, <1>3

LEMMA WriteAuditLogMoves ==
  ASSUME BaseInv, NEW h \in Handlers, WriteAuditLog(h)
  PROVE  Moves(h) /\ EntryOK(h)' /\ DecisionOK(h)'
<1> DEFINE n == Len(auditLog) + 1
           L == [req[h] EXCEPT !.log = n]
<1>1. req[h] \in Locals /\ pc[h] = "log" /\ DecisionOK(h) /\ covState # "none"
  BY Tables DEF BaseInv, HandlersOK, EntryOK, WriteAuditLog, At
<1>2. /\ n \in Nat /\ n \in DOMAIN auditLog'
      /\ auditLog'[n] = [tool |-> Kind(h), ref |-> req[h].ref]
  BY LogAdded
<1>3. req' = [req EXCEPT ![h] = L]
  BY DEF WriteAuditLog
<1> HIDE DEF n
<1>4. L \in Locals /\ L.kind = Kind(h) /\ L.ref = req[h].ref /\ L.log = n
  BY <1>1, <1>2 DEF Locals, Kind
<1> HIDE DEF L
<1>5. Moves(h) /\ pc'[h] = "apply" /\ req'[h] = L
  BY <1>3, <1>4, GotoMoves DEF BaseInv, WriteAuditLog, Labels
<1>6. UNCHANGED <<covState, members, accessRequests>>
  BY DEF WriteAuditLog, people
<1>7. EntryOK(h)'
  BY <1>1, <1>5, <1>6 DEF EntryOK, EntryLabels
<1>8. Kind(h)' = Kind(h) /\ req'[h].ref = req[h].ref /\ req'[h].log = n
  BY <1>4, <1>5 DEF Kind
<1>9. DecisionOK(h)'
  <2>1. /\ Kind(h) \in Decisions
        /\ Kind(h) \in AgentTools => req[h].ref \in DOMAIN members
        /\ Kind(h) \in AccessTools => req[h].ref \in DOMAIN accessRequests
        /\ Kind(h) \in AgentTools => ~members[req[h].ref].owner
        /\ Kind(h) = "leave_covenant" => Approved(req[h].ref)
    BY <1>1 DEF DecisionOK, DecisionLabels
  <2>2. Kind(h) = "leave_covenant" => Approved(req[h].ref)'
    BY <2>1, <1>8, ApprovedStays, WriteAuditLogWrites DEF AgentTools
  <2>3. QED
    BY <1>2, <1>5, <1>6, <1>8, <2>1, <2>2 DEF DecisionOK
<1>10. QED
  BY <1>5, <1>7, <1>9

\* The history and the counters of the bounds.
CountersTyped == {late, setups, entries, calls, faults} \subseteq Nat

LEMMA CountersStep ==
  ASSUME CountersTyped, Next
  PROVE  CountersTyped'
<1>1. CASE Create \/ AddTier \/ Crash
  BY <1>1 DEF Create, AddTier, Crash, Fault, CountersTyped, bounds, tables
<1>2. ASSUME NEW h \in Handlers, SetupStep(h) PROVE CountersTyped'
  BY <1>2 DEF SetupStep, BeginSetup, ReadState, CountTiers, UpdateState,
              UpdateGitTwin, CountLate, CountersTyped, bounds, tables
<1>3. ASSUME NEW h \in Handlers, EntryStep(h) PROVE CountersTyped'
  <2>1. CASE BeginEntry(h) \/ ReadTier(h) \/ UpsertIdentity(h)
    <3>1. /\ UNCHANGED <<late, setups, calls, faults>>
          /\ entries' = entries \/ entries' = entries + 1
      BY <2>1 DEF BeginEntry, ReadTier, UpsertIdentity, bounds, tables
    <3>2. QED
      BY <3>1 DEF CountersTyped
  <2>2. CASE CountSlots(h)
    <3>1. UNCHANGED tables /\ (UNCHANGED bounds \/ Fault)
      BY <2>2 DEF CountSlots
    <3>2. QED
      BY <3>1 DEF Fault, CountersTyped, bounds, tables
  <2>3. CASE InsertMember(h) \/ InsertRequest(h)
    <3>1. UNCHANGED bounds /\ (late' = late \/ late' = late + 1)
      BY <2>3 DEF InsertMember, InsertRequest, CountLate
    <3>2. QED
      BY <3>1 DEF CountersTyped, bounds
  <2>4. QED
    BY <1>3, <2>1, <2>2, <2>3 DEF EntryStep
<1>4. ASSUME NEW h \in Handlers, CallStep(h) PROVE CountersTyped'
  <2>1. CASE BeginDecision(h) \/ BeginLeave(h)
    <3>1. UNCHANGED tables /\ UNCHANGED <<setups, entries, faults>>
          /\ calls' = calls + 1
      BY <2>1 DEF BeginDecision, BeginLeave
    <3>2. QED
      BY <3>1 DEF CountersTyped, tables
  <2>2. CASE ~(BeginDecision(h) \/ BeginLeave(h))
    <3>1. UNCHANGED bounds /\ late' = late
      BY <1>4, <2>2
         DEF CallStep, CheckPending, WriteAuditLog, UpdateMember, ReadRequest,
             ApproveAccess, RejectAccess, tables
    <3>2. QED
      BY <3>1 DEF CountersTyped, bounds
  <2>3. QED
    BY <2>1, <2>2
<1>5. ASSUME NEW h \in Handlers, StatementFails(h) PROVE CountersTyped'
  BY <1>5 DEF StatementFails, Fault, CountersTyped, tables
<1>6. QED
  BY <1>1, <1>2, <1>3, <1>4, <1>5 DEF Next

\* Every step grows the tables, keeps their rows well, and lets at most one
\* request move, if the server lives.
LEMMA TablesStep ==
  ASSUME BaseInv, Next
  PROVE  TablesTyped' /\ RowsInv' /\ Grows
<1>1. CASE Create
  BY <1>1, CreateWrites
<1>2. CASE AddTier
  BY <1>2, AddTierWrites
<1>3. CASE UNCHANGED tables
  BY <1>3, SameTables DEF tables
<1>4. ASSUME NEW h \in Handlers, SetupStep(h)
      PROVE  TablesTyped' /\ RowsInv' /\ Grows
  <2>1. CASE BeginSetup(h) \/ ReadState(h) \/ CountTiers(h)
    BY <1>3, <2>1 DEF BeginSetup, ReadState, CountTiers
  <2>2. QED
    BY <1>4, <2>1, UpdateStateWrites, UpdateGitTwinWrites DEF SetupStep
<1>5. ASSUME NEW h \in Handlers, EntryStep(h)
      PROVE  TablesTyped' /\ RowsInv' /\ Grows
  <2>1. CASE BeginEntry(h) \/ ReadTier(h) \/ CountSlots(h)
    BY <1>3, <2>1 DEF BeginEntry, ReadTier, CountSlots
  <2>2. QED
    BY <1>5, <2>1, UpsertIdentityWrites, InsertMemberWrites,
       InsertRequestWrites DEF EntryStep
<1>6. ASSUME NEW h \in Handlers, CallStep(h)
      PROVE  TablesTyped' /\ RowsInv' /\ Grows
  <2>1. CASE \/ BeginDecision(h) \/ BeginLeave(h) \/ CheckPending(h)
             \/ ReadRequest(h)
    BY <1>3, <2>1 DEF BeginDecision, BeginLeave, CheckPending, ReadRequest
  <2>2. QED
    BY <1>6, <2>1, WriteAuditLogWrites, UpdateMemberWrites,
       ApproveAccessWrites, RejectAccessWrites DEF CallStep
<1>7. ASSUME NEW h \in Handlers, StatementFails(h) PROVE UNCHANGED tables
  BY <1>7 DEF StatementFails
<1>8. CASE Crash
  BY <1>3, <1>8 DEF Crash
<1>9. QED
  BY <1>1, <1>2, <1>3, <1>4, <1>5, <1>6, <1>7, <1>8 DEF Next

LEMMA RequestStep ==
  ASSUME BaseInv, NEW h \in Handlers,
         SetupStep(h) \/ EntryStep(h) \/ CallStep(h) \/ StatementFails(h)
  PROVE  Moves(h) /\ EntryOK(h)' /\ DecisionOK(h)'
<1>1. CASE Return(h)
  BY <1>1, ReturnMoves DEF BaseInv
<1>2. CASE SetupStep(h)
  BY <1>1, <1>2, BeginSetupMoves, ReadStateMoves, CountTiersMoves
     DEF SetupStep, UpdateState, UpdateGitTwin
<1>3. CASE EntryStep(h)
  BY <1>1, <1>3, BeginEntryMoves, ReadTierMoves, CountSlotsMoves,
     UpsertIdentityMoves DEF EntryStep, InsertMember, InsertRequest
<1>4. CASE CallStep(h)
  BY <1>1, <1>4, BeginDecisionMoves, BeginLeaveMoves, CheckPendingMoves,
     WriteAuditLogMoves, ReadRequestMoves
     DEF CallStep, UpdateMember, ApproveAccess, RejectAccess
<1>5. QED
  BY <1>1, <1>2, <1>3, <1>4 DEF StatementFails

LEMMA BaseInit == Init => BaseInv
<1> SUFFICES ASSUME Init PROVE BaseInv
  OBVIOUS
<1>1. /\ members = <<>> /\ accessRequests = <<>> /\ auditLog = <<>>
      /\ ledger = <<>> /\ covState = "none" /\ gitTwin = FALSE
      /\ identities = {} /\ DOMAIN tiers = {}
      /\ late = 0 /\ setups = 0 /\ entries = 0 /\ calls = 0 /\ faults = 0
      /\ pc = [h \in Handlers |-> "idle"] /\ req = [h \in Handlers |-> NoReq]
  BY DEF Init, Fresh
<1>2. /\ members \in Seq(Member) /\ DOMAIN members = {}
      /\ accessRequests \in Seq(AccessRequest) /\ DOMAIN accessRequests = {}
      /\ auditLog \in Seq(LogRow) /\ ledger \in Seq(FeeRow)
  BY <1>1
<1>3. pc \in [Handlers -> Labels] /\ req \in [Handlers -> Locals]
  BY <1>1, NoReqType DEF Labels
<1>4. MembershipTypeOK
  <2>1. DOMAIN tiers \subseteq Tiers /\ \A t \in DOMAIN tiers : tiers[t] \in Tier
    BY <1>1
  <2>2. gitTwin \in BOOLEAN /\ identities \subseteq Platforms
    BY <1>1
  <2>3. {late, setups, entries, calls, faults} \subseteq Nat
    BY <1>1
  <2>4. covState \in Phases \cup {"none"}
    BY <1>1
  <2>5. QED
    BY <1>2, <1>3, <2>1, <2>2, <2>3, <2>4 DEF MembershipTypeOK
<1>5. RowsInv
  BY <1>2 DEF RowsInv, ActiveIsApproved, TiersKnown, CovenantFirst, OwnerActive
<1>6. HandlersOK
  BY <1>1 DEF HandlersOK, EntryOK, DecisionOK, EntryLabels, DecisionLabels
<1>7. QED
  BY <1>4, <1>5, <1>6 DEF BaseInv

LEMMA BaseStep == BaseInv /\ [Next]_vars => BaseInv'
<1> SUFFICES ASSUME BaseInv, [Next]_vars PROVE BaseInv'
  OBVIOUS
<1>1. CASE UNCHANGED vars
  <2>1. TablesTyped' /\ RowsInv'
    BY <1>1, SameTables DEF vars, tables
  <2>2. MembershipTypeOK'
    BY <1>1, <2>1 DEF vars, tables, bounds, BaseInv, MembershipTypeOK, TablesTyped
  <2>3. HandlersOK'
    BY <1>1, OthersStay, SameTablesGrow DEF vars, BaseInv, HandlersOK
  <2>4. QED
    BY <2>1, <2>2, <2>3 DEF BaseInv
<1>2. CASE Next
  <2>1. TablesTyped' /\ RowsInv' /\ Grows
    BY <1>2, TablesStep
  <2>2. CountersTyped'
    BY <1>2, CountersStep DEF BaseInv, MembershipTypeOK, CountersTyped
  <2>3. /\ HandlersOK'
        /\ pc' \in [Handlers -> Labels] /\ req' \in [Handlers -> Locals]
    <3>1. CASE UNCHANGED <<pc, req>>
      BY <2>1, <3>1, OthersStay DEF BaseInv, HandlersOK, MembershipTypeOK
    <3>2. CASE Crash
      BY <3>2, NoReqType, IdleIsOK DEF Crash, HandlersOK, Labels
    <3>3. ASSUME NEW h \in Handlers,
                 SetupStep(h) \/ EntryStep(h) \/ CallStep(h) \/ StatementFails(h)
          PROVE  /\ HandlersOK'
                 /\ pc' \in [Handlers -> Labels]
                 /\ req' \in [Handlers -> Locals]
      <4>1. Moves(h) /\ EntryOK(h)' /\ DecisionOK(h)'
        BY <3>3, RequestStep
      <4>2. HandlersOK'
        BY <2>1, <4>1, AllOK DEF BaseInv
      <4>3. QED
        BY <4>1, <4>2 DEF Moves
    <3>4. QED
      BY <1>2, <3>1, <3>2, <3>3 DEF Next, Create, AddTier
  <2>4. MembershipTypeOK'
    BY <2>1, <2>2, <2>3 DEF MembershipTypeOK, TablesTyped, CountersTyped
  <2>5. QED
    BY <2>1, <2>3, <2>4 DEF BaseInv
<1>3. QED
  BY <1>1, <1>2

LEMMA BaseAlways == Spec => []BaseInv
BY BaseInit, BaseStep, PTL DEF Spec

\* Type correctness.
THEOREM MembershipTyped == Spec => []MembershipTypeOK
<1>1. BaseInv => MembershipTypeOK
  BY DEF BaseInv
<1>2. QED
  BY <1>1, BaseAlways, PTL
-----------------------------------------------------------------------------
(***************************************************************************)
(* Membership's safety properties for every number of handlers, people,    *)
(* tiers, calls and faults: decisions are logged and stand, a member of an *)
(* access request pays once, and late writes and overbooked tiers are      *)
(* bounded by the requests that can be in flight.                          *)
(***************************************************************************)

\* The members a step leaves alone, adds, or decides on.
LEMMA MembersStep ==
  ASSUME BaseInv, Next
  PROVE  \/ members' = members
         \/ /\ DOMAIN members' = DOMAIN members \cup {Len(members) + 1}
            /\ Len(members) + 1 \notin DOMAIN members
            /\ \A a \in DOMAIN members : members'[a] = members[a]
            /\ members'[Len(members) + 1].status \in {"pending", "active"}
         \/ \E h \in Handlers : UpdateMember(h)
<1> DEFINE n == Len(members) + 1
           Grown == /\ DOMAIN members' = DOMAIN members \cup {n}
                    /\ n \notin DOMAIN members
                    /\ \A a \in DOMAIN members : members'[a] = members[a]
                    /\ members'[n].status \in {"pending", "active"}
<1>1. ASSUME NEW m, members' = Append(members, m), m \in Member,
             m.status \in {"pending", "active"}
      PROVE  Grown
  <2>1. /\ members \in Seq(Member) /\ Len(members) \in Nat
        /\ DOMAIN members = 1..Len(members)
    BY Tables DEF BaseInv, MembershipTypeOK
  <2>2. n \notin DOMAIN members
    BY <2>1
  <2>3. /\ DOMAIN members' = DOMAIN members \cup {n}
        /\ \A a \in DOMAIN members : members'[a] = members[a]
        /\ members'[n] = m
    BY <1>1, <2>1, Appended
  <2>4. QED
    BY <1>1, <2>2, <2>3
<1> HIDE DEF Grown
<1>2. CASE Create
  <2> DEFINE m == [platform |-> Founder, tier |-> SomeTier, owner |-> TRUE,
                   request |-> 0, status |-> "active"]
  <2>1. SomeTier \in Tiers /\ Founder \in Platforms
    BY MembershipAssumption DEF SomeTier
  <2>2. m \in Member /\ m.status \in {"pending", "active"}
    BY <2>1 DEF Member
  <2>3. members' = Append(members, m)
    BY <1>2 DEF Create
  <2> HIDE DEF m
  <2>4. QED
    BY <1>1, <2>2, <2>3 DEF Grown
<1>3. ASSUME NEW h \in Handlers, InsertMember(h), members' # members
      PROVE  Grown
  <2> DEFINE m == [platform |-> req[h].platform, tier |-> req[h].tier,
                   owner |-> FALSE, request |-> 0, status |-> "pending"]
  <2>1. req[h].platform \in Platforms /\ req[h].tier \in Tiers
    BY Tables DEF BaseInv, Locals
  <2>2. m \in Member /\ m.status \in {"pending", "active"}
    BY <2>1 DEF Member
  <2>3. members' = Append(members, m)
    BY <1>3 DEF InsertMember
  <2> HIDE DEF m
  <2>4. QED
    BY <1>1, <2>2, <2>3
<1>4. ASSUME NEW h \in Handlers, ApproveAccess(h), members' # members
      PROVE  Grown
  <2>1. ~IsMember(accessRequests[req[h].ref].platform)
    BY <1>4 DEF ApproveAccess
  <2>2. QED
    BY <1>4, <2>1, Admitted DEF Grown
<1>5. ASSUME NEW h \in Handlers, SetupStep(h) \/ StatementFails(h)
      PROVE  members' = members
  BY <1>5 DEF SetupStep, BeginSetup, ReadState, CountTiers, UpdateState,
              UpdateGitTwin, StatementFails, tables, people
<1>6. ASSUME NEW h \in Handlers, EntryStep(h), ~InsertMember(h)
      PROVE  members' = members
  BY <1>6 DEF EntryStep, BeginEntry, ReadTier, CountSlots, UpsertIdentity,
              InsertRequest, tables, people
<1>7. ASSUME NEW h \in Handlers, CallStep(h), ~ApproveAccess(h), ~UpdateMember(h)
      PROVE  members' = members
  BY <1>7 DEF CallStep, BeginDecision, BeginLeave, CheckPending, WriteAuditLog,
              ReadRequest, RejectAccess, tables, people
<1>8. CASE AddTier \/ Crash
  BY <1>8 DEF AddTier, Crash, tables, people
<1>9. QED
  BY <1>2, <1>3, <1>4, <1>5, <1>6, <1>7, <1>8 DEF Next, Grown
-----------------------------------------------------------------------------
(* Decisions are logged.                                                   *)

\* Why a member is out: StatusIsDecided, but for those BaseInv speaks of.
OutIsDecided ==
  \A a \in DOMAIN members :
    /\ members[a].status = "rejected" => Logged("reject_agent", a) # {}
    /\ members[a].status = "left" =>
         Approved(a) /\ Logged("leave_covenant", a) # {}

LEMMA OutIsDecidedStep ==
  ASSUME BaseInv, OutIsDecided, [Next]_vars
  PROVE  OutIsDecided'
<1>1. Grows
  BY TablesStep, SameTablesGrow DEF vars
<1>2. \A a \in DOMAIN members :
        /\ Approved(a) => Approved(a)'
        /\ Logged("reject_agent", a) # {} => Logged("reject_agent", a)' # {}
        /\ Logged("leave_covenant", a) # {} => Logged("leave_covenant", a)' # {}
  BY <1>1, ApprovedStays, LoggedStays
<1>3. CASE members' = members
  BY <1>2, <1>3 DEF OutIsDecided
<1>4. CASE /\ DOMAIN members' = DOMAIN members \cup {Len(members) + 1}
           /\ \A a \in DOMAIN members : members'[a] = members[a]
           /\ members'[Len(members) + 1].status \in {"pending", "active"}
  BY <1>2, <1>4 DEF OutIsDecided
<1>5. ASSUME NEW h \in Handlers, UpdateMember(h) PROVE OutIsDecided'
  <2> DEFINE i == req[h].ref
  <2>1. /\ DOMAIN members' = DOMAIN members /\ i \in DOMAIN members
        /\ \A a \in DOMAIN members : a # i => members'[a] = members[a]
        /\ members'[i].status = "rejected" => Logged("reject_agent", i) # {}
        /\ members'[i].status = "left" =>
             Approved(i) /\ Logged("leave_covenant", i) # {}
    BY <1>5, MemberDecided
  <2> HIDE DEF i
  <2>2. QED
    BY <1>2, <2>1 DEF OutIsDecided
<1>6. CASE UNCHANGED vars
  BY <1>3, <1>6 DEF vars, tables, people
<1>7. QED
  BY <1>3, <1>4, <1>5, <1>6, MembersStep

LEMMA OutIsDecidedAlways == Spec => []OutIsDecided
<1>1. Init => OutIsDecided
  BY DEF Init, Fresh, OutIsDecided
<1>2. BaseInv /\ OutIsDecided /\ [Next]_vars => OutIsDecided'
  BY OutIsDecidedStep
<1>3. QED
  BY <1>1, <1>2, BaseAlways, PTL DEF Spec

\* Whatever the calls on one member race, each status a member has is backed
\* by a decision in the log that nobody can take back.
THEOREM StatusAlwaysDecided == Spec => []StatusIsDecided
<1>1. ASSUME BaseInv, NEW a \in DOMAIN members, Approved(a)
      PROVE  Approvals(a) > 0
  <2>1. DOMAIN auditLog = 1..Len(auditLog) /\ Len(auditLog) \in Nat
    BY <1>1, Tables DEF BaseInv
  <2>2. IsFiniteSet(DOMAIN auditLog)
    BY <2>1, FS_Interval
  <2>3. Logged("approve_agent", a) \in SUBSET DOMAIN auditLog
    BY DEF Logged
  <2>4. IsFiniteSet(Logged("approve_agent", a))
    BY <2>2, <2>3, FS_Subset
  <2>5. /\ Cardinality(Logged("approve_agent", a)) \in Nat
        /\ Cardinality(Logged("approve_agent", a)) = 0 =>
             Logged("approve_agent", a) = {}
    BY <2>4, FS_CardinalityType, FS_EmptySet
  <2>6. QED
    BY <1>1, <2>5 DEF Approvals, Approved
<1>2. BaseInv /\ OutIsDecided => StatusIsDecided
  <2> SUFFICES ASSUME BaseInv, OutIsDecided, NEW a \in DOMAIN members
               PROVE  LET m == members[a] IN
                      /\ m.owner => m.status = "active"
                      /\ ~m.owner /\ m.status \in {"active", "left"} =>
                           Approvals(a) > 0
                      /\ m.status = "rejected" => Logged("reject_agent", a) # {}
                      /\ m.status = "left" => Logged("leave_covenant", a) # {}
    BY DEF StatusIsDecided
  <2>1. ~members[a].owner /\ members[a].status \in {"active", "left"} => Approved(a)
    BY DEF BaseInv, RowsInv, ActiveIsApproved, OutIsDecided
  <2>2. QED
    BY <1>1, <2>1 DEF BaseInv, RowsInv, OwnerActive, OutIsDecided
<1>3. QED
  BY <1>2, BaseAlways, OutIsDecidedAlways, PTL
-----------------------------------------------------------------------------
(* Writes on a state that is gone.                                         *)

\* A request that relies on a state it read and that is no longer so: the
\* writes still to come.
IsStale(h) ==
  /\ pc[h] \in {"tier", "count", "identity", "insert", "update"}
  /\ Kind(h) # "transition"
  /\ ~Admits(Kind(h), covState)
StaleRequests == {h \in Handlers : IsStale(h)}

\* The late writes so far and those to come are fewer than the handlers: the
\* one that made the transition is none of them.
LateInv == late + Cardinality(StaleRequests) <= Cardinality(Handlers) - 1

LEMMA StaleFinite ==
  /\ IsFiniteSet(StaleRequests) /\ Cardinality(StaleRequests) \in Nat
  /\ Cardinality(Handlers) \in Nat /\ Cardinality(Handlers) > 0
<1>1. IsFiniteSet(Handlers) /\ StaleRequests \in SUBSET Handlers
  BY MembershipAssumption DEF StaleRequests
<1>2. QED
  BY <1>1, MembershipAssumption, FS_Subset, FS_CardinalityType, FS_EmptySet

\* A step after which no other request is stale keeps the sum.
LEMMA NoMoreStale ==
  ASSUME LateInv, StaleRequests' \in SUBSET StaleRequests, late' = late, late \in Nat
  PROVE  LateInv'
<1>1. Cardinality(StaleRequests') <= Cardinality(StaleRequests)
      /\ IsFiniteSet(StaleRequests')
  BY StaleFinite, FS_Subset
<1>2. Cardinality(StaleRequests') \in Nat
  BY <1>1, FS_CardinalityType
<1>3. QED
  BY <1>1, <1>2, StaleFinite DEF LateInv

\* A write that is counted is that of a request that was stale, and is done.
LEMMA LateWriteDone ==
  ASSUME LateInv, late \in Nat, NEW h \in Handlers,
         StaleRequests' \in SUBSET (StaleRequests \ {h}),
         late' = late \/ (late' = late + 1 /\ IsStale(h))
  PROVE  LateInv'
<1>1. CASE late' = late
  BY <1>1, NoMoreStale
<1>2. CASE late' = late + 1 /\ IsStale(h)
  <2>1. h \in StaleRequests
    BY <1>2 DEF StaleRequests
  <2>2. /\ IsFiniteSet(StaleRequests \ {h})
        /\ Cardinality(StaleRequests \ {h}) = Cardinality(StaleRequests) - 1
    BY <2>1, StaleFinite, FS_RemoveElement
  <2>3. /\ Cardinality(StaleRequests') <= Cardinality(StaleRequests \ {h})
        /\ IsFiniteSet(StaleRequests')
    BY <2>2, FS_Subset
  <2>4. Cardinality(StaleRequests') \in Nat
    BY <2>3, FS_CardinalityType
  <2>5. QED
    BY <1>2, <2>2, <2>3, <2>4, StaleFinite DEF LateInv
<1>3. QED
  BY <1>1, <1>2

\* Enough to look at the request that moves.
LEMMA StaleByMove ==
  ASSUME NEW h \in Handlers, Moves(h), covState' = covState,
         IsStale(h)' => IsStale(h)
  PROVE  /\ StaleRequests' \in SUBSET StaleRequests
         /\ pc'[h] = "idle" => StaleRequests' \in SUBSET (StaleRequests \ {h})
<1>1. \A g \in Handlers : g # h => (IsStale(g)' <=> IsStale(g))
  BY DEF Moves, IsStale, Kind
<1>2. pc'[h] = "idle" => ~IsStale(h)'
  BY DEF IsStale
<1>3. QED
  BY <1>1, <1>2 DEF StaleRequests

LEMMA LateStep ==
  ASSUME BaseInv, LateInv, [Next]_vars
  PROVE  LateInv'
<1>0. late \in Nat
  BY DEF BaseInv, MembershipTypeOK
<1>1. ASSUME NEW h \in Handlers, UpdateState(h) PROVE LateInv'
  <2>1. Moves(h) /\ pc'[h] = "idle" /\ late' = 0
    BY <1>1, ReturnMoves DEF UpdateState, BaseInv
  <2>2. StaleRequests' \in SUBSET (Handlers \ {h})
    BY <2>1 DEF StaleRequests, IsStale
  <2>3. /\ IsFiniteSet(Handlers \ {h})
        /\ Cardinality(Handlers \ {h}) = Cardinality(Handlers) - 1
    BY MembershipAssumption, FS_RemoveElement
  <2>4. Cardinality(StaleRequests') <= Cardinality(Handlers) - 1
        /\ IsFiniteSet(StaleRequests')
    BY <2>2, <2>3, FS_Subset
  <2>5. Cardinality(StaleRequests') \in Nat
    BY <2>4, FS_CardinalityType
  <2>6. QED
    BY <2>1, <2>4, <2>5 DEF LateInv
<1>2. ASSUME NEW h \in Handlers,
             UpdateGitTwin(h) \/ InsertMember(h) \/ InsertRequest(h)
      PROVE  LateInv'
  <2>1. covState' = covState /\ Return(h)
    BY <1>2 DEF UpdateGitTwin, InsertMember, InsertRequest
  <2>2. Moves(h) /\ pc'[h] = "idle"
    BY <2>1, ReturnMoves DEF BaseInv
  <2>3. StaleRequests' \in SUBSET (StaleRequests \ {h})
    BY <2>1, <2>2, StaleByMove DEF IsStale
  <2>4. late' = late \/ (late' = late + 1 /\ IsStale(h))
    <3>1. /\ pc[h] \in {"insert", "update"}
          /\ Kind(h) \in {"set_git_twin", "join", "apply"}
      BY <1>2 DEF UpdateGitTwin, InsertMember, InsertRequest, At
    <3>2. late' = late \/ CountLate(h)
      BY <1>2 DEF UpdateGitTwin, InsertMember, InsertRequest
    <3>3. QED
      BY <3>1, <3>2 DEF CountLate, IsStale
  <2>5. QED
    BY <1>0, <2>3, <2>4, LateWriteDone
<1>3. ASSUME NEW h \in Handlers, Moves(h), late' = late, covState' = covState,
             IsStale(h)' => IsStale(h)
      PROVE  LateInv'
  BY <1>0, <1>3, StaleByMove, NoMoreStale
<1>4. ASSUME NEW h \in Handlers, BeginSetup(h) \/ ReadState(h) \/ CountTiers(h)
      PROVE  LateInv'
  <2>1. late' = late /\ covState' = covState /\ Moves(h)
    BY <1>4, BeginSetupMoves, ReadStateMoves, CountTiersMoves
       DEF BeginSetup, ReadState, CountTiers, tables
  <2>2. ~IsStale(h)'
    <3>1. CASE pc'[h] \in {"idle", "state"}
      BY <3>1 DEF IsStale
    <3>2. CASE ReadState(h) /\ pc'[h] \notin {"idle", "state"}
      <4>1. ~Return(h)
        BY <3>2, ReturnMoves DEF BaseInv
      <4>2. /\ Admits(Kind(h), covState)
            /\ req' = [req EXCEPT ![h].state = covState]
        BY <3>2, <4>1 DEF ReadState
      <4>3. Kind(h)' = Kind(h)
        BY <4>2 DEF Kind, BaseInv, MembershipTypeOK, Locals
      <4>4. QED
        BY <2>1, <4>2, <4>3 DEF IsStale
    <3>3. CASE CountTiers(h) /\ pc'[h] \notin {"idle", "state"}
      <4>1. ~Return(h)
        BY <3>3, ReturnMoves DEF BaseInv
      <4>2. req' = req /\ Kind(h) = "transition"
        BY <3>3, <4>1 DEF CountTiers, Test
      <4>3. QED
        BY <4>2 DEF IsStale, Kind
    <3>4. CASE BeginSetup(h)
      BY <3>4, <3>1 DEF BeginSetup, Goto, BaseInv, MembershipTypeOK
    <3>5. QED
      BY <1>4, <3>1, <3>2, <3>3, <3>4
  <2>3. QED
    BY <1>3, <2>1, <2>2
<1>5. ASSUME NEW h \in Handlers,
             \/ BeginEntry(h) \/ ReadTier(h) \/ CountSlots(h)
             \/ UpsertIdentity(h)
      PROVE  LateInv'
  <2>1. late' = late /\ covState' = covState /\ Moves(h)
    BY <1>5, BeginEntryMoves, ReadTierMoves, CountSlotsMoves,
       UpsertIdentityMoves
       DEF BeginEntry, ReadTier, CountSlots, UpsertIdentity, tables
  <2>2. IsStale(h)' => IsStale(h)
    <3>1. CASE BeginEntry(h) \/ Return(h)
      <4>1. pc'[h] \in {"idle", "state"}
        BY <3>1 DEF BeginEntry, Return, Goto, BaseInv, MembershipTypeOK
      <4>2. QED
        BY <4>1 DEF IsStale
    <3>2. CASE ~(BeginEntry(h) \/ Return(h))
      <4>1. /\ req' = req
            /\ pc[h] \in {"tier", "count", "identity"}
        BY <1>5, <3>2 DEF ReadTier, CountSlots, UpsertIdentity, Test, At
      <4>2. QED
        BY <2>1, <4>1 DEF IsStale, Kind
    <3>3. QED
      BY <3>1, <3>2
  <2>3. QED
    BY <1>3, <2>1, <2>2
<1>6. ASSUME NEW h \in Handlers, CallStep(h) \/ StatementFails(h)
      PROVE  LateInv'
  <2>1. Moves(h)
    BY <1>6, RequestStep
  <2>2. late' = late /\ covState' = covState
    BY <1>6 DEF CallStep, BeginDecision, BeginLeave, CheckPending, WriteAuditLog,
                UpdateMember, ReadRequest, ApproveAccess, RejectAccess,
                StatementFails, tables
  <2>3. pc'[h] \in {"idle", "check", "log", "apply", "resolve"}
    BY <1>6 DEF CallStep, BeginDecision, BeginLeave, CheckPending, WriteAuditLog,
                UpdateMember, ReadRequest, ApproveAccess, RejectAccess,
                StatementFails, Test, Return, Goto, BaseInv, MembershipTypeOK
  <2>4. QED
    BY <1>3, <2>1, <2>2, <2>3 DEF IsStale
<1>7. CASE Create
  <2>1. \A h \in Handlers : pc[h] = "idle"
    BY <1>7 DEF Create, BaseInv, HandlersOK, EntryOK
  <2>2. StaleRequests' = {}
    BY <1>7, <2>1 DEF Create, StaleRequests, IsStale
  <2>3. QED
    BY <1>0, <1>7, <2>2, NoMoreStale DEF Create
<1>8. CASE Crash
  <2>1. StaleRequests' = {} /\ late' = late
    BY <1>8 DEF Crash, StaleRequests, IsStale, tables
  <2>2. QED
    BY <1>0, <2>1, NoMoreStale
<1>9. CASE AddTier \/ UNCHANGED vars
  <2>1. UNCHANGED <<covState, late, pc, req>>
    BY <1>9 DEF AddTier, vars, tables
  <2>2. StaleRequests' = StaleRequests
    BY <2>1 DEF StaleRequests, IsStale, Kind
  <2>3. QED
    BY <1>0, <2>1, <2>2, NoMoreStale
<1>10. QED
  BY <1>1, <1>2, <1>4, <1>5, <1>6, <1>7, <1>8, <1>9
     DEF Next, SetupStep, EntryStep

LEMMA LateInit == Init => LateInv
<1> SUFFICES ASSUME Init PROVE LateInv
  OBVIOUS
<1>1. StaleRequests = {} /\ late = 0
  BY DEF Init, Fresh, StaleRequests, IsStale
<1>2. QED
  BY <1>1, StaleFinite, FS_EmptySet DEF LateInv

\* However many requests race a transition, fewer writes than there are
\* handlers rely on the state it left.
THEOREM StaleWritesAlwaysBounded == Spec => []StaleWritesBounded
<1>1. BaseInv /\ LateInv /\ [Next]_vars => LateInv'
  BY LateStep
<1>2. BaseInv /\ LateInv => StaleWritesBounded
  BY StaleFinite DEF BaseInv, MembershipTypeOK, LateInv, StaleWritesBounded
<1>3. QED
  BY <1>1, <1>2, LateInit, BaseAlways, PTL DEF Spec
-----------------------------------------------------------------------------
(* Overbooked tiers.                                                       *)

\* Joins of tier t past the count of its slots.
Counted(t) ==
  {h \in Handlers : /\ Kind(h) = "join" /\ req[h].tier = t
                    /\ pc[h] \in {"identity", "insert"}}

\* The members a tier has by joining and those it is about to get.
SlotsOf(t) ==
  LET s == tiers[t].slots IN
  s # Unlimited =>
    /\ s = 0 => Joined(t) = {} /\ Counted(t) = {}
    /\ Cardinality(Joined(t)) + Cardinality(Counted(t))
         <= s + Cardinality(Handlers) - 1 + faults

SlotsInv == \A t \in DOMAIN tiers : SlotsOf(t)

LEMMA JoinedFinite ==
  ASSUME BaseInv, NEW t
  PROVE  /\ IsFiniteSet(Joined(t)) /\ Cardinality(Joined(t)) \in Nat
         /\ IsFiniteSet(Occupants(t))
         /\ Cardinality(Joined(t)) <= Cardinality(Occupants(t))
         /\ IsFiniteSet(Counted(t)) /\ Cardinality(Counted(t)) \in Nat
         /\ Cardinality(Counted(t)) <= Cardinality(Handlers)
         /\ Cardinality(Handlers) \in Nat /\ Cardinality(Handlers) > 0
         /\ Cardinality(Occupants(t)) \in Nat
<1>1. IsFiniteSet(DOMAIN members)
  <2>1. DOMAIN members = 1..Len(members) /\ Len(members) \in Int /\ 1 \in Int
    BY Tables DEF BaseInv
  <2>2. QED
    BY <2>1, FS_Interval
<1>2. Occupants(t) \in SUBSET DOMAIN members
  BY DEF Occupants
<1>3. Joined(t) \in SUBSET Occupants(t)
  BY DEF Joined
<1>4. IsFiniteSet(Occupants(t))
  BY <1>1, <1>2, FS_Subset
<1>5. /\ IsFiniteSet(Joined(t))
      /\ Cardinality(Joined(t)) <= Cardinality(Occupants(t))
  BY <1>3, <1>4, FS_Subset
<1>6. Counted(t) \in SUBSET Handlers
  BY DEF Counted
<1>7. /\ IsFiniteSet(Counted(t))
      /\ Cardinality(Counted(t)) <= Cardinality(Handlers)
  BY <1>6, MembershipAssumption, FS_Subset
<1>8. /\ Cardinality(Joined(t)) \in Nat /\ Cardinality(Counted(t)) \in Nat
      /\ Cardinality(Occupants(t)) \in Nat
  BY <1>4, <1>5, <1>7, FS_CardinalityType
<1>9. Cardinality(Handlers) \in Nat /\ Cardinality(Handlers) > 0
  BY MembershipAssumption, FS_CardinalityType, FS_EmptySet
<1>10. QED
  BY <1>4, <1>5, <1>7, <1>8, <1>9

\* Slots are numbers.
LEMMA SlotsType ==
  ASSUME BaseInv, NEW t \in DOMAIN tiers, tiers[t].slots # Unlimited
  PROVE  tiers[t].slots \in Nat
BY MembershipAssumption DEF BaseInv, MembershipTypeOK, Tier

\* A step that adds to neither set.
LEMMA SlotsKept ==
  ASSUME BaseInv, BaseInv', NEW t \in DOMAIN tiers, SlotsOf(t),
         tiers'[t] = tiers[t],
         Joined(t)' \in SUBSET Joined(t),
         tiers[t].slots # Unlimited => Counted(t)' \in SUBSET Counted(t),
         faults' >= faults
  PROVE  SlotsOf(t)'
<1> SUFFICES ASSUME tiers[t].slots # Unlimited
             PROVE  LET s == tiers[t].slots IN
                    /\ s = 0 => Joined(t)' = {} /\ Counted(t)' = {}
                    /\ Cardinality(Joined(t)') + Cardinality(Counted(t)')
                         <= s + Cardinality(Handlers) - 1 + faults'
  BY DEF SlotsOf
<1>1. /\ Cardinality(Joined(t)') <= Cardinality(Joined(t))
      /\ Cardinality(Counted(t)') <= Cardinality(Counted(t))
  BY JoinedFinite, FS_Subset
<1>2. /\ Cardinality(Joined(t)') \in Nat /\ Cardinality(Counted(t)') \in Nat
  <2>1. IsFiniteSet(Joined(t)') /\ IsFiniteSet(Counted(t)')
    BY JoinedFinite, FS_Subset
  <2>2. QED
    BY <2>1, FS_CardinalityType
<1>3. faults \in Nat /\ faults' \in Nat
  BY DEF BaseInv, MembershipTypeOK
<1>4. QED
  BY <1>1, <1>2, <1>3, JoinedFinite, SlotsType DEF SlotsOf

\* The members that joined a tier change by an insertion only.
LEMMA JoinedSame ==
  ASSUME NEW t,
         DOMAIN members' = DOMAIN members,
         \A a \in DOMAIN members : /\ members'[a].owner = members[a].owner
                                  /\ members'[a].tier = members[a].tier
                                  /\ members'[a].request = members[a].request
  PROVE  Joined(t)' = Joined(t)
BY DEF Joined, Occupants

LEMMA JoinedSameNew ==
  ASSUME NEW t, NEW n,
         DOMAIN members' = DOMAIN members \cup {n}, n \notin DOMAIN members,
         \A a \in DOMAIN members : members'[a] = members[a],
         members'[n].owner \/ members'[n].request # 0 \/ members'[n].tier # t
  PROVE  Joined(t)' = Joined(t)
BY DEF Joined, Occupants

LEMMA JoinedStep ==
  ASSUME BaseInv, Next, NEW t
  PROVE  \/ Joined(t)' = Joined(t)
         \/ \E h \in Handlers :
              /\ InsertMember(h) /\ h \in Counted(t)
              /\ \E n : Joined(t)' = Joined(t) \cup {n}
<1>1. CASE members' = members
  BY <1>1 DEF Joined, Occupants
<1>2. ASSUME NEW h \in Handlers, UpdateMember(h)
      PROVE  Joined(t)' = Joined(t)
  BY <1>2, MemberDecided, JoinedSame
<1> DEFINE n == Len(members) + 1
<1>3. ASSUME NEW m \in Member, members' = Append(members, m)
      PROVE  /\ DOMAIN members' = DOMAIN members \cup {n} /\ n \notin DOMAIN members
             /\ \A a \in DOMAIN members : members'[a] = members[a]
             /\ members'[n] = m
  <2>1. /\ members \in Seq(Member) /\ Len(members) \in Nat
        /\ DOMAIN members = 1..Len(members)
    BY Tables DEF BaseInv, MembershipTypeOK
  <2>2. n \notin DOMAIN members
    BY <2>1
  <2>3. QED
    BY <1>3, <2>1, <2>2, Appended
<1>4. CASE Create
  <2> DEFINE m == [platform |-> Founder, tier |-> SomeTier, owner |-> TRUE,
                   request |-> 0, status |-> "active"]
  <2>1. SomeTier \in Tiers /\ Founder \in Platforms
    BY MembershipAssumption DEF SomeTier
  <2>2. m \in Member /\ m.owner
    BY <2>1 DEF Member
  <2>3. members' = Append(members, m)
    BY <1>4 DEF Create
  <2> HIDE DEF m, n
  <2>4. QED
    BY <1>3, <2>2, <2>3, JoinedSameNew
<1>5. ASSUME NEW h \in Handlers, ApproveAccess(h), members' # members
      PROVE  Joined(t)' = Joined(t)
  <2>1. ~IsMember(accessRequests[req[h].ref].platform)
    BY <1>5 DEF ApproveAccess
  <2>2. pc[h] = "resolve"
    BY <1>5 DEF ApproveAccess, At
  <2>3. /\ DOMAIN members' = DOMAIN members \cup {n} /\ n \notin DOMAIN members
        /\ \A a \in DOMAIN members : members'[a] = members[a]
        /\ members'[n].request = req[h].ref
    BY <1>5, <2>1, Admitted
  <2>4. req[h].ref # 0
    BY <2>2, Resolving
  <2> HIDE DEF n
  <2>5. QED
    BY <2>3, <2>4, JoinedSameNew
<1>6. ASSUME NEW h \in Handlers, InsertMember(h), members' # members
      PROVE  \/ Joined(t)' = Joined(t)
             \/ h \in Counted(t) /\ Joined(t)' = Joined(t) \cup {n}
  <2> DEFINE m == [platform |-> req[h].platform, tier |-> req[h].tier,
                   owner |-> FALSE, request |-> 0, status |-> "pending"]
  <2>1. req[h].platform \in Platforms /\ req[h].tier \in Tiers
    BY Tables DEF BaseInv, Locals
  <2>2. m \in Member /\ ~m.owner /\ m.request = 0 /\ m.tier = req[h].tier
    BY <2>1 DEF Member
  <2>3. members' = Append(members, m)
    BY <1>6 DEF InsertMember
  <2> HIDE DEF m, n
  <2>4. /\ DOMAIN members' = DOMAIN members \cup {n} /\ n \notin DOMAIN members
        /\ \A a \in DOMAIN members : members'[a] = members[a]
        /\ members'[n] = m
    BY <1>3, <2>2, <2>3
  <2>5. CASE req[h].tier # t
    BY <2>2, <2>4, <2>5, JoinedSameNew
  <2>6. CASE req[h].tier = t
    <3>1. h \in Counted(t)
      BY <1>6, <2>6 DEF InsertMember, Counted, At
    <3>2. Joined(t)' = Joined(t) \cup {n}
      BY <2>2, <2>4, <2>6 DEF Joined, Occupants
    <3>3. QED
      BY <3>1, <3>2
  <2>7. QED
    BY <2>5, <2>6
<1> HIDE DEF n
<1>7. ASSUME NEW h \in Handlers, SetupStep(h) \/ StatementFails(h)
      PROVE  members' = members
  BY <1>7 DEF SetupStep, BeginSetup, ReadState, CountTiers, UpdateState,
              UpdateGitTwin, StatementFails, tables, people
<1>8. ASSUME NEW h \in Handlers, EntryStep(h), ~InsertMember(h)
      PROVE  members' = members
  BY <1>8 DEF EntryStep, BeginEntry, ReadTier, CountSlots, UpsertIdentity,
              InsertRequest, tables, people
<1>9. ASSUME NEW h \in Handlers, CallStep(h), ~ApproveAccess(h), ~UpdateMember(h)
      PROVE  members' = members
  BY <1>9 DEF CallStep, BeginDecision, BeginLeave, CheckPending, WriteAuditLog,
              ReadRequest, RejectAccess, tables, people
<1>10. CASE AddTier \/ Crash
  BY <1>1, <1>10 DEF AddTier, Crash, tables, people
<1>11. QED
  BY <1>1, <1>2, <1>4, <1>5, <1>6, <1>7, <1>8, <1>9, <1>10 DEF Next

\* A join is counted in one way, unless its tier has no bound.
LEMMA CountedStep ==
  ASSUME BaseInv, Next, NEW t \in DOMAIN tiers, tiers[t].slots # Unlimited
  PROVE  \/ Counted(t)' \in SUBSET Counted(t)
         \/ \E h \in Handlers :
              /\ CountSlots(h) /\ req[h].tier = t /\ Goto(h, "identity")
              /\ Counted(t)' \in SUBSET (Counted(t) \cup {h})
<1> DEFINE In(h) == /\ Kind(h) = "join" /\ req[h].tier = t
                    /\ pc[h] \in {"identity", "insert"}
<1>1. ASSUME NEW h \in Handlers, Moves(h)
      PROVE  Counted(t)' \in SUBSET (Counted(t) \cup {h})
  BY <1>1 DEF Moves, Counted, Kind
<1>2. ASSUME NEW h \in Handlers, Moves(h), In(h)' => In(h)
      PROVE  Counted(t)' \in SUBSET Counted(t)
  <2>1. \A g \in Handlers : g # h => (In(g)' <=> In(g))
    BY <1>2 DEF Moves, Kind
  <2> HIDE DEF In
  <2>2. \A g \in Handlers : In(g)' => In(g)
    BY <1>2, <2>1
  <2>3. QED
    BY <2>2 DEF Counted, In
<1>3. ASSUME NEW h \in Handlers, Moves(h), pc'[h] \notin {"identity", "insert"}
      PROVE  Counted(t)' \in SUBSET Counted(t)
  BY <1>2, <1>3
<1> HIDE DEF In
<1>4. ASSUME NEW h \in Handlers, SetupStep(h) \/ CallStep(h) \/ StatementFails(h)
      PROVE  Counted(t)' \in SUBSET Counted(t)
  <2>1. Moves(h)
    BY <1>4, RequestStep
  <2>2. pc'[h] \notin {"identity", "insert"}
    <3>1. CASE Return(h)
      BY <3>1, ReturnMoves DEF BaseInv
    <3>2. CASE SetupStep(h) /\ ~Return(h)
      <4>1. \E label \in {"state", "tier", "count", "update"} : Goto(h, label)
        BY <3>2 DEF SetupStep, BeginSetup, ReadState, CountTiers, UpdateState,
                    UpdateGitTwin, Test
      <4>2. QED
        BY <4>1 DEF Goto, BaseInv, MembershipTypeOK
    <3>3. CASE CallStep(h) /\ ~Return(h)
      <4>1. \E label \in {"check", "log", "apply", "resolve"} : Goto(h, label)
        BY <3>3 DEF CallStep, BeginDecision, BeginLeave, CheckPending,
                    WriteAuditLog, UpdateMember, ReadRequest, ApproveAccess,
                    RejectAccess, Test
      <4>2. QED
        BY <4>1 DEF Goto, BaseInv, MembershipTypeOK
    <3>4. QED
      BY <1>4, <3>1, <3>2, <3>3 DEF StatementFails
  <2>3. QED
    BY <1>3, <2>1, <2>2
<1>5. ASSUME NEW h \in Handlers, EntryStep(h), ~CountSlots(h)
      PROVE  Counted(t)' \in SUBSET Counted(t)
  <2>1. Moves(h)
    BY <1>5, RequestStep
  <2>2. CASE BeginEntry(h) \/ Return(h)
    <3>1. pc'[h] \in {"idle", "state"}
      BY <2>2 DEF BeginEntry, Return, Goto, BaseInv, MembershipTypeOK
    <3>2. QED
      BY <1>3, <2>1, <3>1
  <2>3. CASE ReadTier(h) /\ ~Return(h)
    <3>1. CASE Goto(h, "count")
      BY <1>3, <2>1, <3>1 DEF Goto, BaseInv, MembershipTypeOK
    <3>2. CASE ~Goto(h, "count")
      <4>1. /\ req' = req
            /\ Kind(h) # "join" \/ tiers[req[h].tier].slots = Unlimited
        BY <2>3, <3>2 DEF ReadTier
      <4>2. ~In(h)'
        BY <4>1 DEF In, Kind
      <4>3. QED
        BY <1>2, <2>1, <4>2
    <3>3. QED
      BY <3>1, <3>2
  <2>4. CASE UpsertIdentity(h)
    <3>1. req' = req /\ pc[h] = "identity"
      BY <2>4 DEF UpsertIdentity, At
    <3>2. In(h)' => In(h)
      BY <3>1 DEF In, Kind
    <3>3. QED
      BY <1>2, <2>1, <3>2
  <2>5. QED
    BY <1>5, <2>2, <2>3, <2>4 DEF EntryStep, InsertMember, InsertRequest
<1>6. ASSUME NEW h \in Handlers, CountSlots(h)
      PROVE  \/ Counted(t)' \in SUBSET Counted(t)
             \/ /\ CountSlots(h) /\ req[h].tier = t /\ Goto(h, "identity")
                /\ Counted(t)' \in SUBSET (Counted(t) \cup {h})
  <2>1. Moves(h)
    BY <1>6, CountSlotsMoves
  <2>2. CASE Return(h)
    BY <1>3, <2>1, <2>2, ReturnMoves DEF BaseInv
  <2>3. CASE ~Return(h)
    <3>1. req' = req /\ Goto(h, "identity")
      BY <1>6, <2>3 DEF CountSlots, Test
    <3>2. CASE req[h].tier = t
      BY <1>1, <1>6, <2>1, <3>1, <3>2
    <3>3. CASE req[h].tier # t
      <4>1. ~In(h)'
        BY <3>1, <3>3 DEF In
      <4>2. QED
        BY <1>2, <2>1, <4>1
    <3>4. QED
      BY <3>2, <3>3
  <2>4. QED
    BY <2>2, <2>3
<1>7. CASE Create \/ AddTier
  BY <1>7 DEF Create, AddTier, Counted, Kind
<1>8. CASE Crash
  BY <1>8 DEF Crash, Counted
<1>9. QED
  BY <1>4, <1>5, <1>6, <1>7, <1>8 DEF Next

\* Faults are only counted up.
LEMMA FaultsGrow ==
  ASSUME faults \in Nat, Next
  PROVE  faults' >= faults
<1>1. faults' = faults \/ Fault
  <2>1. CASE Create \/ AddTier \/ Crash
    BY <2>1 DEF Create, AddTier, Crash, bounds
  <2>2. ASSUME NEW h \in Handlers, SetupStep(h) PROVE faults' = faults
    BY <2>2 DEF SetupStep, BeginSetup, ReadState, CountTiers, UpdateState,
                UpdateGitTwin, bounds
  <2>3. ASSUME NEW h \in Handlers, EntryStep(h)
        PROVE  faults' = faults \/ Fault
    BY <2>3 DEF EntryStep, BeginEntry, ReadTier, CountSlots, UpsertIdentity,
                InsertMember, InsertRequest, bounds
  <2>4. ASSUME NEW h \in Handlers, CallStep(h) PROVE faults' = faults
    BY <2>4 DEF CallStep, BeginDecision, BeginLeave, CheckPending,
                WriteAuditLog, UpdateMember, ReadRequest, ApproveAccess,
                RejectAccess, bounds
  <2>5. ASSUME NEW h \in Handlers, StatementFails(h) PROVE Fault
    BY <2>5 DEF StatementFails
  <2>6. QED
    BY <2>1, <2>2, <2>3, <2>4, <2>5 DEF Next
<1>2. QED
  BY <1>1 DEF Fault

LEMMA SlotsStep ==
  ASSUME BaseInv, BaseInv', SlotsInv, Next
  PROVE  SlotsInv'
<1> SUFFICES ASSUME NEW t \in DOMAIN tiers' PROVE SlotsOf(t)'
  BY DEF SlotsInv
<1>1. Grows /\ faults \in Nat /\ faults' \in Nat /\ faults' >= faults
  BY TablesStep, FaultsGrow DEF BaseInv, MembershipTypeOK
<1>2. CASE t \notin DOMAIN tiers
  <2>1. AddTier
    BY <1>2 DEF Next, SetupStep, EntryStep, CallStep, Create, Crash, BeginSetup,
                ReadState, CountTiers, UpdateState, UpdateGitTwin, BeginEntry,
                ReadTier, CountSlots, UpsertIdentity, InsertMember,
                InsertRequest, BeginDecision, BeginLeave, CheckPending,
                WriteAuditLog, UpdateMember, ReadRequest, ApproveAccess,
                RejectAccess, StatementFails, tables
  <2>2. UNCHANGED <<members, pc, req>>
    BY <2>1 DEF AddTier, people
  <2>3. Joined(t)' = {}
    BY <1>2, <2>2 DEF Joined, Occupants, BaseInv, RowsInv, TiersKnown
  <2>4. Counted(t)' = {}
    BY <1>2, <2>2 DEF Counted, Kind, BaseInv, HandlersOK, EntryOK
  <2>5. tiers'[t].slots # Unlimited => tiers'[t].slots \in Nat
    BY MembershipAssumption DEF BaseInv, MembershipTypeOK, Tier
  <2>6. Cardinality(Handlers) \in Nat /\ Cardinality(Handlers) > 0
    BY JoinedFinite
  <2>7. Cardinality(Joined(t)') = 0 /\ Cardinality(Counted(t)') = 0
    BY <2>3, <2>4, FS_EmptySet
  <2>8. QED
    BY <1>1, <2>3, <2>4, <2>5, <2>6, <2>7 DEF SlotsOf
<1>3. CASE t \in DOMAIN tiers
  <2>1. tiers'[t] = tiers[t] /\ SlotsOf(t)
    BY <1>1, <1>3 DEF Grows, SlotsInv
  <2> SUFFICES ASSUME tiers[t].slots # Unlimited PROVE SlotsOf(t)'
    BY <2>1 DEF SlotsOf
  <2> DEFINE s == tiers[t].slots  H == Cardinality(Handlers)
  <2>2. /\ s = 0 => Joined(t) = {} /\ Counted(t) = {}
        /\ Cardinality(Joined(t)) + Cardinality(Counted(t)) <= s + H - 1 + faults
        /\ s \in Nat /\ H \in Nat /\ H > 0
        /\ IsFiniteSet(Joined(t)) /\ IsFiniteSet(Counted(t))
        /\ Cardinality(Joined(t)) \in Nat /\ Cardinality(Counted(t)) \in Nat
    BY <1>3, <2>1, JoinedFinite, SlotsType DEF SlotsOf
  <2>a. /\ Cardinality(Counted(t)') \in Nat
        /\ Cardinality(Joined(t)') \in Nat
        /\ Cardinality(Counted(t)') <= H
    <3>1. Counted(t)' \in SUBSET Handlers
      BY DEF Counted
    <3>2. IsFiniteSet(Counted(t)') /\ Cardinality(Counted(t)') <= H
      BY <3>1, MembershipAssumption, FS_Subset
    <3>3. IsFiniteSet(Joined(t)')
      BY <2>2, JoinedStep, FS_AddElement
    <3>4. QED
      BY <3>2, <3>3, FS_CardinalityType
  <2>3. SUFFICES /\ s = 0 => Joined(t)' = {} /\ Counted(t)' = {}
                 /\ Cardinality(Joined(t)') + Cardinality(Counted(t)')
                      <= s + H - 1 + faults'
    BY <2>1 DEF SlotsOf
  <2> HIDE DEF s, H
  <2>4. ASSUME NEW h \in Handlers, InsertMember(h), h \in Counted(t),
               NEW n, Joined(t)' = Joined(t) \cup {n}
        PROVE  /\ s = 0 => Joined(t)' = {} /\ Counted(t)' = {}
               /\ Cardinality(Joined(t)') + Cardinality(Counted(t)')
                    <= s + H - 1 + faults'
    <3>1. Moves(h) /\ pc'[h] = "idle"
      BY <2>4, ReturnMoves DEF InsertMember, BaseInv
    <3>2. Counted(t)' \in SUBSET (Counted(t) \ {h})
      BY <3>1 DEF Moves, Counted, Kind
    <3>3. /\ IsFiniteSet(Counted(t) \ {h})
          /\ Cardinality(Counted(t) \ {h}) = Cardinality(Counted(t)) - 1
      BY <2>2, <2>4, FS_RemoveElement
    <3>4. Cardinality(Counted(t)') <= Cardinality(Counted(t)) - 1
      BY <3>2, <3>3, FS_Subset
    <3>5. Cardinality(Joined(t)') <= Cardinality(Joined(t)) + 1
      <4>1. Cardinality(Joined(t) \cup {n}) =
              IF n \in Joined(t) THEN Cardinality(Joined(t))
              ELSE Cardinality(Joined(t)) + 1
        BY <2>2, FS_AddElement
      <4>2. QED
        BY <2>2, <2>4, <4>1
    <3>6. s # 0
      BY <2>2, <2>4
    <3>7. QED
      BY <1>1, <2>2, <2>a, <3>4, <3>5, <3>6
  <2>5. ASSUME NEW h \in Handlers, CountSlots(h), req[h].tier = t,
               Goto(h, "identity"),
               Counted(t)' \in SUBSET (Counted(t) \cup {h})
        PROVE  /\ s = 0 => Joined(t)' = {} /\ Counted(t)' = {}
               /\ Cardinality(Joined(t)') + Cardinality(Counted(t)')
                    <= s + H - 1 + faults'
    <3>1. Joined(t)' = Joined(t) /\ ~Return(h)
      <4>1. members' = members
        BY <2>5 DEF CountSlots, tables, people
      <4>2. pc'[h] = "identity"
        BY <2>5 DEF Goto, BaseInv, MembershipTypeOK
      <4>3. ~Return(h)
        BY <4>2, ReturnMoves DEF BaseInv
      <4>4. QED
        BY <4>1, <4>3 DEF Joined, Occupants
    <3>2. CASE Cardinality(Occupants(t)) < s
      <4>1. /\ Cardinality(Joined(t)) <= Cardinality(Occupants(t))
            /\ Cardinality(Occupants(t)) \in Nat
        BY JoinedFinite
      <4>2. QED
        BY <1>1, <2>2, <2>a, <3>1, <3>2, <4>1
    <3>3. CASE s > 0 /\ faults' = faults + 1
      <4>1. /\ IsFiniteSet(Counted(t) \cup {h})
            /\ Cardinality(Counted(t) \cup {h}) =
                 IF h \in Counted(t) THEN Cardinality(Counted(t))
                 ELSE Cardinality(Counted(t)) + 1
        BY <2>2, FS_AddElement
      <4>2. Cardinality(Counted(t)') <= Cardinality(Counted(t) \cup {h})
        BY <2>5, <4>1, FS_Subset
      <4>3. Cardinality(Counted(t) \cup {h}) \in Nat
        BY <4>1, FS_CardinalityType
      <4>4. QED
        BY <1>1, <2>2, <2>a, <3>1, <3>3, <4>1, <4>2, <4>3
    <3>4. Cardinality(Occupants(t)) < s \/ (s > 0 /\ faults' = faults + 1)
      BY <2>5, <3>1 DEF CountSlots, Test, Fault, s
    <3>5. QED
      BY <3>2, <3>3, <3>4
  <2>6. CASE Joined(t)' = Joined(t) /\ Counted(t)' \in SUBSET Counted(t)
    <3>1. Cardinality(Counted(t)') <= Cardinality(Counted(t))
      BY <2>2, <2>6, FS_Subset
    <3>2. QED
      BY <1>1, <2>2, <2>a, <2>6, <3>1
  <2>7. CASE \E h \in Handlers :
              /\ InsertMember(h) /\ h \in Counted(t)
              /\ \E n : Joined(t)' = Joined(t) \cup {n}
    BY <2>4, <2>7
  <2>8. QED
    BY <1>3, <2>5, <2>6, <2>7, JoinedStep, CountedStep
<1>4. QED
  BY <1>2, <1>3

\* However many joins of a tier race, and whatever count fails, it is overbooked
\* by fewer than the handlers and the failures together.
THEOREM OverbookingAlwaysBounded == Spec => []OverbookingBounded
<1>1. Init => SlotsInv
  BY DEF Init, Fresh, SlotsInv
<1>2. BaseInv /\ BaseInv' /\ SlotsInv /\ [Next]_vars => SlotsInv'
  <2> SUFFICES ASSUME BaseInv, BaseInv', SlotsInv, [Next]_vars PROVE SlotsInv'
    OBVIOUS
  <2>1. CASE UNCHANGED vars
    <3>1. UNCHANGED <<tiers, members, pc, req, faults>>
      BY <2>1 DEF vars, tables, people, bounds
    <3>2. QED
      BY <3>1 DEF SlotsInv, SlotsOf, Joined, Occupants, Counted, Kind
  <2>2. QED
    BY <2>1, SlotsStep
<1>3. BaseInv /\ SlotsInv => OverbookingBounded
  <2> SUFFICES ASSUME BaseInv, SlotsInv, NEW t \in DOMAIN tiers,
                      tiers[t].slots # Unlimited
               PROVE  /\ tiers[t].slots = 0 => Joined(t) = {}
                      /\ Cardinality(Joined(t)) <=
                           tiers[t].slots + Cardinality(Handlers) - 1 + faults
    BY DEF OverbookingBounded
  <2>1. /\ Cardinality(Joined(t)) \in Nat /\ Cardinality(Counted(t)) \in Nat
        /\ Cardinality(Handlers) \in Nat /\ tiers[t].slots \in Nat
        /\ faults \in Nat
    BY JoinedFinite, SlotsType DEF BaseInv, MembershipTypeOK
  <2>2. QED
    BY <2>1 DEF SlotsInv, SlotsOf
<1>4. QED
  BY <1>1, <1>2, <1>3, BaseAlways, PTL DEF Spec
-----------------------------------------------------------------------------
(* Entry fees.                                                             *)

\* FeeBookedOnce with its counts spelled out: for an approved request there is
\* a member and, for a fee, a row; for members and rows, an approved request;
\* and no two of either for one request.
RequestsServed ==
  \A n \in DOMAIN accessRequests :
    LET r == accessRequests[n] IN
    r.approveLog # 0 =>
      /\ r.approveLog \in DOMAIN auditLog
      /\ auditLog[r.approveLog] = [tool |-> "approve_agent_access", ref |-> n]
      /\ \E a \in DOMAIN members : members[a].request = n
      /\ tiers[r.tier].fee > 0 => \E i \in DOMAIN ledger : ledger[i].request = n
MembersRequested ==
  \A a \in DOMAIN members :
    LET n == members[a].request IN
    n # 0 => /\ n \in DOMAIN accessRequests
             /\ accessRequests[n].approveLog # 0
             /\ members[a].platform = accessRequests[n].platform
AdmittedOnce ==
  \A a, b \in DOMAIN members :
    members[a].request # 0 /\ members[a].request = members[b].request => a = b
FeesRequested ==
  \A i \in DOMAIN ledger :
    LET n == ledger[i].request
        fee == tiers[accessRequests[n].tier].fee
    IN /\ n \in DOMAIN accessRequests
       /\ accessRequests[n].approveLog # 0
       /\ fee > 0 /\ ledger[i].delta = -fee
       /\ ledger[i].log = accessRequests[n].approveLog
       /\ ledger[i].agent \in DOMAIN members
       /\ members[ledger[i].agent].request = n
ChargedOnce ==
  \A i, j \in DOMAIN ledger : ledger[i].request = ledger[j].request => i = j

FeeInv ==
  /\ RequestsServed /\ MembersRequested /\ AdmittedOnce
  /\ FeesRequested /\ ChargedOnce

\* What a step does to these tables when it admits nobody.
AdmitsNobody ==
  /\ ledger' = ledger
  /\ \A a \in DOMAIN members' \ DOMAIN members : members'[a].request = 0
  /\ \A n \in DOMAIN accessRequests :
       accessRequests'[n].approveLog = accessRequests[n].approveLog
  /\ \A n \in DOMAIN accessRequests' \ DOMAIN accessRequests :
       accessRequests'[n].approveLog = 0

LEMMA FeeKept ==
  ASSUME BaseInv, FeeInv, Grows, AdmitsNobody
  PROVE  FeeInv'
<1>1. \A n \in DOMAIN accessRequests :
        /\ accessRequests[n].tier \in DOMAIN tiers
        /\ n \in DOMAIN accessRequests'
        /\ tiers'[accessRequests'[n].tier] = tiers[accessRequests[n].tier]
  BY DEF BaseInv, RowsInv, TiersKnown, Grows
<1>2. RequestsServed'
  <2> SUFFICES ASSUME NEW n \in DOMAIN accessRequests',
                      accessRequests'[n].approveLog # 0
               PROVE  LET r == accessRequests'[n] IN
                      /\ r.approveLog \in DOMAIN auditLog'
                      /\ auditLog'[r.approveLog] =
                           [tool |-> "approve_agent_access", ref |-> n]
                      /\ \E a \in DOMAIN members' : members'[a].request = n
                      /\ tiers'[r.tier].fee > 0 =>
                           \E i \in DOMAIN ledger' : ledger'[i].request = n
    BY DEF RequestsServed
  <2>1. n \in DOMAIN accessRequests
        /\ accessRequests'[n].approveLog = accessRequests[n].approveLog
    BY DEF AdmitsNobody
  <2>2. /\ accessRequests[n].approveLog \in DOMAIN auditLog
        /\ auditLog[accessRequests[n].approveLog] =
             [tool |-> "approve_agent_access", ref |-> n]
        /\ \E a \in DOMAIN members : members[a].request = n
        /\ tiers[accessRequests[n].tier].fee > 0 =>
             \E i \in DOMAIN ledger : ledger[i].request = n
    BY <2>1 DEF FeeInv, RequestsServed
  <2>3. \E a \in DOMAIN members' : members'[a].request = n
    BY <2>2 DEF Grows
  <2>4. QED
    BY <1>1, <2>1, <2>2, <2>3 DEF Grows, AdmitsNobody
<1>3. MembersRequested'
  <2> SUFFICES ASSUME NEW a \in DOMAIN members', members'[a].request # 0
               PROVE  LET n == members'[a].request IN
                      /\ n \in DOMAIN accessRequests'
                      /\ accessRequests'[n].approveLog # 0
                      /\ members'[a].platform = accessRequests'[n].platform
    BY DEF MembersRequested
  <2>1. a \in DOMAIN members
    BY DEF AdmitsNobody
  <2>2. /\ members'[a].request = members[a].request
        /\ members'[a].platform = members[a].platform
    BY <2>1 DEF Grows
  <2>3. QED
    BY <1>1, <2>1, <2>2 DEF FeeInv, MembersRequested, AdmitsNobody, Grows
<1>4. AdmittedOnce'
  BY DEF FeeInv, AdmittedOnce, AdmitsNobody, Grows
<1>5. FeesRequested'
  <2> SUFFICES ASSUME NEW i \in DOMAIN ledger
               PROVE  LET n == ledger[i].request
                          fee == tiers'[accessRequests'[n].tier].fee
                      IN /\ n \in DOMAIN accessRequests'
                         /\ accessRequests'[n].approveLog # 0
                         /\ fee > 0 /\ ledger[i].delta = -fee
                         /\ ledger[i].log = accessRequests'[n].approveLog
                         /\ ledger[i].agent \in DOMAIN members'
                         /\ members'[ledger[i].agent].request = n
    BY DEF FeesRequested, AdmitsNobody
  <2> DEFINE n == ledger[i].request
  <2>1. /\ n \in DOMAIN accessRequests
        /\ accessRequests[n].approveLog # 0
        /\ tiers[accessRequests[n].tier].fee > 0
        /\ ledger[i].delta = -tiers[accessRequests[n].tier].fee
        /\ ledger[i].log = accessRequests[n].approveLog
        /\ ledger[i].agent \in DOMAIN members
        /\ members[ledger[i].agent].request = n
    BY DEF FeeInv, FeesRequested
  <2> HIDE DEF n
  <2>2. /\ n \in DOMAIN accessRequests'
        /\ tiers'[accessRequests'[n].tier] = tiers[accessRequests[n].tier]
        /\ accessRequests'[n].approveLog = accessRequests[n].approveLog
        /\ ledger[i].agent \in DOMAIN members'
        /\ members'[ledger[i].agent].request = n
    BY <1>1, <2>1 DEF Grows, AdmitsNobody
  <2>3. QED
    BY <2>1, <2>2 DEF n
<1>6. ChargedOnce'
  BY DEF FeeInv, ChargedOnce, AdmitsNobody
<1>7. QED
  BY <1>2, <1>3, <1>4, <1>5, <1>6 DEF FeeInv

LEMMA FeeAdmitted ==
  ASSUME BaseInv, FeeInv, Grows, NEW h \in Handlers, ApproveAccess(h),
         ~IsMember(accessRequests[req[h].ref].platform)
  PROVE  FeeInv'
<1> DEFINE n == req[h].ref  l == req[h].log
           a == Len(members) + 1  i == Len(ledger) + 1
           fee == tiers[accessRequests[n].tier].fee
<1>1. /\ pc[h] = "resolve"
      /\ DOMAIN members' = DOMAIN members \cup {a} /\ a \notin DOMAIN members
      /\ \A b \in DOMAIN members : members'[b] = members[b]
      /\ members'[a].platform = accessRequests[n].platform
      /\ members'[a].request = n
      /\ fee \in Nat
      /\ fee = 0 => ledger' = ledger
      /\ fee # 0 =>
           /\ DOMAIN ledger' = DOMAIN ledger \cup {i} /\ i \notin DOMAIN ledger
           /\ \A j \in DOMAIN ledger : ledger'[j] = ledger[j]
           /\ ledger'[i].agent = a /\ ledger'[i].delta = -fee
           /\ ledger'[i].request = n /\ ledger'[i].log = l
      /\ accessRequests' = Granted(n, l)
  BY Admitted
<1>2. /\ n \in DOMAIN accessRequests /\ n # 0 /\ l # 0
      /\ l \in DOMAIN auditLog
      /\ auditLog[l] = [tool |-> "approve_agent_access", ref |-> n]
  BY <1>1, Resolving DEF ApproveAccess
<1>3. /\ DOMAIN accessRequests' = DOMAIN accessRequests
      /\ \A m \in DOMAIN accessRequests :
           /\ accessRequests'[m].platform = accessRequests[m].platform
           /\ accessRequests'[m].tier = accessRequests[m].tier
           /\ accessRequests'[m].approveLog =
                IF m = n THEN l ELSE accessRequests[m].approveLog
  BY <1>1, RequestGranted
<1>4. UNCHANGED <<tiers, auditLog>>
  BY DEF ApproveAccess
<1>5. \A b \in DOMAIN members : members[b].request # n
  BY <1>2 DEF FeeInv, MembersRequested, IsMember
<1>6. \A j \in DOMAIN ledger : ledger[j].request # n
  BY <1>5 DEF FeeInv, FeesRequested
<1> HIDE DEF n, l, a, i
<1>7. \A j \in DOMAIN ledger : j \in DOMAIN ledger' /\ ledger'[j] = ledger[j]
  BY <1>1
<1>8. \A j \in DOMAIN ledger' : j \in DOMAIN ledger \/ (j = i /\ fee # 0)
  BY <1>1
<1>9. RequestsServed'
  <2> SUFFICES ASSUME NEW m \in DOMAIN accessRequests,
                      accessRequests'[m].approveLog # 0
               PROVE  LET r == accessRequests'[m] IN
                      /\ r.approveLog \in DOMAIN auditLog
                      /\ auditLog[r.approveLog] =
                           [tool |-> "approve_agent_access", ref |-> m]
                      /\ \E b \in DOMAIN members' : members'[b].request = m
                      /\ tiers[r.tier].fee > 0 =>
                           \E j \in DOMAIN ledger' : ledger'[j].request = m
    BY <1>3, <1>4 DEF RequestsServed
  <2>1. CASE m = n
    <3>1. fee > 0 => \E j \in DOMAIN ledger' : ledger'[j].request = n
      BY <1>1
    <3>2. QED
      BY <1>1, <1>2, <1>3, <2>1, <3>1
  <2>2. CASE m # n
    <3>1. /\ accessRequests'[m].approveLog = accessRequests[m].approveLog
          /\ accessRequests'[m].tier = accessRequests[m].tier
      BY <1>3, <2>2
    <3>2. /\ accessRequests[m].approveLog \in DOMAIN auditLog
          /\ auditLog[accessRequests[m].approveLog] =
               [tool |-> "approve_agent_access", ref |-> m]
          /\ \E b \in DOMAIN members : members[b].request = m
          /\ tiers[accessRequests[m].tier].fee > 0 =>
               \E j \in DOMAIN ledger : ledger[j].request = m
      BY <3>1 DEF FeeInv, RequestsServed
    <3>3. \E b \in DOMAIN members' : members'[b].request = m
      BY <1>1, <3>2
    <3>4. tiers[accessRequests[m].tier].fee > 0 =>
            \E j \in DOMAIN ledger' : ledger'[j].request = m
      BY <1>7, <3>2
    <3>5. QED
      BY <3>1, <3>2, <3>3, <3>4
  <2>3. QED
    BY <2>1, <2>2
<1>10. MembersRequested'
  <2> SUFFICES ASSUME NEW b \in DOMAIN members', members'[b].request # 0
               PROVE  LET m == members'[b].request IN
                      /\ m \in DOMAIN accessRequests'
                      /\ accessRequests'[m].approveLog # 0
                      /\ members'[b].platform = accessRequests'[m].platform
    BY DEF MembersRequested
  <2>1. CASE b = a
    BY <1>1, <1>2, <1>3, <2>1
  <2>2. CASE b \in DOMAIN members
    BY <1>1, <1>2, <1>3, <2>2 DEF FeeInv, MembersRequested
  <2>3. QED
    BY <1>1, <2>1, <2>2
<1>11. AdmittedOnce'
  BY <1>1, <1>5 DEF FeeInv, AdmittedOnce
<1>12. FeesRequested'
  <2> SUFFICES ASSUME NEW j \in DOMAIN ledger'
               PROVE  LET m == ledger'[j].request
                          f == tiers[accessRequests'[m].tier].fee
                      IN /\ m \in DOMAIN accessRequests'
                         /\ accessRequests'[m].approveLog # 0
                         /\ f > 0 /\ ledger'[j].delta = -f
                         /\ ledger'[j].log = accessRequests'[m].approveLog
                         /\ ledger'[j].agent \in DOMAIN members'
                         /\ members'[ledger'[j].agent].request = m
    BY <1>4 DEF FeesRequested
  <2>1. CASE j = i /\ fee # 0
    BY <1>1, <1>2, <1>3, <2>1
  <2>2. CASE j \in DOMAIN ledger
    <3> DEFINE m == ledger[j].request
    <3>1. /\ m \in DOMAIN accessRequests
          /\ accessRequests[m].approveLog # 0
          /\ tiers[accessRequests[m].tier].fee > 0
          /\ ledger[j].delta = -tiers[accessRequests[m].tier].fee
          /\ ledger[j].log = accessRequests[m].approveLog
          /\ ledger[j].agent \in DOMAIN members
          /\ members[ledger[j].agent].request = m
          /\ m # n
      BY <1>6, <2>2 DEF FeeInv, FeesRequested
    <3> HIDE DEF m
    <3>2. /\ ledger'[j] = ledger[j]
          /\ accessRequests'[m].approveLog = accessRequests[m].approveLog
          /\ accessRequests'[m].tier = accessRequests[m].tier
          /\ ledger[j].agent \in DOMAIN members'
          /\ members'[ledger[j].agent] = members[ledger[j].agent]
      BY <1>1, <1>3, <1>7, <2>2, <3>1
    <3>3. QED
      BY <1>3, <3>1, <3>2 DEF m
  <2>3. QED
    BY <1>8, <2>1, <2>2
<1>13. ChargedOnce'
  BY <1>1, <1>6, <1>7, <1>8 DEF FeeInv, ChargedOnce
<1>14. QED
  BY <1>9, <1>10, <1>11, <1>12, <1>13 DEF FeeInv

\* Only an approval that inserts a member admits one.
LEMMA FeeStep ==
  ASSUME BaseInv, FeeInv, [Next]_vars
  PROVE  FeeInv'
<1>1. Grows
  BY TablesStep, SameTablesGrow DEF vars
<1>2. CASE UNCHANGED <<members, accessRequests, ledger>>
  BY <1>1, <1>2, FeeKept DEF AdmitsNobody
<1>3. ASSUME NEW h \in Handlers, ApproveAccess(h) PROVE FeeInv'
  <2>1. CASE ~IsMember(accessRequests[req[h].ref].platform)
    BY <1>1, <1>3, <2>1, FeeAdmitted
  <2>2. CASE IsMember(accessRequests[req[h].ref].platform)
    BY <1>2, <1>3, <2>2 DEF ApproveAccess
  <2>3. QED
    BY <2>1, <2>2
<1>4. ASSUME NEW h \in Handlers, RejectAccess(h) PROVE FeeInv'
  <2>1. AdmitsNobody
    BY <1>4, RequestRejected DEF AdmitsNobody, RejectAccess
  <2>2. QED
    BY <1>1, <2>1, FeeKept
<1>5. ASSUME NEW h \in Handlers, UpdateMember(h) PROVE FeeInv'
  <2>1. AdmitsNobody
    BY <1>5, MemberDecided DEF AdmitsNobody, UpdateMember
  <2>2. QED
    BY <1>1, <2>1, FeeKept
<1>6. ASSUME NEW h \in Handlers, InsertRequest(h) PROVE FeeInv'
  <2> DEFINE r == [platform |-> req[h].platform, tier |-> req[h].tier,
                   status |-> "pending", approveLog |-> 0, rejectLog |-> 0]
  <2>1. req[h].platform \in Platforms /\ req[h].tier \in Tiers
    BY Tables DEF BaseInv, Locals
  <2>2. r \in AccessRequest /\ r.approveLog = 0
    BY <2>1 DEF AccessRequest
  <2>3. /\ accessRequests' = Append(accessRequests, r)
        /\ UNCHANGED <<members, ledger>>
    BY <1>6 DEF InsertRequest
  <2> HIDE DEF r
  <2>4. accessRequests \in Seq(AccessRequest)
    BY DEF BaseInv, MembershipTypeOK
  <2>5. AdmitsNobody
    BY <2>2, <2>3, <2>4, Appended DEF AdmitsNobody
  <2>6. QED
    BY <1>1, <2>5, FeeKept
<1> DEFINE MemberAppended(m) ==
             /\ m \in Member /\ m.request = 0 /\ members' = Append(members, m)
             /\ UNCHANGED <<accessRequests, ledger>>
<1>7. ASSUME NEW m, MemberAppended(m) PROVE FeeInv'
  <2>1. members \in Seq(Member)
    BY DEF BaseInv, MembershipTypeOK
  <2>2. AdmitsNobody
    BY <1>7, <2>1, Appended DEF AdmitsNobody
  <2>3. QED
    BY <1>1, <2>2, FeeKept
<1>8. ASSUME NEW h \in Handlers, InsertMember(h) PROVE FeeInv'
  <2> DEFINE m == [platform |-> req[h].platform, tier |-> req[h].tier,
                   owner |-> FALSE, request |-> 0, status |-> "pending"]
  <2>1. CASE members' = members
    BY <1>2, <1>8, <2>1 DEF InsertMember
  <2>2. CASE members' # members
    <3>1. req[h].platform \in Platforms /\ req[h].tier \in Tiers
      BY Tables DEF BaseInv, Locals
    <3>2. m \in Member /\ m.request = 0
      BY <3>1 DEF Member
    <3>3. members' = Append(members, m) /\ UNCHANGED <<accessRequests, ledger>>
      BY <1>8, <2>2 DEF InsertMember
    <3> HIDE DEF m
    <3>4. QED
      BY <1>7, <3>2, <3>3
  <2>3. QED
    BY <2>1, <2>2
<1>9. CASE Create
  <2> DEFINE m == [platform |-> Founder, tier |-> SomeTier, owner |-> TRUE,
                   request |-> 0, status |-> "active"]
  <2>1. SomeTier \in Tiers /\ Founder \in Platforms
    BY MembershipAssumption DEF SomeTier
  <2>2. m \in Member /\ m.request = 0
    BY <2>1 DEF Member
  <2>3. members' = Append(members, m) /\ UNCHANGED <<accessRequests, ledger>>
    BY <1>9 DEF Create
  <2> HIDE DEF m
  <2>4. QED
    BY <1>7, <2>2, <2>3
<1>10. ASSUME NEW h \in Handlers, SetupStep(h) \/ StatementFails(h) PROVE FeeInv'
  BY <1>2, <1>10 DEF SetupStep, BeginSetup, ReadState, CountTiers, UpdateState,
                     UpdateGitTwin, StatementFails, tables, people
<1>11. ASSUME NEW h \in Handlers, EntryStep(h) PROVE FeeInv'
  BY <1>2, <1>6, <1>8, <1>11
     DEF EntryStep, BeginEntry, ReadTier, CountSlots, UpsertIdentity, tables,
         people
<1>12. ASSUME NEW h \in Handlers, CallStep(h) PROVE FeeInv'
  BY <1>2, <1>3, <1>4, <1>5, <1>12
     DEF CallStep, BeginDecision, BeginLeave, CheckPending, WriteAuditLog,
         ReadRequest, tables, people
<1>13. CASE AddTier \/ Crash \/ UNCHANGED vars
  BY <1>2, <1>13 DEF AddTier, Crash, vars, tables, people
<1>14. QED
  BY <1>9, <1>10, <1>11, <1>12, <1>13 DEF Next

LEMMA FeeInit == Init => FeeInv
<1> SUFFICES ASSUME Init PROVE FeeInv
  OBVIOUS
<1>1. DOMAIN members = {} /\ DOMAIN accessRequests = {} /\ DOMAIN ledger = {}
  BY DEF Init, Fresh
<1>2. QED
  BY <1>1 DEF FeeInv, RequestsServed, MembersRequested, AdmittedOnce,
              FeesRequested, ChargedOnce

\* FeeInv counts to one.
LEMMA FeeCounts ==
  ASSUME BaseInv, FeeInv
  PROVE  FeeBookedOnce
<1>1. ASSUME NEW n \in DOMAIN accessRequests
      PROVE  LET r == accessRequests[n]
                 fee == tiers[r.tier].fee
                 rows == {i \in DOMAIN ledger : ledger[i].request = n}
                 admitted == {a \in DOMAIN members : members[a].request = n}
             IN /\ Cardinality(admitted) = IF r.approveLog = 0 THEN 0 ELSE 1
                /\ Cardinality(rows) = IF fee > 0 THEN Cardinality(admitted) ELSE 0
                /\ \A a \in admitted : members[a].platform = r.platform
                /\ \A i \in rows : /\ ledger[i].agent \in admitted
                                   /\ ledger[i].delta = -fee
                                   /\ ledger[i].log = r.approveLog
                /\ r.approveLog # 0 =>
                     auditLog[r.approveLog] = [tool |-> "approve_agent_access",
                                               ref |-> n]
  <2> DEFINE r == accessRequests[n]
             fee == tiers[r.tier].fee
             rows == {i \in DOMAIN ledger : ledger[i].request = n}
             admitted == {a \in DOMAIN members : members[a].request = n}
  <2>0. n # 0
    BY Tables DEF BaseInv
  <2>1. /\ \A a \in admitted : /\ members[a].platform = r.platform
                               /\ r.approveLog # 0
        /\ \A a, b \in admitted : a = b
    BY <2>0 DEF FeeInv, MembersRequested, AdmittedOnce
  <2>2. /\ \A i \in rows : /\ ledger[i].agent \in admitted
                           /\ fee > 0 /\ ledger[i].delta = -fee
                           /\ ledger[i].log = r.approveLog
                           /\ r.approveLog # 0
        /\ \A i, j \in rows : i = j
    BY DEF FeeInv, FeesRequested, ChargedOnce
  <2>3. r.approveLog # 0 =>
          /\ auditLog[r.approveLog] = [tool |-> "approve_agent_access", ref |-> n]
          /\ admitted # {} /\ fee > 0 => rows # {}
    BY DEF FeeInv, RequestsServed
  <2>4. r.approveLog # 0 => admitted # {}
    BY DEF FeeInv, RequestsServed
  <2> HIDE DEF r, fee, rows, admitted
  <2>5. ASSUME NEW S, \A x, y \in S : x = y
        PROVE  Cardinality(S) = IF S = {} THEN 0 ELSE 1
    <3>1. CASE S = {}
      BY <3>1, FS_EmptySet
    <3>2. CASE S # {}
      <4>1. PICK x \in S : TRUE
        BY <3>2
      <4>2. S = {x}
        BY <2>5, <4>1
      <4>3. QED
        BY <3>2, <4>2, FS_Singleton
    <3>3. QED
      BY <3>1, <3>2
  <2>6. Cardinality(admitted) = IF admitted = {} THEN 0 ELSE 1
    BY <2>1, <2>5
  <2>7. Cardinality(rows) = IF rows = {} THEN 0 ELSE 1
    BY <2>2, <2>5
  <2>8. admitted = {} <=> r.approveLog = 0
    BY <2>1, <2>4
  <2>9. rows = {} <=> (admitted = {} \/ ~(fee > 0))
    BY <2>2, <2>3, <2>8
  <2>10. Cardinality(admitted) = IF r.approveLog = 0 THEN 0 ELSE 1
    BY <2>6, <2>8
  <2>11. Cardinality(rows) = IF fee > 0 THEN Cardinality(admitted) ELSE 0
    BY <2>6, <2>7, <2>9
  <2>12. QED
    BY <2>1, <2>2, <2>3, <2>10, <2>11 DEF r, fee, rows, admitted
<1>2. \A i \in DOMAIN ledger : ledger[i].request \in DOMAIN accessRequests
  BY DEF FeeInv, FeesRequested
<1>3. QED
  BY <1>1, <1>2 DEF FeeBookedOnce

\* However approvals and rejections of one request, and the requests of one
\* applicant, race: an approved request has one member, charged once.
THEOREM FeeAlwaysBookedOnce == Spec => []FeeBookedOnce
<1>1. BaseInv /\ FeeInv /\ [Next]_vars => FeeInv'
  BY FeeStep
<1>2. BaseInv /\ FeeInv => FeeBookedOnce
  BY FeeCounts
<1>3. QED
  BY <1>1, <1>2, FeeInit, BaseAlways, PTL DEF Spec
-----------------------------------------------------------------------------
(* Decisions stand.                                                        *)

\* A step puts one more call past its check only on a row that was pending, or
\* on a member that was active.
LEMMA UnderWayStep ==
  ASSUME BaseInv, [Next]_vars, NEW g \in Handlers,
         pc'[g] \in {"log", "apply", "resolve"}
  PROVE  /\ Kind(g)' = Kind(g) \/ Kind(g)' = "leave_covenant"
         /\ \/ /\ pc[g] \in {"log", "apply", "resolve"}
               /\ Kind(g)' = Kind(g) /\ req'[g].ref = req[g].ref
            \/ /\ Kind(g)' \in AgentTools
               /\ members[req'[g].ref].status \in {"pending", "active"}
            \/ /\ Kind(g)' \in AccessTools
               /\ accessRequests[req'[g].ref].status = "pending"
<1> DEFINE Same == /\ pc[g] \in {"log", "apply", "resolve"}
                   /\ Kind(g)' = Kind(g) /\ req'[g].ref = req[g].ref
<1>1. CASE pc'[g] = pc[g] /\ req'[g] = req[g]
  BY <1>1 DEF Kind
<1>2. CASE Crash
  BY <1>2 DEF Crash
<1>3. ASSUME NEW h \in Handlers, h # g,
             SetupStep(h) \/ EntryStep(h) \/ CallStep(h) \/ StatementFails(h)
      PROVE  pc'[g] = pc[g] /\ req'[g] = req[g]
  BY <1>3, RequestStep DEF Moves
<1>4. CASE SetupStep(g) \/ EntryStep(g) \/ StatementFails(g) \/ Return(g)
  <2>1. \/ Return(g)
        \/ \E label \in {"state", "tier", "count", "update", "identity",
                         "insert"} : Goto(g, label)
    BY <1>4 DEF SetupStep, BeginSetup, ReadState, CountTiers, UpdateState,
                UpdateGitTwin, EntryStep, BeginEntry, ReadTier, CountSlots,
                UpsertIdentity, InsertMember, InsertRequest, StatementFails, Test
  <2>2. CASE Return(g)
    BY <2>2, ReturnMoves DEF BaseInv
  <2>3. QED
    BY <2>1, <2>2 DEF Goto, BaseInv, MembershipTypeOK
<1>5. CASE CallStep(g) /\ ~Return(g)
  <2>1. CASE BeginDecision(g)
    BY <2>1 DEF BeginDecision, Goto, BaseInv, MembershipTypeOK
  <2>2. CASE BeginLeave(g)
    <3>1. PICK a \in DOMAIN members :
            /\ members[a].status = "active"
            /\ req' = [req EXCEPT ![g].kind = "leave_covenant", ![g].ref = a]
      BY <2>2 DEF BeginLeave
    <3>2. Kind(g)' = "leave_covenant" /\ req'[g].ref = a
      BY <3>1 DEF Kind, BaseInv, MembershipTypeOK, Locals
    <3>3. QED
      BY <3>1, <3>2 DEF AgentTools
  <2>3. CASE CheckPending(g)
    <3>1. /\ req' = req
          /\ \/ /\ Kind(g) \in AgentTools
                /\ members[req[g].ref].status = "pending"
             \/ /\ Kind(g) \in AccessTools
                /\ accessRequests[req[g].ref].status = "pending"
      BY <1>5, <2>3 DEF CheckPending, Test
    <3>2. QED
      BY <3>1 DEF Kind
  <2>4. CASE WriteAuditLog(g)
    <3>1. /\ pc[g] = "log"
          /\ req' = [req EXCEPT ![g].log = Len(auditLog) + 1]
      BY <2>4 DEF WriteAuditLog, At
    <3>2. Kind(g)' = Kind(g) /\ req'[g].ref = req[g].ref
      BY <3>1 DEF Kind, BaseInv, MembershipTypeOK, Locals
    <3>3. QED
      BY <3>1, <3>2
  <2>5. CASE ReadRequest(g)
    <3>1. pc[g] = "apply" /\ req' = req
      BY <1>5, <2>5 DEF ReadRequest, Test, At
    <3>2. QED
      BY <3>1 DEF Kind
  <2>6. QED
    BY <1>5, <2>1, <2>2, <2>3, <2>4, <2>5
       DEF CallStep, UpdateMember, ApproveAccess, RejectAccess
<1>6. QED
  BY <1>1, <1>2, <1>3, <1>4, <1>5 DEF Next, Create, AddTier, vars
\* Only the call that resolves a request changes its row.
LEMMA RequestsStep ==
  ASSUME BaseInv, Next, NEW n \in DOMAIN accessRequests
  PROVE  \/ accessRequests'[n] = accessRequests[n]
         \/ \E h \in UnderWay(AccessTools, n) : TRUE
<1>1. ASSUME NEW h \in Handlers, pc[h] = "resolve",
             n # req[h].ref => accessRequests'[n] = accessRequests[n]
      PROVE  \/ accessRequests'[n] = accessRequests[n]
             \/ \E g \in UnderWay(AccessTools, n) : TRUE
  BY <1>1, Resolving DEF UnderWay
<1>2. ASSUME NEW h \in Handlers, ApproveAccess(h)
      PROVE  \/ accessRequests' = accessRequests
             \/ \E g \in UnderWay(AccessTools, n) : TRUE
             \/ accessRequests'[n] = accessRequests[n]
  <2>1. pc[h] = "resolve"
    BY <1>2 DEF ApproveAccess, At
  <2>2. CASE accessRequests' = Granted(req[h].ref, req[h].log)
    BY <2>1, <2>2, <1>1, RequestGranted
  <2>3. QED
    BY <1>2, <2>2 DEF ApproveAccess
<1>3. ASSUME NEW h \in Handlers, RejectAccess(h)
      PROVE  \/ accessRequests'[n] = accessRequests[n]
             \/ \E g \in UnderWay(AccessTools, n) : TRUE
  <2>1. pc[h] = "resolve"
    BY <1>3 DEF RejectAccess, At
  <2>2. QED
    BY <2>1, <1>3, <1>1, RequestRejected
<1>4. ASSUME NEW h \in Handlers, InsertRequest(h)
      PROVE  accessRequests'[n] = accessRequests[n]
  <2> DEFINE e == [platform |-> req[h].platform, tier |-> req[h].tier,
                   status |-> "pending", approveLog |-> 0, rejectLog |-> 0]
  <2>1. req[h].platform \in Platforms /\ req[h].tier \in Tiers
    BY Tables DEF BaseInv, Locals
  <2>2. e \in AccessRequest /\ accessRequests \in Seq(AccessRequest)
    BY <2>1 DEF AccessRequest, BaseInv, MembershipTypeOK
  <2>3. accessRequests' = Append(accessRequests, e)
    BY <1>4 DEF InsertRequest
  <2> HIDE DEF e
  <2>4. QED
    BY <2>2, <2>3, Appended
<1>5. ASSUME NEW h \in Handlers, SetupStep(h) \/ StatementFails(h)
      PROVE  accessRequests' = accessRequests
  BY <1>5 DEF SetupStep, BeginSetup, ReadState, CountTiers, UpdateState,
              UpdateGitTwin, StatementFails, tables, people
<1>6. ASSUME NEW h \in Handlers, EntryStep(h), ~InsertRequest(h)
      PROVE  accessRequests' = accessRequests
  <2>1. BeginEntry(h) \/ ReadTier(h) \/ CountSlots(h) => UNCHANGED tables
    BY Zenon DEF BeginEntry, ReadTier, CountSlots
  <2>2. UNCHANGED tables => accessRequests' = accessRequests
    BY DEF tables, people
  <2>3. UpsertIdentity(h) \/ InsertMember(h) => accessRequests' = accessRequests
    BY DEF UpsertIdentity, InsertMember
  <2>4. QED
    BY <1>6, <2>1, <2>2, <2>3 DEF EntryStep
<1>7. ASSUME NEW h \in Handlers, CallStep(h), ~ApproveAccess(h), ~RejectAccess(h)
      PROVE  accessRequests' = accessRequests
  BY <1>7 DEF CallStep, BeginDecision, BeginLeave, CheckPending, WriteAuditLog,
              ReadRequest, UpdateMember, tables, people
<1>8. CASE Create \/ AddTier \/ Crash
  BY <1>8 DEF Create, AddTier, Crash, tables, people
<1>9. QED
  BY <1>2, <1>3, <1>4, <1>5, <1>6, <1>7, <1>8 DEF Next

\* A member on whom nothing is under way is left alone, unless pending or active.
LEMMA MemberStands ==
  ASSUME BaseInv, [Next]_vars, NEW a \in FinalMembers
  PROVE  members'[a] = members[a] /\ UnderWay(AgentTools, a)' = {}
<1>1. /\ a \in DOMAIN members /\ members[a].status \in {"left", "rejected"}
      /\ UnderWay(AgentTools, a) = {}
  BY DEF FinalMembers
<1>2. members'[a] = members[a]
  <2>1. CASE UNCHANGED vars
    BY <2>1 DEF vars, tables, people
  <2>2. ASSUME NEW h \in Handlers, UpdateMember(h)
        PROVE  members'[a] = members[a]
    <3>1. pc[h] = "apply" /\ Kind(h) \in AgentTools
      BY <2>2 DEF UpdateMember, At
    <3>2. req[h].ref # a
      BY <1>1, <3>1 DEF UnderWay
    <3>3. QED
      BY <1>1, <2>2, <3>2, MemberDecided
  <2>3. QED
    BY <1>1, <2>1, <2>2, MembersStep
<1>3. ASSUME NEW g \in UnderWay(AgentTools, a)'
      PROVE  FALSE
  <2>1. /\ g \in Handlers /\ Kind(g)' \in AgentTools /\ req'[g].ref = a
        /\ pc'[g] \in {"log", "apply", "resolve"}
    BY <1>3 DEF UnderWay, Kind
  <2>2. \/ /\ pc[g] \in {"log", "apply", "resolve"}
           /\ Kind(g)' = Kind(g) /\ req'[g].ref = req[g].ref
        \/ members[req'[g].ref].status \in {"pending", "active"}
    BY <2>1, UnderWayStep DEF AgentTools, AccessTools
  <2>3. QED
    BY <1>1, <2>1, <2>2 DEF UnderWay
<1>4. QED
  BY <1>2, <1>3

\* A decided request on which nothing is under way is left alone.
LEMMA RequestStands ==
  ASSUME BaseInv, [Next]_vars, NEW n \in FinalRequests
  PROVE  accessRequests'[n] = accessRequests[n] /\ UnderWay(AccessTools, n)' = {}
<1>1. /\ n \in DOMAIN accessRequests /\ accessRequests[n].status # "pending"
      /\ UnderWay(AccessTools, n) = {}
  BY DEF FinalRequests
<1>2. accessRequests'[n] = accessRequests[n]
  <2>1. CASE UNCHANGED vars
    BY <2>1 DEF vars, tables, people
  <2>2. QED
    BY <1>1, <2>1, RequestsStep
<1>3. ASSUME NEW g \in UnderWay(AccessTools, n)'
      PROVE  FALSE
  <2>1. /\ g \in Handlers /\ Kind(g)' \in AccessTools /\ req'[g].ref = n
        /\ pc'[g] \in {"log", "apply", "resolve"}
    BY <1>3 DEF UnderWay, Kind
  <2>2. \/ /\ pc[g] \in {"log", "apply", "resolve"}
           /\ Kind(g)' = Kind(g) /\ req'[g].ref = req[g].ref
        \/ accessRequests[req'[g].ref].status = "pending"
    BY <2>1, UnderWayStep DEF AgentTools, AccessTools
  <2>3. QED
    BY <1>1, <2>1, <2>2 DEF UnderWay
<1>4. QED
  BY <1>2, <1>3

\* However approvals, rejections and departures race: once no call on a decided
\* member or request is past its check, no later call gets past it.
THEOREM DecisionsAlwaysStand == Spec => DecisionsStand
<1>1. BaseInv /\ [Next]_vars => FinalIsKept
  BY MemberStands, RequestStands DEF FinalIsKept
<1>2. QED
  BY <1>1, BaseAlways, PTL DEF Spec, DecisionsStand
=============================================================================
