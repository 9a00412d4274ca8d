----------------------------- MODULE Membership -----------------------------
(***************************************************************************)
(* How a covenant comes into being and who gets into it: creation, tiers,  *)
(* the way from DRAFT to ACTIVE and the git twin binding (covenant.go),    *)
(* joining and applying (covenant.go, access_request.go), and the owner's  *)
(* and the members' tools that decide on both (tools/*_agent*.go,          *)
(* leave_covenant.go), for one covenant.                                   *)
(*                                                                         *)
(* A request is served by a handler, and one action is one SQL statement   *)
(* or transaction with the Go code up to the next.  A tool call is the     *)
(* part of Engine.Run these admin tools can change: Step 1, Step 2, the    *)
(* audit row, ApplySideEffects.  They cost nothing and are not limited, so *)
(* the other steps are empty for them; only the rows of successes are      *)
(* kept, a refused call changing nothing else.                             *)
(***************************************************************************)
EXTENDS Integers, Sequences, FiniteSets

CONSTANTS
  Handlers,    \* request goroutines served together
  Platforms,   \* platform ids of people
  Founder,     \* the one who creates the covenant
  Tiers,       \* tier ids
  Slots,       \* values of max_slots
  Unlimited,   \* max_slots IS NULL
  Fees,        \* values of entry_fee_tokens
  MaxSetups, MaxEntries, MaxCalls, MaxFaults   \* bounds of the model

ASSUME MembershipAssumption ==
  /\ IsFiniteSet(Handlers) /\ Handlers # {}
  /\ Founder \in Platforms
  /\ Tiers # {}
  /\ Slots \subseteq Nat /\ Unlimited \notin Slots
  /\ Fees \subseteq Nat
  /\ {MaxSetups, MaxEntries, MaxCalls, MaxFaults} \subseteq Nat

VARIABLES
  covState,    \* covenants.state, or "none"
  gitTwin,     \* covenants.git_twin_url is set
  tiers,       \* access_tiers: a function of the tiers there are
  identities,  \* platform_identities
  members,     \* covenant_members; a row's index stands for its agent_id
  accessRequests, \* agent_access_requests; the index is the request_id
  ledger,      \* the entry_fee rows of token_ledger
  auditLog,    \* the success rows of these tools; the index is the log_id
  pc, req,     \* by handler: its next statement and its locals
  late,        \* history: writes since the last transition that relied on
               \* the state before it
  setups, entries, calls, faults  \* counters of the bounds

people == <<identities, members, accessRequests, ledger>>
tables == <<covState, gitTwin, tiers, people, auditLog, late>>
bounds == <<setups, entries, calls, faults>>
vars == <<tables, pc, req, bounds>>
-----------------------------------------------------------------------------
Phases == {"DRAFT", "OPEN", "ACTIVE"}
NextPhase == [DRAFT |-> "OPEN", OPEN |-> "ACTIVE"]

SetupKinds == {"transition", "set_git_twin"}
EntryKinds == {"join", "apply"}
AgentTools == {"approve_agent", "reject_agent", "leave_covenant"}
AccessTools == {"approve_agent_access", "reject_agent_access"}
Kinds == SetupKinds \cup EntryKinds \cup AgentTools \cup AccessTools

Labels == {"idle", "state", "tier", "count", "identity", "insert", "update",
           "check", "log", "apply", "resolve"}

Tier == [slots : Slots \cup {Unlimited}, fee : Fees]
Member == [platform : Platforms, tier : Tiers, owner : BOOLEAN,
           request : Nat,  \* history: the request it was granted, or 0
           status : {"pending", "active", "rejected", "left"}]
AccessRequest == [platform : Platforms, tier : Tiers,
                  status : {"pending", "approved", "rejected"},
                  approveLog : Nat, rejectLog : Nat]
FeeRow == [agent : Nat, delta : Int, request : Nat, log : Nat]
LogRow == [tool : AgentTools \cup AccessTools, ref : Nat]
Locals == [kind : Kinds, platform : Platforms, tier : Tiers, ref : Nat,
           state : Phases, log : Nat]

SomeTier == CHOOSE t \in Tiers : TRUE
NoReq == [kind |-> "join", platform |-> Founder, tier |-> SomeTier, ref |-> 0,
          state |-> "DRAFT", log |-> 0]

MembershipTypeOK ==
  /\ covState \in Phases \cup {"none"}
  /\ gitTwin \in BOOLEAN
  /\ DOMAIN tiers \subseteq Tiers /\ \A t \in DOMAIN tiers : tiers[t] \in Tier
  /\ identities \subseteq Platforms
  /\ members \in Seq(Member)
  /\ accessRequests \in Seq(AccessRequest)
  /\ ledger \in Seq(FeeRow)
  /\ auditLog \in Seq(LogRow)
  /\ pc \in [Handlers -> Labels]
  /\ req \in [Handlers -> Locals]
  /\ {late, setups, entries, calls, faults} \subseteq Nat

\* No covenant, and no request in flight.
Fresh ==
  /\ covState = "none" /\ gitTwin = FALSE
  /\ tiers = [t \in {} |-> [slots |-> Unlimited, fee |-> 0]]
  /\ identities = {} /\ members = <<>> /\ accessRequests = <<>>
  /\ ledger = <<>> /\ auditLog = <<>>
  /\ pc = [h \in Handlers |-> "idle"]
  /\ req = [h \in Handlers |-> NoReq]
  /\ late = 0

Init == Fresh /\ setups = 0 /\ entries = 0 /\ calls = 0 /\ faults = 0

\* A statement fails, within the bound.
Fault ==
  /\ faults < MaxFaults /\ faults' = faults + 1
  /\ UNCHANGED <<setups, entries, calls>>
-----------------------------------------------------------------------------
At(h, label) == pc[h] = label
Goto(h, label) == pc' = [pc EXCEPT ![h] = label]
Return(h) == Goto(h, "idle") /\ req' = [req EXCEPT ![h] = NoReq]

\* The handler goes on to label if the test holds and returns an error if not.
Test(h, ok, label) ==
  \/ ok /\ Goto(h, label) /\ UNCHANGED req
  \/ ~ok /\ Return(h)

Kind(h) == req[h].kind

\* Rows of a tier, whatever their status.
Occupants(t) == {a \in DOMAIN members : ~members[a].owner /\ members[a].tier = t}

\* UNIQUE(covenant_id, platform_id).
IsMember(p) == \E a \in DOMAIN members : members[a].platform = p
-----------------------------------------------------------------------------
(* The covenant itself.                                                    *)

\* Create: one transaction for the covenant, the owner's identity and row.
Create ==
  /\ covState = "none"
  /\ covState' = "DRAFT"
  /\ identities' = identities \cup {Founder}
  /\ members' = Append(members, [platform |-> Founder, tier |-> SomeTier,
       owner |-> TRUE, request |-> 0, status |-> "active"])
  /\ UNCHANGED <<gitTwin, tiers, accessRequests, ledger, auditLog, late, pc,
                 req, bounds>>

\* AddTier: one INSERT, whatever the state; the primary key refuses a repeat.
AddTier ==
  /\ covState # "none"
  /\ setups < MaxSetups /\ setups' = setups + 1
  /\ \E t \in Tiers \ DOMAIN tiers, row \in Tier :
       tiers' = [u \in DOMAIN tiers \cup {t} |-> IF u = t THEN row ELSE tiers[u]]
  /\ UNCHANGED <<covState, gitTwin, people, auditLog, late, pc, req, entries,
                 calls, faults>>

BeginSetup(h) ==
  /\ At(h, "idle") /\ covState # "none"
  /\ setups < MaxSetups /\ setups' = setups + 1
  /\ \E k \in SetupKinds : req' = [req EXCEPT ![h].kind = k]
  /\ Goto(h, "state")
  /\ UNCHANGED <<tables, entries, calls, faults>>

\* The state a kind of request wants to find.
Admits(k, s) == CASE k = "transition" -> s \in DOMAIN NextPhase
                  [] k = "set_git_twin" -> s = "DRAFT"
                  [] OTHER -> s = "OPEN"

\* Mutation of ReadState: joins and applications are taken in every state.
ReadStateEntriesAnyTime(h) ==
  /\ At(h, "state")
  /\ IF Admits(Kind(h), covState) \/ Kind(h) \in EntryKinds
     THEN /\ req' = [req EXCEPT ![h].state = covState]
          /\ Goto(h, CASE Kind(h) \in EntryKinds -> "tier"
                       [] Kind(h) = "set_git_twin" -> "update"
                       [] OTHER -> "count")
     ELSE Return(h)
  /\ UNCHANGED <<tables, bounds>>

\* Get, the first statement of Transition, SetGitTwin, Join and
\* CreateAccessRequest: the state is read here and relied on to the end.
ReadState(h) ==
  /\ At(h, "state")
  /\ \/ /\ Admits(Kind(h), covState)
        /\ req' = [req EXCEPT ![h].state = covState]
        /\ \/ Kind(h) \in EntryKinds /\ Goto(h, "tier")
           \/ Kind(h) = "set_git_twin" /\ Goto(h, "update")
           \/ /\ Kind(h) = "transition"
              /\ Goto(h, IF covState = "DRAFT" THEN "count" ELSE "update")
     \/ ~Admits(Kind(h), covState) /\ Return(h)
  /\ UNCHANGED <<tables, bounds>>

\* Transition counts the tiers before it leaves DRAFT.
CountTiers(h) ==
  /\ At(h, "count") /\ Kind(h) = "transition"
  /\ Test(h, DOMAIN tiers # {}, "update")
  /\ UNCHANGED <<tables, bounds>>

\* Transition: UPDATE covenants, without a condition on the state.
UpdateState(h) ==
  /\ At(h, "update") /\ Kind(h) = "transition"
  /\ covState' = NextPhase[req[h].state]
  /\ late' = 0
  /\ Return(h)
  /\ UNCHANGED <<gitTwin, tiers, people, auditLog, bounds>>

\* A write that the state the covenant now has would refuse.
CountLate(h) == late' = IF Admits(Kind(h), covState) THEN late ELSE late + 1

\* SetGitTwin: UPDATE covenants, to bind a repository or to clear the binding.
UpdateGitTwin(h) ==
  /\ At(h, "update") /\ Kind(h) = "set_git_twin"
  /\ gitTwin' \in BOOLEAN
  /\ CountLate(h)
  /\ Return(h)
  /\ UNCHANGED <<covState, tiers, people, auditLog, bounds>>
-----------------------------------------------------------------------------
(* Joining and applying.                                                   *)

BeginEntry(h) ==
  /\ At(h, "idle") /\ covState # "none"
  /\ entries < MaxEntries /\ entries' = entries + 1
  /\ \E k \in EntryKinds, p \in Platforms, t \in Tiers :
       req' = [req EXCEPT ![h] = [NoReq EXCEPT !.kind = k, !.platform = p,
                                               !.tier = t]]
  /\ Goto(h, "state")
  /\ UNCHANGED <<tables, setups, calls, faults>>

\* The tier is looked up: Join wants its max_slots, an application only it.
ReadTier(h) ==
  LET t == req[h].tier IN
  /\ At(h, "tier")
  /\ \/ /\ t \in DOMAIN tiers
        /\ Goto(h, IF Kind(h) = "join" /\ tiers[t].slots # Unlimited
                   THEN "count" ELSE "identity")
        /\ UNCHANGED req
     \/ t \notin DOMAIN tiers /\ Return(h)
  /\ UNCHANGED <<tables, bounds>>

\* Mutation of CountSlots: a tier with all its slots taken admits one more.
CountSlotsOffByOne(h) ==
  LET t == req[h].tier IN
  /\ At(h, "count") /\ Kind(h) = "join"
  /\ \/ /\ Test(h, Cardinality(Occupants(t)) <= tiers[t].slots, "identity")
        /\ UNCHANGED bounds
     \/ Test(h, tiers[t].slots > 0, "identity") /\ Fault
  /\ UNCHANGED tables

\* Join counts the rows of the tier, of every status.  The error of this
\* statement is dropped: when it fails, the count is 0.
CountSlots(h) ==
  LET t == req[h].tier IN
  /\ At(h, "count") /\ Kind(h) = "join"
  /\ \/ /\ Test(h, Cardinality(Occupants(t)) < tiers[t].slots, "identity")
        /\ UNCHANGED bounds
     \/ Test(h, tiers[t].slots > 0, "identity") /\ Fault
  /\ UNCHANGED tables

\* upsertPlatformIdentity: INSERT OR IGNORE.
UpsertIdentity(h) ==
  /\ At(h, "identity")
  /\ identities' = identities \cup {req[h].platform}
  /\ Goto(h, "insert")
  /\ UNCHANGED <<covState, gitTwin, tiers, members, accessRequests, ledger,
                 auditLog, late, req, bounds>>

\* Join: INSERT of a pending member, refused to a platform id that has a row.
InsertMember(h) ==
  /\ At(h, "insert") /\ Kind(h) = "join"
  /\ \/ /\ ~IsMember(req[h].platform)
        /\ members' = Append(members, [platform |-> req[h].platform,
             tier |-> req[h].tier, owner |-> FALSE, request |-> 0,
             status |-> "pending"])
        /\ CountLate(h)
     \/ IsMember(req[h].platform) /\ UNCHANGED <<members, late>>
  /\ Return(h)
  /\ UNCHANGED <<covState, gitTwin, tiers, identities, accessRequests, ledger,
                 auditLog, bounds>>

\* CreateAccessRequest: INSERT of a pending request, any number per platform.
InsertRequest(h) ==
  /\ At(h, "insert") /\ Kind(h) = "apply"
  /\ accessRequests' = Append(accessRequests,
       [platform |-> req[h].platform, tier |-> req[h].tier,
        status |-> "pending", approveLog |-> 0, rejectLog |-> 0])
  /\ CountLate(h)
  /\ Return(h)
  /\ UNCHANGED <<covState, gitTwin, tiers, identities, members, ledger,
                 auditLog, bounds>>
-----------------------------------------------------------------------------
(* The tools.                                                              *)

\* The owner decides on a member or a request.  Step 1 reads the owner's own
\* row, which is active and stays so: the call goes on to Step 2.
BeginDecision(h) ==
  /\ At(h, "idle")
  /\ calls < MaxCalls /\ calls' = calls + 1
  /\ \/ \E k \in AgentTools \ {"leave_covenant"}, a \in DOMAIN members :
          req' = [req EXCEPT ![h].kind = k, ![h].ref = a]
     \/ \E k \in AccessTools, n \in DOMAIN accessRequests :
          req' = [req EXCEPT ![h].kind = k, ![h].ref = n]
  /\ Goto(h, "check")
  /\ UNCHANGED <<tables, setups, entries, faults>>

\* A member leaves: Step 1 reads the caller's row, which Step 2 looks at.
BeginLeave(h) ==
  /\ At(h, "idle")
  /\ calls < MaxCalls /\ calls' = calls + 1
  /\ \E a \in DOMAIN members :
       /\ members[a].status = "active" /\ ~members[a].owner
       /\ req' = [req EXCEPT ![h].kind = "leave_covenant", ![h].ref = a]
  /\ Goto(h, "log")
  /\ UNCHANGED <<tables, setups, entries, faults>>

\* Mutation of CheckPending: members are decided on before it is logged.
CheckPendingUnlogged(h) ==
  /\ At(h, "check")
  /\ IF Kind(h) \in AgentTools
     THEN Test(h, members[req[h].ref].status = "pending", "apply")
     ELSE Test(h, accessRequests[req[h].ref].status = "pending", "log")
  /\ UNCHANGED <<tables, bounds>>

\* Mutation of CheckPending: members are decided on whatever their status.
CheckPendingRequests(h) ==
  /\ At(h, "check")
  /\ Test(h, \/ Kind(h) \in AgentTools /\ ~members[req[h].ref].owner
             \/ /\ Kind(h) \in AccessTools
                /\ accessRequests[req[h].ref].status = "pending", "log")
  /\ UNCHANGED <<tables, bounds>>

\* Step 2 of the owner's tools: the row decided on must be pending.
CheckPending(h) ==
  /\ At(h, "check")
  /\ Test(h, \/ /\ Kind(h) \in AgentTools
                /\ members[req[h].ref].status = "pending"
             \/ /\ Kind(h) \in AccessTools
                /\ accessRequests[req[h].ref].status = "pending", "log")
  /\ UNCHANGED <<tables, bounds>>

\* Step 5: the decision is logged before it is carried out.
WriteAuditLog(h) ==
  /\ At(h, "log")
  /\ auditLog' = Append(auditLog, [tool |-> Kind(h), ref |-> req[h].ref])
  /\ req' = [req EXCEPT ![h].log = Len(auditLog) + 1]
  /\ Goto(h, "apply")
  /\ UNCHANGED <<covState, gitTwin, tiers, people, late, bounds>>

\* Mutation of StatusOf: a member gets the status of an access request.
StatusOfRequest == [approve_agent |-> "approved", reject_agent |-> "rejected",
                    leave_covenant |-> "left"]

StatusOf == [approve_agent |-> "active", reject_agent |-> "rejected",
             leave_covenant |-> "left"]

\* Step 6 of approve_agent, reject_agent and leave_covenant: one UPDATE by
\* agent_id, whatever the row's status has become.
UpdateMember(h) ==
  /\ At(h, "apply") /\ Kind(h) \in AgentTools
  /\ members' = [members EXCEPT ![req[h].ref].status = StatusOf[Kind(h)]]
  /\ Return(h)
  /\ UNCHANGED <<covState, gitTwin, tiers, identities, accessRequests, ledger,
                 auditLog, late, bounds>>

\* Step 6 of the access tools reads the request again; then
\* ApproveAccessRequest looks up the platform id and the tier's fee, which
\* never change.
ReadRequest(h) ==
  /\ At(h, "apply") /\ Kind(h) \in AccessTools
  /\ Test(h, accessRequests[req[h].ref].status = "pending", "resolve")
  /\ UNCHANGED <<tables, bounds>>

Granted(n, l) ==
  [accessRequests EXCEPT ![n].status = "approved", ![n].approveLog = l]

FeeRows(n, l) ==
  LET fee == tiers[accessRequests[n].tier].fee
  IN IF fee > 0
     THEN Append(ledger, [agent |-> Len(members) + 1, delta |-> -fee,
                          request |-> n, log |-> l])
     ELSE ledger

\* Mutation of ApproveAccess: the fee is booked although the member is not
\* inserted, as without the transaction.
ApproveAccessUntied(h) ==
  LET n == req[h].ref  r == accessRequests[n] IN
  /\ At(h, "resolve") /\ Kind(h) = "approve_agent_access"
  /\ members' = IF IsMember(r.platform) THEN members
                ELSE Append(members, [platform |-> r.platform, tier |-> r.tier,
                       owner |-> FALSE, request |-> n, status |-> "active"])
  /\ accessRequests' = Granted(n, req[h].log)
  /\ ledger' = FeeRows(n, req[h].log)
  /\ Return(h)
  /\ UNCHANGED <<covState, gitTwin, tiers, identities, auditLog, late, bounds>>

\* ApproveAccessRequest: one transaction inserts the member, flips the request
\* and books the fee, or fails on a platform id that has a row.
ApproveAccess(h) ==
  LET n == req[h].ref  r == accessRequests[n] IN
  /\ At(h, "resolve") /\ Kind(h) = "approve_agent_access"
  /\ \/ /\ ~IsMember(r.platform)
        /\ members' = Append(members, [platform |-> r.platform, tier |-> r.tier,
             owner |-> FALSE, request |-> n, status |-> "active"])
        /\ accessRequests' = Granted(n, req[h].log)
        /\ ledger' = FeeRows(n, req[h].log)
     \/ IsMember(r.platform) /\ UNCHANGED <<members, accessRequests, ledger>>
  /\ Return(h)
  /\ UNCHANGED <<covState, gitTwin, tiers, identities, auditLog, late, bounds>>

\* RejectAccessRequest: one UPDATE, whatever the status has become.
RejectAccess(h) ==
  /\ At(h, "resolve") /\ Kind(h) = "reject_agent_access"
  /\ accessRequests' = [accessRequests EXCEPT ![req[h].ref].status = "rejected",
                                       ![req[h].ref].rejectLog = req[h].log]
  /\ Return(h)
  /\ UNCHANGED <<covState, gitTwin, tiers, identities, members, ledger,
                 auditLog, late, bounds>>
-----------------------------------------------------------------------------
\* A statement fails: the request ends where it is, its earlier writes stay.
StatementFails(h) ==
  /\ ~At(h, "idle")
  /\ ~(At(h, "count") /\ Kind(h) = "join")
  /\ Fault
  /\ Return(h)
  /\ UNCHANGED tables

\* The server dies and restarts: the requests in flight are gone.
Crash ==
  /\ \E h \in Handlers : ~At(h, "idle")
  /\ Fault
  /\ pc' = [h \in Handlers |-> "idle"]
  /\ req' = [h \in Handlers |-> NoReq]
  /\ UNCHANGED tables

SetupStep(h) == \/ BeginSetup(h) \/ ReadState(h) \/ CountTiers(h)
                \/ UpdateState(h) \/ UpdateGitTwin(h)
EntryStep(h) == \/ BeginEntry(h) \/ ReadTier(h) \/ CountSlots(h)
                \/ UpsertIdentity(h) \/ InsertMember(h) \/ InsertRequest(h)
CallStep(h) == \/ BeginDecision(h) \/ BeginLeave(h) \/ CheckPending(h)
               \/ WriteAuditLog(h) \/ UpdateMember(h) \/ ReadRequest(h)
               \/ ApproveAccess(h) \/ RejectAccess(h)

Next ==
  \/ Create \/ AddTier \/ Crash
  \/ \E h \in Handlers :
       SetupStep(h) \/ EntryStep(h) \/ CallStep(h) \/ StatementFails(h)

Spec == Init /\ [][Next]_vars
-----------------------------------------------------------------------------
(* Properties.                                                             *)

Joined(t) == {a \in Occupants(t) : members[a].request = 0}

\* Join counts and inserts in two statements, and takes a failed count for 0,
\* so a tier is overbooked; but by fewer joins than there are handlers and one
\* for each failure, and a tier of no slots admits nobody.
OverbookingBounded ==
  \A t \in DOMAIN tiers :
    LET s == tiers[t].slots IN
    s # Unlimited =>
      /\ s = 0 => Joined(t) = {}
      /\ Cardinality(Joined(t)) <= s + Cardinality(Handlers) - 1 + faults

\* A member admitted by an access request is bound to it by the log, and is
\* charged the tier's fee exactly once, however approvals and rejections of
\* one request, and the requests of one applicant, race.
FeeBookedOnce ==
  /\ \A n \in DOMAIN accessRequests :
       LET r == accessRequests[n]
           fee == tiers[r.tier].fee
           rows == {i \in DOMAIN ledger : ledger[i].request = n}
           admitted == {a \in DOMAIN members : members[a].request = n}
       IN /\ Cardinality(admitted) = IF r.approveLog = 0 THEN 0 ELSE 1
          /\ Cardinality(rows) = IF fee > 0 THEN Cardinality(admitted) ELSE 0
          /\ \A a \in admitted : members[a].platform = r.platform
          /\ \A i \in rows : /\ ledger[i].agent \in admitted
                             /\ ledger[i].delta = -fee
                             /\ ledger[i].log = r.approveLog
          /\ r.approveLog # 0 =>
               auditLog[r.approveLog] = [tool |-> "approve_agent_access",
                                         ref |-> n]
  /\ \A i \in DOMAIN ledger : ledger[i].request \in DOMAIN accessRequests

Logged(tool, a) == {l \in DOMAIN auditLog : auditLog[l] = [tool |-> tool, ref |-> a]}

\* The owner's decisions that let member a in.
Approvals(a) ==
  Cardinality(Logged("approve_agent", a))
    + (IF members[a].request # 0 THEN 1 ELSE 0)

\* Nobody gets in, is turned down or goes without a logged decision to that
\* effect, however the calls on one member race and wherever the server dies.
StatusIsDecided ==
  \A a \in DOMAIN members :
    LET m == members[a] IN
      /\ m.owner => m.status = "active"
      /\ ~m.owner /\ m.status \in {"active", "left"} => Approvals(a) > 0
      /\ m.status = "rejected" => Logged("reject_agent", a) # {}
      /\ m.status = "left" => Logged("leave_covenant", a) # {}

\* Calls past their check that may still write member a, or request n.
UnderWay(kinds, i) ==
  {h \in Handlers : /\ Kind(h) \in kinds /\ req[h].ref = i
                    /\ pc[h] \in {"log", "apply", "resolve"}}

\* A member or an access request on which no decision is under way: a decision
\* checked earlier may still overwrite another, but only until it is through.
FinalMembers ==
  {a \in DOMAIN members : /\ members[a].status \in {"left", "rejected"}
                          /\ UnderWay(AgentTools, a) = {}}
FinalRequests ==
  {n \in DOMAIN accessRequests : /\ accessRequests[n].status # "pending"
                                 /\ UnderWay(AccessTools, n) = {}}

FinalIsKept ==
  /\ \A a \in FinalMembers : /\ members'[a] = members[a]
                             /\ UnderWay(AgentTools, a)' = {}
  /\ \A n \in FinalRequests : /\ accessRequests'[n] = accessRequests[n]
                              /\ UnderWay(AccessTools, n)' = {}

\* Step 2 checks and Step 6 updates without a condition, so a member who left
\* can be active again and an approved request end as rejected; yet once no
\* call on it is under way, a decision stands for good.
DecisionsStand == [][FinalIsKept]_vars

\* What is written on a state that a transition has left since (a member, an
\* application, a git twin binding) was under way at the transition: fewer
\* than one write per handler, and none once those are through.
StaleWritesBounded == late <= Cardinality(Handlers) - 1
=============================================================================
