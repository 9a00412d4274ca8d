# A TLA+ model of acp-server

acp-server runs *covenants*: groups of agents that contribute to a work, are
credited tokens for what the owner approves, are charged for calls against a
budget, and are paid out at settlement. It is an HTTP server in Go over one
SQLite file. This directory holds TLA+ modules translated from that code, the TLC
configurations that check them, and TLAPS proofs about them.

## Inventory of the system

The database is opened with one connection (`internal/db/db.go`), so one
statement, or one transaction, is atomic. Every request is served by a goroutine
of its own, so two requests interleave between any two statements. Nearly
everything hard about this program follows from these two facts. All durable
state is in SQLite; what dies with the process is the locals of the calls in
flight.

| Component | State | Operations | What makes it correct |
|---|---|---|---|
| Execution engine (`internal/execution`) | none of its own; the locals of `Run` | the eight steps of `Run` | authorize, log, settle in that order; every path returns; a failed call leaves no charge |
| Budget (`internal/budget`) | `budget_counters`, `budget_reservations` | EnsureCounter, CheckAndReserve, RecordSpend, Release, ReleaseReservation, RebuildFromAuditLog | no charge twice; the counter agrees with the log; a bounded overshoot; no reservation forgotten |
| Rate limiter (`internal/ratelimit`) | `rate_limit_counters`, `anti_gaming_policies` | CheckAndIncrement, UpsertPolicy, clean-up | at most the quota per agent and hour |
| Contribution tools (`tools/propose_passage.go`, `approve_draft.go`, `reject_draft.go`) | `pending_tokens`, `token_ledger` | propose, approve (by draft or by log id), reject | a draft is credited to its proposer, once, and is not lost |
| Audit chain (`internal/audit`) | `audit_logs` | LogEvent, VerifyChain | gapless, linked, append-only |
| Covenant lifecycle (`internal/covenant`) | `covenants`, `access_tiers`, `token_snapshots` | Create, AddTier, SetGitTwin, Transition, CaptureSnapshot | states only advance; a locked covenant has its snapshot; what relied on a state ends with it |
| Membership (`internal/covenant`, `tools/*agent*.go`) | `covenant_members`, `agent_access_requests`, the fee rows of `token_ledger` | Join, apply, approve, reject, leave | nobody is in or out without a decision; decisions stand; slots are respected; one fee per admission |
| Settlement (`internal/settlement`, two tools) | `settlement_outputs` | generate, confirm | one confirmed output, of the balances that were locked |
| Git twin, server side (`internal/api/git_twin.go`, `internal/gittwin`) | `git_twin_events`, `git_twin_anchors` | merge, record event, enqueue, list and acknowledge anchors | one award per merge; a written anchor keeps its commit |
| Git bridge (`cmd/acp-git-bridge`) | a clone cache | webhook to merge, poll anchors, write notes, acknowledge | what is acknowledged is published for good; every anchor is written in the end |
| Sessions (`internal/sessions`) | `session_tokens` | Issue, Rotate, Validate, ExpireGraceTokens | a rotation supersedes every earlier token; the grace period ends; nobody is locked out |
| Keyring, re-encryption (`internal/keys`, `internal/reencrypt`, `internal/crypto`, `internal/covenant/backfill.go`) | key files, sealed columns | open, migrate, Rotate, reencrypt, backfill | every sealed row can be opened; a pass reseals every row; seals move forward |
| Token rules, concentration, doctor, MCP adapter, ids | none, or one row | pure functions, proxies, diagnostics | outside TLC's reach or without interleaving |

How they interact: an HTTP handler authenticates the caller and calls
`Engine.Run(covenant, agent, tool)`. `Run` reads the covenant and the member,
calls the rate limiter, the tool's `CheckPreconditions`, the budget gate, the
tool's `ExecuteLogic`, computes the effects, appends the audit row, calls the
tool's `ApplySideEffects` and then records the spend. Some handlers
(transition, set budget, join, apply, session rotation) bypass the engine and
write the same tables. The git bridge is a second process that calls the server
over HTTP and may repeat any call; it shares the repository's notes ref with
other bridges. The subcommands `rotate-key` and `reencrypt` are processes of
their own, which share the keyring directory and the database with a running
server.

The behaviours that are hard: statements of two calls in any order; a value read
in one statement and used after another call changed the row (the covenant's
state, a pending draft, a balance, the counter, a member's status); errors dropped on purpose
(`ReleaseReservation`, the settlement UPDATE, the read of the cost to refund,
`logRejection`, the git twin's event row); a crash between the audit row and its
effects, or between the creation of a key file and its contents; calls that are
repeated because their answer was lost; and calls that are legal one by one in an
order that is not. PROJECT.json lists them with their
lines under `hazards`.

## The modules

| Module | What it is |
|---|---|
| `Engine` | `Run`, the budget, the rate limiter and the audit log for one covenant. A handler is a process with a program counter (`pc`) and the locals of `Run` (`run`). The tool's three hooks succeed or fail freely. |
| `DraftTools` | Extends `Engine` with the tables and hooks of the three contribution tools; each of its steps is an engine step with the tool's own statement conjoined. |
| `ContributionLedger` | What the ledger promises: a book in which an entry is booked once and can only be rejected. `DraftTools` implements it. |
| `Settlement` | Extends `DraftTools` with the two settlement tools, the owner's transition requests (processes of their own, since they bypass the engine), the snapshot and the enqueued anchors. |
| `Membership` | How a covenant comes into being and who gets in: creation, tiers, DRAFT to ACTIVE, the git twin binding, joins, applications and the five tools that decide on them. |
| `GitTwin` | The server and its bridges as processes that die alone: webhook deliveries that become proposals and approvals, and anchors that become notes of the repository. |
| `Keyring` | The key directory as files that are created and written in two steps, and the processes that open it, rotate it and seal rows under it. |
| `Sessions` | Session tokens under requests that validate, expire and rotate them while time passes. |
| `MCEngine`, `MCDraftTools`, `MCSettlement`, `MCMembership`, `MCGitTwin`, `MCKeyring`, `MCSessions` | Requests, initial states and instances for TLC. |
| `EngineProofs` | TLAPS proofs about `Engine`. |
| `DraftProofs` | Proofs about `DraftTools`; extends `EngineProofs`, whose theorems it carries over, and `Sums`. |
| `SettlementProofs` | Proofs about `Settlement`; extends `DraftProofs`, whose invariants it carries over. |
| `MembershipProofs` | Proofs about `Membership`. |
| `GitTwinProofs` | Proofs about `GitTwin`; extends `Sums`. |
| `KeyringProofs` | Proofs about `Keyring`; extends `Sums` for the largest of a set of numbers. |
| `SessionsProofs` | Proofs about `Sessions`. |
| `Sums` | Lemmas about the community modules' `SumFunctionOnSet`. |

`Membership` meets the engine's modules at ACTIVE: what they take for a member
and a state is what it produces, and its tool calls are the part of `Run` that an
admin tool without cost or quota can change. `GitTwin` takes a call of the engine
as one step with the outcomes that `Engine` and `DraftTools` allow it, and the
anchors that `Settlement` enqueues as given. `Keyring` and `Sessions` share no
state with the rest.

### State

`covState`, `memberStatus`, `callCount`, `budget`, `reservations` and `auditLog`
are the rows of `covenants.state`, `covenant_members.status`,
`rate_limit_counters`, `budget_counters`, `budget_reservations` and
`audit_logs`. A row of the audit log is known by its position, which is its
`sequence` and stands for its `log_id`. `pending` and `ledger` are
`pending_tokens` and `token_ledger`; the ledger is a function of the log id
because that column is UNIQUE. `run[r]` keeps the call, the covenant's state as
Step 1 read it, the reservation id, the log id and the effects; `local[r]` keeps
the locals of the tool (the draft it has claimed, its proposer, the balance it
has read, the cost to return). `outputs`, `snapshots` and `anchors` are
`settlement_outputs`, `token_snapshots` and `git_twin_anchors` in the order of
insertion; `work[r]` keeps the locals of `Generate` and of the confirmation,
`move[m]` those of `Transition`, with the snapshot rows still to be inserted.
The distributions of an output are kept as the balances they are computed from.
A roll-up hash commits to the snapshot rows there are, which are only added to,
so their number stands for it.

In `Membership` the index of a row of `members` and `accessRequests` stands for
`agent_id` and `request_id`; `tiers` is a function because `tier_id` is a key;
`req[h]` keeps what a request has read. In `GitTwin`, `gitEvents` is
`git_twin_events.status` by `draft_ref`, `hooks` are the deliveries a bridge
serves, `acks` the acknowledgements the server works on, `commits` the commits of
the notes ref with their history, `origin` and `clone[b]` the refs that point at
them. In `Keyring`, `files[v]` is what `v{N}.key` holds, a key or too few bytes,
`ring[p]` what process `p` has loaded and `rows[r]` the version and key of a
seal. In `Sessions`, `tokens` is `session_tokens` in the order of insertion.

Variables that a comment calls *history* (`overlaps`, `late`, `request` of a
member, `others`, `superseded`) are not in the code; no guard reads them, and they
let a property speak of what happened earlier.

### Actions and code

| Step of `Run` | Actions |
|---|---|
| request arrives | `Begin` |
| 1 identity | `GetCovenant`, `GetMember`, `IdentityFails` |
| 1.5 rate limit | `RateLimitGate` |
| 2 preconditions | `PreconditionsPass`, `PreconditionsFail`; `ProposeCheck`, `ApproveCheck`, `RejectCheck` |
| 2.5 budget gate | `CheckAndReserve` |
| any error of 1.5, 2, 2.5 | `GateFails`, then `LogRejection` |
| 3 ExecuteLogic | `ExecuteSucceeds`, `ExecuteFails`, `ExecuteStatementFails`, `ExecuteOverlooks` (a read error the tool drops); `ProposeExecute`, `ApproveWithoutUnits`, `ApproveFindDraft`, `ApproveClaim`, `ApproveDelete`, `RejectExecute` |
| 4 effects, currency | `CalculateEffects` |
| 5 audit log | `WriteAuditLog`, `AuditLogFails` |
| 6 ApplySideEffects | `ApplySucceeds`, `ApplyRefund`, `ApplyFails` (the tool refuses), `ApplyStatementFails`, `ApplyOverlooks` (a best-effort statement fails); `ProposeApply`, `ConfirmRead`, `ConfirmInsert`, `RejectUpdate`, `RejectRefund`; `GenerateGet`, `GenerateTotal`, `GenerateSave`; `ConfirmOutputMark`, `ConfirmOutputGet`, `ConfirmOutputFlip`, `ConfirmOutputRollup`, `ConfirmOutputAnchor`, `ConfirmOutputUnanchored` |
| 7 settle | `RecordSpend`, `RecordSpendFails`, `SettleReservation` |
| release on an error | `ReleaseReservation` |
| outside `Run` | `SetBudget`, `HourPasses`, `Crash`/`Restart`, `CovenantChanges`/`Advance`, `MemberChanges`/`Leave` |
| `handleTransition`, from ACTIVE | `MoveGet`, `MoveFlip`, `MoveCapture` (the query of `CaptureSnapshot`), `MoveInsert` (one row), `MoveFails`; `ServerDies` |


| Code | Actions of `Membership` |
|---|---|
| `Create`, `AddTier` | `Create`, `AddTier` |
| `Transition` up to ACTIVE, `SetGitTwin` | `BeginSetup`, `ReadState`, `CountTiers`, `UpdateState`, `UpdateGitTwin` |
| `Join`, `CreateAccessRequest` | `BeginEntry`, `ReadState`, `ReadTier`, `CountSlots`, `UpsertIdentity`, `InsertMember`, `InsertRequest` |
| the tools of members | `BeginDecision`/`BeginLeave`, `CheckPending`, `WriteAuditLog`, `UpdateMember` |
| the tools of access requests | the same, `ReadRequest`, then `ApproveAccess` or `RejectAccess` |
| an error, a crash | `StatementFails`, `Crash` |

| Code | Actions of `GitTwin` |
|---|---|
| `ServeHTTP`, `postMerge` of the bridge | `Deliver`, `PostMerge`, `PostTimesOut`, `HookDone` |
| `handleGitTwinMerge` | `Idempotency`, `FindAuthor`, `Propose`, `RecordProposal`, `Approve`, `MarkApproved` |
| `EnqueueAnchor`, `ListPendingAnchors` | `EnqueueAnchor`, `ListPending` |
| `AnchorWriter.Write`, `drainAnchors` | `Fetch`, `AddNote`, `Push`, `NextAnchor` |
| `ackAnchor`, `AckAnchor` | `PostAck`, `AckTimesOut`, `AckRead`, `AckUpdate` |
| a process dies | `BridgeDies`, `ServerDies` |

| Code | Actions of `Keyring` |
|---|---|
| `NewLocalKeyfileProvider` | `Scan`, `Read`, `LegacyExists`, `StatTarget`, `Rename`, `Create`, `Write`, `WriteFails`, `Opened` |
| `Rotate` | `Create`, `Write`, `WriteFails` |
| `BackfillPlatformIdentities` | `SelectLegacy`, `Fill` |
| an upsert of the server | `InsertRow` |
| `reencrypt.Run` | `SelectRows`, `Reseal`, `PassEnds` |
| the process | `Start`, `Stop`, `Dies` |

`Sessions` has one action for each statement: `Issue`, `Validate`, `Expire`,
`Rotate`, with `Begin`, `CallFails` and the clock's `Tick`.

What is abstracted: names, texts, prices and ratios are members of small sets;
the covenant has one tool bucket for the rate limit of an agent; the audit row
keeps the columns that the properties read; hashes are left out; `NetDelta` is a
float nobody reads back. A failed statement (`StatementFails`, `Fault`) is a disk
or lock error the code checks for, or drops. In `Membership` only the log rows of
successes are kept. In `GitTwin` each note makes one commit of the notes ref, and
which commit of the branch it is attached to is left out. In `Keyring` a seal is
the version in its header and the key it was made with, and the two sealed tables
are one set of rows. Time in `Sessions` does not run backwards.

A definition named "Mutation of ..." is not part of the model: it is the
definition it precedes with one plausible mistake in it. PROJECT.json pairs each
property with such a mistake, under which TLC finds the property violated.

## The runs

| Run | Instance | What it shows |
|---|---|---|
| `engine` | 2 handlers, 1 member, 3 calls of cost 0 or 1, 2 hours, 1 crash, 1 failed statement, a quota of 2, a limit of 1 set at any time | a settled reservation is logged, once; open reservations are explained by crashes and dropped errors; the hourly quota holds; the limit is overshot by at most one call of each handler but one |
| `drafts_concurrent` | 2 handlers, 4 calls on one proposed draft, covenant locks and settles, writer leaves | every entry and every reversal is explained by the log; an award goes to the proposer; a draft is credited at most once per handler; the ledger implements `ContributionLedger` |
| `drafts_faults` | 2 handlers, 3 calls, a crash and a failed statement, fair handlers | a logged proposal is lost only to one of those; every call returns |
| `drafts_sequential` | 1 handler, 4 calls, limit 2, quota 2, two hours | served one at a time: no overshoot, the counter is what `RebuildFromAuditLog` would compute, `balance_after` is exact |
| `drafts_overspend` | 2 handlers, 2 calls, limit 1 | *violation*: the README of the server promises "no double-spend" of the budget |
| `drafts_settled` | 1 handler, 3 calls | *violation*: the README calls SETTLED "final, immutable"; `reject_draft` still changes it |
| `settlement` | 2 handlers, 3 calls (approve, generate, confirm) after the 3 already made, 1 transition request, from an ACTIVE or a just LOCKED covenant, 1 crash, 1 failed statement | an anchor stands for a confirmed output of a SETTLED covenant; an output has its own trigger row; at most one confirmed output per handler; one snapshot row per agent, which misses at most one award per handler |
| `settlement_lock` | 1 handler, 2 approvals, 1 transition request | *violation*: a comment says that the lock freezes the ledger into a snapshot; an approval in flight is booked after it |
| `membership` | 2 handlers, 3 people and a founder, 1 tier of no, one or any number of slots and a fee, up to 3 setups, 3 entries, 3 decisions, 1 crash or failed statement | overbooking and late writes stay within bounds; one fee per admission; nobody's status lacks a decision; decisions stand |
| `gittwin` | 2 covenants on one repository, 1 merge delivered twice, 2 server handlers; 2 bridges, 2 anchors; 1 fault of any kind, fair bridges | a merge is awarded once but for overlaps and faults; a written anchor is in the published history, keeps its commit, and every anchor is written in the end |
| `keyring` | 2 processes started up to 6 times as any subcommand, 2 rows, 3 versions, 2 faults, with or without a legacy key and unsealed rows | every sealed row can be opened; a pass reseals what nobody else has written; seals move only forward |
| `sessions` | 2 requests, 2 agents, 4 tokens, grace of 1, 4 instants, 1 failure | grace is never extended; a rotation supersedes every earlier token; an agent's latest token is active |

Why the bounds are enough. Two handlers are the smallest number at which two
calls race, and every race found here is one of two; the proofs lift every
invariant and action property of these runs to any number. Three calls on two
handlers let a call begin after one has ended and beside another. One crash and one failed statement each reach every
program counter; two hours let a call straddle the boundary. Limits and costs are
chosen so that the gate answers both ways. Runs that begin with a proposed draft
(`ProposedInit`) start in the state that one call of `propose_passage` reaches,
`settlement` (`BookedInit`) in one that three calls and a lock reach;
`drafts_sequential` reaches it by itself.

In `membership`, three entries are one more than a tier of one slot can be
overbooked by without a failure; to keep the run small, entries are explored in
full without decisions, and decisions after two entries, from two initial states
that differ from `Init` in the counters only. `gittwin` does the same with merges
and anchors, which share no state. Two bridges are enough for a rejected push,
for an acknowledgement that comes too late and for one that is repeated; two
covenants for a merge that is sent twice under one key. In `keyring`, three
versions let a rotation follow the version a server has and be followed by
another, and six starts let two processes race twice over and a third look at
what they left. In `sessions`, four tokens on two agents let one be rotated twice
and issued twice, and four instants let a grace period begin, be asked to begin
again, and end.

`CHECK_DEADLOCK FALSE` is stated because a bounded run ends when its calls are
used up.

What the sequential and the concurrent runs say together: `WithinLimit`,
`CounterIsRebuildable` and `BalanceAfterExact` are kept by each tool and lost only
to interleavings (the check-only gate; two rejections, or a rejection before the
approval has spent; two awards to one agent). The concurrent runs state what
survives instead.

### Fairness

`DraftFairness` is weak fairness of each handler's own step. It is justified by
the Go runtime and net/http: a handler goroutine is never abandoned, the one
database connection is handed out in the order of requests, and no step waits for
another call. Nothing is assumed of clients, of the owner, of the clock or of
crashes; `Begin` is not fair.

`Fairness` of `GitTwin` is weak fairness of each bridge's anchor loop
(`runAnchorLoop` polls on a ticker for as long as the process lives, a bridge that
died is started again, and git commands and HTTP calls end by their context or
their client's time-out) and of the acknowledgements the server has begun. Nothing
is assumed of webhooks, of the merge handler, of the fetch's success or of which
bridge's push wins; the faults are bounded, since a fault that returns for ever
keeps an anchor pending for ever.

## The proofs

Every theorem is about a specification with all its crashes and failed
statements, for every set of handlers, agents, platforms and calls and for every
bound, under the assumption of its module and of those it extends
(`ConstantsAssumption`, `DraftToolsAssumption`, `SettlementAssumption`,
`MembershipAssumption`, `GitTwinAssumption`, `KeyringAssumption`,
`SessionsAssumption`: finitely many handlers or rows, calls of the right type,
natural numbers, the names of the tools). Three hypotheses more are stated in the
theorems that need them, and the runs that check the same properties have them:

* `OneAtATime`, that one handler serves the calls, for the three properties that
  two handlers break;
* `OneMover`, that there is one transition request at a time, for those of
  `Settlement` that need the covenant's state to go forward only, which two
  overlapping requests break (see below);
* `AwardsBounded`, that awards are natural numbers and have a largest, for
  `SnapshotMissesBounded`: its bound is counted in largest awards, and
  `approve_draft` takes an acceptance ratio as it comes, a negative one too.

What each module proves, and along which argument:

* `EngineProofs`: `TypeCorrect`, one step per action. Its content is that no
  index, amount or counter leaves its range; in particular `budget_spent` stays a
  natural number because `Release` clamps at zero.
* `EngineProofs`: `SettledReservationsAreLogged` and `NoChargeSettlesTwice`.
  Neither property is inductive, since a settlement takes its amount, its row and
  its reservation from locals that were set several steps before. `ChargeInv`
  says what those locals mean in between: a held reservation is open, is for the
  cost of the call and has one holder (`HeldIsOpen`, `HeldOnce`); from Step 5 on
  the call names its own success row, no other call names it, and no settled
  reservation does (`LogIsOwn`, `LogOnce`, `LogUnused`). Steps that only let go of
  such claims are handled together (`Keeps`, `QuietStep`); the steps that
  make or use one have a lemma each.
* `EngineProofs`: three counting arguments over the handlers.
  `OrphansAlwaysExplained` needs `HeldLate`, that a reservation is held only from
  Step 3 on: no step but a crash, a failed statement or a dropped error lets go of
  an open one, and a crash lets go of one for each handler at most.
  `QuotaAlwaysRespected` needs `QuotaInv`, which ties the rows and the calls
  inside to the bucket of this hour and to the full quotas of those before.
  `OvershootAlwaysBounded` needs `SpentInv`: while there are calls past the gate
  (`Chargers`), one of them is such that the counter would stay in bounds if
  it paid its cost and all of them the most a call may cost. The witness is the
  last call to pass the gate, and the invariant survives it because the gate saw
  the counter below the limit. `LogRoom` says that a call is logged once at most,
  so the audit log fits the calls begun.
* `DraftProofs`: `ToolsImplementEngine` shows that each step of a tool is the
  engine's step with a statement conjoined, so the engine's theorems carry over
  (`ToolsSettleLogged` is one of them). `BookAlwaysLogged`,
  `AwardAlwaysToProposer` and the refinement `LedgerIsBook` follow from `DraftInv`:
  what the locals of each tool mean at each of its statements (`ToolOK`: the
  approval was decided by the owner in ACTIVE and its draft was proposed by the
  agent it will pay; the entry to be rejected exists and is older than the call's
  own row), that every pending draft has a logged proposal (`PendingProposed`),
  and that no entry is booked under a row whose call is still to book it
  (`Unbooked`). `DraftTablesTyped` bounds what the tables hold.
* `DraftProofs`: `CreditsAlwaysBounded` and `DraftsAlwaysConserved` from
  `CountInv`. A call has a number of its own (`NumbersOK`); a draft that is still
  open is not in the book, and nobody has claimed it but approvals that are yet to
  take it off the table (`OpenOK`); the credits of a draft and the handlers that
  may still credit it are together no more than the handlers (`ClaimsBounded`),
  and a draft that is off the table gets no new claimer. A logged proposal that
  is neither open nor booked nor in a handler's hands has its loss charged to a
  crash, which takes one from each handler at most, or to a failed statement.
* `DraftProofs`: what holds of calls served one at a time. `LimitAlwaysKept`:
  with room for the call that is past the gate, spending is within the limit
  (`LimitInv`), from a budget set before the first call (`BudgetedSpec`).
  `BalanceAfterAlwaysExact`: an approval inserts its entry after all others
  (`OwnIsLast`) and the balance it has read is still the agent's (`ReadIsBalance`).
  `CounterAlwaysRebuildable`: while nothing has failed, the counter equals the
  rebuilt one but for the call under way, which may have logged a charge it has not
  recorded yet or rejected an entry it has not refunded yet (`CounterExact`); that
  needs that the rejection knows the cost in the entry's own row and that the entry
  was not rejected before (`RejectKnows`), and that a charge being recorded is one
  the rebuilding counts (`OwnCharged`).
* `SettlementProofs`: `SettleInv` keeps `DraftInv` beside the settlement steps,
  which leave its tables alone, and adds what the locals of `Generate`, of the
  confirmation and of the transition requests mean (`GenerateOK`, `ConfirmOK`,
  `WorkOK`, `Triggered`: an output names a row of its own, which no call is still
  to write). Hence `SettleTypes`, `OutputsAlwaysTriggered`, `SettlementKeepsBook`
  and the refinement `SettlementIsBook`.
* `SettlementProofs`, with one transition request at a time:
  `AnchoredAlwaysSettled` from `PhaseInv` (a request that has read ACTIVE finds it
  ACTIVE, so the state only goes forward, and a confirmation that gets to its
  anchors has settled the covenant); `SnapshotAlwaysOnce` from `SnapshotInv` (only
  the request that locks captures, before there is any row, and the rows it is
  still to insert are of agents who have none); `ConfirmedAlwaysBounded` from
  `ConfirmInv` (before SETTLED each confirmed output has its confirmation still
  before the flip, or was left by a crash or a failed statement; afterwards the
  confirmed outputs and those who have read LOCKED and may still mark one are
  bounded together); `SnapshotMissesAlwaysBounded` from `MissInv` (from the lock on
  nobody joins the approvals that read ACTIVE and may still be booked; what an agent
  has, and one largest award for each of those, stays within what the snapshot
  shows and one for each handler).
* `MembershipProofs`: typing; `StatusAlwaysDecided` from
  `OutIsDecided` (whoever is past the check has logged what it will write);
  `StaleWritesAlwaysBounded` from `LateInv` (late writes and the requests that may
  still make one are together fewer than the handlers, since the transition itself
  takes one); `OverbookingAlwaysBounded` from `SlotsInv` (those who joined and those
  counted and about to are bounded together); `FeeAlwaysBookedOnce` from `FeeInv`;
  and the action property `DecisionsAlwaysStand`, which needs that nobody gets past
  Step 2 with a row that is already decided.
* `GitTwinProofs`: `WrittenAlwaysPublished` and `WrittenAlwaysStands`, from
  `NotesInv`. What the server stores it takes from an acknowledgement, that from
  the clone's ref at the push, and that from the anchor the drain was at when it
  made the commit; so the invariant says at each of these places that the commit
  notes the anchor, and from the push on that it is published (`BridgeOK`,
  `AckOK`). A published commit stays published because the history of a commit
  contains those of its commits (`HistoryClosed`) and a push only goes forward. A
  bridge waits for one acknowledgement at most and does nothing else meanwhile,
  or an answer would move it past an anchor it is still writing.
  `MergesAwardedOnce` is apart from these: `MayAward` says that the awards of a
  merge and the handlers that may still award it fit an allowance of one, one more
  for each delivery that overlapped another and one for each fault, and
  `MarkIsAwarded` that a merge is marked only after its award.
* `KeyringProofs`: `KeyringTypes`, `SealedRowsCanBeOpened`, `PassesReseal` and the
  action property `SealsOnlyAdvance` from `KeyringInv`. Files come and
  go under a process that has listed the directory before; the invariant says what
  stays. A legacy key is there only while every process is still opening and there
  is no other key (`LegacyOK`), so the renaming takes it from nobody; a short file
  is written by the one process that created it (`WritersOK`, `RingOK`); so a
  process has in memory what the files hold (`RingOK`), a sealed row was sealed
  with the key that its version's file holds (`RowsOK`), and a row a pass has still
  to do is as it was when the pass read it, unless another process has written it
  (`TodoOK`).
* `SessionsProofs`: `GraceNeverExtended` and `RotationIsComplete` from
  `SessionsInv`, which ties the history of rotations to the columns: a token that
  was superseded is not active and was moved to grace at the time of its first
  rotation, never later.
* `Sums`: the sum over a set with an element added, removed or changed, and its
  range. The library's facts about folds and its induction theorems take operators
  as parameters, so these are proved from a smallest counterexample, with the
  theorem on well-founded relations, which takes a set.

Each invariant was checked by TLC on an instance before it was proved. What is
model-checked only: liveness (`ToolCallsReturn`, `AnchorsAreWritten`), since
fairness and ENABLED are beyond the prover. Every invariant, action property and
refinement that a passing run checks is a theorem.

## Where the code and its documents, or one's expectations, part

Three runs show a disagreement with a sentence of the repository (see `findings`
in PROJECT.json). What follows was met while modelling. The properties are worded
so as not to claim the contrary, and none of it is excluded by the code.

* `AnchoredIsSettled` and `SnapshotOnce` are checked with one transition request at
  a time. With two, `Transition`, which reads the state and writes it
  unconditionally in two statements, takes a second snapshot, and a lock request
  that was delayed sets a SETTLED covenant back to LOCKED.
* An output generated in ACTIVE is confirmed although later awards are missing from
  it; a confirmation that falls between the state flip of the lock and the inserts
  of the snapshot anchors an incomplete roll-up; after a crash in that place the
  snapshot is never taken.
* The idempotency key of a merge is its `draft_ref` alone, but the bridge sends the
  merge to every covenant bound to the repository: the second is told that it is
  done and awards nothing. A repeated delivery that finds the row `approved` too
  late sets it back to `proposed`.
* `AckAnchor` checks the commit in one statement and updates unconditionally in the
  next, so the error for a conflicting commit (`anchors.go:217-220`) is not given to
  an acknowledgement that overlaps another. `WrittenStands` says what is left.
* Two anchors noted on the same HEAD replace one another (`git notes add -f`); the
  earlier note stays in the history of the notes ref, which is what
  `WrittenIsPublished` speaks of.
* `SetGitTwin` reads the state first and writes last, so a binding can change just
  after OPEN, which `covenant.go:344` rules out; `StaleWritesBounded` counts such
  writes, and those of joins and applications.
* `reject_agent_access` can overwrite an approved request whose member stays
  active, and an `approve_agent` that was checked before can reactivate a member who
  has left. `DecisionsStand` says when a decision is safe. `Join` takes a failed
  count of its tier for zero.
* A pass of `reencrypt` does not reach the rows that a server started before the
  rotation writes under the old version meanwhile, so that "after both complete"
  (`docs/launch/DEPLOY-RAILWAY.md:170-173`) needs a restart in between; `PassReseals`
  excepts those rows. A crash between the creation of a key file and its write leaves
  a short file, and later starts refuse it.
* A token in grace may rotate. If the answer of a rotation is lost and the grace
  period ends, the agent cannot get in until the owner issues another token.
  `ExpireGraceTokens` has no caller but tests; tokens expire when they are presented.

## Not modelled

* Ciphers, hashes and signatures, the parsers of webhooks, the rule evaluator and
  the concentration report (`tokens/rules.go`, `ratelimit/concentration.go`): pure
  functions, most of them over floating point.
* The other git events (`record_git_twin_event`, `postEvent`), which only append an
  audit row, and the filters and the limit of a hundred of the anchor listing.
* `VerifyChain` and the hashes of the audit chain: the log is a sequence here, to
  which one transaction appends.
* The division of a settlement into shares and its sum with entry fees.
* The MCP adapter (stateless), the doctor, the query tools (read only), ids and
  units (pure), and the reserved packages (no code).
