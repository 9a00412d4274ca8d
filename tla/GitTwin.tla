------------------------------ MODULE GitTwin ------------------------------
(***************************************************************************)
(* The git twin of ACR-400, both ways.  A merged pull request travels from *)
(* a webhook delivery through the bridge (cmd/acp-git-bridge) to the       *)
(* server's merge handler (api/git_twin.go), which proposes and approves   *)
(* it.  A settlement anchor travels from its row (gittwin/anchors.go)      *)
(* through the bridge's writer (gittwin/writer.go) into the notes of the   *)
(* repository, and its commit back into the row.                           *)
(*                                                                         *)
(* The bridge and the server are processes of their own.  A delivery may   *)
(* be repeated, a call of the bridge may time out while the server still   *)
(* works on it, and each side may die alone.  On the server one action is  *)
(* one SQL statement, but a call of the engine is one action with the      *)
(* outcomes Engine and DraftTools allow it; in the bridge one action is    *)
(* one git command or HTTP call.                                           *)
(***************************************************************************)
EXTENDS Integers, Sequences, FiniteSets, Functions

CONSTANTS
  Covenants,   \* covenants bound to the repository
  Merges,      \* merged pull requests: their URL is the draft_ref
  Handlers,    \* server goroutines inside the merge handler
  Bridges,     \* bridge processes with a clone of their own
  None,
  MaxDeliveries, MaxAnchors, MaxFaults   \* bounds of the model

ASSUME GitTwinAssumption ==
  /\ IsFiniteSet(Handlers) /\ IsFiniteSet(Covenants) /\ IsFiniteSet(Merges)
  /\ Covenants # {} /\ Merges # {}
  /\ None \notin Handlers \cup Bridges
  /\ {MaxDeliveries, MaxAnchors, MaxFaults} \subseteq Nat

VARIABLES
  \* The server's side of a merge.
  mapped,      \* covenants in which the author is an active member
  gitEvents,   \* git_twin_events.status by draft_ref, for the rows there are
  awards,      \* token_ledger rows, by covenant and merge
  pc, req,     \* by handler: its next statement, and what it was asked
  overlaps,    \* history: merge requests, by merge, that began while another
               \* of the same draft_ref was being served
  \* The bridge's side of a merge: the webhook deliveries it is serving.
  hooks,
  \* Anchors.
  anchors,     \* git_twin_anchors, in enqueued_at order
  acks,        \* acknowledgements the server is working on
  commits,     \* commits of the notes ref, wherever they are
  origin,      \* the notes ref of the repository: a commit, or 0
  bpc, queue, clone,  \* by bridge: its next command, the anchors it has
               \* listed and still to write, and its clone's notes ref
  deliveries, enqueued, faults   \* counters of the bounds

mergeVars == <<mapped, gitEvents, awards, pc, req, overlaps, hooks>>
serverAnchors == <<anchors, acks>>
repository == <<commits, origin>>
bridgeVars == <<bpc, queue, clone>>
anchorVars == <<serverAnchors, repository, bridgeVars>>
bounds == <<deliveries, enqueued, faults>>
vars == <<mergeVars, anchorVars, bounds>>
-----------------------------------------------------------------------------
MergeLabels == {"idle", "idempotency", "author", "propose", "record",
                "approve", "mark"}
BridgeLabels == {"idle", "fetch", "note", "push", "ack", "answer"}

Request == [merge : Merges, covenant : Covenants]
\* A delivery: the covenants it is still to be forwarded to, and the handler
\* it waits for.
Hook == [merge : Merges, todo : SUBSET Covenants,
         waits : Handlers \cup {None}]
Anchor == [status : {"pending", "written"}, commit : Nat]
\* An acknowledgement: the bridge that still waits for it.
Ack == [anchor : 1..MaxAnchors, commit : Nat \ {0},
        step : {"read", "update"}, waits : Bridges \cup {None}]
\* A commit of the notes ref: the anchor whose note it adds, and its history.
Commit == [anchor : 1..MaxAnchors, past : SUBSET Nat]

NoRequest == [merge |-> CHOOSE m \in Merges : TRUE,
              covenant |-> CHOOSE c \in Covenants : TRUE]

GitTwinTypeOK ==
  /\ mapped \subseteq Covenants
  /\ DOMAIN gitEvents \subseteq Merges
  /\ \A m \in DOMAIN gitEvents : gitEvents[m] \in {"proposed", "approved"}
  /\ awards \in [Merges -> [Covenants -> Nat]]
  /\ pc \in [Handlers -> MergeLabels] /\ req \in [Handlers -> Request]
  /\ overlaps \in [Merges -> Nat]
  /\ hooks \subseteq Hook
  /\ anchors \in Seq(Anchor) /\ Len(anchors) <= MaxAnchors
  /\ acks \subseteq Ack
  /\ commits \in Seq(Commit) /\ origin \in 0..Len(commits)
  /\ bpc \in [Bridges -> BridgeLabels]
  /\ queue \in [Bridges -> SUBSET (1..MaxAnchors)]
  /\ clone \in [Bridges -> 0..Len(commits)]
  /\ {deliveries, enqueued, faults} \subseteq Nat

\* Two services that have not met, and some authors who are members.
Fresh ==
  /\ mapped \in SUBSET Covenants
  /\ gitEvents = [m \in {} |-> "proposed"]
  /\ awards = [m \in Merges |-> [c \in Covenants |-> 0]]
  /\ pc = [h \in Handlers |-> "idle"]
  /\ req = [h \in Handlers |-> NoRequest]
  /\ overlaps = [m \in Merges |-> 0]
  /\ hooks = {}
  /\ anchors = <<>> /\ acks = {}
  /\ commits = <<>> /\ origin = 0
  /\ bpc = [b \in Bridges |-> "idle"]
  /\ queue = [b \in Bridges |-> {}]
  /\ clone = [b \in Bridges |-> 0]

Init == Fresh /\ deliveries = 0 /\ enqueued = 0 /\ faults = 0

\* Something goes wrong that the code has an answer to.
Fault ==
  /\ faults < MaxFaults /\ faults' = faults + 1
  /\ UNCHANGED <<deliveries, enqueued>>
-----------------------------------------------------------------------------
(* A merge: the bridge.                                                    *)

\* GitHub delivers the webhook of a merge, for the first time or again;
\* ServeHTTP asks the server for the covenants of the repository.
Deliver ==
  /\ deliveries < MaxDeliveries /\ deliveries' = deliveries + 1
  /\ \E m \in Merges :
       hooks' = hooks \cup {[merge |-> m, todo |-> Covenants, waits |-> None]}
  /\ UNCHANGED <<mapped, gitEvents, awards, pc, req, overlaps, anchorVars,
                 enqueued, faults>>

Serving(m) == {h \in Handlers : pc[h] # "idle" /\ req[h].merge = m}

\* postMerge: the next covenant's request reaches a handler of the server.
PostMerge ==
  \E k \in hooks, h \in Handlers :
    /\ k.waits = None /\ pc[h] = "idle"
    /\ \E c \in k.todo :
         /\ hooks' = (hooks \ {k}) \cup
              {[k EXCEPT !.todo = @ \ {c}, !.waits = h]}
         /\ req' = [req EXCEPT ![h] = [merge |-> k.merge, covenant |-> c]]
    /\ pc' = [pc EXCEPT ![h] = "idempotency"]
    /\ overlaps' = [overlaps EXCEPT ![k.merge] =
                      IF Serving(k.merge) = {} THEN @ ELSE @ + 1]
    /\ UNCHANGED <<mapped, gitEvents, awards, anchorVars, bounds>>

\* ServeHTTP returns when every covenant has had its turn.
HookDone ==
  \E k \in hooks :
    /\ k.todo = {} /\ k.waits = None
    /\ hooks' = hooks \ {k}
    /\ UNCHANGED <<mapped, gitEvents, awards, pc, req, overlaps, anchorVars,
                   bounds>>

\* The client's timeout: the delivery goes on to the next covenant, and the
\* server's handler goes on as well.
PostTimesOut ==
  \E k \in hooks :
    /\ k.waits # None
    /\ hooks' = (hooks \ {k}) \cup {[k EXCEPT !.waits = None]}
    /\ Fault
    /\ UNCHANGED <<mapped, gitEvents, awards, pc, req, overlaps, anchorVars>>
-----------------------------------------------------------------------------
(* A merge: handleGitTwinMerge.                                            *)

At(h, label) == pc[h] = label
Goto(h, label) == pc' = [pc EXCEPT ![h] = label] /\ UNCHANGED <<req, hooks>>

\* The handler answers, with a result or an error: the delivery that waits for
\* it goes on to its next covenant.
Answer(h) ==
  /\ pc' = [pc EXCEPT ![h] = "idle"]
  /\ req' = [req EXCEPT ![h] = NoRequest]
  /\ hooks' = {IF k.waits = h THEN [k EXCEPT !.waits = None] ELSE k : k \in hooks}

Approved(m) == m \in DOMAIN gitEvents /\ gitEvents[m] = "approved"
SetEvent(m, status) ==
  gitEvents' = [e \in DOMAIN gitEvents \cup {m} |->
                  IF e = m THEN status ELSE gitEvents[e]]

\* Mutation of Idempotency: the event row is not asked for its status.
IdempotencyUnchecked(h) ==
  /\ At(h, "idempotency")
  /\ Goto(h, "author")
  /\ UNCHANGED <<mapped, gitEvents, awards, overlaps, anchorVars, bounds>>

\* SELECT by draft_ref, which does not name the covenant: an approved merge is
\* answered at once, for every covenant.
Idempotency(h) ==
  /\ At(h, "idempotency")
  /\ IF Approved(req[h].merge) THEN Answer(h) ELSE Goto(h, "author")
  /\ UNCHANGED <<mapped, gitEvents, awards, overlaps, anchorVars, bounds>>

\* FindMemberByPlatformID: an unmapped author leaves the ledger untouched.
FindAuthor(h) ==
  /\ At(h, "author")
  /\ IF req[h].covenant \in mapped THEN Goto(h, "propose") ELSE Answer(h)
  /\ UNCHANGED <<mapped, gitEvents, awards, overlaps, anchorVars, bounds>>

\* propose_passage as the author: it succeeds, or is refused and answered.
Propose(h) ==
  /\ At(h, "propose")
  /\ Goto(h, "record") \/ Answer(h)
  /\ UNCHANGED <<mapped, gitEvents, awards, overlaps, anchorVars, bounds>>

\* The upsert: the row says "proposed", whatever it said; errors are dropped.
RecordProposal(h) ==
  /\ At(h, "record")
  /\ \/ SetEvent(req[h].merge, "proposed") /\ UNCHANGED bounds
     \/ Fault /\ UNCHANGED gitEvents
  /\ Goto(h, "approve")
  /\ UNCHANGED <<mapped, awards, overlaps, anchorVars>>

Award(h) == awards' = [awards EXCEPT ![req[h].merge][req[h].covenant] = @ + 1]

\* approve_draft as the owner: the draft is credited, or the call is refused;
\* it may also be credited and then fail, in Step 7.
Approve(h) ==
  /\ At(h, "approve")
  /\ \/ Award(h) /\ Goto(h, "mark") /\ UNCHANGED bounds
     \/ Answer(h) /\ UNCHANGED <<awards, bounds>>
     \/ Award(h) /\ Answer(h) /\ Fault
  /\ UNCHANGED <<mapped, gitEvents, overlaps, anchorVars>>

\* Mutation of MarkApproved: the row is marked as an anchor would be.
MarkApprovedWritten(h) ==
  LET m == req[h].merge IN
  /\ At(h, "mark")
  /\ IF m \in DOMAIN gitEvents THEN SetEvent(m, "written")
                               ELSE UNCHANGED gitEvents
  /\ Answer(h)
  /\ UNCHANGED <<mapped, awards, overlaps, anchorVars, bounds>>

\* The UPDATE to "approved", errors dropped; then the answer.  It changes no
\* row where the upsert was lost.
MarkApproved(h) ==
  LET m == req[h].merge IN
  /\ At(h, "mark")
  /\ \/ /\ IF m \in DOMAIN gitEvents THEN SetEvent(m, "approved")
                                     ELSE UNCHANGED gitEvents
        /\ UNCHANGED bounds
     \/ Fault /\ UNCHANGED gitEvents
  /\ Answer(h)
  /\ UNCHANGED <<mapped, awards, overlaps, anchorVars>>

\* The author is admitted to a covenant, or leaves it.
MembershipChanges ==
  /\ \E c \in Covenants :
       mapped' = IF c \in mapped THEN mapped \ {c} ELSE mapped \cup {c}
  /\ hooks # {}
  /\ UNCHANGED <<gitEvents, awards, pc, req, overlaps, hooks, anchorVars,
                 bounds>>
-----------------------------------------------------------------------------
(* Anchors.                                                                *)

\* EnqueueAnchor, called by confirm_settlement_output.
EnqueueAnchor ==
  /\ enqueued < MaxAnchors /\ enqueued' = enqueued + 1
  /\ Len(anchors) < MaxAnchors
  /\ anchors' = Append(anchors, [status |-> "pending", commit |-> 0])
  /\ UNCHANGED <<mergeVars, acks, repository, bridgeVars, deliveries, faults>>

Pending == {i \in DOMAIN anchors : anchors[i].status = "pending"}

\* The anchor a drain is at: ListPendingAnchors answers in enqueued_at order.
Oldest(b) == CHOOSE i \in queue[b] : \A j \in queue[b] : i <= j

\* ListPendingAnchors: a drain of the poll loop begins.
ListPending(b) ==
  /\ bpc[b] = "idle" /\ Pending # {}
  /\ queue' = [queue EXCEPT ![b] = Pending]
  /\ bpc' = [bpc EXCEPT ![b] = "fetch"]
  /\ UNCHANGED <<mergeVars, serverAnchors, repository, clone, bounds>>

\* The drains of bs are through with an anchor, or give it up, and take the
\* next.
NextAnchor(bs) ==
  /\ queue' = [b \in Bridges |->
                IF b \in bs THEN queue[b] \ {Oldest(b)} ELSE queue[b]]
  /\ bpc' = [b \in Bridges |->
                IF b \notin bs THEN bpc[b]
                ELSE IF queue[b] = {Oldest(b)} THEN "idle" ELSE "fetch"]

\* Write fetches the notes ref: the clone's is reset to the repository's, if
\* there is one.  That the fetch fails is swallowed.
Fetch(b) ==
  /\ bpc[b] = "fetch"
  /\ \/ /\ clone' = [clone EXCEPT ![b] = IF origin = 0 THEN @ ELSE origin]
        /\ UNCHANGED bounds
     \/ Fault /\ UNCHANGED clone
  /\ bpc' = [bpc EXCEPT ![b] = "note"]
  /\ UNCHANGED <<mergeVars, serverAnchors, repository, queue>>

\* `git notes add -f` on the default HEAD: a commit on top of the clone's
\* notes ref.  It replaces a note HEAD already has, which stays in the history.
AddNote(b) ==
  LET c == clone[b] IN
  /\ bpc[b] = "note"
  /\ commits' = Append(commits,
       [anchor |-> Oldest(b),
        past |-> IF c = 0 THEN {} ELSE commits[c].past \cup {c}])
  /\ clone' = [clone EXCEPT ![b] = Len(commits) + 1]
  /\ bpc' = [bpc EXCEPT ![b] = "push"]
  /\ UNCHANGED <<mergeVars, serverAnchors, origin, queue, bounds>>

FastForward(b) == origin \in commits[clone[b]].past \cup {0}

\* Mutation of Push: the push is forced.
PushForced(b) ==
  /\ bpc[b] = "push"
  /\ origin' = clone[b]
  /\ bpc' = [bpc EXCEPT ![b] = "ack"]
  /\ UNCHANGED <<mergeVars, serverAnchors, commits, queue, clone,
                 bounds>>

\* `git push`, without force: rejected, and the anchor given up for now, when
\* a peer has pushed since the fetch.  It may fail, also after it took effect.
Push(b) ==
  /\ bpc[b] = "push"
  /\ \/ /\ FastForward(b)
        /\ origin' = clone[b]
        /\ bpc' = [bpc EXCEPT ![b] = "ack"]
        /\ UNCHANGED <<queue, bounds>>
     \/ /\ ~FastForward(b)
        /\ NextAnchor({b})
        /\ UNCHANGED <<origin, bounds>>
     \/ /\ Fault
        /\ NextAnchor({b})
        /\ \/ FastForward(b) /\ origin' = clone[b]
           \/ UNCHANGED origin
  /\ UNCHANGED <<mergeVars, serverAnchors, commits, clone>>

\* ackAnchor: the commit is sent to the server; the call may be lost.
PostAck(b) ==
  /\ bpc[b] = "ack"
  /\ \/ /\ acks' = acks \cup {[anchor |-> Oldest(b), commit |-> clone[b],
                              step |-> "read", waits |-> b]}
        /\ bpc' = [bpc EXCEPT ![b] = "answer"]
        /\ UNCHANGED <<queue, bounds>>
     \/ Fault /\ NextAnchor({b}) /\ UNCHANGED acks
  /\ UNCHANGED <<mergeVars, anchors, repository, clone>>

\* The bridge takes the next anchor, and the server goes on.
AckTimesOut ==
  \E a \in acks :
    /\ a.waits # None
    /\ acks' = (acks \ {a}) \cup {[a EXCEPT !.waits = None]}
    /\ NextAnchor({a.waits})
    /\ Fault
    /\ UNCHANGED <<mergeVars, anchors, repository, clone>>

\* The server answers: the bridge looks at the error, if any, and goes on.
AnswerAck(a) ==
  /\ acks' = acks \ {a}
  /\ NextAnchor({a.waits} \ {None})

\* Mutation of AckRead: a written anchor is acknowledged again.
AckReadUnchecked ==
  \E a \in acks :
    /\ a.step = "read"
    /\ acks' = (acks \ {a}) \cup {[a EXCEPT !.step = "update"]}
    /\ UNCHANGED <<mergeVars, anchors, repository, bridgeVars, bounds>>

\* AckAnchor, SELECT: a written anchor is left as it is, with an error if its
\* commit is another one.
AckRead ==
  \E a \in acks :
    /\ a.step = "read"
    /\ IF anchors[a.anchor].status = "written" THEN AnswerAck(a)
       ELSE /\ acks' = (acks \ {a}) \cup {[a EXCEPT !.step = "update"]}
            /\ UNCHANGED <<bpc, queue>>
    /\ UNCHANGED <<mergeVars, anchors, repository, clone, bounds>>

\* AckAnchor, UPDATE by anchor_id, whatever the row says by now.
AckUpdate ==
  \E a \in acks :
    /\ a.step = "update"
    /\ \/ /\ anchors' = [anchors EXCEPT ![a.anchor] =
               [status |-> "written", commit |-> a.commit]]
          /\ UNCHANGED bounds
       \/ Fault /\ UNCHANGED anchors
    /\ AnswerAck(a)
    /\ UNCHANGED <<mergeVars, repository, clone>>
-----------------------------------------------------------------------------
\* A bridge dies: its drain and the deliveries it serves end, its clone stays.
BridgeDies(b) ==
  /\ bpc[b] # "idle" \/ hooks # {}
  /\ bpc' = [bpc EXCEPT ![b] = "idle"]
  /\ queue' = [queue EXCEPT ![b] = {}]
  /\ hooks' = {}
  /\ acks' = {IF a.waits = b THEN [a EXCEPT !.waits = None] ELSE a : a \in acks}
  /\ Fault
  /\ UNCHANGED <<mapped, gitEvents, awards, pc, req, overlaps, anchors,
                 repository, clone>>

\* Mutation of ServerDies: the bridge's client has no timeout, and waits on.
ServerDiesUnnoticed ==
  /\ acks # {} \/ \E h \in Handlers : pc[h] # "idle"
  /\ pc' = [h \in Handlers |-> "idle"]
  /\ req' = [h \in Handlers |-> NoRequest]
  /\ hooks' = {[k EXCEPT !.waits = None] : k \in hooks}
  /\ acks' = {}
  /\ Fault
  /\ UNCHANGED <<mapped, gitEvents, awards, overlaps, anchors, repository,
                 bridgeVars>>

\* The server dies: its handlers end, and the bridge gets no answer.
ServerDies ==
  /\ acks # {} \/ \E h \in Handlers : pc[h] # "idle"
  /\ pc' = [h \in Handlers |-> "idle"]
  /\ req' = [h \in Handlers |-> NoRequest]
  /\ hooks' = {[k EXCEPT !.waits = None] : k \in hooks}
  /\ acks' = {} /\ NextAnchor({a.waits : a \in acks} \ {None})
  /\ Fault
  /\ UNCHANGED <<mapped, gitEvents, awards, overlaps, anchors, repository,
                 clone>>

MergeStep(h) ==
  \/ Idempotency(h) \/ FindAuthor(h) \/ Propose(h) \/ RecordProposal(h)
  \/ Approve(h) \/ MarkApproved(h)

BridgeStep(b) ==
  ListPending(b) \/ Fetch(b) \/ AddNote(b) \/ Push(b) \/ PostAck(b)

AckStep == AckRead \/ AckUpdate

Next ==
  \/ Deliver \/ PostMerge \/ PostTimesOut \/ HookDone \/ MembershipChanges
  \/ \E h \in Handlers : MergeStep(h)
  \/ EnqueueAnchor \/ AckStep \/ AckTimesOut
  \/ \E b \in Bridges : BridgeStep(b) \/ BridgeDies(b)
  \/ ServerDies

Spec == Init /\ [][Next]_vars

\* The poll loop runs for ever and no git command hangs for ever; the server
\* finishes the acknowledgements it has begun.
Fairness == WF_vars(AckStep) /\ \A b \in Bridges : WF_vars(BridgeStep(b))
FairSpec == Spec /\ Fairness
-----------------------------------------------------------------------------
(* Properties.                                                             *)

Awarded(m) == SumFunction(awards[m])

\* A merge is credited once however often it is delivered, except for the
\* deliveries that overlap in the server and for what goes wrong between the
\* award and its mark; and if later deliveries are told that it is done, it is.
\* The count is over all covenants of the repository: the idempotency key is
\* the pull request's alone.
AwardedOnce ==
  \A m \in Merges :
    /\ Awarded(m) <= 1 + overlaps[m] + faults
    /\ Approved(m) => Awarded(m) > 0

Published == IF origin = 0 THEN {} ELSE commits[origin].past \cup {origin}

\* An anchor the server has as written is in the repository: its commit is in
\* the published history of the notes ref and notes that anchor.
WrittenIsPublished ==
  \A i \in DOMAIN anchors :
    anchors[i].status = "written" =>
      /\ anchors[i].commit \in Published
      /\ commits[anchors[i].commit].anchor = i

\* Acknowledgements that have seen anchor i pending.
Acking(i) == {a \in acks : a.anchor = i /\ a.step = "update"}

\* A written anchor keeps its commit: bridges that acknowledge it again are
\* refused, except those already past the check.
WrittenStands ==
  [][\A i \in DOMAIN anchors :
       anchors[i].status = "written" /\ Acking(i) = {}
         => anchors'[i] = anchors[i] /\ Acking(i)' = {}]_vars

\* Every anchor is written in the end, whatever fails a bounded number of
\* times, and however two bridges get in each other's way.
AnchorsAreWritten ==
  \A i \in 1..MaxAnchors :
    (i \in DOMAIN anchors) ~>
      (i \in DOMAIN anchors /\ anchors[i].status = "written")
=============================================================================
