------------------------------ MODULE Sessions ------------------------------
(***************************************************************************)
(* The session tokens of one covenant (sessions/sessions.go) under the     *)
(* calls that present them: /sessions/rotate, the tools and the audit log. *)
(* A rotation moves an agent's active tokens to grace and issues the next  *)
(* one; a token in grace is accepted for GracePeriod after its rotation.   *)
(*                                                                         *)
(* One action is one SQL statement, except the transaction of Rotate: the  *)
(* database has one connection.  Time may pass between any two of them.    *)
(* ExpireGraceTokens is not here, because nothing calls it.                *)
(***************************************************************************)
EXTENDS Integers, Sequences

CONSTANTS
  Agents,
  Handlers,     \* server goroutines serving a request with a session token
  GracePeriod,
  MaxTokens, MaxTime, MaxFaults   \* bounds of the model

ASSUME SessionsAssumption ==
  /\ {GracePeriod, MaxTime, MaxFaults} \subseteq Nat
  /\ MaxTokens \in Nat \ {0}

VARIABLES
  tokens,      \* session_tokens, in the order they were inserted
  now,         \* the clock
  pc,          \* by handler: its next statement
  call,        \* by handler: the request
  superseded,  \* history, by token: the time of the first rotation after it
               \* was issued, or Never
  faults       \* counter of the bound

vars == <<tokens, now, pc, call, superseded, faults>>

Statuses == {"active", "grace", "expired"}
Labels == {"idle", "validate", "expire", "rotate"}
Calls == {"rotate", "tool", "audit"}
Never == -1

Token == [agent : Agents, status : Statuses, rotated : {Never} \cup 0..MaxTime,
          by : {"issue", "rotate"}]
Call == [kind : Calls, token : 1..MaxTokens]
NoCall == [kind |-> "tool", token |-> 1]

SessionsTypeOK ==
  /\ tokens \in Seq(Token) /\ Len(tokens) <= MaxTokens
  /\ \A i \in DOMAIN tokens :
       tokens[i].status = "active" <=> tokens[i].rotated = Never
  /\ now \in 0..MaxTime
  /\ pc \in [Handlers -> Labels] /\ call \in [Handlers -> Call]
  /\ superseded \in [DOMAIN tokens -> {Never} \cup 0..MaxTime]
  /\ faults \in 0..MaxFaults

Init ==
  /\ tokens = <<>> /\ superseded = <<>> /\ now = 0
  /\ pc = [h \in Handlers |-> "idle"] /\ call = [h \in Handlers |-> NoCall]
  /\ faults = 0

Tick == now < MaxTime /\ now' = now + 1
        /\ UNCHANGED <<tokens, pc, call, superseded, faults>>

NewToken(a, by) ==
  [agent |-> a, status |-> "active", rotated |-> Never, by |-> by]

\* handleIssueToken: the owner gives the agent one more token.
Issue(a) ==
  /\ Len(tokens) < MaxTokens
  /\ tokens' = Append(tokens, NewToken(a, "issue"))
  /\ superseded' = Append(superseded, Never)
  /\ UNCHANGED <<now, pc, call, faults>>

\* A request presents a token that was handed out.
Begin(h) ==
  /\ pc[h] = "idle"
  /\ \E k \in Calls, i \in DOMAIN tokens :
       call' = [call EXCEPT ![h] = [kind |-> k, token |-> i]]
  /\ pc' = [pc EXCEPT ![h] = "validate"]
  /\ UNCHANGED <<tokens, now, superseded, faults>>

Goto(h, label) == pc' = [pc EXCEPT ![h] = label] /\ UNCHANGED call
Return(h) ==
  pc' = [pc EXCEPT ![h] = "idle"] /\ call' = [call EXCEPT ![h] = NoCall]

InGrace(i) ==
  tokens[i].status = "grace" /\ now - tokens[i].rotated <= GracePeriod

\* Validate and ValidateForCovenant agree on what is valid.
Accepts(i) == tokens[i].status = "active" \/ InGrace(i)

\* The SELECT of Validate or, for the audit log, of ValidateForCovenant: only
\* the former marks a token it finds expired.  What an accepted tool or audit
\* request does next is not about tokens.
Validate(h) ==
  LET i == call[h].token IN
  /\ pc[h] = "validate"
  /\ \/ Accepts(i) /\ call[h].kind = "rotate" /\ Goto(h, "rotate")
     \/ Accepts(i) /\ call[h].kind # "rotate" /\ Return(h)
     \/ ~Accepts(i) /\ tokens[i].status = "grace" /\ call[h].kind # "audit"
          /\ Goto(h, "expire")
     \/ ~Accepts(i) /\ (tokens[i].status = "expired" \/ call[h].kind = "audit")
          /\ Return(h)
  /\ UNCHANGED <<tokens, now, superseded, faults>>

\* The lazy UPDATE by token_hash; its error is dropped.
Expire(h) ==
  /\ pc[h] = "expire"
  /\ \/ /\ tokens' = [tokens EXCEPT ![call[h].token].status = "expired"]
        /\ UNCHANGED faults
     \/ faults < MaxFaults /\ faults' = faults + 1 /\ UNCHANGED tokens
  /\ Return(h)
  /\ UNCHANGED <<now, superseded>>

\* Mutation of Demotes: tokens in grace are moved to grace again.
DemotesGrace(i, a) == tokens[i].agent = a /\ tokens[i].status # "expired"

\* Mutation of Demotes: only the token that was presented is demoted.
DemotesLast(i, a) ==
  /\ tokens[i].agent = a /\ tokens[i].status = "active"
  /\ \A j \in DOMAIN tokens : tokens[j].agent = a => j <= i

\* The tokens Rotate moves to grace.
Demotes(i, a) == tokens[i].agent = a /\ tokens[i].status = "active"

\* Mutation of Demoted: the time of the rotation is forgotten.
DemotedUntimed(t) == [t EXCEPT !.status = "grace"]

Demoted(t) == [t EXCEPT !.status = "grace", !.rotated = now]

\* The transaction of Rotate for the agent of the request, whatever has become
\* of the token presented; a failure rolls it back.
Rotate(h) ==
  LET a == tokens[call[h].token].agent IN
  /\ pc[h] = "rotate" /\ Len(tokens) < MaxTokens
  /\ tokens' = Append([i \in DOMAIN tokens |->
                         IF Demotes(i, a) THEN Demoted(tokens[i]) ELSE tokens[i]],
                      NewToken(a, "rotate"))
  /\ superseded' = Append([i \in DOMAIN tokens |->
                         IF tokens[i].agent = a /\ superseded[i] = Never
                         THEN now ELSE superseded[i]],
                      Never)
  /\ Return(h)
  /\ UNCHANGED <<now, faults>>

\* A statement fails, or the server dies under the handler.
CallFails(h) ==
  /\ pc[h] # "idle" /\ faults < MaxFaults
  /\ faults' = faults + 1
  /\ Return(h)
  /\ UNCHANGED <<tokens, now, superseded>>

Next ==
  \/ Tick
  \/ \E a \in Agents : Issue(a)
  \/ \E h \in Handlers :
       Begin(h) \/ Validate(h) \/ Expire(h) \/ Rotate(h) \/ CallFails(h)

Spec == Init /\ [][Next]_vars
-----------------------------------------------------------------------------
(* Properties.                                                             *)

\* Grace is not extended: however an agent's calls and rotations interleave
\* (a token in grace may rotate, too), a token is not accepted later than
\* GracePeriod after the first rotation that followed its issue.
GraceIsFixed ==
  \A i \in DOMAIN tokens :
    Accepts(i) /\ superseded[i] # Never => now - superseded[i] <= GracePeriod

\* A rotation supersedes every token the agent had, not only the one that was
\* presented; and no agent is locked out: its latest token is active.
RotationSupersedes ==
  \A i, j \in DOMAIN tokens :
    i < j /\ tokens[i].agent = tokens[j].agent =>
      /\ tokens[j].by = "rotate" => tokens[i].status # "active"
      /\ \E k \in j..Len(tokens) :
           tokens[k].agent = tokens[j].agent /\ tokens[k].status = "active"
=============================================================================
