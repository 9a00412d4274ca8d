--------------------------- MODULE SessionsProofs ---------------------------
(***************************************************************************)
(* What holds of the session tokens for every number of agents, requests   *)
(* and tokens, every grace period and every clock: types, GraceIsFixed and *)
(* RotationSupersedes, by one inductive invariant.                         *)
(***************************************************************************)
EXTENDS Sessions, SequenceTheorems, TLAPS

\* A request between its SELECT and its write names a token there is; one on
\* its way to expire a token found it out of grace, which is for good.
InFlight ==
  \A h \in Handlers :
    /\ pc[h] # "idle" => call[h].token \in DOMAIN tokens
    /\ pc[h] = "expire" => tokens[call[h].token].status # "active"

\* An active token has seen no rotation, one in grace bears the time of the
\* first it saw.
GraceIsFirst ==
  \A i \in DOMAIN tokens :
    /\ tokens[i].status = "active" => superseded[i] = Never
    /\ tokens[i].status = "grace" => superseded[i] = tokens[i].rotated

\* RotationSupersedes, for the first token of an agent, too.
RotatedIsLast ==
  \A i, j \in DOMAIN tokens :
    i < j /\ tokens[i].agent = tokens[j].agent /\ tokens[j].by = "rotate" =>
      tokens[i].status # "active"
LatestIsActive ==
  \A j \in DOMAIN tokens : \E k \in DOMAIN tokens :
    /\ j <= k /\ tokens[k].agent = tokens[j].agent
    /\ tokens[k].status = "active"

\* The inductive invariant.
SessionsInv ==
  /\ SessionsTypeOK
  /\ InFlight /\ GraceIsFirst /\ RotatedIsLast /\ LatestIsActive
-----------------------------------------------------------------------------
\* A function of the places of a sequence is a sequence of the same length.
LEMMA SamePlaces ==
  ASSUME NEW S, NEW s \in Seq(S), NEW T, NEW f \in [DOMAIN s -> T]
  PROVE  f \in Seq(T) /\ Len(f) = Len(s)
<1>1. Len(s) \in Nat /\ DOMAIN s = 1..Len(s)
  BY LenProperties
<1>2. f \in Seq(T)
  BY <1>1, SeqDef
<1>3. Len(f) \in Nat /\ DOMAIN f = 1..Len(f)
  BY <1>2, LenProperties
<1>4. 1..Len(f) = 1..Len(s)
  BY <1>1, <1>3
<1>5. QED
  BY <1>1, <1>2, <1>3, <1>4

\* Appending to such a function extends it by the new place.
LEMMA OneMorePlace ==
  ASSUME NEW S, NEW s \in Seq(S), NEW T, NEW f \in [DOMAIN s -> T], NEW e \in T
  PROVE  /\ Append(f, e) \in Seq(T) /\ Len(Append(f, e)) = Len(s) + 1
         /\ DOMAIN Append(f, e) = 1..(Len(s) + 1)
         /\ \A i \in DOMAIN s : Append(f, e)[i] = f[i]
         /\ Append(f, e)[Len(s) + 1] = e
<1>1. f \in Seq(T) /\ Len(f) = Len(s)
  BY SamePlaces
<1>2. DOMAIN s = 1..Len(s) /\ Len(s) \in Nat
  BY LenProperties
<1>3. /\ Append(f, e) \in Seq(T) /\ Len(Append(f, e)) = Len(f) + 1
      /\ \A i \in 1..Len(f) : Append(f, e)[i] = f[i]
      /\ Append(f, e)[Len(f) + 1] = e
  BY <1>1, AppendProperties
<1>4. DOMAIN Append(f, e) = 1..Len(Append(f, e))
  BY <1>3, LenProperties
<1>5. QED
  BY <1>1, <1>2, <1>3, <1>4

\* The places of tokens and superseded, and the tokens of the requests.
LEMMA TypeFacts ==
  ASSUME SessionsTypeOK
  PROVE  /\ tokens \in Seq(Token) /\ Len(tokens) \in 0..MaxTokens
         /\ DOMAIN tokens = 1..Len(tokens)
         /\ \A i \in DOMAIN tokens : tokens[i] \in Token
         /\ \A h \in Handlers : call[h] \in Call
         /\ NoCall \in Call
<1>1. tokens \in Seq(Token) /\ Len(tokens) <= MaxTokens
  BY DEF SessionsTypeOK
<1>2. Len(tokens) \in Nat /\ DOMAIN tokens = 1..Len(tokens)
  BY <1>1, LenProperties
<1>3. \A i \in DOMAIN tokens : tokens[i] \in Token
  BY <1>1, <1>2, ElementOfSeq
<1>4. NoCall \in Call
  BY SessionsAssumption DEF NoCall, Call, Calls
<1>5. QED
  BY <1>1, <1>2, <1>3, <1>4, SessionsAssumption DEF SessionsTypeOK

\* What a token is when it is inserted, and when a rotation demotes it.
LEMMA NewTokenTyped ==
  ASSUME NEW a \in Agents, NEW by \in {"issue", "rotate"}
  PROVE  /\ NewToken(a, by) \in Token
         /\ NewToken(a, by).agent = a /\ NewToken(a, by).by = by
         /\ NewToken(a, by).status = "active"
         /\ NewToken(a, by).rotated = Never
BY DEF NewToken, Token, Statuses

LEMMA DemotedTyped ==
  ASSUME NEW t \in Token, now \in 0..MaxTime
  PROVE  /\ Demoted(t) \in Token
         /\ Demoted(t).agent = t.agent /\ Demoted(t).by = t.by
         /\ Demoted(t).status = "grace" /\ Demoted(t).rotated = now
BY DEF Demoted, Token, Statuses
-----------------------------------------------------------------------------
LEMMA InvInit == Init => SessionsInv
<1> SUFFICES ASSUME Init PROVE SessionsInv
  OBVIOUS
<1>1. tokens = <<>> /\ superseded = <<>> /\ DOMAIN tokens = {}
  BY DEF Init
<1>2. tokens \in Seq(Token) /\ Len(tokens) = 0
  BY <1>1, EmptySeq
<1>3. SessionsTypeOK
  <2>1. NoCall \in Call
    BY SessionsAssumption DEF NoCall, Call, Calls
  <2>2. superseded \in [DOMAIN tokens -> {Never} \cup 0..MaxTime]
    BY <1>1
  <2>3. QED
    BY <1>1, <1>2, <2>1, <2>2, SessionsAssumption
       DEF Init, SessionsTypeOK, Labels
<1>4. QED
  BY <1>1, <1>3
     DEF Init, SessionsInv, InFlight, GraceIsFirst, RotatedIsLast, LatestIsActive

\* The part of the invariant that is about tokens alone.
TokensInv == GraceIsFirst /\ RotatedIsLast /\ LatestIsActive

\* A step that only moves requests preserves it.
LEMMA TokensKept ==
  ASSUME TokensInv, UNCHANGED <<tokens, superseded>>
  PROVE  TokensInv'
BY DEF TokensInv, GraceIsFirst, RotatedIsLast, LatestIsActive

\* A handler that returns is at no statement, and the others are where they
\* were; their tokens remain.
LEMMA ReturnKeeps ==
  ASSUME SessionsTypeOK, InFlight, NEW h \in Handlers, Return(h),
         DOMAIN tokens \subseteq DOMAIN tokens',
         \A i \in DOMAIN tokens :
           tokens'[i].status = "active" => tokens[i].status = "active"
  PROVE  /\ InFlight'
         /\ pc' \in [Handlers -> Labels] /\ call' \in [Handlers -> Call]
<1>1. NoCall \in Call
  BY TypeFacts
<1>2. pc' \in [Handlers -> Labels] /\ call' \in [Handlers -> Call]
  BY <1>1 DEF Return, SessionsTypeOK, Labels
<1>3. pc'[h] = "idle" /\ \A g \in Handlers : g # h =>
        pc'[g] = pc[g] /\ call'[g] = call[g]
  BY DEF Return, SessionsTypeOK
<1>4. QED
  BY <1>2, <1>3 DEF InFlight

\* The token rows and their history after a step that adds the last row.
TokensOK ==
  /\ tokens \in Seq(Token) /\ Len(tokens) <= MaxTokens
  /\ \A i \in DOMAIN tokens :
       tokens[i].status = "active" <=> tokens[i].rotated = Never
  /\ superseded \in [DOMAIN tokens -> {Never} \cup 0..MaxTime]

\* A step that rewrites the rows there are to f and adds an active one for
\* agent a: enough that no row becomes active or changes hands, that the rows
\* of other agents stay active, and that a rotation leaves a no active row.
LEMMA OneMoreToken ==
  ASSUME SessionsInv, Len(tokens) < MaxTokens,
         NEW a \in Agents, NEW by \in {"issue", "rotate"},
         NEW f \in [DOMAIN tokens -> Token],
         NEW g \in [DOMAIN tokens -> {Never} \cup 0..MaxTime],
         tokens' = Append(f, NewToken(a, by)),
         superseded' = Append(g, Never),
         \A i \in DOMAIN tokens :
           /\ f[i].agent = tokens[i].agent /\ f[i].by = tokens[i].by
           /\ f[i].status = "active" => tokens[i].status = "active"
           /\ f[i].status = "active" <=> f[i].rotated = Never
           /\ f[i].status = "active" => g[i] = Never
           /\ f[i].status = "grace" => g[i] = f[i].rotated
           /\ tokens[i].agent # a /\ tokens[i].status = "active" =>
                f[i].status = "active"
           /\ by = "rotate" /\ tokens[i].agent = a => f[i].status # "active"
  PROVE  /\ TokensOK' /\ TokensInv'
         /\ DOMAIN tokens \subseteq DOMAIN tokens'
         /\ \A i \in DOMAIN tokens :
              tokens'[i].status = "active" => tokens[i].status = "active"
<1> DEFINE n == Len(tokens)
           e == NewToken(a, by)
<1>1. /\ tokens \in Seq(Token) /\ n \in Nat /\ DOMAIN tokens = 1..n
      /\ \A i \in 1..n : tokens[i] \in Token
  BY TypeFacts DEF SessionsInv
<1>2. /\ e \in Token /\ e.agent = a /\ e.by = by /\ e.status = "active"
      /\ e.rotated = Never
  BY NewTokenTyped
<1> HIDE DEF e
<1>3. /\ tokens' \in Seq(Token) /\ Len(tokens') = n + 1
      /\ DOMAIN tokens' = 1..(n + 1)
      /\ \A i \in 1..n : tokens'[i] = f[i]
      /\ tokens'[n + 1] = e
  <2>1. tokens' = Append(f, e) /\ DOMAIN tokens = 1..n
    BY <1>1 DEF e
  <2>2. /\ Append(f, e) \in Seq(Token)
        /\ Len(Append(f, e)) = Len(tokens) + 1
        /\ DOMAIN Append(f, e) = 1..(Len(tokens) + 1)
        /\ \A i \in DOMAIN tokens : Append(f, e)[i] = f[i]
        /\ Append(f, e)[Len(tokens) + 1] = e
    <3>1. tokens \in Seq(Token) /\ e \in Token
      BY <1>1, <1>2
    <3>2. QED
      BY <3>1, OneMorePlace
  <2>3. QED
    BY <2>1, <2>2
<1> HIDE DEF n
<1>4. /\ superseded' \in Seq({Never} \cup 0..MaxTime)
      /\ DOMAIN superseded' = 1..(n + 1)
      /\ \A i \in 1..n : superseded'[i] = g[i]
      /\ superseded'[n + 1] = Never
  <2> DEFINE U == {Never} \cup 0..MaxTime
  <2>1. Never \in U
    OBVIOUS
  <2> HIDE DEF U
  <2>2. g \in [DOMAIN tokens -> U]
    BY DEF U
  <2>3. /\ Append(g, Never) \in Seq(U)
        /\ DOMAIN Append(g, Never) = 1..(Len(tokens) + 1)
        /\ \A i \in DOMAIN tokens : Append(g, Never)[i] = g[i]
        /\ Append(g, Never)[Len(tokens) + 1] = Never
    <3>1. tokens \in Seq(Token)
      BY <1>1
    <3>2. QED
      BY <2>1, <2>2, <3>1, OneMorePlace
  <2>4. QED
    BY <1>1, <2>3 DEF U, n
<1>5. \A i \in 1..(n + 1) : i \in 1..n \/ i = n + 1
  BY <1>1
<1>6. TokensOK'
  <2>1. superseded' \in [DOMAIN tokens' -> {Never} \cup 0..MaxTime]
    <3> DEFINE U == {Never} \cup 0..MaxTime
    <3>1. superseded' \in Seq(U)
      BY <1>4
    <3> HIDE DEF U
    <3>2. superseded' \in [DOMAIN superseded' -> U]
      BY <3>1, LenProperties
    <3>3. QED
      BY <1>3, <1>4, <3>2 DEF U
  <2>2. Len(tokens') <= MaxTokens
    BY <1>1, <1>3, SessionsAssumption DEF n
  <2>3. \A i \in DOMAIN tokens' :
          tokens'[i].status = "active" <=> tokens'[i].rotated = Never
    BY <1>1, <1>2, <1>3, <1>5
  <2>4. QED
    BY <1>3, <2>1, <2>2, <2>3 DEF TokensOK
<1>7. GraceIsFirst'
  BY <1>1, <1>2, <1>3, <1>4, <1>5 DEF GraceIsFirst
<1>8. RotatedIsLast'
  <2> SUFFICES ASSUME NEW i \in 1..(n + 1), NEW j \in 1..(n + 1), i < j,
                      tokens'[i].agent = tokens'[j].agent,
                      tokens'[j].by = "rotate"
               PROVE  tokens'[i].status # "active"
    BY <1>3 DEF RotatedIsLast
  <2>1. i \in 1..n
    BY <1>1, <1>5
  <2>2. CASE j \in 1..n
    <3>1. /\ tokens[i].agent = tokens[j].agent /\ tokens[j].by = "rotate"
          /\ tokens'[i].status = "active" => tokens[i].status = "active"
      BY <1>1, <1>3, <2>1, <2>2
    <3>2. tokens[i].status # "active"
      BY <1>1, <2>1, <2>2, <3>1 DEF SessionsInv, RotatedIsLast
    <3>3. QED
      BY <3>1, <3>2
  <2>3. CASE j = n + 1
    <3>1. by = "rotate" /\ f[i].agent = a /\ tokens'[i] = f[i]
      BY <1>2, <1>3, <2>1, <2>3
    <3>2. tokens[i].agent = a => f[i].status # "active"
      BY <1>1, <2>1, <3>1
    <3>3. tokens[i].agent = f[i].agent
      BY <1>1, <2>1
    <3>4. QED
      BY <3>1, <3>2, <3>3
  <2>4. QED
    BY <1>5, <2>2, <2>3
<1>9. LatestIsActive'
  <2> SUFFICES ASSUME NEW j \in 1..(n + 1)
               PROVE  \E k \in 1..(n + 1) :
                        /\ j <= k /\ tokens'[k].agent = tokens'[j].agent
                        /\ tokens'[k].status = "active"
    BY <1>3 DEF LatestIsActive
  <2>1. CASE tokens'[j].agent = a
    <3>1. n + 1 \in 1..(n + 1) /\ j <= n + 1
      BY <1>1
    <3>2. QED
      BY <1>2, <1>3, <2>1, <3>1
  <2>2. CASE tokens'[j].agent # a
    <3>1. j \in 1..n
      BY <1>2, <1>3, <1>5, <2>2
    <3>2. PICK k \in 1..n : /\ j <= k /\ tokens[k].agent = tokens[j].agent
                             /\ tokens[k].status = "active"
      BY <1>1, <3>1 DEF SessionsInv, LatestIsActive
    <3>3. /\ k \in 1..(n + 1)
          /\ tokens'[k].agent = tokens'[j].agent
          /\ tokens'[k].status = "active"
      <4>1. tokens[k].agent # a
        BY <1>1, <1>3, <2>2, <3>1, <3>2
      <4>2. f[k].status = "active" /\ f[k].agent = tokens[k].agent
        BY <1>1, <3>2, <4>1
      <4>3. tokens'[k] = f[k] /\ tokens'[j].agent = tokens[j].agent
        BY <1>1, <1>3, <3>1, <3>2
      <4>4. QED
        BY <1>1, <3>2, <4>2, <4>3
    <3>4. QED
      BY <3>2, <3>3
  <2>3. QED
    BY <2>1, <2>2
<1>10. QED
  BY <1>1, <1>3, <1>6, <1>7, <1>8, <1>9 DEF TokensInv

LEMMA IssueKeeps ==
  ASSUME SessionsInv, NEW a \in Agents, Issue(a)
  PROVE  SessionsInv'
<1>1. tokens \in [DOMAIN tokens -> Token]
  BY TypeFacts, LenProperties DEF SessionsInv
<1>2. superseded \in [DOMAIN tokens -> {Never} \cup 0..MaxTime]
  BY DEF SessionsInv, SessionsTypeOK
<1>3. \A i \in DOMAIN tokens :
        /\ tokens[i].status = "active" <=> tokens[i].rotated = Never
        /\ tokens[i].status = "active" => superseded[i] = Never
        /\ tokens[i].status = "grace" => superseded[i] = tokens[i].rotated
  BY DEF SessionsInv, SessionsTypeOK, GraceIsFirst
<1>4. /\ TokensOK' /\ TokensInv' /\ DOMAIN tokens \subseteq DOMAIN tokens'
      /\ \A i \in DOMAIN tokens :
           tokens'[i].status = "active" => tokens[i].status = "active"
  BY <1>1, <1>2, <1>3, OneMoreToken DEF Issue
<1>5. InFlight'
  BY <1>4 DEF SessionsInv, InFlight, Issue
<1>6. SessionsTypeOK'
  BY <1>4 DEF SessionsInv, SessionsTypeOK, TokensOK, Issue
<1>7. QED
  BY <1>4, <1>5, <1>6 DEF SessionsInv, TokensInv

LEMMA RotateKeeps ==
  ASSUME SessionsInv, NEW h \in Handlers, Rotate(h)
  PROVE  SessionsInv'
<1> DEFINE a == tokens[call[h].token].agent
           f == [i \in DOMAIN tokens |->
                   IF Demotes(i, a) THEN Demoted(tokens[i]) ELSE tokens[i]]
           g == [i \in DOMAIN tokens |->
                   IF tokens[i].agent = a /\ superseded[i] = Never
                   THEN now ELSE superseded[i]]
<1>1. /\ \A i \in DOMAIN tokens : tokens[i] \in Token
      /\ now \in 0..MaxTime /\ now # Never
      /\ superseded \in [DOMAIN tokens -> {Never} \cup 0..MaxTime]
  BY TypeFacts, SessionsAssumption DEF SessionsInv, SessionsTypeOK, Never
<1>2. a \in Agents
  BY <1>1 DEF Rotate, SessionsInv, InFlight, Token
<1>3. Len(tokens) < MaxTokens /\ tokens' = Append(f, NewToken(a, "rotate"))
      /\ superseded' = Append(g, Never)
  BY DEF Rotate
<1> HIDE DEF a
<1>4. f \in [DOMAIN tokens -> Token]
  BY <1>1, DemotedTyped
<1>5. g \in [DOMAIN tokens -> {Never} \cup 0..MaxTime]
  BY <1>1
<1>6. ASSUME NEW i \in DOMAIN tokens
      PROVE  /\ f[i].agent = tokens[i].agent /\ f[i].by = tokens[i].by
             /\ f[i].status = "active" => tokens[i].status = "active"
             /\ f[i].status = "active" <=> f[i].rotated = Never
             /\ f[i].status = "active" => g[i] = Never
             /\ f[i].status = "grace" => g[i] = f[i].rotated
             /\ tokens[i].agent # a /\ tokens[i].status = "active" =>
                  f[i].status = "active"
             /\ tokens[i].agent = a => f[i].status # "active"
  <2>1. /\ tokens[i].status = "active" <=> tokens[i].rotated = Never
        /\ tokens[i].status = "active" => superseded[i] = Never
        /\ tokens[i].status = "grace" => superseded[i] = tokens[i].rotated
    BY DEF SessionsInv, SessionsTypeOK, GraceIsFirst
  <2>2. CASE Demotes(i, a)
    <3>1. f[i] = Demoted(tokens[i]) /\ g[i] = now
      BY <2>1, <2>2 DEF Demotes
    <3>2. /\ f[i].agent = tokens[i].agent /\ f[i].by = tokens[i].by
          /\ f[i].status = "grace" /\ f[i].rotated = now
      BY <1>1, <3>1, DemotedTyped
    <3>3. QED
      BY <1>1, <2>2, <3>1, <3>2 DEF Demotes
  <2>3. CASE ~Demotes(i, a)
    <3>1. f[i] = tokens[i] /\ ~(tokens[i].agent = a /\ tokens[i].status = "active")
      BY <2>3 DEF Demotes
    <3>2. tokens[i].status # "expired" => g[i] = superseded[i]
      BY <1>1, <2>1, <3>1 DEF Token, Statuses
    <3>3. QED
      BY <2>1, <3>1, <3>2
  <2>4. QED
    BY <2>2, <2>3
<1> HIDE DEF f, g
<1>7. /\ TokensOK' /\ TokensInv' /\ DOMAIN tokens \subseteq DOMAIN tokens'
      /\ \A i \in DOMAIN tokens :
           tokens'[i].status = "active" => tokens[i].status = "active"
  BY <1>2, <1>3, <1>4, <1>5, <1>6, OneMoreToken
<1>8. /\ InFlight'
      /\ pc' \in [Handlers -> Labels] /\ call' \in [Handlers -> Call]
  BY <1>7, ReturnKeeps DEF SessionsInv, Rotate
<1>9. SessionsTypeOK'
  BY <1>7, <1>8 DEF SessionsInv, SessionsTypeOK, TokensOK, Rotate
<1>10. QED
  BY <1>7, <1>8, <1>9 DEF SessionsInv, TokensInv

\* Only a token that a rotation had demoted expires.
LEMMA ExpireKeeps ==
  ASSUME SessionsInv, NEW h \in Handlers, Expire(h)
  PROVE  SessionsInv'
<1> DEFINE i == call[h].token
           e == [tokens[i] EXCEPT !.status = "expired"]
<1>1. CASE tokens' = tokens
  <2>1. TokensInv'
    BY <1>1, TokensKept DEF SessionsInv, TokensInv, Expire
  <2>2. /\ InFlight'
        /\ pc' \in [Handlers -> Labels] /\ call' \in [Handlers -> Call]
    BY <1>1, ReturnKeeps DEF SessionsInv, Expire
  <2>3. SessionsTypeOK'
    BY <1>1, <2>2, SessionsAssumption DEF SessionsInv, SessionsTypeOK, Expire
  <2>4. QED
    BY <2>1, <2>2, <2>3 DEF SessionsInv, TokensInv
<1>2. CASE tokens' = [tokens EXCEPT ![i].status = "expired"] /\ faults' = faults
  <2>1. /\ i \in DOMAIN tokens /\ tokens[i] \in Token
        /\ tokens[i].status # "active" /\ tokens[i].rotated # Never
    BY TypeFacts DEF SessionsInv, SessionsTypeOK, InFlight, Expire
  <2>2. /\ e \in Token /\ e.status = "expired" /\ e.agent = tokens[i].agent
        /\ e.by = tokens[i].by /\ e.rotated = tokens[i].rotated
    BY <2>1 DEF Token, Statuses
  <2>3. tokens \in Seq(Token) /\ DOMAIN tokens = 1..Len(tokens)
    BY TypeFacts DEF SessionsInv
  <2>4. tokens' = [tokens EXCEPT ![i] = e]
    BY <1>2
  <2> HIDE DEF i, e
  <2>5. /\ tokens' \in Seq(Token) /\ Len(tokens') = Len(tokens)
        /\ \A j \in DOMAIN tokens : tokens'[j] = IF j = i THEN e ELSE tokens[j]
    BY <2>1, <2>2, <2>3, <2>4, ExceptSeq
  <2>6. DOMAIN tokens' = DOMAIN tokens
    BY <2>4
  <2>7. \A j \in DOMAIN tokens :
          /\ tokens'[j].agent = tokens[j].agent /\ tokens'[j].by = tokens[j].by
          /\ tokens'[j].rotated = tokens[j].rotated
          /\ tokens'[j].status = "active" <=> tokens[j].status = "active"
          /\ tokens'[j].status = "grace" => tokens[j].status = "grace"
    BY <2>1, <2>2, <2>5
  <2>8. superseded' = superseded
    BY DEF Expire
  <2>9. TokensInv'
    <3>1. GraceIsFirst'
      BY <2>6, <2>7, <2>8 DEF SessionsInv, GraceIsFirst
    <3>2. RotatedIsLast'
      BY <2>6, <2>7 DEF SessionsInv, RotatedIsLast
    <3>3. LatestIsActive'
      BY <2>6, <2>7 DEF SessionsInv, LatestIsActive
    <3>4. QED
      BY <3>1, <3>2, <3>3 DEF TokensInv
  <2>10. /\ InFlight'
         /\ pc' \in [Handlers -> Labels] /\ call' \in [Handlers -> Call]
    BY <2>6, <2>7, ReturnKeeps DEF SessionsInv, Expire
  <2>11. SessionsTypeOK'
    BY <1>2, <2>5, <2>6, <2>7, <2>8, <2>10
       DEF SessionsInv, SessionsTypeOK, Expire
  <2>12. QED
    BY <2>9, <2>10, <2>11 DEF SessionsInv, TokensInv
<1>3. QED
  BY <1>1, <1>2 DEF Expire

\* The steps that write no token.
LEMMA RequestKeeps ==
  ASSUME SessionsInv, NEW h \in Handlers,
         Begin(h) \/ Validate(h) \/ CallFails(h)
  PROVE  SessionsInv'
<1>1. /\ UNCHANGED <<tokens, superseded, now>>
      /\ faults' = faults \/ CallFails(h)
  BY DEF Begin, Validate, CallFails
<1>2. TokensInv'
  BY <1>1, TokensKept DEF SessionsInv, TokensInv
<1>3. faults' \in 0..MaxFaults
  BY <1>1, SessionsAssumption DEF SessionsInv, SessionsTypeOK, CallFails
<1>4. /\ InFlight'
      /\ pc' \in [Handlers -> Labels] /\ call' \in [Handlers -> Call]
  <2>1. CASE Return(h)
    BY <1>1, <2>1, ReturnKeeps DEF SessionsInv
  <2>2. CASE Begin(h)
    <3>1. PICK k \in Calls, i \in DOMAIN tokens :
            call' = [call EXCEPT ![h] = [kind |-> k, token |-> i]]
      BY <2>2 DEF Begin
    <3>2. [kind |-> k, token |-> i] \in Call
      BY TypeFacts, SessionsAssumption DEF SessionsInv, Call
    <3>3. QED
      BY <1>1, <2>2, <3>1, <3>2
         DEF Begin, SessionsInv, SessionsTypeOK, InFlight, Labels
  <2>3. CASE \/ Validate(h) /\ Goto(h, "rotate")
             \/ /\ Validate(h) /\ Goto(h, "expire")
                /\ tokens[call[h].token].status # "active"
    <3>1. pc[h] # "idle" /\ call' = call
      BY <2>3 DEF Validate, Goto
    <3>2. /\ pc' \in [Handlers -> Labels]
          /\ pc'[h] = "expire" => tokens[call[h].token].status # "active"
          /\ \A g \in Handlers : g # h => pc'[g] = pc[g]
      BY <2>3 DEF Goto, SessionsInv, SessionsTypeOK, Labels
    <3>3. QED
      BY <1>1, <3>1, <3>2 DEF SessionsInv, SessionsTypeOK, InFlight
  <2>4. QED
    BY <2>1, <2>2, <2>3 DEF Validate, CallFails, Accepts
<1>5. SessionsTypeOK'
  BY <1>1, <1>3, <1>4 DEF SessionsInv, SessionsTypeOK
<1>6. QED
  BY <1>2, <1>4, <1>5 DEF SessionsInv, TokensInv

LEMMA InvStep == SessionsInv /\ [Next]_vars => SessionsInv'
<1> SUFFICES ASSUME SessionsInv, [Next]_vars PROVE SessionsInv'
  OBVIOUS
<1>1. CASE Tick
  BY <1>1, SessionsAssumption
     DEF Tick, SessionsInv, SessionsTypeOK, InFlight, GraceIsFirst,
         RotatedIsLast, LatestIsActive
<1>2. CASE UNCHANGED vars
  BY <1>2 DEF vars, SessionsInv, SessionsTypeOK, InFlight, GraceIsFirst,
              RotatedIsLast, LatestIsActive
<1>3. QED
  BY <1>1, <1>2, IssueKeeps, RequestKeeps, ExpireKeeps, RotateKeeps DEF Next

LEMMA InvAlways == Spec => []SessionsInv
BY InvInit, InvStep, PTL DEF Spec
-----------------------------------------------------------------------------
\* Type correctness.
THEOREM SessionsTyped == Spec => []SessionsTypeOK
<1>1. SessionsInv => SessionsTypeOK
  BY DEF SessionsInv
<1>2. QED
  BY <1>1, InvAlways, PTL

\* However calls and rotations interleave, no token is accepted later than the
\* grace period after the first rotation that followed its issue: a rotation
\* by a token in grace gives that token no more time.
THEOREM GraceNeverExtended == Spec => []GraceIsFixed
<1>1. SessionsInv => GraceIsFixed
  BY DEF SessionsInv, GraceIsFirst, GraceIsFixed, Accepts, InGrace
<1>2. QED
  BY <1>1, InvAlways, PTL

\* A rotation supersedes all the tokens its agent had, and the agent's latest
\* token is active, so an agent that got its last answer is never locked out.
THEOREM RotationIsComplete == Spec => []RotationSupersedes
<1>1. SessionsInv => RotationSupersedes
  <2> SUFFICES ASSUME SessionsInv,
                      NEW i \in DOMAIN tokens, NEW j \in DOMAIN tokens,
                      i < j, tokens[i].agent = tokens[j].agent
               PROVE  /\ tokens[j].by = "rotate" => tokens[i].status # "active"
                      /\ \E k \in j..Len(tokens) :
                           /\ tokens[k].agent = tokens[j].agent
                           /\ tokens[k].status = "active"
    BY DEF RotationSupersedes
  <2>1. DOMAIN tokens = 1..Len(tokens) /\ Len(tokens) \in Nat
    BY TypeFacts DEF SessionsInv
  <2>2. PICK k \in DOMAIN tokens :
               /\ j <= k /\ tokens[k].agent = tokens[j].agent
               /\ tokens[k].status = "active"
    BY DEF SessionsInv, LatestIsActive
  <2>3. k \in j..Len(tokens)
    BY <2>1, <2>2
  <2>4. QED
    BY <2>2, <2>3 DEF SessionsInv, RotatedIsLast
<1>2. QED
  BY <1>1, InvAlways, PTL
=============================================================================
