---------------------------- MODULE WebhookProofs ----------------------------
(***************************************************************************)
(* Proofs about Webhook, for any accounts, hosts, requests and threads.    *)
(* Threads share no variable's component, so the inductive invariant is    *)
(* one formula about the five values of a single thread.                   *)
(***************************************************************************)
EXTENDS Webhook, TLAPS

VerdictOf(r) ==
  IF VerifyRequests THEN VerifyToken(r.authorization, {}) ELSE FirstAccount

Callback(r) == r.endpoint = "/notification/callback"

HasHandler(r) ==
  r.endpoint # "/status" /\ (Callback(r) \/ r.body.target = "registered")

(* A run is under way or done: what the steps before it have checked.      *)
Matches(r, a) == Callback(r) \/ r.body.bot = a

(* The thread at p, serving r for a, after n runs, with status s.          *)
Local(p, r, a, n, s) ==
  /\ p \in {"free", "received", "verifying", "parsing", "dispatching"} => n = 0
  /\ p = "running" => n = 1
  /\ p # "answered" => s = 0
  /\ p \in {"parsing", "dispatching", "running"} \/ n > 0
       => a = VerdictOf(r) /\ a \in Accounts
  /\ p \in {"dispatching", "running"} \/ n > 0
       => Matches(r, a) /\ r.endpoint # "/status"
  /\ p = "running" \/ n > 0 => HasHandler(r)
  /\ s \in {400, 401} => n = 0
  /\ s = 200 => n = IF HasHandler(r) THEN 1 ELSE 0
  /\ s \in {400, 401, 500} /\ n = 0 /\ r.body.shape = "valid" /\ r.body.target # "blank"
       => VerdictOf(r) \notin Accounts \/ ~ Matches(r, VerdictOf(r))

LocalInv ==
  \A t \in Threads : Local(pc[t], request[t], account[t], runs[t], response[t])

IInv == TypeOK /\ LocalInv

-----------------------------------------------------------------------------
(* verify_request never names an account for a token that account's secret *)
(* did not sign, or that names another bot or another server.              *)
LEMMA Soundness ==
  ASSUME NEW token \in {Garbled} \union Jwts, VerifyToken(token, {}) \in Accounts
  PROVE  /\ token # Garbled
         /\ Authentic(token, VerifyToken(token, {}))
<1> USE VerificationAssumption DEF BotIds
<1>1. token # Garbled /\ token \in Jwts
  BY DEF VerifyToken
<1>2. CASE IsV2Payload(token)
  <2>1. VerifyToken(token, {}) = VerifyV2(token)
    BY <1>1, <1>2 DEF VerifyToken
  <2>2. token.iss \in Accounts
    BY <1>1, <2>1 DEF VerifyV2
  <2>3. VerifyV2(token) = IF /\ token.aud = [shape |-> "text", items |-> <<Host[token.iss]>>]
                             /\ Signed(token, token.iss)
                             /\ token.canonical
                          THEN token.iss
                          ELSE "UnverifiedRequestError"
    BY <2>2 DEF VerifyV2
  <2> QED
    BY <1>1, <2>1, <2>2, <2>3 DEF Authentic, Signed
<1>3. CASE ~ IsV2Payload(token)
  <2> DEFINE b == token.aud.items[1]
  <2>1. VerifyToken(token, {}) = VerifyV1(token, {})
    BY <1>1, <1>3 DEF VerifyToken
  <2>2. token.aud.shape = "list" /\ Len(token.aud.items) = 1
    BY <1>1, <2>1 DEF VerifyV1
  <2>3. b \in Accounts
    BY <1>1, <2>1, <2>2 DEF VerifyV1
  <2>4. VerifyV1(token, {}) = IF Signed(token, b) /\ token.iss \in {Host[b]}
                              THEN b
                              ELSE "UnverifiedRequestError"
    BY <2>2, <2>3 DEF VerifyV1
  <2>5. Signed(token, b) /\ token.iss = Host[b] /\ VerifyV1(token, {}) = b
    BY <2>1, <2>3, <2>4
  <2>6. token.aud = [shape |-> "list", items |-> <<b>>]
    <3>1. token.aud \in [shape : STRING, items : Seq(STRING)]
      BY <1>1 DEF Jwts
    <3>2. token.aud.items = <<b>>
      BY <3>1, <2>2
    <3> QED
      BY <3>1, <3>2, <2>2
  <2>7. token.version # 2
    BY <1>3 DEF IsV2Payload
  <2> HIDE DEF b
  <2> QED
    BY <1>1, <2>1, <2>5, <2>6, <2>7 DEF Authentic, Signed
<1> QED
  BY <1>2, <1>3

(* verify_request accepts every authentic token, of either version, and    *)
(* for the account that signed it.                                         *)
LEMMA Completeness ==
  ASSUME NEW token \in Jwts, token # Garbled, NEW b \in Accounts, Authentic(token, b)
  PROVE  VerifyToken(token, {}) = b
<1> USE VerificationAssumption DEF BotIds
<1>1. Signed(token, b)
  BY DEF Authentic, Signed
<1>2. CASE token.iss = b /\ token.canonical /\ token.aud = [shape |-> "text", items |-> <<Host[b]>>]
  <2>1. IsV2Payload(token)
    BY <1>2 DEF IsV2Payload
  <2>2. VerifyV2(token) = b
    BY <1>1, <1>2 DEF VerifyV2
  <2> QED
    BY <2>1, <2>2 DEF VerifyToken
<1>3. CASE token.version # 2 /\ token.iss = Host[b] /\ token.aud = [shape |-> "list", items |-> <<b>>]
  <2>1. token.aud.shape = "list" /\ token.aud.items = <<b>>
    BY <1>3
  <2>2. ~ IsV2Payload(token)
    BY <1>3, <2>1 DEF IsV2Payload
  <2>3. Len(token.aud.items) = 1 /\ token.aud.items[1] = b
    BY <2>1
  <2>4. VerifyV1(token, {}) = b
    BY <1>1, <1>3, <2>1, <2>3 DEF VerifyV1
  <2> QED
    BY <2>2, <2>4 DEF VerifyToken
<1> QED
  BY <1>2, <1>3 DEF Authentic

-----------------------------------------------------------------------------
(* A step of thread t leaves the other threads' values alone: it is enough *)
(* to look at t's.                                                         *)
LEMMA OneThread ==
  ASSUME IInv, NEW t \in Threads,
         \A u \in Threads \ {t} :
           /\ pc'[u] = pc[u]             /\ request'[u] = request[u]
           /\ account'[u] = account[u]   /\ runs'[u] = runs[u]
           /\ response'[u] = response[u],
         Local(pc'[t], request'[t], account'[t], runs'[t], response'[t])
  PROVE  LocalInv'
<1> SUFFICES ASSUME NEW u \in Threads
             PROVE  Local(pc'[u], request'[u], account'[u], runs'[u], response'[u])
  BY DEF LocalInv
<1>1. CASE u = t
  BY <1>1
<1>2. CASE u # t
  <2>1. Local(pc[u], request[u], account[u], runs[u], response[u])
    BY DEF IInv, LocalInv
  <2> QED
    BY <1>2, <2>1
<1> QED
  BY <1>1, <1>2

LEMMA Initially == Init => IInv
<1> SUFFICES ASSUME Init PROVE IInv
  OBVIOUS
<1>1. TypeOK
  BY DEF Init, TypeOK
<1>2. LocalInv
  BY DEF Init, LocalInv, Local
<1> QED
  BY <1>1, <1>2 DEF IInv

LEMMA ReceiveStep ==
  ASSUME IInv, NEW t \in Threads, NEW r \in Requests[t], Receive(t, r)
  PROVE  IInv'
<1> USE DEF Receive, Goto
<1>1. r \in Request /\ r # NoRequest
  BY WebhookAssumption
<1>2. TypeOK'
  BY <1>1 DEF IInv, TypeOK
<1>3. Local(pc[t], request[t], account[t], runs[t], response[t])
  BY DEF IInv, LocalInv
<1>4. Local(pc'[t], request'[t], account'[t], runs'[t], response'[t])
  BY <1>3 DEF IInv, TypeOK, Local
<1>5. LocalInv'
  BY <1>4, OneThread DEF IInv, TypeOK
<1> QED
  BY <1>2, <1>5 DEF IInv

LEMMA TokenExpiresStep ==
  ASSUME IInv, NEW t \in Threads, TokenExpires(t)
  PROVE  IInv'
<1> DEFINE r == [request[t] EXCEPT !.authorization.fresh = FALSE]
<1>1. /\ pc[t] = "received"
      /\ pc' = pc /\ account' = account /\ runs' = runs /\ response' = response
  BY DEF TokenExpires
<1>2. request[t] \in Request /\ request[t].authorization \in Jwts
  BY DEF IInv, TypeOK, Request, TokenExpires
<1>3. [request[t].authorization EXCEPT !.fresh = FALSE] \in Jwts
  BY <1>2 DEF Jwts
<1>4. r \in Request
  BY <1>2, <1>3 DEF Request
<1>5. request' = [request EXCEPT ![t] = r]
  BY DEF IInv, TypeOK, TokenExpires
<1>6. r # NoRequest
  BY <1>4, WebhookAssumption
<1> HIDE DEF r
<1>7. TypeOK'
  BY <1>1, <1>4, <1>5, <1>6 DEF IInv, TypeOK
<1>8. Local(pc[t], request[t], account[t], runs[t], response[t])
  BY DEF IInv, LocalInv
<1>9. Local(pc'[t], request'[t], account'[t], runs'[t], response'[t])
  BY <1>1, <1>5, <1>8 DEF IInv, TypeOK, Local
<1>10. LocalInv'
  BY <1>1, <1>5, <1>9, OneThread DEF IInv, TypeOK
<1> QED
  BY <1>7, <1>10 DEF IInv

(* What every other step has in common: the request stays, or is gone.     *)
LEMMA RequestSteps ==
  ASSUME IInv, NEW t \in Threads, RequestStep(t)
  PROVE  IInv'
<1> USE DEF Goto, Respond, Run
<1>0. Local(pc[t], request[t], account[t], runs[t], response[t])
  BY DEF IInv, LocalInv
<1>1. CASE ReadMedia(t)
  <2> USE <1>1 DEF ReadMedia
  <2>1. TypeOK'
    BY DEF IInv, TypeOK
  <2>2. Local(pc'[t], request'[t], account'[t], runs'[t], response'[t])
    BY <1>0 DEF IInv, TypeOK, Local, Body, At
  <2>3. LocalInv'
    BY <2>2, OneThread DEF IInv, TypeOK
  <2> QED
    BY <2>1, <2>3 DEF IInv
<1>2. CASE VerifyRequest(t)
  <2> USE <1>2 DEF VerifyRequest
  <2>1. Verdict(t) = VerdictOf(request[t])
    BY DEF Verdict, VerdictOf
  <2>2. TypeOK'
    BY DEF IInv, TypeOK
  <2>3. Local(pc'[t], request'[t], account'[t], runs'[t], response'[t])
    BY <1>0, <2>1 DEF IInv, TypeOK, Local
  <2>4. LocalInv'
    BY <2>3, OneThread DEF IInv, TypeOK
  <2> QED
    BY <2>2, <2>4 DEF IInv
<1>3. CASE Parse(t)
  <2> USE <1>3 DEF Parse
  <2>1. TypeOK'
    BY DEF IInv, TypeOK
  <2>2. Local(pc'[t], request'[t], account'[t], runs'[t], response'[t])
    BY <1>0 DEF IInv, TypeOK, Local, Body, At, Matches, Callback, HasHandler
  <2>3. LocalInv'
    BY <2>2, OneThread DEF IInv, TypeOK
  <2> QED
    BY <2>1, <2>3 DEF IInv
<1>4. CASE Dispatch(t)
  <2> USE <1>4 DEF Dispatch
  <2>1. runs[t] = 0
    BY <1>0 DEF Local, Dispatch
  <2>2. TypeOK'
    BY <2>1 DEF IInv, TypeOK
  <2>3. Local(pc'[t], request'[t], account'[t], runs'[t], response'[t])
    BY <1>0, <2>1 DEF IInv, TypeOK, Local, Body, At, Handled, Callback, HasHandler
  <2>4. LocalInv'
    BY <2>3, OneThread DEF IInv, TypeOK
  <2> QED
    BY <2>2, <2>4 DEF IInv
<1>5. CASE UseCaseEnds(t)
  <2> USE <1>5 DEF UseCaseEnds
  <2>1. TypeOK'
    BY DEF IInv, TypeOK
  <2>2. Local(pc'[t], request'[t], account'[t], runs'[t], response'[t])
    BY <1>0 DEF IInv, TypeOK, Local
  <2>3. LocalInv'
    BY <2>2, OneThread DEF IInv, TypeOK
  <2> QED
    BY <2>1, <2>3 DEF IInv
<1>6. CASE Send(t)
  <2> USE <1>6 DEF Send
  <2>1. TypeOK'
    BY WebhookAssumption DEF IInv, TypeOK
  <2>2. Local(pc'[t], request'[t], account'[t], runs'[t], response'[t])
    BY DEF IInv, TypeOK, Local
  <2>3. LocalInv'
    BY <2>2, OneThread DEF IInv, TypeOK
  <2> QED
    BY <2>1, <2>3 DEF IInv
<1> QED
  BY <1>1, <1>2, <1>3, <1>4, <1>5, <1>6 DEF RequestStep

(* The invariant holds initially, and every step preserves it.             *)
THEOREM Invariance == Spec => []IInv
<1>1. Init => IInv
  BY Initially
<1>2. IInv /\ [Next]_vars => IInv'
  <2> SUFFICES ASSUME IInv, [Next]_vars PROVE IInv'
    OBVIOUS
  <2>1. CASE Next
    BY <2>1, ReceiveStep, TokenExpiresStep, RequestSteps DEF Next
  <2>2. CASE UNCHANGED vars
    BY <2>2 DEF vars, IInv, TypeOK, LocalInv
  <2> QED
    BY <2>1, <2>2
<1> QED
  BY <1>1, <1>2, PTL DEF Spec

(* Type correctness.                                                       *)
THEOREM TypeCorrect == Spec => []TypeOK
<1>1. IInv => TypeOK
  BY DEF IInv
<1> QED
  BY <1>1, Invariance, PTL

(* No use case ever runs for a request that the bot's own secret did not   *)
(* sign for that bot and its server, however threads and expiring tokens   *)
(* interleave.                                                             *)
THEOREM EntitledRuns == Spec => []RunsAreEntitled
<1>1. IInv => RunsAreEntitled
  <2> SUFFICES ASSUME IInv, NEW t \in Threads, VerifyRequests, runs[t] > 0
               PROVE  account[t] \in Accounts /\ Entitled(t, account[t])
    BY DEF RunsAreEntitled
  <2>1. Local(pc[t], request[t], account[t], runs[t], response[t])
    BY DEF IInv, LocalInv
  <2>2. request[t] \in Request
    BY <2>1 DEF IInv, TypeOK, Local
  <2>3. request[t].authorization \in {Garbled} \union Jwts
    BY <2>2 DEF Request
  <2>4. /\ account[t] = VerifyToken(request[t].authorization, {})
        /\ account[t] \in Accounts
    BY <2>1 DEF Local, VerdictOf
  <2>5. Matches(request[t], account[t])
    BY <2>1 DEF Local
  <2>6. /\ request[t].authorization # Garbled
        /\ Authentic(request[t].authorization, account[t])
    BY <2>3, <2>4, Soundness
  <2> QED
    BY <2>4, <2>5, <2>6 DEF Entitled, Matches, Callback, At, Body
<1> QED
  BY <1>1, Invariance, PTL

(* What is refused did nothing; what is accepted ran exactly once.         *)
THEOREM TrueAnswers == Spec => []AnswersTellTheTruth
<1>1. IInv => AnswersTellTheTruth
  <2> SUFFICES ASSUME IInv, NEW t \in Threads
               PROVE  /\ response[t] \in {400, 401} => runs[t] = 0
                      /\ response[t] = 200 =>
                           runs[t] = IF ~At(t, "/status") /\ Handled(t) THEN 1 ELSE 0
                      /\ runs[t] <= 1
    BY DEF AnswersTellTheTruth
  <2>1. Local(pc[t], request[t], account[t], runs[t], response[t])
    BY DEF IInv, LocalInv
  <2>2. runs[t] \in 0..1
    BY DEF IInv, TypeOK
  <2>3. HasHandler(request[t]) <=> ~At(t, "/status") /\ Handled(t)
    BY DEF HasHandler, Callback, At, Handled, Body
  <2> QED
    BY <2>1, <2>2, <2>3 DEF Local
<1> QED
  BY <1>1, Invariance, PTL

(* An authentic request with a sound body is never turned away, and does   *)
(* not fail before its use case: verification is complete, not only sound. *)
THEOREM ProperRequestsServed == Spec => []ProperRequestServed
<1>1. IInv => ProperRequestServed
  <2> SUFFICES ASSUME IInv, NEW t \in Threads,
                      response[t] \in {400, 401, 500}, runs[t] = 0,
                      Body(t).shape = "valid", Body(t).target # "blank",
                      VerifyRequests,
                      NEW b \in Accounts, Entitled(t, b)
               PROVE  FALSE
    BY DEF ProperRequestServed
  <2> DEFINE r == request[t]
  <2>1. Local(pc[t], r, account[t], runs[t], response[t])
    BY DEF IInv, LocalInv
  <2>2. pc[t] = "answered"
    BY <2>1 DEF Local
  <2>3. r \in Request
    BY <2>2 DEF IInv, TypeOK
  <2>4. r.authorization \in Jwts /\ r.authorization # Garbled
    BY <2>3 DEF Request, Entitled
  <2>5. Authentic(r.authorization, b)
    BY DEF Entitled
  <2>6. VerdictOf(r) = b
    BY <2>4, <2>5, Completeness DEF VerdictOf
  <2>7. Matches(r, b)
    BY DEF Entitled, Matches, Callback, At, Body
  <2> HIDE DEF r
  <2>8. r.body.shape = "valid" /\ r.body.target # "blank"
    BY DEF Body, r
  <2> QED
    BY <2>1, <2>6, <2>7, <2>8 DEF Local
<1> QED
  BY <1>1, Invariance, PTL
=============================================================================
